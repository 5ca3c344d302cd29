----------------------------- MODULE Reassembler -----------------------------
(***************************************************************************)
(* A udpm:// bus: the threads that publish on it (the Udpm arm of           *)
(* Client::write and wire::udpm::fragments), a network that loses, repeats  *)
(* and reorders datagrams, and the receiver that puts the fragments of each *)
(* message back together (wire::udpm::Reassembler under                     *)
(* MulticastReceiver::on_datagram and udpm_reader).                         *)
(*                                                                         *)
(* The bytes of a payload are not kept.  A piece of a message is where it   *)
(* starts, how long it is and which message it was cut from, so that a      *)
(* message put together wrong can be told from one put together right.      *)
(***************************************************************************)
EXTENDS Fragments, Sequences, FiniteSets, SequencesExt, Bags

CONSTANTS
  Clients,              \* the processes that publish, each with one socket
  Workers,              \* the threads of each that publish together
  Names,                \* the lengths of the channel names, each with its NUL
  Lens,                 \* the payload lengths they publish
  short_max,            \* what one datagram takes, name included
  MAX_FRAGMENT_BUFFERS, \* the messages the receiver holds parts of
  MAX_FRAGMENT_BYTES,   \* the bytes it holds across all of them
  PIECE_COST,           \* what one fragment costs beside its bytes
  SEQ_SPAN,             \* 2^32: the sequence numbers there are
  Strays,               \* fragments from senders this crate did not write
  MaxPublishes,         \* bound: messages one thread publishes
  MaxFaults             \* bound: datagrams repeated and strays sent, together

ASSUME SizesAssumption ==
  /\ {MAX_FRAGMENT_BUFFERS, PIECE_COST, SEQ_SPAN, short_max} \cup Names
       \subseteq Nat \ {0}
  /\ {MAX_FRAGMENT_BYTES, MaxPublishes, MaxFaults} \cup Lens \subseteq Nat

\* The other programs send from sockets of their own, and any payload they like.
ASSUME StraysAssumption == \A d \in Strays : d.from \notin Clients /\ d.len \in Nat

Threads == Clients \X Workers

-----------------------------------------------------------------------------
(* The datagrams of one message, as `fragments` cuts them: a message is who *)
(* published it, as the how manieth of its client, and its two lengths.     *)

Encoded(m) == Encodes(m.name, m.len, short_max)
DatagramsOf(m) == CountOf(m.name, m.len, short_max)

\* The messages of a client are numbered from zero, and the number wraps.
Whole(m) ==
  [whole |-> TRUE, from |-> m.by[1], seq |-> m.nth % SEQ_SPAN, len |-> m.len, of |-> m]

Fragment(m, index) ==
  LET start == Start(m.name, short_max, index)
  IN [whole |-> FALSE, from |-> m.by[1], seq |-> m.nth % SEQ_SPAN, total |-> m.len,
      offset |-> start, index |-> index, count |-> DatagramsOf(m),
      named |-> index = 0,
      len |-> End(m.name, m.len, short_max, index) - start, of |-> m]

Datagram(m, index) ==
  IF IsWhole(m.name, m.len, short_max) THEN Whole(m) ELSE Fragment(m, index)

-----------------------------------------------------------------------------
VARIABLES
  sequence,   \* by client: Transport::Udpm's counter, before it wraps
  job,        \* by thread: the message it sends, or NoJob
  published,  \* by thread: how many it began
  net,        \* the datagrams on their way, as a bag
  faults,     \* how many the network repeated and how many strays were sent
  partial,    \* Reassembler::partial, by key
  by_age,     \* Reassembler::by_age: the keys, the one to drop first
  held,       \* Reassembler::held
  evicted,    \* Reassembler::evicted
  discarded,  \* Counters::discarded
  delivered,  \* the messages given on, as a bag (history)
  came,       \* the datagrams that reached the receiver, as a bag (history)
  dropped     \* the keys evicted so far (history)

NoJob == <<>>

sendVars == <<sequence, job, published>>
holdVars == <<partial, by_age, held, evicted, dropped>>
vars == <<sendVars, net, faults, holdVars, discarded, delivered, came>>

Init ==
  /\ sequence = [c \in Clients |-> 0]
  /\ job = [t \in Threads |-> NoJob]
  /\ published = [t \in Threads |-> 0]
  /\ net = EmptyBag /\ faults = 0
  /\ partial = << >> /\ by_age = <<>> /\ held = 0
  /\ evicted = 0 /\ discarded = 0
  /\ delivered = EmptyBag /\ came = EmptyBag /\ dropped = {}

-----------------------------------------------------------------------------
(* The publishers.                                                         *)

receiverRest == <<faults, holdVars, discarded, delivered, came>>

\* The message a thread publishes next under this number.
Messages(t, nth) == [by : {t}, nth : {nth}, name : Names, len : Lens]

\* Mutant of Publish: two threads that publish together read one number.
PublishSameNumber(t) ==
  \E m \in Messages(t, sequence[t[1]]) :
    /\ job[t] = NoJob /\ published[t] < MaxPublishes
    /\ published' = [published EXCEPT ![t] = @ + 1]
    /\ job' = IF Encoded(m) THEN [job EXCEPT ![t] = [of |-> m, index |-> 0]] ELSE job
    /\ UNCHANGED <<sequence, net, receiverRest>>

\* The number is taken before the message is looked at, so an error costs one.
Publish(t) ==
  \E m \in Messages(t, sequence[t[1]]) :
    /\ job[t] = NoJob /\ published[t] < MaxPublishes
    /\ published' = [published EXCEPT ![t] = @ + 1]
    /\ sequence' = [sequence EXCEPT ![t[1]] = @ + 1]
    /\ job' = IF Encoded(m) THEN [job EXCEPT ![t] = [of |-> m, index |-> 0]] ELSE job
    /\ UNCHANGED <<net, receiverRest>>

\* One datagram goes to the kernel, or the send fails and takes the rest of
\* the message with it.
Send(t) ==
  /\ job[t] # NoJob
  /\ \/ /\ net' = net (+) SetToBag({Datagram(job[t].of, job[t].index)})
        /\ job' = [job EXCEPT ![t] = IF @.index + 1 = DatagramsOf(@.of) THEN NoJob
                                     ELSE [of |-> @.of, index |-> @.index + 1]]
     \/ /\ job' = [job EXCEPT ![t] = NoJob]
        /\ UNCHANGED net
  /\ UNCHANGED <<sequence, published, receiverRest>>

-----------------------------------------------------------------------------
(* The receiver.                                                           *)

\* Mutant of Key: the messages of all peers share one table of numbers.
KeyByNumber(f) == <<"anyone", f.seq>>

Key(f) == <<f.from, f.seq>>

Piece(f) == [start |-> f.offset, len |-> f.len, of |-> f.of]

\* The bytes that came of one message.
Arrived(p) == MapThenSumSet(LAMBDA i : p.pieces[i].len, DOMAIN p.pieces)

\* What one message takes of the budget.
Weight(p) == Arrived(p) + Cardinality(DOMAIN p.pieces) * PIECE_COST

\* Mutant of Malformed: a fragment that ends the message goes past its end.
MalformedAtEnd(f) ==
  \/ f.total > MAX_MESSAGE_LEN
  \/ f.count = 0 \/ f.index >= f.count
  \/ f.count > Max({f.total, 1})
  \/ f.offset + f.len >= f.total

\* The tests of `feed` that need no state.
Malformed(f) ==
  \/ f.total > MAX_MESSAGE_LEN
  \/ f.count = 0 \/ f.index >= f.count
  \/ f.count > Max({f.total, 1})
  \/ f.offset + f.len > f.total

\* A number with a different shape is a different message.
Disagrees(f) ==
  /\ Key(f) \in DOMAIN partial
  /\ \/ partial[Key(f)].total # f.total
     \/ partial[Key(f)].count # f.count

\* `held` gives back what a message took, and saturates at zero.
GiveBack(amount) == Max({held - amount, 0})

\* Mutant of Over: the budget of bytes is looked at without what comes in.
OverLate(keys, weight, incoming) ==
  \/ Cardinality(keys) >= MAX_FRAGMENT_BUFFERS
  \/ weight > MAX_FRAGMENT_BYTES /\ keys # {}

\* The condition of make_space's loop, with these messages left.
Over(keys, weight, incoming) ==
  \/ Cardinality(keys) >= MAX_FRAGMENT_BUFFERS
  \/ weight + incoming > MAX_FRAGMENT_BYTES /\ keys # {}

\* The line of ages without a key, and the keys in front of it.
Others(key) ==
  IF \E i \in DOMAIN by_age : by_age[i] = key
  THEN RemoveAt(by_age, CHOOSE i \in DOMAIN by_age : by_age[i] = key)
  ELSE by_age
Oldest(n, keep) == ToSet(SubSeq(Others(keep), 1, n))

WeightOf(table, keys) == MapThenSumSet(LAMBDA k : Weight(table[k]), keys)

\* make_space: how many messages go, the ones that waited longest, and never
\* the one being fed.
MakeSpace(keep, incoming) ==
  LET others == Len(Others(keep))
      enough == {n \in 0..others :
                   \/ n = others
                   \/ ~Over(DOMAIN partial \ Oldest(n, keep),
                            GiveBack(WeightOf(partial, Oldest(n, keep))), incoming)}
  IN Min(enough)

\* The entry of the message a fragment belongs to, with its name.
Entry(f) ==
  LET found == IF Key(f) \in DOMAIN partial THEN partial[Key(f)]
               ELSE [named |-> FALSE, total |-> f.total, count |-> f.count,
                     pieces |-> << >>]
  IN [found EXCEPT !.named = @ \/ f.named]

\* Mutant of Fresh: a fragment that came twice is taken twice.
FreshAlways(f) == TRUE

Fresh(f) == f.index \notin DOMAIN Entry(f).pieces

\* More bytes than the message has.
Overflows(f) == Arrived(Entry(f)) + f.len > f.total

WithPiece(f) ==
  [Entry(f) EXCEPT !.pieces = [i \in DOMAIN @ \cup {f.index} |->
                                 IF i = f.index THEN Piece(f) ELSE @[i]]]

\* An entry that has a fragment for every index.
Full(p) == Cardinality(DOMAIN p.pieces) = p.count

\* The pieces by where they start.  The sort is not a stable one, so pieces
\* that start together come out in any order.
Orders(p) ==
  {order \in SetToSeqs(DOMAIN p.pieces) :
     \A i, j \in 1..Len(order) :
       i < j => p.pieces[order[i]].start <= p.pieces[order[j]].start}

\* The pieces in that order, and how far the first n of them reach.
Parts(p, order) == [i \in 1..Len(order) |-> p.pieces[order[i]]]
Reach(parts, n) == MapThenSumSet(LAMBDA j : parts[j].len, 1..n)

\* Mutant of Covers: a count of indexes is taken for a count of bytes.
CoversByCount(p, order) == TRUE

\* Each piece starts where the one before it ends, and the last one ends the
\* message.
Covers(p, order) ==
  /\ Arrived(p) = p.total
  /\ \A i \in 1..Len(order) :
       p.pieces[order[i]].start = Reach(Parts(p, order), i - 1)

Message(f, p, order) == [from |-> f.from, seq |-> f.seq, parts |-> Parts(p, order)]

\* Mutant of Update: a message that is whole stays in the table.
UpdateKeeps(f, entry, stays) ==
  LET key == Key(f)
      gone == MakeSpace(key, f.len)
      out == Oldest(gone, key)
      rest == SubSeq(Others(key), gone + 1, Len(Others(key)))
      left == DOMAIN partial \ out
      before == IF key \in DOMAIN partial THEN Weight(partial[key]) ELSE 0
      kept == left \cup {key}
  IN /\ partial' = [k \in kept |-> IF k = key THEN entry ELSE partial[k]]
     /\ by_age' = Append(rest, key)
     /\ held' = LET spared == GiveBack(WeightOf(partial, out)) + Weight(entry) - before
                IN spared
     /\ evicted' = evicted + Cardinality(out)
     /\ dropped' = dropped \cup out

\* What a fragment that is let in does to the table: the message becomes the
\* youngest, space is made, and then the entry is `entry`, or goes.
Update(f, entry, stays) ==
  LET key == Key(f)
      gone == MakeSpace(key, f.len)
      out == Oldest(gone, key)
      rest == SubSeq(Others(key), gone + 1, Len(Others(key)))
      left == DOMAIN partial \ out
      before == IF key \in DOMAIN partial THEN Weight(partial[key]) ELSE 0
      kept == IF stays THEN left \cup {key} ELSE left \ {key}
  IN /\ partial' = [k \in kept |-> IF k = key THEN entry ELSE partial[k]]
     /\ by_age' = IF stays THEN Append(rest, key) ELSE rest
     /\ held' = LET spared == GiveBack(WeightOf(partial, out)) + Weight(entry) - before
                IN IF stays THEN spared ELSE Max({spared - Weight(entry), 0})
     /\ evicted' = evicted + Cardinality(out)
     /\ dropped' = dropped \cup out

Deliver(m) == delivered' = delivered (+) SetToBag({m}) /\ UNCHANGED discarded
Discard == discarded' = discarded + 1 /\ UNCHANGED delivered
Nothing == UNCHANGED <<delivered, discarded>>

\* Mutant of Forget: the bytes of what was thrown away stay charged.
ForgetCharged(f) ==
  /\ partial' = [k \in DOMAIN partial \ {Key(f)} |-> partial[k]]
  /\ by_age' = Others(Key(f))
  /\ UNCHANGED <<held, evicted, dropped>>

\* A disagreement throws away what came of the message that had the number.
Forget(f) ==
  /\ partial' = [k \in DOMAIN partial \ {Key(f)} |-> partial[k]]
  /\ by_age' = Others(Key(f))
  /\ held' = GiveBack(Weight(partial[Key(f)]))
  /\ UNCHANGED <<evicted, dropped>>

\* Reassembler::feed.
Feed(f) ==
  \/ Malformed(f) /\ Discard /\ UNCHANGED holdVars
  \/ ~Malformed(f) /\ Disagrees(f) /\ Forget(f) /\ Discard
  \/ /\ ~Malformed(f) /\ ~Disagrees(f)
     /\ \/ Fresh(f) /\ Overflows(f) /\ Update(f, Entry(f), TRUE) /\ Discard
        \/ /\ ~(Fresh(f) /\ Overflows(f))
           /\ LET p == IF Fresh(f) THEN WithPiece(f) ELSE Entry(f) IN
                \/ ~Full(p) /\ Update(f, p, TRUE) /\ Nothing
                \/ /\ Full(p)
                   /\ Update(f, p, FALSE)
                   /\ \E order \in Orders(p) :
                        IF Covers(p, order) /\ p.named
                        THEN Deliver(Message(f, p, order)) ELSE Discard

\* on_datagram: a whole message needs nobody.
on_datagram(d) ==
  /\ came' = came (+) SetToBag({d})
  /\ IF d.whole
     THEN /\ Deliver([from |-> d.from, seq |-> d.seq,
                      parts |-> <<[start |-> 0, len |-> d.len, of |-> d.of]>>])
          /\ UNCHANGED holdVars
     ELSE Feed(d)

\* A datagram arrives.
Receive(d) ==
  /\ net' = net (-) SetToBag({d})
  /\ on_datagram(d)
  /\ UNCHANGED <<sendVars, faults>>

\* A datagram arrives and the network keeps a copy of it, to repeat.  It loses
\* one by never delivering it.
Repeat(d) ==
  /\ faults < MaxFaults /\ faults' = faults + 1
  /\ on_datagram(d)
  /\ UNCHANGED <<sendVars, net>>

\* A datagram of another program on the same group arrives.
Stray(d) ==
  /\ faults < MaxFaults /\ faults' = faults + 1
  /\ on_datagram(d)
  /\ UNCHANGED <<sendVars, net>>

Next ==
  \/ \E t \in Threads : Publish(t) \/ Send(t)
  \/ \E d \in Strays : Stray(d)
  \/ \E d \in BagToSet(net) : Repeat(d) \/ Receive(d)

Spec == Init /\ [][Next]_vars

-----------------------------------------------------------------------------
(* Properties.                                                             *)

\* How many of x a bag has.
Copies(x, bag) == IF BagIn(x, bag) THEN bag[x] ELSE 0

\* The accounts of the receiver agree.  Each message that is held has one place
\* in the line of ages, as the debug assertion of `feed` says; the bytes charged
\* are the bytes held, so `remove` never saturates; and the receiver holds its
\* budget and one datagram's cost, or one message alone.
HeldBudget ==
  /\ ToSet(by_age) = DOMAIN partial
  /\ Len(by_age) = Cardinality(DOMAIN partial)
  /\ held = WeightOf(partial, DOMAIN partial)
  /\ held <= MAX_FRAGMENT_BYTES + PIECE_COST \/ Cardinality(DOMAIN partial) = 1
  /\ Cardinality(DOMAIN partial) <= MAX_FRAGMENT_BUFFERS

\* Every message given on covers its length with no hole and no overlap, and
\* one of this crate's own senders is one message, as it was published: no
\* part of another, whoever sent it, and however the network mixed them.
Stitched(m) ==
  \A i \in 1..Len(m.parts) : m.parts[i].start = Reach(m.parts, i - 1)
AsPublished(m) ==
  LET of == m.parts[1].of
  IN /\ of.by[1] = m.from /\ of.nth % SEQ_SPAN = m.seq
     /\ \A i \in 1..Len(m.parts) : m.parts[i].of = of
     /\ Reach(m.parts, Len(m.parts)) = of.len
MessagesWhole ==
  \A m \in BagToSet(delivered) :
    Stitched(m) /\ (m.from \in Clients => AsPublished(m))

\* A message is given on no more often than each of its datagrams came: the
\* copy of one fragment never makes a second message.
NoMoreThanCame ==
  \A m \in BagToSet(delivered) : m.from \in Clients =>
    LET of == m.parts[1].of IN
    \A index \in 0..(DatagramsOf(of) - 1) :
      Copies(m, delivered) <= Copies(Datagram(of, index), came)

\* A message whose datagrams all came is given on, in whatever order and
\* however often they came, unless it was evicted on the way.
AllCameIsGiven ==
  \A d \in BagToSet(came) :
    /\ d.from \in Clients
    /\ <<d.from, d.seq>> \notin dropped
    /\ \A index \in 0..(DatagramsOf(d.of) - 1) : BagIn(Datagram(d.of, index), came)
    => \E m \in BagToSet(delivered) : m.parts[1].of = d.of

\* Whatever the lengths of the name, the payload and the datagram, nothing goes
\* out that is longer than a short message of that length: LCM keeps a fragment,
\* with its longer header and in fragment zero the name, to the same limit.
FitsDatagram ==
  \A d \in BagToSet(net) : d.from \in Clients =>
    LET name == d.of.name IN
    d.len + (IF d.whole THEN name ELSE HEADER_GAP + (IF d.named THEN name ELSE 0))
      <= short_max

\* A datagram of this crate's own encoder is never refused, whatever the
\* network did and whatever other programs sent: what `discarded` counts is
\* always the datagram of another.
OwnNeverRefused ==
  [][discarded' > discarded =>
       \E d \in Strays : Copies(d, came') > Copies(d, came)]_vars

=============================================================================
