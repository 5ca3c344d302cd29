-------------------------- MODULE RelayServerProofs --------------------------
(***************************************************************************)
(* Proofs about RelayServer, for any number of connections, of local threads *)
(* that publish and of ones that close, and for any room in an outbox.       *)
(*                                                                         *)
(* The order and the completeness of a fan-out rest on four things, each     *)
(* inductive with the ones before it: what the fields are (RelayType); that   *)
(* a connection is listed once and its threads start once (ListInv); that an  *)
(* open outbox has a writer thread (BoxInv); and what a dispatch under way    *)
(* has still to do (OrderInv, MatchInv).                                      *)
(***************************************************************************)
EXTENDS RelayServer, SequenceLemmas

Message == [by : Threads, nth : Nat \ {0}]
Handle == [role : {"writer", "reader"}, conn : Conns]
Listing == {"greet", "writer", "reader", "push", "record"}
Dispatching(t) == at[t] \in {"dispatch", "put"}

\* What the fields are: the lists with the accept thread and the far ends; the
\* outboxes with the writers; the threads that dispatch or close; what is due.
ListType ==
  /\ peers \in Seq(Conns) /\ threads \in Seq(Handle)
  /\ accept \in Listing \cup {"listen", "gone"}
  /\ accept \in Listing => conn \in Conns
  /\ backlog \in SUBSET Conns
  /\ far \in [Conns -> {"away", "dialled", "greeted", "left"}]
  /\ inbox \in [Conns -> Seq(Requests)]

BoxType ==
  /\ stream \in [Conns -> BOOLEAN]
  /\ open \in [Conns -> BOOLEAN]
  /\ box \in [Conns -> Seq(Message)]
  /\ got \in [Conns -> Seq(Message)]
  /\ hand \in [Conns -> Message \cup {NoMessage}]
  /\ writer \in [Conns -> {"none", "take", "write", "exit", "gone"}]
  /\ \A c \in Conns : writer[c] = "write" => hand[c] \in Message

JobType ==
  /\ at \in [Threads -> {"none", "idle", "publish", "read", "drop", "shut", "gone",
                         "dispatch", "put", "stop", "unwritable", "peers", "shutting",
                         "join", "accept", "closed"}]
  /\ todo \in [Threads -> Seq(Conns \cup Handle)]
  /\ msg \in [Threads -> Message \cup {NoMessage}]
  /\ count \in [Threads -> Nat]
  /\ \A t \in Threads : Dispatching(t) => todo[t] \in Seq(Conns) /\ msg[t] \in Message
  /\ \A t \in Threads : at[t] = "put" => todo[t] # <<>>

DueType == DOMAIN due \in SUBSET Message /\ due \in [DOMAIN due -> SUBSET Conns]

RelayType == ListType /\ BoxType /\ JobType /\ DueType

\* A connection that start_peer has not put in the list, and one whose reader it
\* has not started, and one whose writer it has not.
Unlisted(c) ==
  \/ far[c] = "away" \/ c \in backlog
  \/ conn = c /\ accept \in {"greet", "writer", "reader", "push"}
Unread(c) ==
  \/ far[c] = "away" \/ c \in backlog
  \/ conn = c /\ accept \in {"greet", "writer", "reader"}
Unwritten(c) ==
  \/ far[c] = "away" \/ c \in backlog
  \/ conn = c /\ accept \in {"greet", "writer"}

\* A connection comes once, is listed once and has each of its threads once.
ListInv ==
  /\ \A c \in Conns : Unlisted(c) => c \notin ToSet(peers)
  /\ \A c \in Conns : Unread(c) => at[c] = "none"
  /\ \A c \in Conns : Unwritten(c) => writer[c] = "none"
  /\ \A c \in backlog : far[c] # "away"
  /\ accept \in Listing => far[conn] # "away" /\ conn \notin backlog
  /\ Once(peers)
  /\ \A t \in Threads : Dispatching(t) => Once(todo[t])
  /\ \A m \in DOMAIN due : \A c \in due[m] : ~Unlisted(c)

\* An open outbox has a writer thread, and a shut one is empty.
BoxInv ==
  \A c \in Conns :
    /\ ~open[c] => box[c] = <<>>
    /\ open[c] => writer[c] \in {"take", "write", "exit"}
    /\ hand[c] \in Message <=> writer[c] = "write"

\* Each publisher's messages in the order it dispatched them.
Ordered(s) == \A i, j \in 1..Len(s) : i < j /\ s[i].by = s[j].by => s[i].nth < s[j].nth

\* The message a thread dispatches is its last, and the peers it has still to
\* visit do not have it.
OrderInv ==
  /\ \A c \in Conns : Ordered(StreamOf(c))
  /\ \A c \in Conns : \A n \in ToSet(StreamOf(c)) : n.nth <= count[n.by]
  /\ \A t \in Threads : Dispatching(t) =>
       /\ msg[t] = [by |-> t, nth |-> count[t]]
       /\ \A c \in Conns : c \in ToSet(todo[t]) => msg[t] \notin ToSet(StreamOf(c))

\* A peer that is due a message has it, or the dispatch of it is still to come
\* to that peer.
MatchInv ==
  \A m \in DOMAIN due : \A c \in due[m] : open[c] /\ stream[c] =>
    \/ m \in ToSet(StreamOf(c))
    \/ msg[m.by] = m /\ Dispatching(m.by) /\ c \in ToSet(todo[m.by])

RelayInv == RelayType /\ ListInv /\ BoxInv /\ OrderInv /\ MatchInv

-----------------------------------------------------------------------------
(* Sequences.                                                              *)

\* The elements of a sequence, by place.
LEMMA ToSetIs ==
  ASSUME NEW S, NEW s \in Seq(S)
  PROVE  /\ ToSet(s) \subseteq S
         /\ \A x : x \in ToSet(s) <=> \E i \in 1..Len(s) : s[i] = x
<1>1. DOMAIN s = 1..Len(s) /\ \A i \in 1..Len(s) : s[i] \in S
  BY LenProperties, ElementOfSeq
<1> QED BY <1>1 DEF ToSet

\* The elements of the empty sequence.
LEMMA ToSetEmpty == ToSet(<<>>) = {}
BY DEF ToSet

\* One more element.
LEMMA ToSetAppend ==
  ASSUME NEW S, NEW s \in Seq(S), NEW x \in S
  PROVE  ToSet(Append(s, x)) = ToSet(s) \cup {x}
<1>1. /\ Append(s, x) \in Seq(S) /\ Len(Append(s, x)) = Len(s) + 1
      /\ \A i \in 1..Len(s) : Append(s, x)[i] = s[i]
      /\ Append(s, x)[Len(s) + 1] = x /\ Len(s) \in Nat
  BY AppendProperties, LenProperties
<1>2. ASSUME NEW y PROVE y \in ToSet(Append(s, x)) <=> y \in ToSet(s) \cup {x}
  <2>1. y \in ToSet(Append(s, x)) <=> \E i \in 1..Len(s) + 1 : Append(s, x)[i] = y
    <3> DEFINE a == Append(s, x)
    <3>1. a \in Seq(S) /\ Len(a) = Len(s) + 1
      BY <1>1
    <3> HIDE DEF a
    <3>2. y \in ToSet(a) <=> \E i \in 1..Len(a) : a[i] = y
      BY <3>1, ToSetIs
    <3> QED BY <3>1, <3>2 DEF a
  <2>2. y \in ToSet(s) <=> \E i \in 1..Len(s) : s[i] = y
    BY ToSetIs
  <2>3. ASSUME NEW i \in 1..Len(s) + 1, Append(s, x)[i] = y
        PROVE  y \in ToSet(s) \cup {x}
    <3>1. CASE i = Len(s) + 1
      BY <1>1, <2>3, <3>1
    <3>2. CASE i # Len(s) + 1
      <4>1. i \in 1..Len(s)
        BY <1>1, <3>2
      <4> QED BY <1>1, <2>2, <2>3, <4>1
    <3> QED BY <3>1, <3>2
  <2>4. ASSUME NEW i \in 1..Len(s), s[i] = y
        PROVE  i \in 1..Len(s) + 1 /\ Append(s, x)[i] = y
    BY <1>1, <2>4
  <2>5. Len(s) + 1 \in 1..Len(s) + 1
    BY <1>1
  <2>6. ASSUME y \in ToSet(s) \cup {x} PROVE \E i \in 1..Len(s) + 1 : Append(s, x)[i] = y
    <3>1. CASE y = x
      BY <1>1, <2>5, <3>1
    <3>2. CASE y \in ToSet(s)
      <4>1. PICK i \in 1..Len(s) : s[i] = y
        BY <2>2, <3>2
      <4> QED BY <2>4, <4>1
    <3> QED BY <2>6, <3>1, <3>2
  <2> QED BY <2>1, <2>3, <2>6
<1> QED BY <1>2

\* Two sequences, one behind the other.
LEMMA ToSetConcat ==
  ASSUME NEW S, NEW s \in Seq(S), NEW u \in Seq(S)
  PROVE  ToSet(s \o u) = ToSet(s) \cup ToSet(u)
<1>1. /\ s \o u \in Seq(S) /\ Len(s \o u) = Len(s) + Len(u)
      /\ \A i \in 1..Len(s) + Len(u) :
           (s \o u)[i] = IF i <= Len(s) THEN s[i] ELSE u[i - Len(s)]
      /\ Len(s) \in Nat /\ Len(u) \in Nat
  BY ConcatProperties, LenProperties
<1>2. ASSUME NEW y PROVE y \in ToSet(s \o u) <=> y \in ToSet(s) \cup ToSet(u)
  <2>1. y \in ToSet(s \o u) <=> \E i \in 1..Len(s) + Len(u) : (s \o u)[i] = y
    BY <1>1, ToSetIs
  <2>2. y \in ToSet(s) <=> \E i \in 1..Len(s) : s[i] = y
    BY ToSetIs
  <2>3. y \in ToSet(u) <=> \E i \in 1..Len(u) : u[i] = y
    BY ToSetIs
  <2>4. ASSUME NEW i \in 1..Len(u), u[i] = y
        PROVE  \E j \in 1..Len(s) + Len(u) : (s \o u)[j] = y
    <3>1. i + Len(s) \in 1..Len(s) + Len(u) /\ ~(i + Len(s) <= Len(s))
          /\ i + Len(s) - Len(s) = i
      BY <1>1
    <3> QED BY <1>1, <2>4, <3>1
  <2> QED BY <1>1, <2>1, <2>2, <2>3, <2>4
<1> QED BY <1>2

\* The first element and the others.
LEMMA ToSetTail ==
  ASSUME NEW S, NEW s \in Seq(S), s # <<>>
  PROVE  /\ Tail(s) \in Seq(S) /\ Head(s) \in S
         /\ ToSet(s) = {Head(s)} \cup ToSet(Tail(s))
         /\ Once(s) => Once(Tail(s)) /\ Head(s) \notin ToSet(Tail(s))
<1>1. /\ Tail(s) \in Seq(S) /\ Len(Tail(s)) = Len(s) - 1 /\ Len(s) \in Nat \ {0}
      /\ \A i \in 1..Len(s) - 1 : Tail(s)[i] = s[i + 1]
      /\ Head(s) = s[1] /\ Head(s) \in S
  BY HeadTailProperties, EmptySeq
<1>t. \A y : y \in ToSet(Tail(s)) <=> \E i \in 1..Len(Tail(s)) : Tail(s)[i] = y
  <2> DEFINE r == Tail(s)
  <2>1. r \in Seq(S)
    BY <1>1
  <2> HIDE DEF r
  <2>2. \A y : y \in ToSet(r) <=> \E i \in 1..Len(r) : r[i] = y
    BY <2>1, ToSetIs
  <2> QED BY <2>2 DEF r
<1>2. ASSUME NEW y PROVE y \in ToSet(s) <=> y \in {Head(s)} \cup ToSet(Tail(s))
  <2>1. y \in ToSet(s) <=> \E i \in 1..Len(s) : s[i] = y
    BY ToSetIs
  <2>2. y \in ToSet(Tail(s)) <=> \E i \in 1..Len(s) - 1 : s[i + 1] = y
    BY <1>1, <1>t
  <2>3. ASSUME NEW i \in 1..Len(s), s[i] = y, i # 1
        PROVE  \E j \in 1..Len(s) - 1 : s[j + 1] = y
    <3>1. i - 1 \in 1..Len(s) - 1 /\ i - 1 + 1 = i
      BY <1>1, <2>3
    <3> QED BY <2>3, <3>1
  <2>4. ASSUME y \in ToSet(s) PROVE y \in {Head(s)} \cup ToSet(Tail(s))
    <3>1. PICK i \in 1..Len(s) : s[i] = y
      BY <2>1, <2>4
    <3>2. CASE i = 1
      BY <1>1, <3>1, <3>2
    <3>3. CASE i # 1
      BY <2>2, <2>3, <3>1, <3>3
    <3> QED BY <3>2, <3>3
  <2>5. ASSUME y \in {Head(s)} \cup ToSet(Tail(s)) PROVE \E i \in 1..Len(s) : s[i] = y
    <3>1. CASE y = Head(s)
      <4>1. 1 \in 1..Len(s)
        BY <1>1
      <4> QED BY <1>1, <3>1, <4>1
    <3>2. CASE y \in ToSet(Tail(s))
      <4>1. PICK i \in 1..Len(s) - 1 : s[i + 1] = y
        BY <2>2, <3>2
      <4>2. i + 1 \in 1..Len(s)
        BY <1>1
      <4> QED BY <4>1, <4>2
    <3> QED BY <2>5, <3>1, <3>2
  <2> QED BY <2>1, <2>4, <2>5
<1>3. ASSUME Once(s) PROVE Once(Tail(s)) /\ Head(s) \notin ToSet(Tail(s))
  <2>1. ASSUME NEW i \in 1..Len(Tail(s)), NEW j \in 1..Len(Tail(s)), Tail(s)[i] = Tail(s)[j]
        PROVE  i = j
    <3>1. s[i + 1] = s[j + 1] /\ i + 1 \in 1..Len(s) /\ j + 1 \in 1..Len(s)
      BY <1>1, <2>1
    <3>2. i + 1 = j + 1
      BY <1>3, <3>1 DEF Once
    <3> QED BY <1>1, <3>2
  <2>2. Head(s) \notin ToSet(Tail(s))
    <3>1. SUFFICES ASSUME NEW i \in 1..Len(s) - 1, s[i + 1] = s[1] PROVE FALSE
      BY <1>1, <1>t
    <3>2. i + 1 \in 1..Len(s) /\ 1 \in 1..Len(s) /\ i + 1 # 1
      BY <1>1
    <3> QED BY <1>3, <3>1, <3>2 DEF Once
  <2> QED BY <2>1, <2>2 DEF Once
<1> QED BY <1>1, <1>2, <1>3

\* A sequence is its first element and then the others.
LEMMA HeadThenTail ==
  ASSUME NEW S, NEW s \in Seq(S), s # <<>>
  PROVE  Head(s) \in S /\ Tail(s) \in Seq(S) /\ s = <<Head(s)>> \o Tail(s)
<1> DEFINE h == <<Head(s)>>
           r == Tail(s)
<1>1. /\ r \in Seq(S) /\ Len(r) = Len(s) - 1 /\ Len(s) \in Nat \ {0}
      /\ \A i \in 1..Len(s) - 1 : r[i] = s[i + 1]
      /\ Head(s) = s[1] /\ Head(s) \in S
  BY HeadTailProperties, EmptySeq
<1>2. h \in Seq(S) /\ Len(h) = 1 /\ h[1] = s[1]
  BY <1>1
<1> HIDE DEF h, r
<1>3. /\ h \o r \in Seq(S) /\ Len(h \o r) = 1 + (Len(s) - 1)
      /\ \A i \in 1..1 + (Len(s) - 1) : (h \o r)[i] = IF i <= 1 THEN h[i] ELSE r[i - 1]
  <2>1. /\ h \o r \in Seq(S) /\ Len(h \o r) = Len(h) + Len(r)
        /\ \A i \in 1..Len(h) + Len(r) :
             (h \o r)[i] = IF i <= Len(h) THEN h[i] ELSE r[i - Len(h)]
    BY <1>1, <1>2, ConcatProperties
  <2> QED BY <1>1, <1>2, <2>1
<1>4. Len(h \o r) = Len(s)
  BY <1>1, <1>3
<1>5. ASSUME NEW i \in 1..Len(s) PROVE (h \o r)[i] = s[i]
  <2>1. CASE i = 1
    BY <1>1, <1>2, <1>3, <2>1
  <2>2. CASE i # 1
    <3>1. i - 1 \in 1..Len(s) - 1 /\ ~(i <= 1) /\ i \in 1..1 + (Len(s) - 1) /\ i - 1 + 1 = i
      BY <1>1, <2>2
    <3> QED BY <1>1, <1>3, <3>1
  <2> QED BY <2>1, <2>2
<1>6. s = h \o r
  <2> DEFINE q == h \o r
  <2>1. q \in Seq(S) /\ Len(q) = Len(s) /\ \A i \in 1..Len(s) : q[i] = s[i]
    BY <1>3, <1>4, <1>5
  <2> HIDE DEF q
  <2>2. s = q
    BY <2>1, SeqEqual
  <2> QED BY <2>2 DEF q
<1> QED BY <1>1, <1>6 DEF h, r

\* Taking one out leaves elements of the same set.
LEMMA RemovedIn ==
  ASSUME NEW S, NEW s \in Seq(S), NEW i \in 1..Len(s)
  PROVE  RemoveAt(s, i) \in Seq(S)
<1>0. Len(s) \in Nat /\ \A k \in 1..Len(s) : s[k] \in S
  BY LenProperties, ElementOfSeq
<1>1. SubSeq(s, 1, i - 1) \in Seq(S)
  <2>1. \A k \in 1..i - 1 : s[k] \in S
    BY <1>0
  <2> QED BY <1>0, <2>1, SubSeqProperties
<1>2. SubSeq(s, i + 1, Len(s)) \in Seq(S)
  <2>1. \A k \in i + 1..Len(s) : s[k] \in S
    BY <1>0
  <2> QED BY <1>0, <2>1, SubSeqProperties
<1> QED BY <1>1, <1>2, ConcatProperties DEF RemoveAt

\* A message behind the others of its publisher.
LEMMA OrderedAppend ==
  ASSUME NEW s \in Seq(Message), NEW m \in Message, Ordered(s),
         \A n \in ToSet(s) : n.by = m.by => n.nth < m.nth
  PROVE  Ordered(Append(s, m))
<1>1. /\ Len(Append(s, m)) = Len(s) + 1 /\ Len(s) \in Nat
      /\ \A i \in 1..Len(s) : Append(s, m)[i] = s[i] /\ s[i] \in ToSet(s)
      /\ Append(s, m)[Len(s) + 1] = m
  BY AppendProperties, LenProperties, ToSetIs
<1>2. ASSUME NEW i \in 1..Len(s) + 1, NEW j \in 1..Len(s) + 1, i < j,
             Append(s, m)[i].by = Append(s, m)[j].by
      PROVE  Append(s, m)[i].nth < Append(s, m)[j].nth
  <2>1. i \in 1..Len(s) /\ Append(s, m)[i] = s[i]
    BY <1>1, <1>2
  <2>2. CASE j = Len(s) + 1
    BY <1>1, <1>2, <2>1, <2>2
  <2>3. CASE j # Len(s) + 1
    <3>1. j \in 1..Len(s) /\ Append(s, m)[j] = s[j]
      BY <1>1, <2>3
    <3> QED BY <1>2, <2>1, <3>1 DEF Ordered
  <2> QED BY <2>2, <2>3
<1> QED BY <1>1, <1>2 DEF Ordered

\* What is left of an ordered stream when a part in its middle goes.
LEMMA OrderedWithout ==
  ASSUME NEW s \in Seq(Message), NEW u \in Seq(Message), NEW v \in Seq(Message),
         Ordered(s \o u \o v)
  PROVE  Ordered(s \o v) /\ Ordered(s \o u)
<1> DEFINE w == s \o u \o v
<1>0. Len(s) \in Nat /\ Len(u) \in Nat /\ Len(v) \in Nat
  BY LenProperties
<1>1. /\ s \o u \in Seq(Message) /\ Len(s \o u) = Len(s) + Len(u)
      /\ \A i \in 1..Len(s) + Len(u) :
           (s \o u)[i] = IF i <= Len(s) THEN s[i] ELSE u[i - Len(s)]
  BY ConcatProperties
<1>2. /\ Len(w) = Len(s) + Len(u) + Len(v)
      /\ \A i \in 1..Len(s) + Len(u) + Len(v) :
           w[i] = IF i <= Len(s) + Len(u) THEN (s \o u)[i] ELSE v[i - (Len(s) + Len(u))]
  BY <1>1, ConcatProperties
<1>3. /\ Len(s \o v) = Len(s) + Len(v)
      /\ \A i \in 1..Len(s) + Len(v) :
           (s \o v)[i] = IF i <= Len(s) THEN s[i] ELSE v[i - Len(s)]
  BY ConcatProperties
<1> HIDE DEF w
<1>4. \A i, j \in 1..Len(w) : i < j /\ w[i].by = w[j].by => w[i].nth < w[j].nth
  BY DEF w, Ordered
<1>5. Ordered(s \o u)
  <2>1. \A i \in 1..Len(s) + Len(u) : i \in 1..Len(w) /\ w[i] = (s \o u)[i]
    BY <1>0, <1>2
  <2> QED BY <1>1, <1>4, <2>1 DEF Ordered
<1>6. Ordered(s \o v)
  <2> DEFINE at2(i) == IF i <= Len(s) THEN i ELSE i + Len(u)
  <2>1. ASSUME NEW i \in 1..Len(s) + Len(v)
        PROVE  at2(i) \in 1..Len(w) /\ w[at2(i)] = (s \o v)[i]
    <3>1. CASE i <= Len(s)
      <4>1. i \in 1..Len(s) + Len(u) /\ i \in 1..Len(s) + Len(u) + Len(v)
        BY <1>0, <3>1
      <4> QED BY <1>0, <1>1, <1>2, <1>3, <3>1, <4>1
    <3>2. CASE ~(i <= Len(s))
      <4>1. /\ i + Len(u) \in 1..Len(s) + Len(u) + Len(v)
            /\ ~(i + Len(u) <= Len(s) + Len(u))
            /\ i + Len(u) - (Len(s) + Len(u)) = i - Len(s)
        BY <1>0, <3>2
      <4> QED BY <1>2, <1>3, <3>2, <4>1
    <3> QED BY <3>1, <3>2
  <2>2. ASSUME NEW i \in 1..Len(s) + Len(v), NEW j \in 1..Len(s) + Len(v), i < j
        PROVE  at2(i) < at2(j)
    BY <1>0, <2>2
  <2> HIDE DEF at2
  <2> QED BY <1>3, <1>4, <2>1, <2>2 DEF Ordered
<1> QED BY <1>5, <1>6

-----------------------------------------------------------------------------
(* What the fields are.                                                    *)

\* The record that stands for no message is none.
LEMMA NoMessageIsNone == NoMessage \notin Message
BY DEF NoMessage, Message

\* The fields before the first step.
LEMMA TypeInit == Init => RelayType
<1> SUFFICES ASSUME Init PROVE RelayType
  OBVIOUS
<1>1. ListType
  BY DEF Init, ListType, Listing
<1>2. BoxType
  BY NoMessageIsNone DEF Init, BoxType
<1>3. JobType
  BY DEF Init, JobType, Dispatching
<1>4. DueType
  BY DEF Init, DueType
<1> QED BY <1>1, <1>2, <1>3, <1>4 DEF RelayType

\* Every step keeps the lists, the accept thread and the far ends so.
LEMMA ListTypeNext ==
  ASSUME RelayType, [Next]_vars
  PROVE  ListType'
<1> USE DEF flags, lists, accepts, farVars, boxVars, jobVars
<1>0. ListType
  BY DEF RelayType
<1>1. ASSUME NEW c \in Conns, Dial(c) \/ Leave(c) PROVE ListType'
  BY <1>0, <1>1 DEF Dial, Leave, ListType
<1>2. ASSUME NEW c \in Conns, RemovePeer(c) PROVE ListType'
  <2>1. UNCHANGED <<threads, accept, conn, backlog, far, inbox>>
    BY <1>2 DEF RemovePeer, readerRest
  <2>2. peers' \in Seq(Conns)
    <3>1. CASE UNCHANGED peers
      BY <1>0, <3>1 DEF ListType
    <3>2. CASE \E i \in 1..Len(peers) : peers' = RemoveAt(peers, i)
      BY <1>0, <3>2, RemovedIn DEF ListType
    <3> QED BY <1>2, <3>1, <3>2 DEF RemovePeer
  <2> QED BY <1>0, <2>1, <2>2 DEF ListType
<1>3. ASSUME AcceptEnds \/ AcceptFails \/ Accept \/ Greet \/ SpawnWriter \/ SpawnReader
      PROVE ListType'
  BY <1>0, <1>3
  DEF AcceptEnds, AcceptFails, Accept, Greet, SpawnWriter, SpawnReader, RefusePeer,
      acceptRest, ListType, Listing
<1>4. ASSUME PushPeer PROVE ListType'
  <2>1. peers' \in Seq(Conns)
    BY <1>0, <1>4, AppendProperties DEF PushPeer, ListType, Listing
  <2> QED BY <1>0, <1>4, <2>1 DEF PushPeer, acceptRest, ListType, Listing
<1>5. ASSUME RecordThreads PROVE ListType'
  <2>1. << [role |-> "writer", conn |-> conn], [role |-> "reader", conn |-> conn] >>
          \in Seq(Handle)
    BY <1>0, <1>5 DEF RecordThreads, ListType, Listing, Handle
  <2>2. threads' \in Seq(Handle)
    BY <1>0, <1>5, <2>1, ConcatProperties DEF RecordThreads, ListType
  <2> QED BY <1>0, <1>5, <2>2 DEF RecordThreads, acceptRest, ListType, Listing
<1>6. ASSUME NEW t \in Threads, TakePeers(t) \/ TakeThreads(t) PROVE ListType'
  <2>1. <<>> \in Seq(Conns) /\ <<>> \in Seq(Handle)
    OBVIOUS
  <2> QED BY <1>0, <1>6, <2>1 DEF TakePeers, TakeThreads, closeRest, ListType
<1>7. CASE UNCHANGED <<peers, threads, accept, conn, backlog, far, inbox>>
  BY <1>0, <1>7 DEF ListType
<1>8. ASSUME NEW c \in Conns,
             ReaderEnds(c) \/ ShutPeer(c) \/ WriterStep(c)
      PROVE  UNCHANGED <<peers, threads, accept, conn, backlog, far, inbox>>
  BY <1>8 DEF ReaderEnds, ShutPeer, WriterStep, WriterEnds, Take, Write,
              WriterExit, readerRest, writerRest
<1>9. ASSUME NEW t \in Threads,
             \/ DispatchStep(t) \/ StopRunning(t) \/ StopWritable(t) \/ ShutNext(t)
             \/ Join(t) \/ TakeAccept(t) \/ JoinAccept(t)
             \/ Publish(t) \/ PublishLocal(t) \/ BeginClose(t)
      PROVE  UNCHANGED <<peers, threads, accept, conn, backlog, far, inbox>>
  BY <1>9 DEF DispatchStep, Match, Put, PutTooSlow, Hear, StopRunning, StopWritable,
              ShutNext, Join, TakeAccept, JoinAccept, Publish, PublishLocal, BeginClose,
              dispatchRest, localRest, closeRest
<1>11. ASSUME NEW c \in Conns, Ask(c) PROVE ListType'
  <2>1. \A request \in Requests : Append(inbox[c], request) \in Seq(Requests)
    BY <1>0, AppendProperties DEF ListType
  <2> QED BY <1>0, <1>11, <2>1 DEF Ask, ListType
<1>12. ASSUME NEW c \in Conns, Read(c) PROVE ListType'
  <2>1. inbox[c] # <<>> => Tail(inbox[c]) \in Seq(Requests)
    BY <1>0, HeadTailProperties, EmptySeq DEF ListType
  <2>2. inbox' \in [Conns -> Seq(Requests)]
    BY <1>0, <1>12, <2>1 DEF Read, ListType
  <2> QED BY <1>0, <1>12, <2>2 DEF Read, readerRest, ListType
<1>10. Locals \subseteq Threads
  BY DEF Threads
<1> QED
  BY <1>1, <1>2, <1>3, <1>4, <1>5, <1>6, <1>7, <1>8, <1>9, <1>10, <1>11, <1>12
  DEF Next, ReaderStep, AcceptStep, CloseStep, vars

\* Every step keeps the outboxes and the writers so.
LEMMA BoxTypeNext ==
  ASSUME RelayType, [Next]_vars
  PROVE  BoxType'
<1> USE DEF flags, lists, accepts, farVars, boxVars, jobVars
<1>0. ListType /\ BoxType /\ JobType
  BY DEF RelayType
<1>1. ASSUME NEW c \in Conns, ShutPeer(c) \/ WriterExit(c) \/ WriterEnds(c) PROVE BoxType'
  <2>1. <<>> \in Seq(Message)
    OBVIOUS
  <2>2. /\ stream' \in [Conns -> BOOLEAN] /\ open' \in [Conns -> BOOLEAN]
        /\ box' \in [Conns -> Seq(Message)] /\ UNCHANGED <<got, hand>>
        /\ \/ UNCHANGED writer \/ writer' = [writer EXCEPT ![c] = "exit"]
           \/ writer' = [writer EXCEPT ![c] = "gone"]
    BY <1>0, <1>1, <2>1
    DEF ShutPeer, ShutBox, WriterExit, WriterEnds, readerRest, writerRest, BoxType
  <2> QED BY <1>0, <2>2 DEF BoxType
<1>2. ASSUME NEW c \in Conns, Take(c) PROVE BoxType'
  <2>1. Head(box[c]) \in Message /\ Tail(box[c]) \in Seq(Message)
    BY <1>0, <1>2, HeadTailProperties, EmptySeq DEF Take, BoxType
  <2>2. /\ hand' = [hand EXCEPT ![c] = Head(box[c])] /\ box' = [box EXCEPT ![c] = Tail(box[c])]
        /\ writer' = [writer EXCEPT ![c] = "write"] /\ UNCHANGED <<stream, open, got>>
    BY <1>2 DEF Take
  <2> DEFINE h == Head(box[c])
             q == Tail(box[c])
  <2> HIDE DEF h, q
  <2>3. /\ h \in Message /\ q \in Seq(Message)
        /\ hand' = [hand EXCEPT ![c] = h] /\ box' = [box EXCEPT ![c] = q]
    BY <2>1, <2>2 DEF h, q
  <2> QED BY <1>0, <2>2, <2>3 DEF BoxType
<1>3. ASSUME NEW c \in Conns, Write(c) PROVE BoxType'
  <2>1. hand[c] \in Message
    BY <1>0, <1>3 DEF Write, BoxType
  <2> DEFINE q == Append(got[c], hand[c])
  <2>2. q \in Seq(Message)
    BY <1>0, <2>1, AppendProperties DEF BoxType
  <2>3. /\ hand' = [hand EXCEPT ![c] = NoMessage] /\ UNCHANGED <<open, box>>
        /\ \/ /\ got' = [got EXCEPT ![c] = q] /\ writer' = [writer EXCEPT ![c] = "take"]
              /\ UNCHANGED stream
           \/ /\ stream' = [stream EXCEPT ![c] = FALSE]
              /\ writer' = [writer EXCEPT ![c] = "exit"] /\ UNCHANGED got
    BY <1>3 DEF Write
  <2> HIDE DEF q
  <2> QED BY <1>0, <2>2, <2>3, NoMessageIsNone DEF BoxType
<1>4. ASSUME Accept \/ Greet \/ SpawnWriter PROVE BoxType'
  <2>1. UNCHANGED <<box, got, hand>>
    BY <1>4 DEF Accept, Greet, SpawnWriter, acceptRest
  <2>2. /\ stream' \in [Conns -> BOOLEAN] /\ open' \in [Conns -> BOOLEAN]
        /\ \/ UNCHANGED writer
           \/ SpawnWriter /\ writer' = [writer EXCEPT ![conn] = "take"]
    BY <1>0, <1>4 DEF Accept, Greet, SpawnWriter, BoxType
  <2>3. SpawnWriter => conn \in Conns
    BY <1>0 DEF SpawnWriter, ListType, Listing
  <2> QED BY <1>0, <2>1, <2>2, <2>3 DEF BoxType
<1>5. ASSUME NEW t \in Threads, Put(t) PROVE BoxType'
  <2>1. msg[t] \in Message
    BY <1>0, <1>5 DEF Put, JobType, Dispatching
  <2>2. \A c \in Conns : Append(box[c], msg[t]) \in Seq(Message)
    BY <1>0, <2>1, AppendProperties DEF BoxType
  <2>3. box' \in [Conns -> Seq(Message)]
    <3>1. Head(todo[t]) \in Conns
      BY <1>0, <1>5, HeadTailProperties, EmptySeq DEF Put, JobType, Dispatching
    <3>2. \/ box' = [box EXCEPT ![Head(todo[t])] = Append(box[Head(todo[t])], msg[t])]
          \/ UNCHANGED box
      BY <1>5 DEF Put
    <3> QED BY <1>0, <2>2, <3>1, <3>2 DEF BoxType
  <2>4. UNCHANGED <<stream, open, got, hand, writer>>
    BY <1>5 DEF Put, dispatchRest
  <2> QED BY <1>0, <2>3, <2>4 DEF BoxType
<1>6. ASSUME NEW t \in Threads, ShutNext(t) PROVE BoxType'
  <2>1. <<>> \in Seq(Message)
    OBVIOUS
  <2>2. /\ stream' \in [Conns -> BOOLEAN] /\ open' \in [Conns -> BOOLEAN]
        /\ box' \in [Conns -> Seq(Message)] /\ UNCHANGED <<got, hand, writer>>
    BY <1>0, <1>6, <2>1 DEF ShutNext, ShutBox, closeRest, BoxType
  <2> QED BY <1>0, <2>2 DEF BoxType
<1>7. CASE UNCHANGED <<stream, open, box, got, hand, writer>>
  BY <1>0, <1>7 DEF BoxType
<1>8. ASSUME NEW c \in Conns,
             Dial(c) \/ Ask(c) \/ Leave(c) \/ ReaderEnds(c) \/ Read(c) \/ RemovePeer(c)
      PROVE  UNCHANGED <<stream, open, box, got, hand, writer>>
  BY <1>8 DEF Dial, Ask, Leave, ReaderEnds, Read, RemovePeer, readerRest
<1>9. ASSUME AcceptEnds \/ AcceptFails \/ SpawnReader \/ PushPeer \/ RecordThreads
      PROVE  UNCHANGED <<stream, open, box, got, hand, writer>>
  BY <1>9 DEF AcceptEnds, AcceptFails, SpawnReader, PushPeer, RecordThreads, acceptRest
<1>10. ASSUME NEW t \in Threads,
              \/ Match(t) \/ PutTooSlow(t) \/ Hear(t) \/ StopRunning(t) \/ StopWritable(t)
              \/ TakePeers(t) \/ TakeThreads(t) \/ Join(t) \/ TakeAccept(t)
              \/ JoinAccept(t) \/ Publish(t) \/ PublishLocal(t) \/ BeginClose(t)
       PROVE  UNCHANGED <<stream, open, box, got, hand, writer>>
  BY <1>10 DEF Match, PutTooSlow, Hear, StopRunning, StopWritable, TakePeers,
               TakeThreads, Join, TakeAccept, JoinAccept, Publish, PublishLocal,
               BeginClose, dispatchRest, localRest, closeRest
<1>11. Locals \subseteq Threads
  BY DEF Threads
<1> QED
  BY <1>1, <1>2, <1>3, <1>4, <1>5, <1>6, <1>7, <1>8, <1>9, <1>10, <1>11
  DEF Next, ReaderStep, WriterStep, AcceptStep, DispatchStep, CloseStep, vars

\* A dispatch that begins: what the thread has then.
LEMMA BeginDispatchJob ==
  ASSUME ListType, JobType, DueType, NEW t \in Threads, BeginDispatch(t)
  PROVE  JobType' /\ DueType'
<1> DEFINE m == [by |-> t, nth |-> count[t] + 1]
<1>1. m \in Message /\ count[t] + 1 \in Nat
  BY DEF JobType, Message
<1>2. /\ at' = [at EXCEPT ![t] = "dispatch"] /\ todo' = [todo EXCEPT ![t] = peers]
      /\ msg' = [msg EXCEPT ![t] = m] /\ count' = [count EXCEPT ![t] = count[t] + 1]
  BY DEF BeginDispatch
<1>3. peers \in Seq(Conns) /\ peers \in Seq(Conns \cup Handle)
  BY SeqMonotonic DEF ListType
<1>4. /\ DOMAIN due' = DOMAIN due \cup {m}
      /\ \A n \in DOMAIN due' : due'[n] = IF n = m
           THEN {c \in ToSet(peers) : subs[c] > 0 /\ open[c]} ELSE due[n]
      /\ due' = [n \in DOMAIN due' |-> due'[n]]
  BY DEF BeginDispatch
<1>5. ToSet(peers) \subseteq Conns
  BY <1>3, ToSetIs
<1> HIDE DEF m
<1>6. JobType'
  BY <1>1, <1>2, <1>3 DEF JobType, Dispatching
<1>7. DueType'
  BY <1>1, <1>4, <1>5 DEF DueType
<1> QED BY <1>6, <1>7

\* What a reader's round can come to.
LEMMA ReadCases ==
  ASSUME NEW c \in Conns, Read(c), ListType
  PROVE  \/ BeginDispatch(c) /\ UNCHANGED subs
         \/ UNCHANGED <<at, jobVars>>
         \/ at' = [at EXCEPT ![c] = "drop"] /\ UNCHANGED <<subs, jobVars>>
<1>1. inbox[c] # <<>> => Head(inbox[c]) \in {"subscribe", "unsubscribe", "publish", "broken"}
  BY HeadTailProperties, EmptySeq, RelayAssumption DEF ListType
<1> QED BY <1>1 DEF Read

\* Every step keeps the threads that dispatch or close so.
LEMMA JobTypeNext ==
  ASSUME RelayType, [Next]_vars
  PROVE  JobType'
<1> USE DEF flags, lists, accepts, farVars, boxVars, jobVars
<1>0. ListType /\ JobType /\ DueType
  BY DEF RelayType
<1>a. Conns \subseteq Threads /\ Locals \subseteq Threads
  BY DEF Threads
<1>1. ASSUME NEW c \in Conns, ReaderEnds(c) \/ RemovePeer(c) \/ ShutPeer(c) PROVE JobType'
  BY <1>0, <1>1, <1>a DEF ReaderEnds, RemovePeer, ShutPeer, readerRest, JobType, Dispatching
<1>2. ASSUME NEW c \in Conns, Read(c) PROVE JobType'
  <2>1. CASE BeginDispatch(c)
    BY <1>0, <1>a, <2>1, BeginDispatchJob
  <2>2. CASE UNCHANGED <<at, jobVars>>
    BY <1>0, <2>2 DEF JobType, Dispatching
  <2>3. CASE at' = [at EXCEPT ![c] = "drop"] /\ UNCHANGED jobVars
    BY <1>0, <1>a, <2>3 DEF JobType, Dispatching
  <2>4. \/ BeginDispatch(c) \/ UNCHANGED <<at, jobVars>>
        \/ at' = [at EXCEPT ![c] = "drop"] /\ UNCHANGED jobVars
    BY <1>0, <1>2, ReadCases
  <2> QED BY <2>1, <2>2, <2>3, <2>4
<1>3. ASSUME SpawnReader PROVE JobType'
  BY <1>0, <1>3, <1>a
  DEF SpawnReader, RefusePeer, acceptRest, ListType, Listing, JobType, Dispatching
<1>4. ASSUME NEW t \in Threads, Match(t) \/ Put(t) \/ PutTooSlow(t) PROVE JobType'
  <2>1. todo[t] \in Seq(Conns) /\ todo[t] # <<>> /\ msg[t] \in Message
    BY <1>0, <1>4 DEF Match, Put, PutTooSlow, JobType, Dispatching
  <2>2. Tail(todo[t]) \in Seq(Conns) /\ Tail(todo[t]) \in Seq(Conns \cup Handle)
    BY <2>1, HeadTailProperties, EmptySeq, SeqMonotonic
  <2>3. CASE Skip(t) /\ UNCHANGED <<msg, count>>
    BY <1>0, <2>1, <2>2, <2>3 DEF Skip, JobType, Dispatching
  <2>4. CASE at' = [at EXCEPT ![t] = "put"] /\ UNCHANGED <<todo, msg, count>>
    BY <1>0, <2>1, <2>4 DEF JobType, Dispatching
  <2> QED BY <1>4, <2>3, <2>4 DEF Match, Put, PutTooSlow, dispatchRest
<1>5. ASSUME NEW t \in Threads,
             \/ Hear(t) \/ StopRunning(t) \/ StopWritable(t) \/ TakeAccept(t)
             \/ JoinAccept(t) \/ Publish(t) \/ BeginClose(t)
      PROVE  JobType'
  <2>1. /\ UNCHANGED <<todo, msg, count>>
        /\ at' \in [Threads -> {"none", "idle", "publish", "read", "drop", "shut", "gone",
                         "dispatch", "put", "stop", "unwritable", "peers", "shutting",
                         "join", "accept", "closed"}]
        /\ \A u \in Threads : at'[u] \in {"dispatch", "put"} => at'[u] = at[u]
    BY <1>0, <1>5 DEF Hear, StopRunning, StopWritable, TakeAccept, JoinAccept, Publish,
         BeginClose, Home, Closed, dispatchRest, localRest, closeRest, JobType
  <2> QED BY <1>0, <2>1 DEF JobType, Dispatching
<1>6. ASSUME NEW t \in Threads, PublishLocal(t) PROVE JobType'
  BY <1>0, <1>6, BeginDispatchJob DEF PublishLocal
<1>7. ASSUME NEW t \in Threads, TakePeers(t) \/ TakeThreads(t) \/ ShutNext(t) \/ Join(t)
      PROVE  JobType'
  <2>1. /\ UNCHANGED <<msg, count>>
        /\ at' \in [Threads -> {"none", "idle", "publish", "read", "drop", "shut", "gone",
                         "dispatch", "put", "stop", "unwritable", "peers", "shutting",
                         "join", "accept", "closed"}]
        /\ at[t] \notin {"dispatch", "put"} /\ at'[t] \notin {"dispatch", "put"}
        /\ \A u \in Threads \ {t} : at'[u] = at[u]
    BY <1>0, <1>7 DEF TakePeers, TakeThreads, ShutNext, Join, closeRest, JobType
  <2>2. \E x \in Seq(Conns \cup Handle) : todo' = [todo EXCEPT ![t] = x]
    <3>1. /\ peers \in Seq(Conns \cup Handle) /\ threads \in Seq(Conns \cup Handle)
          /\ <<>> \in Seq(Conns \cup Handle)
      BY <1>0, SeqMonotonic DEF ListType
    <3>2. todo[t] # <<>> => Tail(todo[t]) \in Seq(Conns \cup Handle)
      BY <1>0, HeadTailProperties, EmptySeq DEF JobType
    <3> QED BY <1>7, <3>1, <3>2 DEF TakePeers, TakeThreads, ShutNext, Join
  <2> QED BY <1>0, <2>1, <2>2 DEF JobType, Dispatching
<1>8. CASE UNCHANGED <<at, todo, msg, count>>
  BY <1>0, <1>8 DEF JobType, Dispatching
<1>9. ASSUME NEW c \in Conns, Dial(c) \/ Ask(c) \/ Leave(c) \/ WriterStep(c)
      PROVE  UNCHANGED <<at, todo, msg, count>>
  BY <1>9 DEF Dial, Ask, Leave, WriterStep, WriterEnds, Take, Write, WriterExit, writerRest
<1>10. ASSUME \/ AcceptEnds \/ AcceptFails \/ Accept \/ Greet \/ SpawnWriter
              \/ PushPeer \/ RecordThreads
       PROVE  UNCHANGED <<at, todo, msg, count>>
  BY <1>10 DEF AcceptEnds, AcceptFails, Accept, Greet, SpawnWriter, PushPeer,
               RecordThreads, acceptRest
<1> QED
  BY <1>1, <1>2, <1>3, <1>4, <1>5, <1>6, <1>7, <1>8, <1>9, <1>10, <1>a
  DEF Next, ReaderStep, AcceptStep, DispatchStep, CloseStep, vars

\* Every step keeps what is due so.
LEMMA DueTypeNext ==
  ASSUME RelayType, [Next]_vars
  PROVE  DueType'
<1> USE DEF flags, lists, accepts, farVars, boxVars, jobVars
<1>0. ListType /\ JobType /\ DueType
  BY DEF RelayType
<1>a. Conns \subseteq Threads /\ Locals \subseteq Threads
  BY DEF Threads
<1>1. CASE UNCHANGED due
  BY <1>0, <1>1 DEF DueType
<1>2. ASSUME NEW t \in Threads, Excuse(t) PROVE DueType'
  <2>1. DOMAIN due' = DOMAIN due /\ due' \in [DOMAIN due -> SUBSET Conns]
    BY <1>0, <1>2 DEF Excuse, DueType
  <2> QED BY <1>0, <2>1 DEF DueType
<1>3. ASSUME NEW t \in Threads, BeginDispatch(t) PROVE DueType'
  BY <1>0, <1>3, BeginDispatchJob
<1>4. ASSUME NEW c \in Conns, Read(c) PROVE BeginDispatch(c) \/ UNCHANGED due
  BY <1>0, <1>4, ReadCases
<1>5. ASSUME NEW c \in Conns,
             \/ Dial(c) \/ Ask(c) \/ Leave(c) \/ ReaderEnds(c) \/ RemovePeer(c)
             \/ ShutPeer(c) \/ WriterStep(c)
      PROVE  UNCHANGED due
  BY <1>5 DEF Dial, Ask, Leave, ReaderEnds, RemovePeer, ShutPeer, WriterStep, WriterEnds,
              Take, Write, WriterExit, writerRest
<1>6. ASSUME AcceptStep PROVE UNCHANGED due
  BY <1>6 DEF AcceptStep, AcceptEnds, AcceptFails, Accept, Greet, SpawnWriter, SpawnReader,
              PushPeer, RecordThreads, acceptRest
<1>7. ASSUME NEW t \in Threads, DispatchStep(t) PROVE Excuse(t) \/ UNCHANGED due
  BY <1>7 DEF DispatchStep, Match, Put, PutTooSlow, Hear
<1>8. ASSUME NEW t \in Threads, CloseStep(t) \/ Publish(t) \/ BeginClose(t)
      PROVE  UNCHANGED due
  BY <1>8 DEF CloseStep, StopRunning, StopWritable, TakePeers, ShutNext, TakeThreads,
              Join, TakeAccept, JoinAccept, Publish, BeginClose, closeRest
<1>9. ASSUME NEW t \in Threads, PublishLocal(t) PROVE BeginDispatch(t)
  BY <1>9 DEF PublishLocal
<1> QED
  BY <1>1, <1>2, <1>3, <1>4, <1>5, <1>6, <1>7, <1>8, <1>9, <1>a
  DEF Next, ReaderStep, vars

\* Every step keeps the fields what they are.
LEMMA TypeNext ==
  ASSUME RelayType, [Next]_vars
  PROVE  RelayType'
BY ListTypeNext, BoxTypeNext, JobTypeNext, DueTypeNext DEF RelayType

-----------------------------------------------------------------------------
(* A connection is listed once, and has each of its threads once.          *)

\* On its way into the list a connection goes forward only.
GoesOn ==
  /\ \A c \in Conns : /\ Unlisted(c)' => Unlisted(c)
                      /\ Unread(c)' => Unread(c)
                      /\ Unwritten(c)' => Unwritten(c)
  /\ \A c \in backlog' : far'[c] # "away"
  /\ accept' \in Listing => far'[conn'] # "away" /\ conn' \notin backlog'

\* Every step is one of those.
LEMMA Onward ==
  ASSUME RelayType, ListInv, [Next]_vars
  PROVE  GoesOn
<1> USE DEF flags, lists, accepts, farVars, boxVars, jobVars, Listing
<1>0. /\ ListType /\ \A c \in backlog : far[c] # "away"
      /\ accept \in Listing => far[conn] # "away" /\ conn \notin backlog
  BY DEF RelayType, ListInv
<1>a. Locals \subseteq Threads
  BY DEF Threads
<1>1. ASSUME NEW c \in Conns, Dial(c) PROVE GoesOn
  BY <1>0, <1>1 DEF GoesOn, Dial, ListType, Unlisted, Unread, Unwritten
<1>2. ASSUME NEW c \in Conns, Leave(c) PROVE GoesOn
  BY <1>0, <1>2 DEF GoesOn, Leave, ListType, Unlisted, Unread, Unwritten
<1>3. ASSUME Accept PROVE GoesOn
  BY <1>0, <1>3 DEF GoesOn, Accept, ListType, Unlisted, Unread, Unwritten
<1>4. ASSUME AcceptEnds \/ AcceptFails PROVE GoesOn
  BY <1>0, <1>4 DEF GoesOn, AcceptEnds, AcceptFails, acceptRest, ListType, Unlisted, Unread, Unwritten
<1>5. ASSUME Greet PROVE GoesOn
  BY <1>0, <1>5 DEF GoesOn, Greet, RefusePeer, acceptRest, ListType, Unlisted, Unread, Unwritten
<1>6. ASSUME SpawnWriter PROVE GoesOn
  BY <1>0, <1>6 DEF GoesOn, SpawnWriter, RefusePeer, acceptRest, ListType, Unlisted, Unread, Unwritten
<1>7. ASSUME SpawnReader \/ PushPeer \/ RecordThreads PROVE GoesOn
  BY <1>0, <1>7 DEF GoesOn, SpawnReader, PushPeer, RecordThreads, RefusePeer, acceptRest, ListType,
                    Unlisted, Unread, Unwritten
<1>8. CASE UNCHANGED <<accept, conn, backlog, far>>
  BY <1>0, <1>8 DEF GoesOn, Unlisted, Unread, Unwritten
<1>9. ASSUME NEW c \in Conns, Ask(c) \/ ReaderStep(c) \/ WriterStep(c)
      PROVE  UNCHANGED <<accept, conn, backlog, far>>
  BY <1>9 DEF Ask, ReaderStep, ReaderEnds, Read, RemovePeer, ShutPeer, WriterStep,
              WriterEnds, Take, Write, WriterExit, readerRest, writerRest
<1>10. ASSUME NEW t \in Threads,
              DispatchStep(t) \/ CloseStep(t) \/ Publish(t) \/ PublishLocal(t) \/ BeginClose(t)
       PROVE  UNCHANGED <<accept, conn, backlog, far>>
  BY <1>10 DEF DispatchStep, Match, Put, PutTooSlow, Hear, CloseStep, StopRunning,
      StopWritable, TakePeers, ShutNext, TakeThreads, Join, TakeAccept, JoinAccept, Publish,
      PublishLocal, BeginClose, dispatchRest, localRest, closeRest
<1>12. ASSUME UNCHANGED vars PROVE UNCHANGED <<accept, conn, backlog, far>>
  BY <1>12 DEF vars
<1> QED
  BY <1>1, <1>2, <1>3, <1>4, <1>5, <1>6, <1>7, <1>8, <1>9, <1>10, <1>12, <1>a
  DEF Next, AcceptStep

\* What a step does to the list of the peers.
LEMMA PeersMove ==
  ASSUME RelayType, [Next]_vars
  PROVE  \/ UNCHANGED peers \/ peers' = <<>>
         \/ \E i \in 1..Len(peers) : peers' = RemoveAt(peers, i)
         \/ PushPeer
<1> USE DEF flags, lists, accepts, farVars, boxVars, jobVars
<1>a. Locals \subseteq Threads
  BY DEF Threads
<1>1. ASSUME NEW c \in Conns, RemovePeer(c)
      PROVE  UNCHANGED peers \/ \E i \in 1..Len(peers) : peers' = RemoveAt(peers, i)
  BY <1>1 DEF RemovePeer
<1>2. ASSUME NEW t \in Threads, CloseStep(t) PROVE UNCHANGED peers \/ peers' = <<>>
  BY <1>2 DEF CloseStep, StopRunning, StopWritable, TakePeers, ShutNext, TakeThreads, Join,
              TakeAccept, JoinAccept, localRest
<1>3. ASSUME NEW c \in Conns,
             \/ Dial(c) \/ Ask(c) \/ Leave(c) \/ ReaderEnds(c) \/ Read(c) \/ ShutPeer(c)
             \/ WriterStep(c)
      PROVE  UNCHANGED peers
  BY <1>3 DEF Dial, Ask, Leave, ReaderEnds, Read, ShutPeer, WriterStep, WriterEnds, Take,
              Write, WriterExit, writerRest
<1>4. ASSUME \/ AcceptEnds \/ AcceptFails \/ Accept \/ Greet \/ SpawnWriter \/ SpawnReader
             \/ RecordThreads
      PROVE  UNCHANGED peers
  BY <1>4 DEF AcceptEnds, AcceptFails, Accept, Greet, SpawnWriter, SpawnReader,
              RecordThreads, RefusePeer
<1>5. ASSUME NEW t \in Threads,
             DispatchStep(t) \/ Publish(t) \/ PublishLocal(t) \/ BeginClose(t)
      PROVE  UNCHANGED peers
  BY <1>5 DEF DispatchStep, Match, Put, PutTooSlow, Hear, Publish, PublishLocal, BeginClose,
              dispatchRest, localRest
<1> QED
  BY <1>1, <1>2, <1>3, <1>4, <1>5, <1>a DEF Next, ReaderStep, AcceptStep, vars

\* What a step does to a thread: the accept thread starts a reader, a dispatch
\* begins or goes on, or a thread that does not dispatch moves elsewhere.
Begins == \E t \in Threads :
  BeginDispatch(t) /\ at[t] \in {"read", "publish"}
  /\ UNCHANGED <<flags, lists, accepts, far, backlog, stream, subs, boxVars>>
Leaves == \E t \in Threads :
  /\ at[t] \notin {"none", "put"} /\ (at[t] = "dispatch" => todo[t] = <<>>)
  /\ ~Dispatching(t)' /\ \A u \in Threads \ {t} : at'[u] = at[u] /\ todo'[u] = todo[u]
  /\ UNCHANGED <<msg, count, due>>
Stays == UNCHANGED <<at, jobVars>>

\* The actions, by what they do to the threads' jobs.
LEMMA ThreadMoves ==
  ASSUME RelayType, [Next]_vars
  PROVE  \/ Begins \/ Leaves \/ Stays
         \/ SpawnReader
         \/ \E t \in Threads : Match(t) \/ Put(t) \/ PutTooSlow(t)
<1> USE DEF flags, lists, accepts, farVars, boxVars, jobVars
<1>0. JobType /\ ListType
  BY DEF RelayType
<1>a. Conns \subseteq Threads /\ Locals \subseteq Threads
  BY DEF Threads
<1>1. ASSUME NEW c \in Conns, ReaderEnds(c) \/ RemovePeer(c) \/ ShutPeer(c)
      PROVE  Leaves
  BY <1>0, <1>1, <1>a DEF ReaderEnds, RemovePeer, ShutPeer, readerRest, Leaves, JobType,
                          Dispatching
<1>2. ASSUME NEW c \in Conns, Read(c) PROVE Begins \/ Leaves \/ Stays
  <2>1. CASE BeginDispatch(c) /\ UNCHANGED subs
    BY <1>2, <1>a, <2>1 DEF Read, Begins, readerRest
  <2>2. CASE at' = [at EXCEPT ![c] = "drop"] /\ UNCHANGED jobVars
    BY <1>0, <1>2, <1>a, <2>2 DEF Read, Leaves, JobType, Dispatching
  <2>3. CASE UNCHANGED <<at, jobVars>>
    BY <2>3 DEF Stays
  <2> QED BY <1>0, <1>2, <2>1, <2>2, <2>3, ReadCases
<1>3. ASSUME NEW t \in Threads,
             Hear(t) \/ CloseStep(t) \/ Publish(t) \/ BeginClose(t)
      PROVE  Leaves
  BY <1>0, <1>3 DEF Hear, CloseStep, StopRunning, StopWritable, TakePeers, ShutNext,
      TakeThreads, Join, TakeAccept, JoinAccept, Publish, BeginClose, Home, Closed,
      dispatchRest, localRest, closeRest, Leaves, JobType, Dispatching
<1>4. ASSUME NEW t \in Threads, PublishLocal(t) PROVE Begins
  BY <1>4 DEF PublishLocal, Begins, localRest
<1>5. ASSUME NEW c \in Conns, Dial(c) \/ Ask(c) \/ Leave(c) \/ WriterStep(c)
      PROVE  Stays
  BY <1>5 DEF Dial, Ask, Leave, WriterStep, WriterEnds, Take, Write, WriterExit,
              writerRest, Stays
<1>6. ASSUME AcceptStep PROVE SpawnReader \/ Stays
  BY <1>6 DEF AcceptStep, AcceptEnds, AcceptFails, Accept, Greet, SpawnWriter, PushPeer,
              RecordThreads, acceptRest, Stays
<1>7. ASSUME UNCHANGED vars PROVE Stays
  BY <1>7 DEF vars, Stays
<1> QED
  BY <1>1, <1>2, <1>3, <1>4, <1>5, <1>6, <1>7, <1>a DEF Next, ReaderStep, DispatchStep

\* A reader is started by the accept thread alone.
LEMMA AtNone ==
  ASSUME RelayType, [Next]_vars, NEW c \in Conns, at[c] = "none"
  PROVE  at'[c] = "none" \/ (SpawnReader /\ accept' = "push" /\ c = conn)
<1>0. JobType /\ c \in Threads
  BY DEF RelayType, Threads
<1>1. ASSUME Begins \/ Leaves \/ Stays PROVE at'[c] = "none"
  BY <1>0, <1>1 DEF Begins, BeginDispatch, Leaves, Stays, JobType
<1>2. ASSUME SpawnReader PROVE at'[c] = "none" \/ (accept' = "push" /\ c = conn)
  BY <1>0, <1>2 DEF SpawnReader, JobType, acceptRest
<1>3. ASSUME NEW t \in Threads, Match(t) \/ Put(t) \/ PutTooSlow(t) PROVE at'[c] = "none"
  BY <1>0, <1>3 DEF Match, Put, PutTooSlow, Skip, JobType
<1> QED BY <1>1, <1>2, <1>3, ThreadMoves

\* A writer is started by the accept thread alone.
LEMMA WriterNone ==
  ASSUME RelayType, [Next]_vars, NEW c \in Conns, writer[c] = "none"
  PROVE  writer'[c] = "none" \/ (SpawnWriter /\ accept' = "reader" /\ c = conn)
<1> USE DEF flags, lists, accepts, farVars, boxVars, jobVars
<1>0. BoxType
  BY DEF RelayType
<1>a. Locals \subseteq Threads
  BY DEF Threads
<1>1. ASSUME NEW d \in Conns, WriterStep(d) PROVE writer'[c] = "none"
  BY <1>0, <1>1 DEF WriterStep, WriterEnds, Take, Write, WriterExit, BoxType
<1>2. ASSUME SpawnWriter PROVE writer'[c] = "none" \/ (accept' = "reader" /\ c = conn)
  BY <1>0, <1>2 DEF SpawnWriter, BoxType
<1>3. ASSUME NEW d \in Conns, Dial(d) \/ Ask(d) \/ Leave(d) \/ ReaderStep(d)
      PROVE  UNCHANGED writer
  BY <1>3 DEF Dial, Ask, Leave, ReaderStep, ReaderEnds, Read, RemovePeer, ShutPeer,
              readerRest
<1>4. ASSUME \/ AcceptEnds \/ AcceptFails \/ Accept \/ Greet \/ SpawnReader
             \/ PushPeer \/ RecordThreads
      PROVE  UNCHANGED writer
  BY <1>4 DEF AcceptEnds, AcceptFails, Accept, Greet, SpawnReader, PushPeer, RecordThreads
<1>5. ASSUME NEW t \in Threads,
             DispatchStep(t) \/ CloseStep(t) \/ Publish(t) \/ PublishLocal(t) \/ BeginClose(t)
      PROVE  UNCHANGED writer
  BY <1>5 DEF DispatchStep, Match, Put, PutTooSlow, Hear, CloseStep, StopRunning,
      StopWritable, TakePeers, ShutNext, TakeThreads, Join, TakeAccept, JoinAccept, Publish,
      PublishLocal, BeginClose, dispatchRest, localRest, closeRest
<1> QED
  BY <1>1, <1>2, <1>3, <1>4, <1>5, <1>a DEF Next, AcceptStep, vars

\* Nothing is listed before the first step.
LEMMA ListInit == Init => ListInv
<1> SUFFICES ASSUME Init PROVE ListInv
  OBVIOUS
<1>1. /\ peers = <<>> /\ accept = "listen" /\ backlog = {} /\ due = << >>
      /\ \A c \in Conns : at[c] = "none" /\ writer[c] = "none"
      /\ \A t \in Threads : ~Dispatching(t)
  BY DEF Init, Dispatching, Threads
<1>2. ToSet(peers) = {} /\ Len(peers) = 0 /\ DOMAIN due = {}
  BY <1>1, ToSetEmpty
<1> QED BY <1>1, <1>2 DEF ListInv, Once, Listing

\* Every step keeps a connection listed once.
LEMMA ListNext ==
  ASSUME RelayType, ListInv, [Next]_vars
  PROVE  ListInv'
<1>0. ListType /\ JobType /\ DueType /\ RelayType' /\ GoesOn
  BY TypeNext, Onward DEF RelayType
<1>1. /\ \A c \in Conns : Unlisted(c)' => c \notin ToSet(peers')
      /\ Once(peers')
  <2>1. CASE UNCHANGED peers
    BY <1>0, <2>1 DEF GoesOn, ListInv
  <2>2. CASE peers' = <<>>
    BY <2>2, ToSetEmpty DEF Once
  <2>3. ASSUME NEW i \in 1..Len(peers), peers' = RemoveAt(peers, i)
        PROVE  Once(peers') /\ ToSet(peers') \subseteq ToSet(peers)
    BY <1>0, <2>3, OnceRemove DEF ListType, ListInv
  <2>4. CASE PushPeer
    <3>1. conn \in Conns /\ peers' = Append(peers, conn) /\ accept' = "record"
          /\ UNCHANGED <<conn, far, backlog>> /\ Unlisted(conn) /\ accept = "push"
      BY <1>0, <2>4 DEF PushPeer, ListType, Listing, Unlisted, acceptRest
    <3>2. ASSUME NEW c \in Conns, c = conn PROVE ~Unlisted(c)'
      BY <2>4, <3>1, <3>2 DEF Unlisted, ListInv, Listing
    <3>3. ToSet(peers') = ToSet(peers) \cup {conn}
      BY <1>0, <3>1, ToSetAppend DEF ListType
    <3>4. Once(peers')
      BY <1>0, <3>1, OnceMore DEF ListType, ListInv
    <3> QED BY <1>0, <3>2, <3>3, <3>4 DEF GoesOn, ListInv
  <2> QED BY <1>0, <2>1, <2>2, <2>3, <2>4, PeersMove DEF GoesOn, ListInv
<1>2. \A c \in Conns : Unread(c)' => at'[c] = "none"
  <2>1. ASSUME NEW c \in Conns, c = conn, SpawnReader, accept' = "push" PROVE ~Unread(c)'
    BY <1>0, <2>1 DEF SpawnReader, RefusePeer, acceptRest, farVars, Unread, GoesOn, Listing
  <2> QED BY <1>0, <2>1, AtNone DEF GoesOn, ListInv
<1>3. \A c \in Conns : Unwritten(c)' => writer'[c] = "none"
  <2>1. ASSUME NEW c \in Conns, c = conn, SpawnWriter, accept' = "reader" PROVE ~Unwritten(c)'
    BY <1>0, <2>1 DEF SpawnWriter, RefusePeer, acceptRest, farVars, Unwritten, GoesOn, Listing
  <2> QED BY <1>0, <2>1, WriterNone DEF GoesOn, ListInv
<1>4. \A t \in Threads : Dispatching(t)' => Once(todo'[t])
  <2> SUFFICES ASSUME NEW t \in Threads, Dispatching(t)' PROVE Once(todo'[t])
    BY DEF Once
  <2>1. ASSUME Begins PROVE Once(todo'[t])
    BY <1>0, <2>1 DEF Begins, BeginDispatch, ListInv, JobType, Dispatching
  <2>2. ASSUME Leaves \/ Stays PROVE Once(todo'[t])
    BY <2>2 DEF Leaves, Stays, jobVars, ListInv, Dispatching
  <2>3. ASSUME SpawnReader PROVE Once(todo'[t])
    BY <1>0, <2>3 DEF SpawnReader, acceptRest, jobVars, ListInv, JobType, Dispatching
  <2>4. ASSUME NEW u \in Threads, Match(u) \/ Put(u) \/ PutTooSlow(u)
        PROVE  Once(todo'[t])
    <3>1. todo[u] \in Seq(Conns) /\ todo[u] # <<>> /\ Once(todo[u]) /\ Dispatching(u)
      BY <1>0, <2>4 DEF Match, Put, PutTooSlow, JobType, Dispatching, ListInv
    <3>2. Once(Tail(todo[u]))
      BY <3>1, ToSetTail
    <3>3. at'[t] = at[t] \/ t = u
      BY <1>0, <2>4 DEF Match, Put, PutTooSlow, Skip, JobType
    <3>4. todo' = todo \/ todo' = [todo EXCEPT ![u] = Tail(todo[u])]
      BY <2>4 DEF Match, Put, PutTooSlow, Skip
    <3> QED BY <1>0, <3>1, <3>2, <3>3, <3>4 DEF JobType, Dispatching, ListInv
  <2> QED BY <2>1, <2>2, <2>3, <2>4, ThreadMoves
<1>5. \A m \in DOMAIN due' : \A c \in due'[m] : ~Unlisted(c)'
  <2>1. \A m \in DOMAIN due : due[m] \subseteq Conns /\ \A c \in due[m] : ~Unlisted(c)'
    BY <1>0 DEF DueType, GoesOn, ListInv
  <2>2. ASSUME Begins PROVE \A m \in DOMAIN due' : \A c \in due'[m] : ~Unlisted(c)'
    <3>1. \A c \in ToSet(peers) : c \in Conns /\ ~Unlisted(c)'
      BY <1>0, ToSetIs DEF ListType, GoesOn, ListInv
    <3> QED BY <2>1, <2>2, <3>1 DEF Begins, BeginDispatch
  <2>3. ASSUME NEW t \in Threads, Excuse(t) PROVE \A m \in DOMAIN due' : \A c \in due'[m] : ~Unlisted(c)'
    BY <1>0, <2>1, <2>3 DEF Excuse, DueType
  <2>4. CASE UNCHANGED due
    BY <2>1, <2>4
  <2>5. ASSUME NEW t \in Threads, Match(t) \/ Put(t) \/ PutTooSlow(t)
        PROVE  Excuse(t) \/ UNCHANGED due
    BY <2>5 DEF Match, Put, PutTooSlow
  <2>6. Leaves \/ Stays \/ SpawnReader => UNCHANGED due
    BY DEF Leaves, Stays, SpawnReader, acceptRest, jobVars
  <2> QED BY <2>2, <2>3, <2>4, <2>5, <2>6, ThreadMoves
<1> QED BY <1>0, <1>1, <1>2, <1>3, <1>4, <1>5 DEF ListInv, GoesOn, Once

-----------------------------------------------------------------------------
(* An open outbox has a writer thread, and a shut one is empty.            *)

\* Every outbox is shut and empty before the first step.
LEMMA BoxInit == Init => BoxInv
BY NoMessageIsNone DEF Init, BoxInv

\* Every step keeps an open outbox with its writer, and a shut one empty.
LEMMA BoxNext ==
  ASSUME RelayType, ListInv, BoxInv, [Next]_vars
  PROVE  BoxInv'
<1> USE DEF flags, lists, accepts, farVars, boxVars, jobVars
<1>0. ListType /\ BoxType /\ JobType /\ BoxInv
  BY DEF RelayType
<1>1. ASSUME NEW c \in Conns, ShutPeer(c) PROVE BoxInv'
  BY <1>0, <1>1 DEF ShutPeer, ShutBox, readerRest, BoxType, BoxInv
<1>2. ASSUME NEW c \in Conns, WriterEnds(c) \/ WriterExit(c) PROVE BoxInv'
  BY <1>0, <1>2 DEF WriterEnds, WriterExit, ShutBox, writerRest, BoxType, BoxInv
<1>3. ASSUME NEW c \in Conns, Take(c) PROVE BoxInv'
  <2>1. Head(box[c]) \in Message
    BY <1>0, <1>3, HeadTailProperties, EmptySeq DEF Take, BoxType
  <2> DEFINE h == Head(box[c])
             q == Tail(box[c])
  <2>2. /\ hand' = [hand EXCEPT ![c] = h] /\ box' = [box EXCEPT ![c] = q]
        /\ writer' = [writer EXCEPT ![c] = "write"] /\ UNCHANGED open
        /\ box[c] # <<>> /\ h \in Message
    BY <1>3, <2>1 DEF Take
  <2> HIDE DEF h, q
  <2> QED BY <1>0, <2>2 DEF BoxType, BoxInv
<1>4. ASSUME NEW c \in Conns, Write(c) PROVE BoxInv'
  BY <1>0, <1>4, NoMessageIsNone DEF Write, BoxType, BoxInv
<1>5. ASSUME SpawnWriter PROVE BoxInv'
  <2>1. conn \in Conns /\ writer[conn] = "none"
    BY <1>0, <1>5 DEF SpawnWriter, ListType, ListInv, Listing, Unwritten
  <2>2. ~open[conn]
    BY <1>0, <2>1 DEF BoxInv
  <2> QED BY <1>0, <1>5, <2>1, <2>2 DEF SpawnWriter, acceptRest, BoxType, BoxInv
<1>6. ASSUME NEW t \in Threads, Put(t) PROVE BoxInv'
  BY <1>0, <1>6 DEF Put, dispatchRest, BoxType, BoxInv
<1>7. ASSUME NEW t \in Threads, ShutNext(t) PROVE BoxInv'
  BY <1>0, <1>7 DEF ShutNext, ShutBox, closeRest, BoxType, BoxInv
<1>8. CASE UNCHANGED <<open, box, hand, writer>>
  BY <1>0, <1>8 DEF BoxInv
<1>9. ASSUME NEW c \in Conns,
             Dial(c) \/ Ask(c) \/ Leave(c) \/ ReaderEnds(c) \/ Read(c) \/ RemovePeer(c)
      PROVE  UNCHANGED <<open, box, hand, writer>>
  BY <1>9 DEF Dial, Ask, Leave, ReaderEnds, Read, RemovePeer, readerRest
<1>10. ASSUME \/ AcceptEnds \/ AcceptFails \/ Accept \/ Greet \/ SpawnReader
              \/ PushPeer \/ RecordThreads
       PROVE  UNCHANGED <<open, box, hand, writer>>
  BY <1>10 DEF AcceptEnds, AcceptFails, Accept, Greet, SpawnReader, PushPeer,
               RecordThreads, acceptRest
<1>11. ASSUME NEW t \in Threads,
              \/ Match(t) \/ PutTooSlow(t) \/ Hear(t) \/ StopRunning(t) \/ StopWritable(t)
              \/ TakePeers(t) \/ TakeThreads(t) \/ Join(t) \/ TakeAccept(t)
              \/ JoinAccept(t) \/ Publish(t) \/ PublishLocal(t) \/ BeginClose(t)
       PROVE  UNCHANGED <<open, box, hand, writer>>
  BY <1>11 DEF Match, PutTooSlow, Hear, StopRunning, StopWritable, TakePeers,
               TakeThreads, Join, TakeAccept, JoinAccept, Publish, PublishLocal,
               BeginClose, BeginDispatch, dispatchRest, localRest, closeRest
<1>a. Locals \subseteq Threads
  BY DEF Threads
<1> QED
  BY <1>1, <1>2, <1>3, <1>4, <1>5, <1>6, <1>7, <1>8, <1>9, <1>10, <1>11, <1>a
  DEF Next, ReaderStep, WriterStep, AcceptStep, DispatchStep, CloseStep, vars

-----------------------------------------------------------------------------
(* What a step does to a stream.                                           *)

\* A step that is not a put leaves the stream of a listed peer that still has
\* its connection, and takes from another's at most.
StreamKept(c) ==
  /\ ToSet(StreamOf(c)') \subseteq ToSet(StreamOf(c))
  /\ Ordered(StreamOf(c)) => Ordered(StreamOf(c)')
  /\ ~Unlisted(c) /\ open'[c] /\ stream'[c] =>
       open[c] /\ stream[c] /\ StreamOf(c)' = StreamOf(c)

\* The message in the writer's hand, as a sequence.
InHand(c) == IF hand[c] = NoMessage THEN <<>> ELSE <<hand[c]>>

\* A stream is made of messages.
LEMMA StreamType ==
  ASSUME BoxType, NEW c \in Conns
  PROVE  /\ got[c] \in Seq(Message) /\ box[c] \in Seq(Message) /\ InHand(c) \in Seq(Message)
         /\ StreamOf(c) = got[c] \o InHand(c) \o box[c]
         /\ StreamOf(c) \in Seq(Message)
<1>1. hand[c] = NoMessage \/ hand[c] \in Message
  BY DEF BoxType
<1>2. got[c] \in Seq(Message) /\ box[c] \in Seq(Message) /\ InHand(c) \in Seq(Message)
  BY <1>1 DEF BoxType, InHand
<1> QED BY <1>2, ConcatProperties DEF StreamOf, InHand

\* The fields of the stream as they were: so is the stream.
LEMMA StreamSame ==
  ASSUME NEW c, got'[c] = got[c], hand'[c] = hand[c], box'[c] = box[c]
  PROVE  StreamOf(c)' = StreamOf(c)
BY DEF StreamOf

\* The outbox is shut, and what was in it is gone.
LEMMA StreamShut ==
  ASSUME BoxType, NEW c \in Conns, got'[c] = got[c], hand'[c] = hand[c], box'[c] = <<>>,
         ~open'[c]
  PROVE  StreamKept(c)
<1> DEFINE g == got[c]
           h == InHand(c)
           b == box[c]
<1>1. /\ g \in Seq(Message) /\ h \in Seq(Message) /\ b \in Seq(Message)
      /\ StreamOf(c) = g \o h \o b /\ StreamOf(c)' = g \o h
  <2>1. StreamOf(c)' = g \o h \o <<>>
    BY DEF StreamOf, InHand
  <2>2. g \o h \in Seq(Message)
    BY StreamType, ConcatProperties
  <2>3. g \o h \o <<>> = g \o h
    <3> DEFINE q == g \o h
    <3>1. q \in Seq(Message)
      BY <2>2
    <3> HIDE DEF q
    <3>2. q \o <<>> = q
      BY <3>1, ConcatEmptySeq
    <3> QED BY <3>2 DEF q
  <2> QED BY <2>1, <2>3, StreamType
<1> HIDE DEF g, h, b
<1>2. Ordered(g \o h \o b) => Ordered(g \o h)
  BY <1>1, OrderedWithout
<1>3. ToSet(g \o h) \subseteq ToSet(g \o h \o b)
  <2> DEFINE q == g \o h
  <2>1. q \in Seq(Message)
    BY <1>1, ConcatProperties
  <2> HIDE DEF q
  <2>2. ToSet(q \o b) = ToSet(q) \cup ToSet(b)
    BY <1>1, <2>1, ToSetConcat
  <2> QED BY <2>2 DEF q
<1> QED BY <1>1, <1>2, <1>3 DEF StreamKept

\* The writer takes the first message of the outbox: the stream is as it was.
LEMMA StreamTaken ==
  ASSUME BoxType, NEW c \in Conns, got'[c] = got[c], hand[c] = NoMessage, box[c] # <<>>,
         hand'[c] = Head(box[c]), box'[c] = Tail(box[c])
  PROVE  StreamOf(c)' = StreamOf(c)
<1> DEFINE g == got[c]
           b == box[c]
<1>1. g \in Seq(Message) /\ b \in Seq(Message) /\ b # <<>>
  BY DEF BoxType
<1>2. Head(b) \in Message /\ Tail(b) \in Seq(Message) /\ b = <<Head(b)>> \o Tail(b)
  BY <1>1, HeadThenTail
<1>3. StreamOf(c) = g \o b
  <2>1. StreamOf(c) = g \o <<>> \o b
    BY DEF StreamOf
  <2>2. g \o <<>> = g
    BY <1>1, ConcatEmptySeq
  <2> QED BY <2>1, <2>2
<1>4. StreamOf(c)' = g \o <<Head(b)>> \o Tail(b)
  BY <1>2, NoMessageIsNone DEF StreamOf
<1>5. g \o <<Head(b)>> \o Tail(b) = g \o (<<Head(b)>> \o Tail(b))
  <2> DEFINE h == <<Head(b)>>
             r == Tail(b)
  <2>1. h \in Seq(Message) /\ r \in Seq(Message)
    BY <1>2
  <2> HIDE DEF g, h, r
  <2>2. (g \o h) \o r = g \o (h \o r)
    BY <1>1, <2>1, ConcatAssociative
  <2> QED BY <2>2 DEF h, r
<1> QED BY <1>2, <1>3, <1>4, <1>5

\* The kernel takes the message in the writer's hand: the stream is as it was.
LEMMA StreamWritten ==
  ASSUME BoxType, NEW c \in Conns, hand[c] \in Message, got'[c] = Append(got[c], hand[c]),
         hand'[c] = NoMessage, box'[c] = box[c]
  PROVE  StreamOf(c)' = StreamOf(c)
<1> DEFINE g == got[c]
           b == box[c]
           m == hand[c]
<1>1. g \in Seq(Message) /\ b \in Seq(Message) /\ m \in Message
  BY DEF BoxType
<1>2. StreamOf(c) = g \o <<m>> \o b
  BY <1>1, NoMessageIsNone DEF StreamOf
<1>3. StreamOf(c)' = Append(g, m) \o <<>> \o b
  BY DEF StreamOf
<1> HIDE DEF g, b, m
<1>4. Append(g, m) = g \o <<m>> /\ g \o <<m>> \in Seq(Message)
  BY <1>1, AppendIsConcat, ConcatProperties
<1>5. Append(g, m) \o <<>> = Append(g, m)
  <2> DEFINE q == Append(g, m)
  <2>1. q \in Seq(Message)
    BY <1>1, <1>4
  <2> HIDE DEF q
  <2>2. q \o <<>> = q
    BY <2>1, ConcatEmptySeq
  <2> QED BY <2>2 DEF q
<1> QED BY <1>2, <1>3, <1>4, <1>5

\* A write that fails drops the message in the writer's hand.
LEMMA StreamDropped ==
  ASSUME BoxType, NEW c \in Conns, hand[c] \in Message, got'[c] = got[c],
         hand'[c] = NoMessage, box'[c] = box[c], ~stream'[c]
  PROVE  StreamKept(c)
<1> DEFINE g == got[c]
           b == box[c]
           h == <<hand[c]>>
<1>1. /\ g \in Seq(Message) /\ h \in Seq(Message) /\ b \in Seq(Message)
      /\ StreamOf(c) = g \o h \o b /\ StreamOf(c)' = g \o b
  <2>1. StreamOf(c)' = g \o <<>> \o b
    BY DEF StreamOf
  <2>2. g \in Seq(Message) /\ b \in Seq(Message)
    BY DEF BoxType
  <2>3. g \o <<>> = g
    BY <2>2, ConcatEmptySeq
  <2>4. StreamOf(c) = g \o h \o b
    BY NoMessageIsNone DEF StreamOf
  <2>5. h \in Seq(Message)
    OBVIOUS
  <2> QED BY <2>1, <2>2, <2>3, <2>4, <2>5
<1> HIDE DEF g, h, b
<1>2. Ordered(g \o h \o b) => Ordered(g \o b)
  BY <1>1, OrderedWithout
<1>3. ToSet(g \o b) \subseteq ToSet(g \o h \o b)
  <2> DEFINE q == g \o h
  <2>1. q \in Seq(Message) /\ ToSet(q) = ToSet(g) \cup ToSet(h)
    BY <1>1, ConcatProperties, ToSetConcat
  <2> HIDE DEF q
  <2>2. ToSet(q \o b) = ToSet(q) \cup ToSet(b) /\ ToSet(g \o b) = ToSet(g) \cup ToSet(b)
    BY <1>1, <2>1, ToSetConcat
  <2> QED BY <2>1, <2>2 DEF q
<1> QED BY <1>1, <1>2, <1>3 DEF StreamKept

\* A message goes into the outbox: it is the last of the stream.
LEMMA StreamPut ==
  ASSUME BoxType, NEW c \in Conns, NEW m \in Message, got'[c] = got[c], hand'[c] = hand[c],
         box'[c] = Append(box[c], m)
  PROVE  StreamOf(c)' = Append(StreamOf(c), m)
<1> DEFINE g == got[c] \o InHand(c)
           b == box[c]
<1>1. g \in Seq(Message) /\ b \in Seq(Message) /\ StreamOf(c) = g \o b
  BY StreamType, ConcatProperties
<1>2. StreamOf(c)' = g \o Append(b, m)
  BY DEF StreamOf, InHand
<1> HIDE DEF g, b
<1>3. Append(b, m) = b \o <<m>> /\ <<m>> \in Seq(Message)
  BY <1>1, AppendIsConcat
<1>4. g \o (b \o <<m>>) = (g \o b) \o <<m>>
  BY <1>1, <1>3, ConcatAssociative
<1>5. Append(g \o b, m) = (g \o b) \o <<m>>
  <2> DEFINE q == g \o b
  <2>1. q \in Seq(Message)
    BY <1>1, ConcatProperties
  <2> HIDE DEF q
  <2>2. Append(q, m) = q \o <<m>>
    BY <2>1, AppendIsConcat
  <2> QED BY <2>2 DEF q
<1> QED BY <1>1, <1>2, <1>3, <1>4, <1>5

\* A put, and what it does to the stream of the peer it is for.
PutsIn(t, c) ==
  /\ at[t] = "put" /\ c = Head(todo[t]) /\ open[c] /\ Skip(t)
  /\ StreamOf(c)' = Append(StreamOf(c), msg[t])
  /\ \A d \in Conns \ {c} : StreamOf(d)' = StreamOf(d)
  /\ UNCHANGED <<flags, lists, accepts, farVars, stream, open, msg, count, due>>

\* A put is into an open outbox, or changes no stream.
LEMMA PutMoves ==
  ASSUME RelayType, NEW t \in Threads, Put(t)
  PROVE  \/ ~open[Head(todo[t])] /\ \A c \in Conns : StreamKept(c)
         \/ \E c \in Conns : PutsIn(t, c)
<1> USE DEF flags, lists, accepts, farVars, boxVars, jobVars
<1>0. BoxType /\ JobType
  BY DEF RelayType
<1>1. todo[t] \in Seq(Conns) /\ todo[t] # <<>> /\ msg[t] \in Message
  BY <1>0 DEF Put, JobType, Dispatching
<1>2. PICK c \in Conns : c = Head(todo[t])
  BY <1>1, HeadTailProperties, EmptySeq
<1>3. CASE open[c]
  <2>0. box' = [box EXCEPT ![c] = Append(@, msg[t])] /\ UNCHANGED due
    BY <1>2, <1>3 DEF Put
  <2>1. StreamOf(c)' = Append(StreamOf(c), msg[t])
    BY <1>0, <1>1, <2>0, StreamPut DEF Put, dispatchRest, BoxType
  <2>2. ASSUME NEW d \in Conns \ {c} PROVE StreamOf(d)' = StreamOf(d)
    BY <1>0, <2>0, StreamSame DEF Put, dispatchRest, BoxType
  <2> QED BY <1>2, <1>3, <2>0, <2>1, <2>2 DEF Put, dispatchRest, PutsIn
<1>4. CASE ~open[c]
  <2>1. UNCHANGED <<got, hand, box, open, stream>>
    BY <1>2, <1>4 DEF Put, dispatchRest
  <2>2. \A d \in Conns : StreamKept(d)
    BY <2>1, StreamSame DEF StreamKept
  <2> QED BY <1>2, <1>4, <2>2
<1> QED BY <1>3, <1>4

\* Every step leaves each stream of a peer alone, or takes from it and takes the
\* peer's connection, or is a put.
LEMMA StreamMoves ==
  ASSUME RelayType, ListInv, BoxInv, [Next]_vars
  PROVE  \/ \A c \in Conns : StreamKept(c)
         \/ \E t \in Threads : \E c \in Conns : Put(t) /\ PutsIn(t, c)
<1> USE DEF flags, lists, accepts, farVars, boxVars, jobVars
<1>0. ListType /\ BoxType /\ JobType
  BY DEF RelayType
<1>a. Locals \subseteq Threads
  BY DEF Threads
<1>k. ASSUME NEW d \in Conns, got'[d] = got[d], hand'[d] = hand[d], box'[d] = box[d],
             ~Unlisted(d) /\ open'[d] /\ stream'[d] => open[d] /\ stream[d]
      PROVE  StreamKept(d)
  <2>1. StreamOf(d)' = StreamOf(d)
    BY <1>k, StreamSame
  <2> QED BY <1>k, <2>1 DEF StreamKept
<1>1. ASSUME NEW c \in Conns, ShutPeer(c) \/ WriterExit(c)
      PROVE  \A d \in Conns : StreamKept(d)
  <2> TAKE d \in Conns
  <2>1. CASE d = c
    BY <1>0, <1>1, <2>1, StreamShut
    DEF ShutPeer, WriterExit, ShutBox, readerRest, BoxType
  <2>2. CASE d # c
    BY <1>0, <1>1, <1>k, <2>2 DEF ShutPeer, WriterExit, ShutBox, readerRest, BoxType
  <2> QED BY <2>1, <2>2
<1>2. ASSUME NEW t \in Threads, ShutNext(t)
      PROVE  \A d \in Conns : StreamKept(d)
  <2> TAKE d \in Conns
  <2>1. CASE d = Head(todo[t])
    BY <1>0, <1>2, <2>1, StreamShut DEF ShutNext, ShutBox, closeRest, BoxType
  <2>2. CASE d # Head(todo[t])
    BY <1>0, <1>2, <1>k, <2>2 DEF ShutNext, ShutBox, closeRest, BoxType
  <2> QED BY <2>1, <2>2
<1>3. ASSUME NEW c \in Conns, Take(c)
      PROVE  \A d \in Conns : StreamKept(d)
  <2> TAKE d \in Conns
  <2>0. hand[c] = NoMessage
    BY <1>0, <1>3 DEF Take, BoxType, BoxInv
  <2>1. CASE d = c
    <3>1. StreamOf(d)' = StreamOf(d)
      BY <1>0, <1>3, <2>0, <2>1, StreamTaken DEF Take, BoxType
    <3> QED BY <1>3, <3>1 DEF Take, StreamKept
  <2>2. CASE d # c
    BY <1>0, <1>3, <1>k, <2>2 DEF Take, BoxType
  <2> QED BY <2>1, <2>2
<1>4. ASSUME NEW c \in Conns, Write(c)
      PROVE  \A d \in Conns : StreamKept(d)
  <2> TAKE d \in Conns
  <2>0. hand[c] \in Message
    BY <1>0, <1>4 DEF Write, BoxType
  <2>1. CASE d = c /\ UNCHANGED stream /\ got' = [got EXCEPT ![c] = Append(@, hand[c])]
    <3>1. StreamOf(d)' = StreamOf(d)
      BY <1>0, <1>4, <2>0, <2>1, StreamWritten DEF Write, BoxType
    <3> QED BY <1>4, <2>1, <3>1 DEF Write, StreamKept
  <2>2. CASE d = c /\ stream' = [stream EXCEPT ![c] = FALSE] /\ UNCHANGED got
    BY <1>0, <1>4, <2>0, <2>2, StreamDropped DEF Write, BoxType
  <2>3. CASE d # c
    BY <1>0, <1>4, <1>k, <2>3 DEF Write, BoxType
  <2> QED BY <1>4, <2>1, <2>2, <2>3 DEF Write
<1>5. ASSUME Accept PROVE \A d \in Conns : StreamKept(d)
  BY <1>0, <1>5, <1>k DEF Accept, acceptRest, ListType, BoxType, Unlisted
<1>6. ASSUME Greet \/ SpawnWriter PROVE \A d \in Conns : StreamKept(d)
  BY <1>0, <1>6, <1>k DEF Greet, SpawnWriter, acceptRest, ListType, BoxType, Unlisted
<1>7. ASSUME NEW t \in Threads, Put(t)
      PROVE  \/ \A c \in Conns : StreamKept(c)
             \/ \E c \in Conns : PutsIn(t, c)
  BY <1>7, PutMoves
<1>8. ASSUME UNCHANGED <<got, hand, box, open, stream>> PROVE \A d \in Conns : StreamKept(d)
  BY <1>8, <1>k
<1>9. ASSUME NEW c \in Conns,
             \/ Dial(c) \/ Ask(c) \/ Leave(c) \/ ReaderEnds(c) \/ Read(c) \/ RemovePeer(c)
             \/ WriterEnds(c)
      PROVE  UNCHANGED <<got, hand, box, open, stream>>
  BY <1>9 DEF Dial, Ask, Leave, ReaderEnds, Read, RemovePeer, WriterEnds, readerRest
<1>10. ASSUME AcceptEnds \/ AcceptFails \/ SpawnReader \/ PushPeer \/ RecordThreads
       PROVE  UNCHANGED <<got, hand, box, open, stream>>
  BY <1>10 DEF AcceptEnds, AcceptFails, SpawnReader, PushPeer, RecordThreads, acceptRest
<1>11. ASSUME NEW t \in Threads,
              \/ Match(t) \/ PutTooSlow(t) \/ Hear(t) \/ StopRunning(t) \/ StopWritable(t)
              \/ TakePeers(t) \/ TakeThreads(t) \/ Join(t) \/ TakeAccept(t)
              \/ JoinAccept(t) \/ Publish(t) \/ PublishLocal(t) \/ BeginClose(t)
       PROVE  UNCHANGED <<got, hand, box, open, stream>>
  BY <1>11 DEF Match, PutTooSlow, Hear, StopRunning, StopWritable, TakePeers,
               TakeThreads, Join, TakeAccept, JoinAccept, Publish, PublishLocal,
               BeginClose, dispatchRest, localRest, closeRest
<1>12. ASSUME UNCHANGED vars PROVE UNCHANGED <<got, hand, box, open, stream>>
  BY <1>12 DEF vars
<1> QED
  BY <1>1, <1>2, <1>3, <1>4, <1>5, <1>6, <1>7, <1>8, <1>9, <1>10, <1>11, <1>12, <1>a
  DEF Next, ReaderStep, WriterStep, AcceptStep, DispatchStep, CloseStep

-----------------------------------------------------------------------------
(* The order of a stream, and its completeness.                            *)

\* A thread that still dispatches does what it did, and has no more to visit.
ThreadKept(t) ==
  Dispatching(t)' =>
    /\ Dispatching(t) /\ msg'[t] = msg[t]
    /\ ToSet(todo'[t]) \subseteq ToSet(todo[t])

\* What is due was due, and a dispatch that had a due peer before it still has.
StillDue ==
  /\ DOMAIN due' = DOMAIN due
  /\ \A m \in DOMAIN due : \A c \in due'[m] :
       /\ c \in due[m]
       /\ msg[m.by] = m /\ Dispatching(m.by) /\ c \in ToSet(todo[m.by]) =>
            msg'[m.by] = m /\ Dispatching(m.by)' /\ c \in ToSet(todo'[m.by])

\* A step in which no dispatch begins and nothing is put.
Quiet ==
  /\ \A t \in Threads : ThreadKept(t)
  /\ StillDue
  /\ UNCHANGED count

\* The fields of a thread are as they were.
LEMMA ThreadSame ==
  ASSUME NEW t, at'[t] = at[t], todo'[t] = todo[t], msg'[t] = msg[t]
  PROVE  /\ ThreadKept(t) /\ Dispatching(t)' = Dispatching(t)
BY DEF ThreadKept, Dispatching

\* A thread goes on to the next peer, whom it need not visit where it is excused.
LEMMA SkipQuiet ==
  ASSUME RelayType, ListInv, NEW t \in Threads, Dispatching(t), todo[t] # <<>>, Skip(t),
         Excuse(t), UNCHANGED <<msg, count>>
  PROVE  Quiet
<1>0. JobType /\ DueType /\ todo[t] \in Seq(Conns) /\ Once(todo[t])
  BY DEF RelayType, JobType, ListInv
<1>1. /\ ToSet(todo[t]) = {Head(todo[t])} \cup ToSet(Tail(todo[t]))
      /\ Head(todo[t]) \notin ToSet(Tail(todo[t]))
  BY <1>0, ToSetTail
<1>2. /\ todo'[t] = Tail(todo[t]) /\ at'[t] = "dispatch"
      /\ \A u \in Threads \ {t} : todo'[u] = todo[u] /\ at'[u] = at[u]
  BY <1>0 DEF Skip, JobType
<1>3. ASSUME NEW u \in Threads PROVE ThreadKept(u)
  BY <1>1, <1>2 DEF ThreadKept, Dispatching
<1>4. DOMAIN due' = DOMAIN due
  BY DEF Excuse
<1>5. ASSUME NEW m \in DOMAIN due, NEW c \in due'[m]
      PROVE  /\ c \in due[m]
             /\ msg[m.by] = m /\ Dispatching(m.by) /\ c \in ToSet(todo[m.by]) =>
                  msg'[m.by] = m /\ Dispatching(m.by)' /\ c \in ToSet(todo'[m.by])
  <2>1. m.by \in Threads
    BY <1>0 DEF DueType, Message
  <2>2. due'[m] = IF m = msg[t] THEN due[m] \ {Head(todo[t])} ELSE due[m]
    BY <1>0 DEF Excuse, DueType
  <2>3. CASE m.by = t
    BY <1>1, <1>2, <1>5, <2>2, <2>3 DEF Dispatching
  <2>4. CASE m.by # t
    BY <1>2, <1>5, <2>1, <2>2, <2>4 DEF Dispatching
  <2> QED BY <2>3, <2>4
<1> QED BY <1>3, <1>4, <1>5 DEF Quiet, StillDue

\* Every other step of a thread in which no dispatch begins and nothing is put.
LEMMA QuietThreads ==
  ASSUME RelayType, ListInv,
         \/ Leaves \/ Stays \/ SpawnReader
         \/ \E t \in Threads : \/ Match(t) \/ PutTooSlow(t)
                               \/ Put(t) /\ ~open[Head(todo[t])]
  PROVE  Quiet
<1>0. JobType /\ DueType /\ ListType
  BY DEF RelayType
<1>m. ASSUME NEW m \in DOMAIN due PROVE m.by \in Threads
  BY <1>0, <1>m DEF DueType, Message
<1>1. ASSUME Leaves PROVE Quiet
  <2>1. PICK t \in Threads :
          /\ at[t] \notin {"none", "put"} /\ (at[t] = "dispatch" => todo[t] = <<>>)
          /\ ~Dispatching(t)' /\ \A u \in Threads \ {t} : at'[u] = at[u] /\ todo'[u] = todo[u]
          /\ UNCHANGED <<msg, count, due>>
    BY <1>1 DEF Leaves
  <2>2. ASSUME NEW u \in Threads PROVE ThreadKept(u)
    BY <2>1 DEF ThreadKept, Dispatching
  <2>3. Dispatching(t) => ToSet(todo[t]) = {}
    BY <2>1, ToSetEmpty DEF Dispatching
  <2>4. StillDue
    BY <1>m, <2>1, <2>3 DEF StillDue, Dispatching
  <2> QED BY <2>1, <2>2, <2>4 DEF Quiet
<1>2. ASSUME Stays PROVE Quiet
  BY <1>2 DEF Stays, jobVars, Quiet, ThreadKept, StillDue, Dispatching
<1>3. ASSUME SpawnReader PROVE Quiet
  <2>1. conn \in Threads /\ at[conn] = "none"
    BY <1>0, <1>3 DEF SpawnReader, ListType, Listing, ListInv, Unread, Threads
  <2>2. /\ UNCHANGED <<todo, msg, count, due>>
        /\ UNCHANGED at \/ at' = [at EXCEPT ![conn] = "read"]
    BY <1>3 DEF SpawnReader, acceptRest, jobVars
  <2>3. ASSUME NEW u \in Threads PROVE Dispatching(u)' = Dispatching(u)
    BY <1>0, <2>1, <2>2 DEF Dispatching, JobType
  <2> QED BY <1>m, <2>2, <2>3 DEF Quiet, ThreadKept, StillDue
<1>4. ASSUME NEW t \in Threads, PutTooSlow(t) \/ (Put(t) /\ ~open[Head(todo[t])])
      PROVE  Quiet
  <2>1. /\ Dispatching(t) /\ todo[t] # <<>> /\ Skip(t) /\ Excuse(t)
        /\ UNCHANGED <<msg, count>>
    BY <1>0, <1>4 DEF PutTooSlow, Put, dispatchRest, JobType, Dispatching
  <2> QED BY <2>1, SkipQuiet
<1>5. ASSUME NEW t \in Threads, Match(t) PROVE Quiet
  <2>1. Dispatching(t) /\ todo[t] # <<>> /\ UNCHANGED <<msg, count>>
    BY <1>5 DEF Match, dispatchRest, Dispatching
  <2>2. CASE Skip(t) /\ Excuse(t)
    BY <2>1, <2>2, SkipQuiet
  <2>3. CASE at' = [at EXCEPT ![t] = "put"] /\ UNCHANGED <<todo, due>>
    <3>1. ASSUME NEW u \in Threads PROVE Dispatching(u)' = Dispatching(u)
      BY <1>0, <2>1, <2>3 DEF Dispatching, JobType
    <3> QED BY <1>m, <2>1, <2>3, <3>1 DEF Quiet, ThreadKept, StillDue
  <2> QED BY <1>5, <2>2, <2>3 DEF Match
<1> QED BY <1>1, <1>2, <1>3, <1>4, <1>5

\* In a quiet step the streams stay ordered and what is due comes.
LEMMA QuietKeeps ==
  ASSUME RelayType, ListInv, OrderInv, MatchInv, Quiet, \A c \in Conns : StreamKept(c)
  PROVE  OrderInv' /\ MatchInv'
<1>0. JobType /\ DueType
  BY DEF RelayType
<1>1. \A c \in Conns : Ordered(StreamOf(c)')
  BY DEF OrderInv, StreamKept
<1>2. \A c \in Conns : \A n \in ToSet(StreamOf(c)') : n.nth <= count'[n.by]
  BY DEF OrderInv, StreamKept, Quiet
<1>3. ASSUME NEW t \in Threads, Dispatching(t)'
      PROVE  /\ msg'[t] = [by |-> t, nth |-> count'[t]]
             /\ \A c \in Conns : c \in ToSet(todo'[t]) => msg'[t] \notin ToSet(StreamOf(c)')
  BY <1>3 DEF OrderInv, StreamKept, Quiet, ThreadKept
<1>4. ASSUME NEW m \in DOMAIN due', NEW c \in due'[m], open'[c], stream'[c]
      PROVE  \/ m \in ToSet(StreamOf(c)')
             \/ msg'[m.by] = m /\ Dispatching(m.by)' /\ c \in ToSet(todo'[m.by])
  <2>1. m \in DOMAIN due /\ c \in due[m] /\ c \in Conns /\ ~Unlisted(c)
    BY <1>0, <1>4 DEF Quiet, StillDue, DueType, ListInv
  <2>2. open[c] /\ stream[c] /\ StreamOf(c)' = StreamOf(c)
    BY <1>4, <2>1 DEF StreamKept
  <2> QED BY <1>4, <2>1, <2>2 DEF MatchInv, Quiet, StillDue
<1> QED BY <1>1, <1>2, <1>3, <1>4 DEF OrderInv, MatchInv

\* A put is the last of its publisher in the stream.
LEMMA PutKeeps ==
  ASSUME RelayType, ListInv, OrderInv, MatchInv, NEW t \in Threads, NEW c \in Conns,
         PutsIn(t, c)
  PROVE  OrderInv' /\ MatchInv'
<1>0. BoxType /\ JobType /\ DueType
  BY DEF RelayType
<1> DEFINE m == msg[t]
           s == StreamOf(c)
<1>1. /\ Dispatching(t) /\ todo[t] \in Seq(Conns) /\ todo[t] # <<>> /\ Once(todo[t])
      /\ m \in Message /\ m = [by |-> t, nth |-> count[t]]
  BY <1>0 DEF PutsIn, JobType, Dispatching, ListInv, OrderInv
<1>2. /\ ToSet(todo[t]) = {c} \cup ToSet(Tail(todo[t])) /\ c \notin ToSet(Tail(todo[t]))
  BY <1>1, ToSetTail DEF PutsIn
<1>3. /\ todo'[t] = Tail(todo[t]) /\ at'[t] = "dispatch"
      /\ \A u \in Threads \ {t} : todo'[u] = todo[u] /\ at'[u] = at[u]
      /\ UNCHANGED <<msg, count, due, open, stream>>
  BY <1>0 DEF PutsIn, Skip, JobType
<1>4. /\ StreamOf(c)' = Append(s, m) /\ s \in Seq(Message)
      /\ \A d \in Conns \ {c} : StreamOf(d)' = StreamOf(d)
  BY <1>0, StreamType DEF PutsIn
<1>5. ToSet(StreamOf(c)') = ToSet(s) \cup {m}
  BY <1>1, <1>4, ToSetAppend
<1>6. m \notin ToSet(s) /\ Ordered(s) /\ \A n \in ToSet(s) : n.nth <= count[n.by]
  BY <1>1, <1>2 DEF OrderInv
<1>7. ASSUME NEW n \in ToSet(s), n.by = m.by PROVE n.nth < m.nth
  <2>1. n \in Message
    BY <1>4, ToSetIs
  <2>2. n = [by |-> n.by, nth |-> n.nth] /\ n.nth \in Nat
    BY <2>1 DEF Message
  <2>3. n.nth <= count[t] /\ n.nth # count[t] /\ count[t] \in Nat
    BY <1>0, <1>1, <1>6, <1>7, <2>2 DEF JobType
  <2> QED BY <1>1, <2>2, <2>3
<1>8. Ordered(StreamOf(c)')
  BY <1>1, <1>4, <1>6, <1>7, OrderedAppend
<1> HIDE DEF m, s
<1>9. \A d \in Conns : Ordered(StreamOf(d)')
  BY <1>4, <1>8 DEF OrderInv
<1>10. \A d \in Conns : \A n \in ToSet(StreamOf(d)') : n.nth <= count'[n.by]
  <2>1. m.nth <= count[m.by]
    BY <1>0, <1>1 DEF JobType
  <2>2. ASSUME NEW n \in ToSet(StreamOf(c)') PROVE n.nth <= count'[n.by]
    BY <1>3, <1>5, <1>6, <2>1, <2>2
  <2>3. ASSUME NEW d \in Conns \ {c}, NEW n \in ToSet(StreamOf(d)') PROVE n.nth <= count'[n.by]
    BY <1>3, <1>4, <2>3 DEF OrderInv
  <2> QED BY <2>2, <2>3
<1>11. ASSUME NEW u \in Threads, Dispatching(u)'
       PROVE  /\ msg'[u] = [by |-> u, nth |-> count'[u]]
              /\ \A d \in Conns : d \in ToSet(todo'[u]) => msg'[u] \notin ToSet(StreamOf(d)')
  <2>1. Dispatching(u) /\ ToSet(todo'[u]) \subseteq ToSet(todo[u])
    BY <1>1, <1>2, <1>3, <1>11 DEF Dispatching
  <2>2. /\ msg'[u] = [by |-> u, nth |-> count'[u]]
        /\ \A d \in Conns : d \in ToSet(todo[u]) => msg[u] \notin ToSet(StreamOf(d))
    BY <1>3, <2>1 DEF OrderInv
  <2>3. c \in ToSet(todo'[u]) => msg'[u] # m
    <3>1. CASE u = t
      BY <1>2, <1>3, <3>1
    <3>2. CASE u # t
      BY <1>1, <2>2, <3>2
    <3> QED BY <3>1, <3>2
  <2> QED BY <1>3, <1>4, <1>5, <2>1, <2>2, <2>3 DEF s
<1>12. ASSUME NEW n \in DOMAIN due', NEW d \in due'[n], open'[d], stream'[d]
       PROVE  \/ n \in ToSet(StreamOf(d)')
              \/ msg'[n.by] = n /\ Dispatching(n.by)' /\ d \in ToSet(todo'[n.by])
  <2>1. d \in Conns /\ n.by \in Threads
    BY <1>0, <1>3, <1>12 DEF DueType, Message
  <2>2. CASE n \in ToSet(StreamOf(d))
    BY <1>4, <1>5, <2>1, <2>2 DEF s
  <2>3. CASE msg[n.by] = n /\ Dispatching(n.by) /\ d \in ToSet(todo[n.by])
    <3>1. CASE n.by # t
      BY <1>3, <2>1, <2>3, <3>1 DEF Dispatching
    <3>2. CASE n.by = t
      BY <1>2, <1>3, <1>5, <2>3, <3>2 DEF Dispatching, m
    <3> QED BY <3>1, <3>2
  <2> QED BY <1>3, <1>12, <2>2, <2>3 DEF MatchInv
<1> QED BY <1>9, <1>10, <1>11, <1>12 DEF OrderInv, MatchInv

\* A dispatch that begins has a message nobody has, and every peer to visit.
LEMMA BeginKeeps ==
  ASSUME RelayType, ListInv, OrderInv, MatchInv, Begins
  PROVE  OrderInv' /\ MatchInv'
<1>0. ListType /\ BoxType /\ JobType /\ DueType
  BY DEF RelayType
<1>1. PICK t \in Threads :
        BeginDispatch(t) /\ at[t] \in {"read", "publish"}
        /\ UNCHANGED <<flags, lists, accepts, far, backlog, stream, subs, boxVars>>
  BY DEF Begins
<1> DEFINE m == [by |-> t, nth |-> count[t] + 1]
<1>2. /\ count' = [count EXCEPT ![t] = count[t] + 1] /\ msg' = [msg EXCEPT ![t] = m]
      /\ todo' = [todo EXCEPT ![t] = peers] /\ at' = [at EXCEPT ![t] = "dispatch"]
      /\ DOMAIN due' = DOMAIN due \cup {m}
      /\ \A n \in DOMAIN due' : due'[n] = IF n = m
           THEN {c \in ToSet(peers) : subs[c] > 0 /\ open[c]} ELSE due[n]
  BY <1>1 DEF BeginDispatch
<1>3. m.by = t /\ m.nth = count[t] + 1 /\ count[t] \in Nat
  BY <1>0 DEF JobType
<1>4. \A c \in Conns : StreamOf(c)' = StreamOf(c)
  BY <1>1, StreamSame DEF boxVars
<1>5. ASSUME NEW c \in Conns PROVE m \notin ToSet(StreamOf(c))
  <2>1. m \in ToSet(StreamOf(c)) => m.nth <= count[m.by]
    BY DEF OrderInv
  <2> QED BY <1>3, <2>1
<1>6. UNCHANGED <<open, stream>>
  BY <1>1 DEF boxVars
<1> HIDE DEF m
<1>7. ASSUME NEW c \in Conns, NEW n \in ToSet(StreamOf(c)') PROVE n.nth <= count'[n.by]
  <2>1. n \in Message /\ n.nth <= count[n.by]
    BY <1>0, <1>4, <1>7, StreamType, ToSetIs DEF OrderInv
  <2>2. n.by \in Threads /\ n.nth \in Nat
    BY <2>1 DEF Message
  <2>3. count[n.by] \in Nat /\ count[n.by] <= count'[n.by] /\ count'[n.by] \in Nat
    BY <1>0, <1>2, <2>2 DEF JobType
  <2> QED BY <2>1, <2>2, <2>3
<1>8. ASSUME NEW u \in Threads, Dispatching(u)'
      PROVE  /\ msg'[u] = [by |-> u, nth |-> count'[u]]
             /\ \A c \in Conns : c \in ToSet(todo'[u]) => msg'[u] \notin ToSet(StreamOf(c)')
  <2>1. CASE u = t
    <3>1. msg'[u] = m /\ count'[u] = count[t] + 1
      BY <1>0, <1>2, <2>1 DEF JobType
    <3> QED BY <1>4, <1>5, <2>1, <3>1 DEF m
  <2>2. CASE u # t
    BY <1>0, <1>2, <1>4, <1>8, <2>2 DEF OrderInv, Dispatching, JobType
  <2> QED BY <2>1, <2>2
<1>9. ASSUME NEW n \in DOMAIN due', NEW c \in due'[n], open'[c], stream'[c]
      PROVE  \/ n \in ToSet(StreamOf(c)')
             \/ msg'[n.by] = n /\ Dispatching(n.by)' /\ c \in ToSet(todo'[n.by])
  <2>1. CASE n = m
    BY <1>0, <1>2, <1>3, <1>9, <2>1 DEF JobType, Dispatching
  <2>2. CASE n # m
    <3>1. n \in DOMAIN due /\ c \in due[n] /\ n.by \in Threads /\ c \in Conns
      BY <1>0, <1>2, <1>9, <2>2 DEF DueType, Message
    <3>2. n \in ToSet(StreamOf(c)) \/ (msg[n.by] = n /\ Dispatching(n.by) /\ c \in ToSet(todo[n.by]))
      BY <1>6, <1>9, <3>1 DEF MatchInv
    <3>3. ~Dispatching(t)
      BY <1>1 DEF Dispatching
    <3> QED BY <1>0, <1>2, <1>4, <3>1, <3>2, <3>3 DEF JobType, Dispatching
  <2> QED BY <2>1, <2>2
<1>10. \A c \in Conns : Ordered(StreamOf(c)')
  BY <1>4 DEF OrderInv
<1> QED BY <1>7, <1>8, <1>9, <1>10 DEF OrderInv, MatchInv

\* Nothing is in a stream, and nothing due, before the first step.
LEMMA OrderInit == Init => OrderInv /\ MatchInv
<1> SUFFICES ASSUME Init PROVE OrderInv /\ MatchInv
  OBVIOUS
<1>1. ASSUME NEW c \in Conns PROVE StreamOf(c) = <<>>
  <2>1. got[c] = <<>> /\ hand[c] = NoMessage /\ box[c] = <<>>
    BY DEF Init
  <2>2. StreamOf(c) = <<>> \o <<>> \o <<>>
    BY <2>1 DEF StreamOf
  <2> QED BY <2>2
<1>2. /\ DOMAIN due = {} /\ \A t \in Threads : ~Dispatching(t)
  BY DEF Init, Dispatching
<1>3. \A c \in Conns : ToSet(StreamOf(c)) = {} /\ Ordered(StreamOf(c))
  BY <1>1, ToSetEmpty DEF Ordered
<1> QED BY <1>2, <1>3 DEF OrderInv, MatchInv

\* Every step keeps the streams ordered and what is due coming.
LEMMA OrderNext ==
  ASSUME RelayInv, [Next]_vars
  PROVE  OrderInv' /\ MatchInv'
<1>0. RelayType /\ ListInv /\ BoxInv /\ OrderInv /\ MatchInv
  BY DEF RelayInv
<1>1. ASSUME NEW t \in Threads, NEW c \in Conns, PutsIn(t, c) PROVE OrderInv' /\ MatchInv'
  BY <1>0, <1>1, PutKeeps
<1>2. ASSUME Begins PROVE OrderInv' /\ MatchInv'
  BY <1>0, <1>2, BeginKeeps
<1>3. ASSUME \A c \in Conns : StreamKept(c),
             \/ Leaves \/ Stays \/ SpawnReader
             \/ \E t \in Threads : Match(t) \/ PutTooSlow(t) \/ (Put(t) /\ ~open[Head(todo[t])])
      PROVE  OrderInv' /\ MatchInv'
  BY <1>0, <1>3, QuietThreads, QuietKeeps
<1>4. ASSUME NEW t \in Threads, Put(t) PROVE OrderInv' /\ MatchInv'
  BY <1>0, <1>1, <1>3, <1>4, PutMoves
<1> QED
  BY <1>0, <1>1, <1>2, <1>3, <1>4, StreamMoves, ThreadMoves

-----------------------------------------------------------------------------
(* What follows.                                                           *)

\* The state of a relay: its lists, outboxes and streams are in order for any
\* number of connections and threads.
THEOREM RelayCorrect == Spec => []RelayInv
<1>1. Init => RelayInv
  BY TypeInit, ListInit, BoxInit, OrderInit DEF RelayInv
<1>2. RelayInv /\ [Next]_vars => RelayInv'
  BY TypeNext, ListNext, BoxNext, OrderNext DEF RelayInv
<1> QED BY <1>1, <1>2, PTL DEF Spec

\* A message goes only into an outbox whose writer thread is there to take it:
\* put_message under the outbox's lock, and shut by who ends the connection.
THEOREM NoMessageStrandedHolds == Spec => []NoMessageStranded
<1>1. RelayInv => NoMessageStranded
  BY DEF RelayInv, BoxInv, NoMessageStranded
<1> QED BY <1>1, RelayCorrect, PTL

\* The stream of one peer has each publisher's messages in the order dispatch
\* was called with them, and none twice.
THEOREM InOrderOnceHolds == Spec => []InOrderOnce
<1>1. RelayInv => InOrderOnce
  BY DEF RelayInv, OrderInv, Ordered, InOrderOnce
<1> QED BY <1>1, RelayCorrect, PTL

\* A peer that dispatch found in the list, subscribed and with its outbox open has
\* the message in its stream when the dispatch is over, unless it was excused.
THEOREM EveryMatchGetsItHolds == Spec => []EveryMatchGetsIt
<1>1. RelayInv => EveryMatchGetsIt
  BY DEF RelayInv, MatchInv, EveryMatchGetsIt, Dispatching
<1> QED BY <1>1, RelayCorrect, PTL
=============================================================================
