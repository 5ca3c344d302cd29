--------------------------- MODULE LogWriterProofs ---------------------------
(***************************************************************************)
(* For every capacity of BufWriter, and any threads, payloads and times: the *)
(* properties of module LogWriter, and GivenAsWritten, in the specification *)
(* of LogReplay, where sessions of a writer come before a replay.           *)
(*                                                                         *)
(* For the sessions: nothing is put behind a part of an event (WriterInv).  *)
(* For the replay: what they left are whole events up to the first tear,    *)
(* each where the one in front of it ends (PastInv), and a reader that goes *)
(* from one to the next gave what it owes up to there (ReaderInv).          *)
(***************************************************************************)
EXTENDS LogReplay, SequenceLemmas

\* What `t` has behind `s`.
Behind(s, t) == SubSeq(t, Len(s) + 1, Len(t))
StartsWith(t, s) == t = s \o Behind(s, t)

\* What an event that was taken is, and a publish that waits for the lock.
Taken == [number : Nat, timestamp : Nat, payload : Seq(Nat), plain : BOOLEAN]
Job == [payload : Seq(Nat), timestamp : Nat \cup {NoTime}, plain : BOOLEAN]

\* An event of a log, and as many of the first cells of one as there are.
Written == {e \in [number : Nat, timestamp : Nat, payload : Seq(Nat)] : Encodes(e)}
Begins(cells, e) ==
  Len(cells) < Len(encode(e)) /\ \A k \in 1..Len(cells) : cells[k] = encode(e)[k]

WriterType ==
  /\ file \in Seq(Nat) /\ buffer \in Seq(Nat) /\ base \in Seq(Nat)
  /\ taken \in Seq(Taken) /\ events = Len(taken) /\ saved \in 0..Len(taken)
  /\ job \in [Threads -> Job] /\ clock \in Nat /\ writable \in BOOLEAN
  /\ session \in {"none", "open", "closing", "ok", "failed"}

\* What is taken encodes and is numbered, and its plain times are those of the
\* clock.
TakenInOrder ==
  /\ \A i \in 1..Len(taken) : Encodes(taken[i])
  /\ \A i \in 1..Len(taken) : taken[i].number = i - 1
  /\ \A i \in 1..Len(taken) : taken[i].plain => taken[i].timestamp <= clock
  /\ \A i, j \in 1..Len(taken) :
       i < j /\ taken[i].plain /\ taken[j].plain => taken[i].timestamp <= taken[j].timestamp
  /\ \A t \in Threads : job[t].plain => job[t].timestamp = NoTime

\* Where no log is open nothing waits, and a log that closes takes no more.
SessionInv ==
  /\ session = "none" => /\ taken = <<>> /\ buffer = <<>> /\ file = base
                         /\ saved = 0 /\ ~writable
  /\ session \in {"closing", "ok", "failed"} => ~writable

Due == base \o Cells(taken)

\* At most one event in part, and then no more.
OneTear ==
  \/ file \o buffer = Due
  \/ /\ ~writable /\ buffer = <<>>
     /\ StartsWith(file, Due) /\ Behind(Due, file) # <<>>
     /\ \E e \in Written : Begins(Behind(Due, file), e)

SavedInv ==
  /\ StartsWith(file, base \o Cells(SubSeq(taken, 1, saved)))
  /\ session = "ok" => saved = Len(taken)

WriterInv == WriterType /\ TakenInOrder /\ SessionInv /\ OneTear /\ SavedInv

-----------------------------------------------------------------------------
(* Sequences in parts.                                                     *)

\* A sequence cut in two is that sequence.
LEMMA CutInTwo ==
  ASSUME NEW S, NEW s \in Seq(S), NEW k \in 0..Len(s)
  PROVE  /\ SubSeq(s, 1, k) \in Seq(S) /\ Len(SubSeq(s, 1, k)) = k
         /\ SubSeq(s, k + 1, Len(s)) \in Seq(S)
         /\ SubSeq(s, 1, k) \o SubSeq(s, k + 1, Len(s)) = s
<1> DEFINE n == Len(s)
           a == SubSeq(s, 1, k)
           b == SubSeq(s, k + 1, n)
<1>1. n \in Nat /\ k \in 0..n /\ k \in Nat /\ \A i \in 1..n : s[i] \in S
  BY LenProperties, ElementOfSeq
<1> HIDE DEF n
<1>2. /\ a \in Seq(S) /\ Len(a) = k
      /\ \A i \in 1..k : a[i] = s[i]
  <2>1. \A i \in 1..k : s[i] \in S
    BY <1>1
  <2>2. /\ a \in Seq(S) /\ Len(a) = IF 1 <= k THEN k - 1 + 1 ELSE 0
        /\ \A i \in 1..k - 1 + 1 : a[i] = s[1 + i - 1]
    BY <1>1, <2>1, SubSeqProperties
  <2> HIDE DEF a
  <2> QED BY <1>1, <2>2
<1>3. /\ b \in Seq(S) /\ Len(b) = n - k
      /\ \A i \in 1..n - k : b[i] = s[k + i]
  <2> DEFINE m == k + 1
  <2>1. m \in Int /\ n \in Int /\ \A i \in m..n : s[i] \in S
    BY <1>1
  <2>2. b = SubSeq(s, m, n)
    OBVIOUS
  <2>3. m = k + 1
    OBVIOUS
  <2> HIDE DEF b, m
  <2>4. /\ b \in Seq(S) /\ Len(b) = IF m <= n THEN n - m + 1 ELSE 0
        /\ \A i \in 1..n - m + 1 : b[i] = s[m + i - 1]
    BY <2>1, <2>2, SubSeqProperties
  <2>5. Len(b) = n - k
    BY <1>1, <2>3, <2>4
  <2>6. ASSUME NEW i \in 1..n - k PROVE b[i] = s[k + i]
    <3>1. i \in 1..n - m + 1 /\ m + i - 1 = k + i
      BY <1>1, <2>3
    <3> QED BY <2>4, <3>1
  <2> QED BY <2>4, <2>5, <2>6
<1> HIDE DEF a, b
<1> DEFINE c == a \o b
<1>4. /\ c \in Seq(S) /\ Len(c) = Len(a) + Len(b)
      /\ \A i \in 1..Len(a) : c[i] = a[i]
      /\ \A i \in 1..Len(b) : c[Len(a) + i] = b[i]
  <2>1. a \in Seq(S) /\ b \in Seq(S)
    BY <1>2, <1>3
  <2> QED BY <2>1, Joined
<1> HIDE DEF c
<1>5. Len(c) = n
  BY <1>1, <1>2, <1>3, <1>4
<1>6. ASSUME NEW i \in 1..n PROVE c[i] = s[i]
  <2>1. CASE i <= k
    <3>1. i \in 1..k
      BY <1>1, <2>1
    <3> QED BY <1>2, <1>4, <3>1
  <2>2. CASE ~(i <= k)
    <3> DEFINE j == i - k
    <3>1. j \in 1..n - k /\ k + j = i
      BY <1>1, <2>2
    <3> HIDE DEF j
    <3>2. c[k + j] = b[j] /\ b[j] = s[k + j]
      BY <1>2, <1>3, <1>4, <3>1
    <3> QED BY <3>1, <3>2
  <2> QED BY <2>1, <2>2
<1>7. c = s
  BY <1>4, <1>5, <1>6, SeqEqual DEF n
<1> QED BY <1>2, <1>3, <1>7 DEF a, b, c, n

\* The head of a sequence.
LEMMA HeadIs ==
  ASSUME NEW S, NEW s \in Seq(S), NEW k \in 0..Len(s)
  PROVE  /\ SubSeq(s, 1, k) \in Seq(S) /\ Len(SubSeq(s, 1, k)) = k
         /\ \A i \in 1..k : SubSeq(s, 1, k)[i] = s[i]
<1> DEFINE a == SubSeq(s, 1, k)
<1>1. k \in Nat /\ \A i \in 1..k : s[i] \in S
  BY LenProperties, ElementOfSeq
<1>2. /\ a \in Seq(S) /\ Len(a) = IF 1 <= k THEN k - 1 + 1 ELSE 0
      /\ \A i \in 1..k - 1 + 1 : a[i] = s[1 + i - 1]
  BY <1>1, SubSeqProperties
<1> HIDE DEF a
<1>3. Len(a) = k /\ \A i \in 1..k : a[i] = s[i]
  BY <1>1, <1>2
<1> QED BY <1>2, <1>3 DEF a

\* What a sequence has behind its first part.
LEMMA BehindIs ==
  ASSUME NEW S, NEW s \in Seq(S), NEW r \in Seq(S), NEW t, t = s \o r
  PROVE  Behind(s, t) = r /\ StartsWith(t, s)
<1> DEFINE m == Len(s)
           n == Len(r)
           b == SubSeq(t, m + 1, Len(t))
<1>1. m \in Nat /\ n \in Nat
  BY LenProperties
<1>2. /\ t \in Seq(S) /\ Len(t) = m + n
      /\ \A i \in 1..n : t[m + i] = r[i]
  BY Joined
<1> HIDE DEF m, n
<1>3. /\ m + Len(r) <= Len(t)
      /\ \A i \in 1..Len(r) : t[m + i] = r[i]
  BY <1>1, <1>2 DEF n
<1>4. SubSeq(t, m + 1, m + Len(r)) = r
  BY <1>1, <1>2, <1>3, PieceIs
<1>5. b = r
  BY <1>2, <1>4 DEF n
<1> QED BY <1>5 DEF b, m, Behind, StartsWith

\* A sequence that starts with another has it as a prefix, and is no longer
\* only where nothing is behind.
LEMMA StartIsPrefix ==
  ASSUME NEW S, NEW s \in Seq(S), NEW r \in Seq(S), NEW t, t = s \o r
  PROVE  /\ IsPrefix(s, t) /\ Len(t) - Len(s) = Len(r)
         /\ r # <<>> => IsStrictPrefix(s, t)
<1> DEFINE m == Len(s)
           n == Len(r)
<1>1. m \in Nat /\ n \in Nat /\ (r # <<>> => n # 0)
  BY LenProperties, EmptySeq
<1>2. /\ t \in Seq(S) /\ Len(t) = m + n
      /\ \A i \in 1..m : t[i] = s[i]
  BY Joined
<1> HIDE DEF m, n
<1>3. m \in 0..Len(t) /\ Len(t) - m = n /\ m <= Len(t)
  BY <1>1, <1>2
<1> DEFINE a == SubSeq(t, 1, m)
<1>5. a = s
  <2>1. /\ 0 \in Nat /\ 0 + Len(s) <= Len(t) /\ 0 + 1 = 1 /\ 0 + Len(s) = m
        /\ \A i \in 1..Len(s) : t[0 + i] = s[i]
    BY <1>1, <1>2, <1>3 DEF m
  <2>2. SubSeq(t, 0 + 1, 0 + Len(s)) = s
    BY <1>2, <2>1, PieceIs
  <2> QED BY <2>1, <2>2
<1> HIDE DEF a
<1>6. SubSeq(s, 1, m) = s
  BY SubSeqFull DEF m
<1>7. IsPrefix(s, t)
  BY <1>3, <1>5, <1>6 DEF IsPrefix, a, m
<1>8. ASSUME r # <<>> PROVE s # t
  BY <1>1, <1>2, <1>8 DEF m
<1> QED BY <1>3, <1>7, <1>8 DEF IsStrictPrefix, m, n

-----------------------------------------------------------------------------
(* The cells of events.                                                    *)

\* What the cells of an event are.
LEMMA EncodeCells ==
  ASSUME NEW e, e.number \in Nat, e.timestamp \in Nat, e.payload \in Seq(Nat)
  PROVE  /\ encode(e) \in Seq(Nat) /\ Len(e.payload) \in Nat
         /\ Len(encode(e)) = 7 + Len(e.payload)
         /\ encode(e)[1] = S1 /\ encode(e)[2] = S2
         /\ encode(e)[3] = e.number /\ encode(e)[4] = e.timestamp
         /\ encode(e)[5] = 1 /\ encode(e)[6] = Len(e.payload) /\ encode(e)[7] = Letter
         /\ \A k \in 1..Len(e.payload) : encode(e)[7 + k] = e.payload[k]
<1> DEFINE p == Len(e.payload)
           a == MAGIC
           b == <<e.number, e.timestamp, 1, p>>
           n == <<Letter>>
           t == e.payload
           ab == a \o b
           s == ab \o n
<1>1. p \in Nat /\ t \in Seq(Nat) /\ p = Len(t) /\ t = e.payload
  BY LenProperties
<1>2. encode(e) = s \o t
  BY DEF encode
<1>3. a \in Seq(Nat) /\ Len(a) = 2 /\ a[1] = S1 /\ a[2] = S2
  BY DEF MAGIC, S1, S2
<1> HIDE DEF p, t, a
<1>4. /\ b \in Seq(Nat) /\ Len(b) = 4
      /\ b[1] = e.number /\ b[2] = e.timestamp /\ b[3] = 1 /\ b[4] = p
  BY <1>1
<1>5. n \in Seq(Nat) /\ Len(n) = 1 /\ n[1] = Letter
  BY DEF Letter
<1> HIDE DEF b, n
<1>6. /\ ab \in Seq(Nat) /\ Len(ab) = 6
      /\ \A i \in 1..2 : ab[i] = a[i]
      /\ \A i \in 1..4 : ab[2 + i] = b[i]
  <2>1. a \in Seq(Nat) /\ b \in Seq(Nat)
    BY <1>3, <1>4
  <2>2. /\ ab \in Seq(Nat) /\ Len(ab) = Len(a) + Len(b)
        /\ \A i \in 1..Len(a) : ab[i] = a[i]
        /\ \A i \in 1..Len(b) : ab[Len(a) + i] = b[i]
    BY <2>1, Joined
  <2> HIDE DEF ab
  <2> QED BY <1>3, <1>4, <2>2
<1> HIDE DEF ab
<1>7. /\ ab[1] = S1 /\ ab[2] = S2
      /\ ab[3] = e.number /\ ab[4] = e.timestamp /\ ab[5] = 1 /\ ab[6] = p
  <2>1. 1 \in 1..2 /\ 2 \in 1..2 /\ 1 \in 1..4 /\ 2 \in 1..4 /\ 3 \in 1..4 /\ 4 \in 1..4
    OBVIOUS
  <2>2. ab[2 + 1] = b[1] /\ ab[2 + 2] = b[2] /\ ab[2 + 3] = b[3] /\ ab[2 + 4] = b[4]
    BY <1>6, <2>1
  <2> QED BY <1>3, <1>4, <1>6, <2>1, <2>2
<1>8. /\ s \in Seq(Nat) /\ Len(s) = 7
      /\ \A i \in 1..6 : s[i] = ab[i]
      /\ \A i \in 1..1 : s[6 + i] = n[i]
  <2>1. ab \in Seq(Nat) /\ n \in Seq(Nat)
    BY <1>5, <1>6
  <2>2. /\ s \in Seq(Nat) /\ Len(s) = Len(ab) + Len(n)
        /\ \A i \in 1..Len(ab) : s[i] = ab[i]
        /\ \A i \in 1..Len(n) : s[Len(ab) + i] = n[i]
    BY <2>1, Joined
  <2> HIDE DEF s
  <2> QED BY <1>5, <1>6, <2>2
<1> HIDE DEF s
<1>9. /\ s[1] = S1 /\ s[2] = S2 /\ s[3] = e.number /\ s[4] = e.timestamp
      /\ s[5] = 1 /\ s[6] = p /\ s[7] = Letter
  <2>1. s[6 + 1] = n[1]
    BY <1>8
  <2> QED BY <1>5, <1>7, <1>8, <2>1
<1> DEFINE c == s \o t
<1>10. /\ c \in Seq(Nat) /\ Len(c) = 7 + p
       /\ \A i \in 1..7 : c[i] = s[i]
       /\ \A i \in 1..p : c[7 + i] = t[i]
  <2>1. s \in Seq(Nat) /\ t \in Seq(Nat)
    BY <1>1, <1>8
  <2>2. /\ c \in Seq(Nat) /\ Len(c) = Len(s) + Len(t)
        /\ \A i \in 1..Len(s) : c[i] = s[i]
        /\ \A i \in 1..Len(t) : c[Len(s) + i] = t[i]
    BY <2>1, Joined
  <2> HIDE DEF c
  <2> QED BY <1>1, <1>8, <2>2
<1>11. encode(e) = c
  BY <1>2
<1> HIDE DEF c
<1>12. /\ c[1] = S1 /\ c[2] = S2 /\ c[3] = e.number /\ c[4] = e.timestamp
       /\ c[5] = 1 /\ c[6] = p /\ c[7] = Letter
  <2>1. {1, 2, 3, 4, 5, 6, 7} \subseteq 1..7
    OBVIOUS
  <2> QED BY <1>9, <1>10, <2>1
<1>13. \A k \in 1..p : c[7 + k] = e.payload[k]
  BY <1>1, <1>10
<1> QED BY <1>1, <1>10, <1>11, <1>12, <1>13

\* What one event takes.
LEMMA EncodeIs ==
  ASSUME NEW e \in Taken
  PROVE  /\ encode(e) \in Seq(Nat) /\ Len(e.payload) \in Nat
         /\ Len(encode(e)) = 7 + Len(e.payload)
BY EncodeCells DEF Taken

\* Events one behind the other.
LEMMA CellsOfEvents ==
  /\ Cells(<<>>) = <<>>
  /\ \A some \in Seq(Taken) : Cells(some) \in Seq(Nat)
  /\ \A some \in Seq(Taken), e \in Taken : Cells(Append(some, e)) = Cells(some) \o encode(e)
<1> DEFINE Each(some) == [i \in DOMAIN some |-> encode(some[i])]
<1>1. Cells(<<>>) = <<>>
  <2>1. [i \in DOMAIN <<>> |-> encode(<<>>[i])] = <<>>
    OBVIOUS
  <2> QED BY <2>1, FlattenEmpty DEF Cells
<1>2. ASSUME NEW some \in Seq(Taken)
      PROVE  Each(some) \in Seq(Seq(Nat)) /\ Len(Each(some)) = Len(some)
  <2> DEFINE n == Len(some)
             q == Each(some)
  <2>1. n \in Nat /\ DOMAIN some = 1..n /\ \A i \in 1..n : some[i] \in Taken
    BY LenProperties, ElementOfSeq
  <2> HIDE DEF n
  <2>2. q \in [1..n -> Seq(Nat)]
    BY <2>1, EncodeIs
  <2>3. q \in Seq(Seq(Nat)) /\ DOMAIN q = 1..n
    BY <2>1, <2>2, SeqDef
  <2> HIDE DEF q
  <2>4. Len(q) = n
    BY <2>1, <2>3, LenIs
  <2> QED BY <2>3, <2>4 DEF q, n
<1>3. ASSUME NEW some \in Seq(Taken) PROVE Cells(some) \in Seq(Nat)
  <2> DEFINE q == Each(some)
  <2>1. q \in Seq(Seq(Nat)) /\ Cells(some) = FlattenSeq(q)
    BY <1>2 DEF Cells
  <2> HIDE DEF q
  <2> QED BY <2>1, FlattenType
<1>4. ASSUME NEW some \in Seq(Taken), NEW e \in Taken
      PROVE  Cells(Append(some, e)) = Cells(some) \o encode(e)
  <2> DEFINE n == Len(some)
             more == Append(some, e)
             q == Each(some)
             r == Each(more)
             c == encode(e)
             s == Append(q, c)
  <2>1. /\ n \in Nat /\ DOMAIN some = 1..n
        /\ more \in Seq(Taken) /\ Len(more) = n + 1 /\ DOMAIN more = 1..n + 1
        /\ \A i \in 1..n : more[i] = some[i]
        /\ more[n + 1] = e
    <3>1. /\ more \in Seq(Taken) /\ Len(more) = n + 1
          /\ \A i \in 1..n : more[i] = some[i]
          /\ more[n + 1] = e
      BY AppendProperties
    <3> HIDE DEF more
    <3> QED BY <3>1, LenProperties
  <2>2. q \in Seq(Seq(Nat)) /\ Len(q) = n
    BY <1>2
  <2>3. r \in Seq(Seq(Nat)) /\ Len(r) = n + 1
    <3>1. more \in Seq(Taken) /\ Len(more) = n + 1
      BY <2>1
    <3> HIDE DEF more
    <3>2. Each(more) \in Seq(Seq(Nat)) /\ Len(Each(more)) = Len(more)
      BY <1>2, <3>1
    <3> QED BY <3>1, <3>2
  <2>4. c \in Seq(Nat)
    BY EncodeIs
  <2>5. \A i \in 1..n : q[i] = encode(some[i])
    BY <2>1
  <2>6. \A i \in 1..n + 1 : r[i] = encode(more[i])
    <3> HIDE DEF more
    <3> QED BY <2>1
  <2>7. Cells(some) = FlattenSeq(q) /\ Cells(more) = FlattenSeq(r)
    BY DEF Cells
  <2>8. c = encode(e)
    OBVIOUS
  <2> HIDE DEF q, r, c, n, more
  <2>9. /\ s \in Seq(Seq(Nat)) /\ Len(s) = n + 1
        /\ \A i \in 1..n : s[i] = q[i]
        /\ s[n + 1] = c
    <3>1. /\ s \in Seq(Seq(Nat)) /\ Len(s) = Len(q) + 1
          /\ \A i \in 1..Len(q) : s[i] = q[i]
          /\ s[Len(q) + 1] = c
      BY <2>2, <2>4, AppendProperties
    <3> QED BY <2>2, <3>1
  <2>10. \A i \in 1..n + 1 : r[i] = s[i]
    <3>1. ASSUME NEW i \in 1..n + 1 PROVE r[i] = s[i]
      <4>1. CASE i = n + 1
        BY <2>1, <2>6, <2>8, <2>9, <4>1
      <4>2. CASE i # n + 1
        <5>1. i \in 1..n
          BY <2>1, <4>2
        <5> QED BY <2>1, <2>5, <2>6, <2>9, <5>1
      <4> QED BY <4>1, <4>2
    <3> QED BY <3>1
  <2> HIDE DEF s
  <2>11. r = s
    <3>1. Len(r) = Len(s) /\ \A i \in 1..Len(r) : r[i] = s[i]
      BY <2>3, <2>9, <2>10
    <3> QED BY <2>3, <2>9, <3>1, SeqEqual
  <2>12. FlattenSeq(Append(q, c)) = FlattenSeq(q) \o c
    BY <2>2, <2>4, FlattenAppend
  <2> QED BY <2>7, <2>8, <2>11, <2>12 DEF s, more
<1> QED BY <1>1, <1>3, <1>4

-----------------------------------------------------------------------------
(* BufWriter and the disk.                                                 *)

\* Three parts of a log.
LEMMA ThreeParts ==
  \A a, b, c \in Seq(Nat) : (a \o b) \o c = a \o (b \o c)
BY ConcatAssociative

\* What is in the file stays, and something may go behind it.
Longer == \E more \in Seq(Nat) : file' = file \o more

DiskType == file \in Seq(Nat) /\ buffer \in Seq(Nat)

\* A flush that fails leaves the log as it was.
LEMMA BufferFailsKeeps ==
  ASSUME DiskType, NEW k \in 0..(Len(buffer) - 1), BufferFailsAt(k)
  PROVE  DiskType' /\ Longer /\ file' \o buffer' = file \o buffer /\ buffer # <<>>
<1>1. Len(buffer) \in Nat /\ file \in Seq(Nat) /\ buffer \in Seq(Nat)
  BY LenProperties DEF DiskType
<1>2. k \in 0..Len(buffer) /\ buffer # <<>>
  BY <1>1, EmptySeq
<1>3. PICK a \in Seq(Nat), b \in Seq(Nat) :
        a \o b = buffer /\ file' = file \o a /\ buffer' = b
  BY <1>1, <1>2, CutInTwo DEF BufferFailsAt
<1>4. file \o a \in Seq(Nat)
  BY <1>1, <1>3, ConcatProperties
<1>5. (file \o a) \o b = file \o (a \o b)
  <2>1. a \in Seq(Nat) /\ b \in Seq(Nat) /\ file \in Seq(Nat)
    BY <1>1, <1>3
  <2> QED BY <2>1, ThreeParts, Zenon
<1> QED BY <1>2, <1>3, <1>4, <1>5 DEF DiskType, Longer

\* A flush that works puts the buffer into the file.
LEMMA FlushedKeeps ==
  ASSUME DiskType, Flushed
  PROVE  /\ DiskType' /\ Longer /\ file' \o buffer' = file \o buffer
         /\ file' = file \o buffer /\ buffer' = <<>> /\ saved' = Len(taken)
<1>1. file' = file \o buffer /\ buffer' = <<>> /\ saved' = Len(taken)
  BY DEF Flushed
<1>2. file \o buffer \in Seq(Nat) /\ <<>> \in Seq(Nat)
  BY ConcatProperties, EmptySeq DEF DiskType
<1>3. (file \o buffer) \o <<>> = file \o buffer
  BY <1>2, ConcatEmptySeq
<1> QED BY <1>1, <1>2, <1>3 DEF DiskType, Longer

\* A write that works puts its cells behind the log.
LEMMA WriteAllKeeps ==
  ASSUME DiskType, NEW cells \in Seq(Nat), WriteAll(cells)
  PROVE  DiskType' /\ Longer /\ file' \o buffer' = (file \o buffer) \o cells
<1>1. file \in Seq(Nat) /\ buffer \in Seq(Nat) /\ <<>> \in Seq(Nat)
  BY EmptySeq DEF DiskType
<1>2. file \o buffer \in Seq(Nat)
  BY <1>1, ConcatProperties
<1>3. CASE Spills(cells) /\ GoesBy(cells)
  <2>1. file' = (file \o buffer) \o cells /\ buffer' = <<>>
    BY <1>3 DEF WriteAll
  <2>2. (file \o buffer) \o cells \in Seq(Nat)
    BY <1>2, ConcatProperties
  <2>3. ((file \o buffer) \o cells) \o <<>> = (file \o buffer) \o cells
    BY <2>2, ConcatEmptySeq
  <2>4. (file \o buffer) \o cells = file \o (buffer \o cells) /\ buffer \o cells \in Seq(Nat)
    <3>1. (file \o buffer) \o cells = file \o (buffer \o cells)
      BY <1>1, ConcatAssociative
    <3>2. buffer \o cells \in Seq(Nat)
      BY <1>1, ConcatProperties
    <3> QED BY <3>1, <3>2
  <2> QED BY <1>1, <2>1, <2>2, <2>3, <2>4 DEF DiskType, Longer
<1>4. CASE Spills(cells) /\ ~GoesBy(cells)
  <2>1. file' = file \o buffer /\ buffer' = <<>> \o cells
    BY <1>4 DEF WriteAll
  <2>2. <<>> \o cells = cells
    BY ConcatEmptySeq
  <2> QED BY <1>1, <1>2, <2>1, <2>2 DEF DiskType, Longer
<1>5. CASE ~Spills(cells) /\ GoesBy(cells)
  <2>1. file' = file \o cells /\ buffer' = buffer
    BY <1>5 DEF WriteAll
  <2>2. buffer = <<>>
    <3>1. Len(buffer) \in Nat /\ Len(cells) \in Nat /\ Capacity \in Nat
      BY <1>1, LenProperties, LogWriterAssumption
    <3>2. Len(buffer) = 0
      BY <1>5, <3>1 DEF Spills, GoesBy
    <3> QED BY <1>1, <3>2, EmptySeq
  <2>3. file \o cells \in Seq(Nat) /\ file \o <<>> = file
    BY <1>1, ConcatProperties, ConcatEmptySeq
  <2>4. (file \o cells) \o <<>> = file \o cells
    BY <2>3, ConcatEmptySeq
  <2> QED BY <1>1, <2>1, <2>2, <2>3, <2>4 DEF DiskType, Longer
<1>6. CASE ~Spills(cells) /\ ~GoesBy(cells)
  <2>1. file' = file /\ buffer' = buffer \o cells
    BY <1>6 DEF WriteAll
  <2>2. buffer \o cells \in Seq(Nat) /\ file \o <<>> = file
    BY <1>1, ConcatProperties, ConcatEmptySeq
  <2>3. (file \o buffer) \o cells = file \o (buffer \o cells)
    BY <1>1, ConcatAssociative
  <2> QED BY <1>1, <2>1, <2>2, <2>3 DEF DiskType, Longer
<1> QED BY <1>3, <1>4, <1>5, <1>6

\* A write that fails leaves the log as it was, or puts a part of its cells
\* behind it.
LEMMA WriteFailsKeeps ==
  ASSUME DiskType, NEW cells \in Seq(Nat), WriteFails(cells)
  PROVE  /\ DiskType' /\ Longer
         /\ \/ file' \o buffer' = file \o buffer
            \/ /\ buffer' = <<>>
               /\ \E rest \in Seq(Nat) : /\ rest # <<>> /\ Len(rest) < Len(cells)
                                         /\ \A i \in 1..Len(rest) : rest[i] = cells[i]
                                         /\ file' = (file \o buffer) \o rest
<1>1. file \in Seq(Nat) /\ buffer \in Seq(Nat) /\ <<>> \in Seq(Nat) /\ Len(cells) \in Nat
  BY EmptySeq, LenProperties DEF DiskType
<1>2. file \o buffer \in Seq(Nat)
  BY <1>1, ConcatProperties
<1>3. CASE \E k \in 0..(Len(buffer) - 1) : BufferFailsAt(k)
  BY <1>3, BufferFailsKeeps
<1>4. CASE /\ GoesBy(cells)
           /\ \E k \in 0..(Len(cells) - 1) : file' = file \o buffer \o SubSeq(cells, 1, k)
           /\ buffer' = <<>>
  <2>1. PICK k \in 0..(Len(cells) - 1) : file' = (file \o buffer) \o SubSeq(cells, 1, k)
    BY <1>4
  <2>2. k \in 0..Len(cells) /\ k \in Nat /\ k < Len(cells)
    BY <1>1
  <2>3. PICK rest \in Seq(Nat) : /\ rest = SubSeq(cells, 1, k) /\ Len(rest) = k
                               /\ \A i \in 1..k : rest[i] = cells[i]
    BY <2>2, HeadIs
  <2>4. file' = (file \o buffer) \o rest
    BY <2>1, <2>3
  <2>5. (file \o buffer) \o rest \in Seq(Nat)
    BY <1>2, <2>3, ConcatProperties
  <2>6. (file \o buffer) \o rest = file \o (buffer \o rest) /\ buffer \o rest \in Seq(Nat)
    <3>1. rest \in Seq(Nat)
      BY <2>3
    <3>2. (file \o buffer) \o rest = file \o (buffer \o rest)
      BY <1>1, <3>1, ThreeParts, Zenon
    <3>3. buffer \o rest \in Seq(Nat)
      BY <1>1, <3>1, ConcatProperties
    <3> QED BY <3>2, <3>3
  <2>7. DiskType' /\ Longer
    BY <1>1, <1>4, <2>4, <2>5, <2>6 DEF DiskType, Longer
  <2>8. CASE rest = <<>>
    <3>1. (file \o buffer) \o <<>> = file \o buffer
      BY <1>2, ConcatEmptySeq
    <3> QED BY <1>4, <2>4, <2>7, <2>8, <3>1
  <2>9. CASE rest # <<>>
    BY <1>4, <2>2, <2>3, <2>4, <2>7, <2>9
  <2> QED BY <2>8, <2>9
<1> QED BY <1>3, <1>4 DEF WriteFails

-----------------------------------------------------------------------------
(* What the invariant rests on.                                            *)

\* What is behind a first part is cells.
LEMMA BehindType ==
  ASSUME NEW s \in Seq(Nat), NEW t \in Seq(Nat)
  PROVE  Behind(s, t) \in Seq(Nat)
<1> DEFINE a == Len(s) + 1
           z == Len(t)
<1>1. Len(s) \in Nat /\ z \in Nat /\ \A i \in 1..z : t[i] \in Nat
  BY LenProperties, ElementOfSeq
<1>2. a \in Int /\ z \in Int /\ \A i \in a..z : t[i] \in Nat
  BY <1>1
<1>3. Behind(s, t) = SubSeq(t, a, z)
  BY DEF Behind
<1> HIDE DEF a, z
<1> QED BY <1>2, <1>3, SubSeqProperties

\* The first events are the same when one more is taken.
LEMMA HeadOfAppend ==
  ASSUME NEW S, NEW s \in Seq(S), NEW e \in S, NEW k \in 0..Len(s)
  PROVE  SubSeq(Append(s, e), 1, k) = SubSeq(s, 1, k)
<1> DEFINE n == Len(s)
           m == Append(s, e)
           a == SubSeq(m, 1, k)
           b == SubSeq(s, 1, k)
<1>1. n \in Nat /\ k \in 0..n /\ k \in Nat /\ \A i \in 1..n : s[i] \in S
  BY LenProperties, ElementOfSeq
<1>2. \A i \in 1..n : m[i] = s[i]
  BY AppendProperties
<1> HIDE DEF n, m
<1>3. \A i \in 1..k : s[i] \in S /\ m[i] = s[i]
  BY <1>1, <1>2
<1>4. b \in Seq(S) /\ Len(b) = k /\ \A i \in 1..k : b[i] = s[i]
  <2>1. /\ b \in Seq(S) /\ Len(b) = IF 1 <= k THEN k - 1 + 1 ELSE 0
        /\ \A i \in 1..k - 1 + 1 : b[i] = s[1 + i - 1]
    BY <1>1, <1>3, SubSeqProperties
  <2> HIDE DEF b
  <2> QED BY <1>1, <2>1
<1>5. a \in Seq(S) /\ Len(a) = k /\ \A i \in 1..k : a[i] = m[i]
  <2>1. /\ a \in Seq(S) /\ Len(a) = IF 1 <= k THEN k - 1 + 1 ELSE 0
        /\ \A i \in 1..k - 1 + 1 : a[i] = m[1 + i - 1]
    BY <1>1, <1>3, SubSeqProperties
  <2> HIDE DEF a
  <2> QED BY <1>1, <2>1
<1> HIDE DEF a, b
<1>6. a = b
  <2>1. Len(a) = Len(b) /\ \A i \in 1..Len(a) : a[i] = b[i]
    BY <1>3, <1>4, <1>5
  <2> QED BY <1>4, <1>5, <2>1, SeqEqual
<1> QED BY <1>6 DEF a, b, m

\* The log as it should be, and the part of it that was said to be written.
SavedPart == base \o Cells(SubSeq(taken, 1, saved))

\* The queue of the writer, the file and the log, as sequences of cells.
LEMMA PartsType ==
  ASSUME WriterType
  PROVE  /\ DiskType /\ Cells(taken) \in Seq(Nat) /\ Due \in Seq(Nat) /\ SavedPart \in Seq(Nat)
         /\ SubSeq(taken, 1, Len(taken)) = taken
<1>1. /\ file \in Seq(Nat) /\ buffer \in Seq(Nat) /\ base \in Seq(Nat)
      /\ taken \in Seq(Taken) /\ saved \in 0..Len(taken)
  BY DEF WriterType
<1>2. SubSeq(taken, 1, saved) \in Seq(Taken)
  BY <1>1, CutInTwo
<1>3. Cells(taken) \in Seq(Nat) /\ Cells(SubSeq(taken, 1, saved)) \in Seq(Nat)
  BY <1>1, <1>2, CellsOfEvents
<1>4. Due \in Seq(Nat)
  BY <1>1, <1>3, ConcatProperties DEF Due
<1>5. SavedPart \in Seq(Nat)
  BY <1>1, <1>3, ConcatProperties DEF SavedPart
<1>6. SubSeq(taken, 1, Len(taken)) = taken
  BY <1>1, SubSeqFull
<1> QED BY <1>1, <1>3, <1>4, <1>5, <1>6 DEF DiskType

\* A log just opened is as it was found.
LEMMA FreshLog ==
  ASSUME NEW s \in Seq(Nat)
  PROVE  /\ s \o <<>> = s \o Cells(<<>>)
         /\ StartsWith(s, s \o Cells(SubSeq(<<>>, 1, 0)))
<1>1. Cells(<<>>) = <<>> /\ SubSeq(<<>>, 1, 0) = <<>>
  BY CellsOfEvents, SubSeqEmpty
<1>2. s \o <<>> = s /\ <<>> \in Seq(Nat)
  BY ConcatEmptySeq, EmptySeq
<1>3. StartsWith(s, s)
  BY <1>2, BehindIs
<1> QED BY <1>1, <1>2, <1>3

\* What was said to be written stays written.
LEMMA SavedStays ==
  ASSUME WriterType, StartsWith(file, SavedPart), Longer,
         base' = base, saved' = saved,
         taken' = taken \/ \E e \in Taken : taken' = Append(taken, e)
  PROVE  StartsWith(file', SavedPart')
<1>1. DiskType /\ SavedPart \in Seq(Nat)
  BY PartsType
<1>2. taken \in Seq(Taken) /\ saved \in 0..Len(taken)
  BY DEF WriterType
<1>3. SubSeq(taken', 1, saved) = SubSeq(taken, 1, saved)
  BY <1>2, HeadOfAppend
<1>4. SavedPart' = SavedPart
  BY <1>3 DEF SavedPart
<1>5. PICK p \in Seq(Nat) : p = SavedPart
  BY <1>1
<1>6. PICK r \in Seq(Nat) : file = p \o r
  <2>1. p \in Seq(Nat) /\ file \in Seq(Nat) /\ file = p \o Behind(p, file)
    BY <1>1, <1>5 DEF DiskType, StartsWith
  <2>2. Behind(p, file) \in Seq(Nat)
    BY <2>1, BehindType
  <2> QED BY <2>1, <2>2
<1>7. PICK m \in Seq(Nat) : file' = file \o m
  BY DEF Longer
<1>8. file' = (p \o r) \o m
  BY <1>6, <1>7
<1>9. p \in Seq(Nat) /\ r \in Seq(Nat) /\ m \in Seq(Nat)
  BY <1>5, <1>6, <1>7
<1>10. (p \o r) \o m = p \o (r \o m)
  BY <1>9, ThreeParts, Zenon
<1>11. r \o m \in Seq(Nat)
  BY <1>9, ConcatProperties
<1>12. StartsWith(file', p)
  <2>1. p \in Seq(Nat) /\ r \o m \in Seq(Nat) /\ file' = p \o (r \o m)
    BY <1>8, <1>9, <1>10, <1>11
  <2> DEFINE q == r \o m
  <2>2. p \in Seq(Nat) /\ q \in Seq(Nat) /\ file' = p \o q
    BY <2>1
  <2> HIDE DEF q
  <2> QED BY <2>2, BehindIs
<1> QED BY <1>4, <1>5, <1>12

\* A write or a flush that leaves the log as it was keeps the order.
LEMMA LogStays ==
  ASSUME OneTear, taken' = taken, base' = base,
         \/ file \o buffer = Due /\ file' \o buffer' = file \o buffer
         \/ file' = file /\ buffer' = buffer /\ (~writable => ~writable')
  PROVE  OneTear'
<1>1. Due' = Due
  BY DEF Due
<1>2. CASE file \o buffer = Due /\ file' \o buffer' = file \o buffer
  BY <1>1, <1>2 DEF OneTear
<1>3. CASE file' = file /\ buffer' = buffer /\ (~writable => ~writable')
  BY <1>1, <1>3 DEF OneTear
<1> QED BY <1>2, <1>3

-----------------------------------------------------------------------------
(* The steps.                                                              *)

\* A flush that works: all that was taken is written.
LEMMA FlushedStep ==
  ASSUME WriterInv, Flushed, taken' = taken, base' = base, ~writable => ~writable'
  PROVE  /\ DiskType' /\ OneTear' /\ saved' = Len(taken)
         /\ StartsWith(file', SavedPart')
<1>1. WriterType /\ OneTear /\ DiskType /\ Due \in Seq(Nat)
  BY PartsType DEF WriterInv
<1>2. /\ DiskType' /\ file' \o buffer' = file \o buffer
      /\ file' = file \o buffer /\ buffer' = <<>> /\ saved' = Len(taken)
  BY <1>1, FlushedKeeps
<1>3. SavedPart' = Due
  <2>1. SubSeq(taken, 1, Len(taken)) = taken
    BY <1>1, PartsType
  <2> QED BY <1>2, <2>1 DEF SavedPart, Due
<1>4. CASE file \o buffer = Due
  <2>1. OneTear'
    BY <1>1, <1>2, <1>4, LogStays
  <2>2. file' = Due
    BY <1>2, <1>4
  <2>3. StartsWith(file', Due)
    <3>1. PICK d \in Seq(Nat) : d = Due
      BY <1>1
    <3>2. d \o <<>> = d /\ <<>> \in Seq(Nat) /\ d \in Seq(Nat)
      BY <3>1, ConcatEmptySeq, EmptySeq
    <3>3. StartsWith(d, d)
      BY <3>2, BehindIs
    <3> QED BY <2>2, <3>1, <3>3
  <2> QED BY <1>2, <1>3, <2>1, <2>3
<1>5. CASE buffer = <<>> /\ StartsWith(file, Due)
  <2>1. file' = file
    BY <1>1, <1>2, <1>5, ConcatEmptySeq DEF DiskType
  <2>2. OneTear'
    BY <1>1, <1>2, <1>5, <2>1, LogStays
  <2> QED BY <1>2, <1>3, <1>5, <2>1, <2>2
<1> QED BY <1>1, <1>4, <1>5 DEF OneTear

\* A flush that fails leaves the rest of the log in the buffer.
LEMMA BufferFailsStep ==
  ASSUME WriterInv, NEW k \in 0..(Len(buffer) - 1), BufferFailsAt(k),
         taken' = taken, base' = base, saved' = saved
  PROVE  DiskType' /\ OneTear' /\ StartsWith(file', SavedPart')
<1>1. WriterType /\ OneTear /\ DiskType /\ StartsWith(file, SavedPart)
  BY PartsType DEF WriterInv, SavedInv, SavedPart
<1>2. DiskType' /\ Longer /\ file' \o buffer' = file \o buffer /\ buffer # <<>>
  BY <1>1, BufferFailsKeeps
<1>3. OneTear'
  BY <1>1, <1>2, LogStays DEF OneTear
<1>4. StartsWith(file', SavedPart')
  BY <1>1, <1>2, SavedStays
<1> QED BY <1>2, <1>3, <1>4

\* Under the lock, an event is taken, or refused, or written in part.
LEMMA WriteEventStep ==
  ASSUME WriterInv, NEW t \in Threads, WriteEvent(t)
  PROVE  WriterInv'
<1> DEFINE time == TimeOf(t)
           e == [number |-> events, timestamp |-> time, payload |-> job[t].payload,
                 plain |-> job[t].plain]
<1>1. WriterType /\ TakenInOrder /\ SessionInv /\ OneTear /\ SavedInv
  BY DEF WriterInv
<1>2. /\ job' = [job EXCEPT ![t] = NoJob] /\ clock' = clock /\ session' = session
      /\ base' = base /\ saved' = saved
  BY DEF WriteEvent, past
<1>3. \/ file' = file /\ buffer' = buffer /\ events' = events /\ writable' = writable
         /\ taken' = taken
      \/ /\ writable /\ Encodes(e) /\ WriteAll(encode(e)) /\ events' = events + 1
         /\ taken' = Append(taken, e) /\ writable' = writable
      \/ /\ writable /\ Encodes(e) /\ WriteFails(encode(e)) /\ writable' = FALSE
         /\ events' = events /\ taken' = taken
  BY DEF WriteEvent, disk, MayWrite, Broken
<1>4. job[t] \in Job /\ clock \in Nat /\ events \in Nat /\ events = Len(taken)
      /\ taken \in Seq(Taken) /\ job \in [Threads -> Job]
  BY <1>1, LenProperties DEF WriterType
<1>5. time \in Nat /\ (job[t].plain => time = clock)
  BY <1>1, <1>4 DEF TimeOf, Job, TakenInOrder
<1>6. /\ e \in Taken /\ e.number = events /\ e.timestamp = time /\ e.plain = job[t].plain
      /\ e.payload = job[t].payload
  BY <1>4, <1>5 DEF Taken, Job
<1>7. job' \in [Threads -> Job] /\ \A x \in Threads : job'[x].plain => job'[x].timestamp = NoTime
  <2>1. NoJob \in Job /\ NoJob.timestamp = NoTime
    BY DEF NoJob, Job
  <2> QED BY <1>1, <1>2, <1>4, <2>1 DEF TakenInOrder
<1> HIDE DEF e, time
<1>8. PICK v \in Taken : v = e
  BY <1>6
<1>9. /\ v \in Taken /\ v.number = events /\ v.timestamp \in Nat
      /\ v.plain => v.timestamp = clock
      /\ encode(v) \in Seq(Nat) /\ Len(encode(v)) = 7 + Len(v.payload) /\ Len(v.payload) \in Nat
  BY <1>5, <1>6, <1>8, EncodeIs
<1>10. CASE file' = file /\ buffer' = buffer /\ events' = events /\ writable' = writable
            /\ taken' = taken
  <2>1. WriterType'
    BY <1>1, <1>2, <1>7, <1>10 DEF WriterType
  <2>2. TakenInOrder'
    BY <1>1, <1>2, <1>7, <1>10 DEF TakenInOrder
  <2>3. OneTear'
    BY <1>1, <1>2, <1>10, LogStays
  <2>4. SessionInv' /\ SavedInv'
    BY <1>1, <1>2, <1>10 DEF SessionInv, SavedInv
  <2> QED BY <2>1, <2>2, <2>3, <2>4 DEF WriterInv
<1>11. CASE /\ writable /\ Encodes(v) /\ WriteAll(encode(v)) /\ events' = events + 1
            /\ taken' = Append(taken, v) /\ writable' = writable
  <2> DEFINE n == Len(taken)
             more == Append(taken, v)
  <2>1. /\ more \in Seq(Taken) /\ Len(more) = n + 1 /\ n \in Nat
        /\ \A i \in 1..n : more[i] = taken[i]
        /\ more[n + 1] = v
    BY <1>4, <1>9, AppendProperties
  <2>2. taken' = more /\ events = n
    BY <1>4, <1>11
  <2> HIDE DEF more, n
  <2>3. DiskType' /\ Longer /\ file' \o buffer' = (file \o buffer) \o encode(v)
    <3>1. DiskType /\ encode(v) \in Seq(Nat) /\ WriteAll(encode(v))
      BY <1>1, <1>9, <1>11, PartsType
    <3> QED BY <3>1, WriteAllKeeps
  <2>4. WriterType'
    <3>1. saved \in 0..n /\ base \in Seq(Nat) /\ writable \in BOOLEAN
          /\ session \in {"none", "open", "closing", "ok", "failed"}
      BY <1>1 DEF WriterType, n
    <3>2. saved \in 0..n + 1
      BY <2>1, <3>1
    <3> QED BY <1>2, <1>4, <1>7, <1>11, <2>1, <2>2, <2>3, <3>1, <3>2 DEF WriterType, DiskType
  <2>5. TakenInOrder'
    <3>0. /\ \A i \in 1..n : Encodes(taken[i]) /\ taken[i].number = i - 1
          /\ \A i \in 1..n : taken[i].plain => taken[i].timestamp <= clock
          /\ \A i, j \in 1..n :
               i < j /\ taken[i].plain /\ taken[j].plain => taken[i].timestamp <= taken[j].timestamp
      BY <1>1 DEF TakenInOrder, n
    <3>1. ASSUME NEW i \in 1..n + 1
          PROVE  /\ Encodes(more[i]) /\ more[i].number = i - 1
                 /\ more[i].plain => more[i].timestamp <= clock
      <4>1. CASE i = n + 1
        <5>1. Encodes(v) /\ v.number = n /\ (v.plain => v.timestamp = clock) /\ n + 1 - 1 = n
          BY <1>9, <1>11, <2>1, <2>2
        <5> QED BY <1>4, <2>1, <4>1, <5>1
      <4>2. CASE i # n + 1
        <5>1. i \in 1..n
          BY <2>1, <4>2
        <5> QED BY <2>1, <3>0, <5>1
      <4> QED BY <4>1, <4>2
    <3>2. ASSUME NEW i \in 1..n + 1, NEW j \in 1..n + 1, i < j, more[i].plain, more[j].plain
          PROVE  more[i].timestamp <= more[j].timestamp
      <4>1. i \in 1..n
        BY <2>1, <3>2
      <4>2. CASE j = n + 1
        <5>1. more[i].timestamp <= clock
          BY <3>1, <3>2
        <5>2. more[j].timestamp = clock
          BY <1>9, <2>1, <3>2, <4>2
        <5> QED BY <5>1, <5>2
      <4>3. CASE j # n + 1
        <5>1. j \in 1..n
          BY <2>1, <4>3
        <5> QED BY <2>1, <3>0, <3>2, <4>1, <5>1
      <4> QED BY <4>2, <4>3
    <3> QED BY <1>2, <1>7, <2>1, <2>2, <3>1, <3>2 DEF TakenInOrder
  <2>6. OneTear'
    <3>1. Cells(taken') = Cells(taken) \o encode(v)
      BY <1>4, <1>9, <1>11, CellsOfEvents
    <3>2. file \o buffer = Due
      BY <1>1, <1>11 DEF OneTear
    <3>3. base \in Seq(Nat) /\ Cells(taken) \in Seq(Nat) /\ encode(v) \in Seq(Nat)
      BY <1>1, <1>9, PartsType DEF WriterType
    <3>4. (base \o Cells(taken)) \o encode(v) = base \o (Cells(taken) \o encode(v))
      BY <3>3, ThreeParts, Zenon
    <3>5. Due' = Due \o encode(v)
      BY <1>2, <3>1, <3>4 DEF Due
    <3> QED BY <2>3, <3>2, <3>5 DEF OneTear
  <2>7. SessionInv'
    BY <1>1, <1>2, <1>11 DEF SessionInv
  <2>8. StartsWith(file', SavedPart')
    BY <1>1, <1>2, <1>9, <1>11, <2>3, SavedStays DEF SavedInv, SavedPart
  <2>9. SavedInv'
    BY <1>1, <1>2, <1>11, <2>8 DEF SavedInv, SavedPart, SessionInv
  <2> QED BY <2>4, <2>5, <2>6, <2>7, <2>9 DEF WriterInv
<1>12. CASE /\ writable /\ Encodes(v) /\ WriteFails(encode(v)) /\ writable' = FALSE
            /\ events' = events /\ taken' = taken
  <2>1. DiskType /\ Due \in Seq(Nat)
    BY <1>1, PartsType
  <2>2. /\ DiskType' /\ Longer
        /\ \/ file' \o buffer' = file \o buffer
           \/ /\ buffer' = <<>>
              /\ \E rest \in Seq(Nat) : /\ rest # <<>> /\ Begins(rest, v)
                                        /\ file' = (file \o buffer) \o rest
    BY <1>9, <1>12, <2>1, WriteFailsKeeps DEF Begins
  <2>3. WriterType'
    BY <1>1, <1>2, <1>7, <1>12, <2>2 DEF WriterType, DiskType
  <2>4. TakenInOrder'
    BY <1>1, <1>2, <1>7, <1>12 DEF TakenInOrder
  <2>5. SessionInv'
    BY <1>1, <1>2, <1>12 DEF SessionInv
  <2>6. file \o buffer = Due /\ Due' = Due
    BY <1>1, <1>2, <1>12 DEF OneTear, Due
  <2>7. OneTear'
    <3>1. CASE file' \o buffer' = file \o buffer
      BY <1>1, <1>2, <1>12, <2>6, <3>1, LogStays
    <3>2. CASE /\ buffer' = <<>>
               /\ \E rest \in Seq(Nat) : /\ rest # <<>> /\ Begins(rest, v)
                                         /\ file' = (file \o buffer) \o rest
      <4>1. PICK rest \in Seq(Nat) : /\ rest # <<>> /\ Begins(rest, v)
                                     /\ file' = Due \o rest
        BY <2>6, <3>2
      <4>2. PICK d \in Seq(Nat) : d = Due
        BY <2>1
      <4>3. d \in Seq(Nat) /\ rest \in Seq(Nat) /\ file' = d \o rest
        BY <4>1, <4>2
      <4>4. Behind(d, file') = rest /\ StartsWith(file', d)
        <5>1. d \in Seq(Nat) /\ rest \in Seq(Nat)
          BY <4>3
        <5>2. Behind(d, d \o rest) = rest /\ StartsWith(d \o rest, d)
          BY <5>1, BehindIs
        <5> QED BY <4>3, <5>2
      <4>5. \E x \in Written : Begins(rest, x)
        <5> DEFINE x == [number |-> v.number, timestamp |-> v.timestamp, payload |-> v.payload]
        <5>1. x \in Written
          BY <1>12 DEF Written, Encodes, Taken
        <5>2. Begins(rest, x)
          BY <4>1 DEF Begins, encode
        <5> QED BY <5>1, <5>2
      <4>6. Due' = d
        BY <2>6, <4>2
      <4> QED BY <1>12, <3>2, <4>1, <4>4, <4>5, <4>6 DEF OneTear
    <3> QED BY <2>2, <3>1, <3>2
  <2>8. StartsWith(file', SavedPart')
    BY <1>1, <1>2, <1>12, <2>2, SavedStays DEF SavedInv, SavedPart
  <2>9. SavedInv'
    BY <1>1, <1>2, <1>12, <2>8 DEF SavedInv, SavedPart
  <2> QED BY <2>3, <2>4, <2>5, <2>7, <2>9 DEF WriterInv
<1> QED BY <1>3, <1>8, <1>10, <1>11, <1>12

\* A step that leaves the log and what was taken as they are.
LEMMA LogUntouched ==
  ASSUME WriterInv, UNCHANGED <<file, buffer, base, taken, saved, events>>,
         ~writable => ~writable', session' = "ok" => session = "ok"
  PROVE  OneTear' /\ SavedInv'
<1>1. OneTear' BY LogStays DEF WriterInv
<1>2. SavedInv' BY DEF WriterInv, SavedInv
<1> QED BY <1>1, <1>2

\* A log that holds what a session begins with.
LEMMA BeginsInOrder ==
  ASSUME file' \in Seq(Nat), base' = file', buffer' = <<>>, taken' = <<>>, saved' = 0,
         session' # "ok"
  PROVE  OneTear' /\ SavedInv'
<1>1. PICK s \in Seq(Nat) : s = file'
  OBVIOUS
<1>2. s \o <<>> = s \o Cells(<<>>) /\ StartsWith(s, s \o Cells(SubSeq(<<>>, 1, 0)))
  BY <1>1, FreshLog
<1>3. OneTear'
  BY <1>1, <1>2 DEF OneTear, Due
<1>4. SavedInv'
  BY <1>1, <1>2 DEF SavedInv
<1> QED BY <1>3, <1>4

\* A program starts with no log open.
LEMMA WriterInitInv == WriterInit => WriterInv
<1> SUFFICES ASSUME WriterInit PROVE WriterInv
  OBVIOUS
<1>1. /\ file = <<>> /\ buffer = <<>> /\ base = <<>> /\ taken = <<>> /\ saved = 0 /\ events = 0
      /\ writable = FALSE /\ clock = 0 /\ job = [t \in Threads |-> NoJob] /\ session = "none"
  BY DEF WriterInit
<1>2. <<>> \in Seq(Nat) /\ <<>> \in Seq(Taken) /\ Len(<<>>) = 0
  BY EmptySeq
<1>3. NoJob \in Job /\ NoJob.timestamp = NoTime
  BY <1>2 DEF NoJob, Job
<1>4. WriterType
  <2>1. saved \in 0..Len(taken) /\ events = Len(taken)
    BY <1>1, <1>2
  <2>2. job \in [Threads -> Job]
    BY <1>1, <1>3
  <2> QED BY <1>1, <1>2, <2>1, <2>2 DEF WriterType
<1>5. TakenInOrder
  BY <1>1, <1>2, <1>3 DEF TakenInOrder
<1>6. SessionInv
  BY <1>1 DEF SessionInv
<1>7. <<>> \o <<>> = <<>> \o Cells(<<>>) /\ StartsWith(<<>>, <<>> \o Cells(SubSeq(<<>>, 1, 0)))
  BY <1>2, FreshLog
<1>8. OneTear
  BY <1>1, <1>7 DEF OneTear, Due
<1>9. SavedInv
  BY <1>1, <1>7 DEF SavedInv
<1> QED BY <1>4, <1>5, <1>6, <1>8, <1>9 DEF WriterInv

\* Every step of a session keeps the invariant.
LEMMA WriterNextInv == WriterInv /\ WriterNext => WriterInv'
<1> SUFFICES ASSUME WriterInv, WriterNext PROVE WriterInv'
  OBVIOUS
<1>1. WriterType /\ TakenInOrder /\ SessionInv /\ OneTear /\ SavedInv
  BY DEF WriterInv
<1>2. <<>> \in Seq(Nat) /\ <<>> \in Seq(Taken) /\ Len(<<>>) = 0
  BY EmptySeq
<1>3. ASSUME NEW mode \in {"write", "append"}, Open(mode) PROVE WriterInv'
  <2>1. /\ session = "none" /\ file' = (IF mode = "write" THEN <<>> ELSE file) /\ base' = file'
        /\ writable' = TRUE /\ events' = 0 /\ session' = "open"
        /\ buffer' = buffer /\ clock' = clock /\ job' = job /\ taken' = taken /\ saved' = saved
    BY <1>3 DEF Open
  <2>2. taken' = <<>> /\ buffer' = <<>> /\ saved' = 0 /\ file' \in Seq(Nat)
    BY <1>1, <1>2, <2>1 DEF SessionInv, WriterType
  <2>3. WriterType'
    BY <1>1, <1>2, <2>1, <2>2 DEF WriterType
  <2>4. TakenInOrder'
    BY <1>1, <2>1 DEF TakenInOrder
  <2>5. OneTear' /\ SavedInv'
    BY <2>1, <2>2, BeginsInOrder
  <2>6. SessionInv'
    BY <2>1 DEF SessionInv
  <2> QED BY <2>3, <2>4, <2>5, <2>6 DEF WriterInv
<1>4. ASSUME NEW t \in Threads, Publish(t) PROVE WriterInv'
  <2>1. UNCHANGED <<file, buffer, base, taken, saved, events, writable, clock, session>>
    BY <1>4 DEF Publish, disk, past
  <2>2. PICK payload \in Payloads, time \in Times \cup {NoTime} :
          job' = [job EXCEPT ![t] = [payload |-> payload, timestamp |-> time,
                                     plain |-> time = NoTime]]
    BY <1>4 DEF Publish
  <2>3. /\ [payload |-> payload, timestamp |-> time, plain |-> time = NoTime] \in Job
    BY LogWriterAssumption DEF Job
  <2>4. WriterType'
    BY <1>1, <2>1, <2>2, <2>3 DEF WriterType
  <2>5. TakenInOrder'
    BY <1>1, <2>1, <2>2 DEF TakenInOrder, WriterType
  <2>6. OneTear' /\ SavedInv'
    BY <2>1, LogUntouched
  <2>7. SessionInv'
    BY <1>1, <2>1 DEF SessionInv
  <2> QED BY <2>4, <2>5, <2>6, <2>7 DEF WriterInv
<1>5. ASSUME NEW t \in Threads, WriteEvent(t) PROVE WriterInv'
  BY <1>5, WriteEventStep
<1>6. CASE Flush
  <2>1. /\ session # "none"
        /\ UNCHANGED <<events, clock, job, session, base, taken>>
        /\ \/ Flushed /\ writable' = writable
           \/ /\ \E k \in 0..(Len(buffer) - 1) : BufferFailsAt(k)
              /\ writable' = FALSE /\ saved' = saved
    BY <1>6 DEF Flush, past
  <2>2. TakenInOrder'
    BY <1>1, <2>1 DEF TakenInOrder
  <2>3. CASE Flushed /\ writable' = writable
    <3>1. /\ DiskType' /\ OneTear' /\ saved' = Len(taken) /\ StartsWith(file', SavedPart')
      BY <2>1, <2>3, FlushedStep
    <3>2. Len(taken) \in Nat /\ taken \in Seq(Taken)
      BY <1>1, LenProperties DEF WriterType
    <3>3. WriterType'
      BY <1>1, <2>1, <2>3, <3>1, <3>2 DEF WriterType, DiskType
    <3>4. SessionInv' /\ SavedInv'
      BY <1>1, <2>1, <2>3, <3>1 DEF SessionInv, SavedInv, SavedPart
    <3> QED BY <2>2, <3>1, <3>3, <3>4 DEF WriterInv
  <2>4. CASE (\E k \in 0..(Len(buffer) - 1) : BufferFailsAt(k)) /\ writable' = FALSE /\ saved' = saved
    <3>1. DiskType' /\ OneTear' /\ StartsWith(file', SavedPart')
      BY <2>1, <2>4, BufferFailsStep
    <3>2. WriterType'
      BY <1>1, <2>1, <2>4, <3>1 DEF WriterType, DiskType
    <3>3. SessionInv' /\ SavedInv'
      BY <1>1, <2>1, <2>4, <3>1 DEF SessionInv, SavedInv, SavedPart
    <3> QED BY <2>2, <3>1, <3>2, <3>3 DEF WriterInv
  <2> QED BY <2>1, <2>3, <2>4
<1>7. CASE BeginClose
  <2>1. /\ session = "open" /\ writable' = FALSE /\ session' = "closing"
        /\ UNCHANGED <<file, buffer, base, taken, saved, events, clock, job>>
    BY <1>7 DEF BeginClose, disk, past
  <2>2. WriterType' /\ TakenInOrder'
    BY <1>1, <2>1 DEF WriterType, TakenInOrder
  <2>3. OneTear' /\ SavedInv'
    BY <2>1, LogUntouched
  <2>4. SessionInv'
    BY <2>1 DEF SessionInv
  <2> QED BY <2>2, <2>3, <2>4 DEF WriterInv
<1>8. CASE CloseFlush
  <2>1. /\ session = "closing"
        /\ UNCHANGED <<events, writable, clock, job, base, taken>>
        /\ \/ Flushed /\ session' = "ok"
           \/ /\ \E k \in 0..(Len(buffer) - 1) : BufferFailsAt(k)
              /\ session' = "failed" /\ saved' = saved
    BY <1>8 DEF CloseFlush, past
  <2>2. TakenInOrder' /\ SessionInv'
    BY <1>1, <2>1 DEF TakenInOrder, SessionInv
  <2>3. CASE Flushed /\ session' = "ok"
    <3>1. /\ DiskType' /\ OneTear' /\ saved' = Len(taken) /\ StartsWith(file', SavedPart')
      BY <2>1, <2>3, FlushedStep
    <3>2. Len(taken) \in Nat /\ taken \in Seq(Taken)
      BY <1>1, LenProperties DEF WriterType
    <3>3. WriterType'
      BY <1>1, <2>1, <2>3, <3>1, <3>2 DEF WriterType, DiskType
    <3>4. SavedInv'
      BY <2>1, <3>1 DEF SavedInv, SavedPart
    <3> QED BY <2>2, <3>1, <3>3, <3>4 DEF WriterInv
  <2>4. CASE (\E k \in 0..(Len(buffer) - 1) : BufferFailsAt(k)) /\ session' = "failed" /\ saved' = saved
    <3>1. DiskType' /\ OneTear' /\ StartsWith(file', SavedPart')
      BY <2>1, <2>4, BufferFailsStep
    <3>2. WriterType'
      BY <1>1, <2>1, <2>4, <3>1 DEF WriterType, DiskType
    <3>3. SavedInv'
      BY <2>4, <3>1 DEF SavedInv, SavedPart
    <3> QED BY <2>2, <3>1, <3>2, <3>3 DEF WriterInv
  <2> QED BY <2>1, <2>3, <2>4
<1>9. CASE Gone
  <2>1. /\ base' = file' /\ taken' = <<>> /\ saved' = 0 /\ buffer' = <<>> /\ events' = 0
        /\ writable' = FALSE /\ job' = [t \in Threads |-> NoJob] /\ session' = "none"
        /\ clock' = clock
    BY <1>9 DEF Gone
  <2>2. file' \in Seq(Nat)
    <3>1. PICK k \in 0..Len(buffer) : file' = file \o SubSeq(buffer, 1, k)
      BY <1>9 DEF Gone
    <3>2. file \in Seq(Nat) /\ buffer \in Seq(Nat)
      BY <1>1 DEF WriterType
    <3>3. PICK a \in Seq(Nat) : a = SubSeq(buffer, 1, k)
      BY <3>2, CutInTwo
    <3>4. file \o a \in Seq(Nat)
      BY <3>2, <3>3, ConcatProperties
    <3> QED BY <3>1, <3>3, <3>4
  <2>3. NoJob \in Job /\ NoJob.timestamp = NoTime
    BY <1>2 DEF NoJob, Job
  <2>4. WriterType'
    <3>1. saved' \in 0..Len(taken') /\ events' = Len(taken')
      BY <1>2, <2>1
    <3>2. job' \in [Threads -> Job]
      BY <2>1, <2>3
    <3> QED BY <1>1, <1>2, <2>1, <2>2, <3>1, <3>2 DEF WriterType
  <2>5. TakenInOrder'
    BY <1>2, <2>1, <2>3 DEF TakenInOrder
  <2>6. OneTear' /\ SavedInv'
    BY <2>1, <2>2, BeginsInOrder
  <2>7. SessionInv'
    BY <2>1 DEF SessionInv
  <2> QED BY <2>4, <2>5, <2>6, <2>7 DEF WriterInv
<1>10. CASE Tick
  <2>1. /\ UNCHANGED <<file, buffer, base, taken, saved, events, writable, job, session>>
        /\ clock' = clock + 1
    BY <1>10 DEF Tick, disk, past
  <2>2. WriterType'
    BY <1>1, <2>1 DEF WriterType
  <2>3. TakenInOrder'
    <3>1. clock \in Nat /\ \A i \in 1..Len(taken) : taken[i].timestamp \in Nat
      <4>1. taken \in Seq(Taken)
        BY <1>1 DEF WriterType
      <4>2. \A i \in 1..Len(taken) : taken[i] \in Taken
        BY <4>1, ElementOfSeq
      <4> QED BY <1>1, <4>2 DEF WriterType, Taken
    <3> QED BY <1>1, <2>1, <3>1 DEF TakenInOrder
  <2>4. OneTear' /\ SavedInv'
    BY <2>1, LogUntouched
  <2>5. SessionInv'
    BY <1>1, <2>1 DEF SessionInv
  <2> QED BY <2>2, <2>3, <2>4, <2>5 DEF WriterInv
<1> QED BY <1>3, <1>4, <1>5, <1>6, <1>7, <1>8, <1>9, <1>10 DEF WriterNext

\* And so does every step of a replay, which comes after the sessions.
LEMMA LogNextInv == WriterInv /\ [Next]_vars => WriterInv'
<1> SUFFICES ASSUME WriterInv, [Next]_vars PROVE WriterInv'
  OBVIOUS
<1>1. CASE WriterNext
  BY <1>1, WriterNextInv
<1>2. CASE Replay
  <2>1. /\ session = "none" /\ clock' = 0
        /\ UNCHANGED <<file, buffer, events, writable, job, session, base, taken, saved>>
    BY <1>2 DEF Replay, disk, past
  <2>2. WriterType' /\ SessionInv'
    BY <2>1 DEF WriterInv, WriterType, SessionInv
  <2>3. TakenInOrder'
    <3>1. taken = <<>> /\ Len(<<>>) = 0
      BY <2>1, EmptySeq DEF WriterInv, SessionInv
    <3> QED BY <2>1, <3>1 DEF WriterInv, TakenInOrder
  <2>4. OneTear' /\ SavedInv'
    BY <2>1, LogUntouched
  <2> QED BY <2>2, <2>3, <2>4 DEF WriterInv
<1>3. CASE UNCHANGED writerVars
  <2>1. UNCHANGED <<file, buffer, events, writable, clock, job, session, base, taken, saved>>
    BY <1>3 DEF writerVars, disk, past
  <2>2. WriterType' /\ SessionInv' /\ TakenInOrder'
    BY <2>1 DEF WriterInv, WriterType, SessionInv, TakenInOrder
  <2>3. OneTear' /\ SavedInv'
    BY <2>1, LogUntouched
  <2> QED BY <2>2, <2>3 DEF WriterInv
<1> QED BY <1>1, <1>2, <1>3 DEF Next, vars

-----------------------------------------------------------------------------
(* The theorems about the sessions.                                        *)

\* The invariant holds of every log, with any threads and however writes fail.
THEOREM WriterCorrect == Spec => []WriterInv
<1>1. Init => WriterInv
  BY WriterInitInv DEF Init
<1> QED BY <1>1, LogNextInv, PTL DEF Spec

\* Client::write never puts an event behind a part of one, numbers the events
\* of a session from zero, and stamps plain publishes in the order it writes.
THEOREM LogInOrderHolds == Spec => []LogInOrder
<1>1. ASSUME WriterInv PROVE LogInOrder
  <2>1. WriterType /\ TakenInOrder /\ OneTear
    BY <1>1 DEF WriterInv
  <2>2. CASE file \o buffer = Due
    BY <2>1, <2>2 DEF LogInOrder, TakenInOrder, Due
  <2>3. CASE /\ ~writable /\ buffer = <<>>
             /\ StartsWith(file, Due) /\ Behind(Due, file) # <<>>
             /\ \E e \in Written : Begins(Behind(Due, file), e)
    <3>1. PICK s \in Seq(Nat), t \in Seq(Nat) : s = Due /\ t = file
      BY <2>1, PartsType DEF DiskType
    <3>2. PICK r \in Seq(Nat) : r = Behind(s, t)
      BY <3>1, BehindType
    <3>3. s \in Seq(Nat) /\ r \in Seq(Nat) /\ t = s \o r /\ r # <<>>
      BY <2>3, <3>1, <3>2 DEF StartsWith
    <3>4. IsStrictPrefix(s, t) /\ Len(t) - Len(s) = Len(r)
      BY <3>3, StartIsPrefix
    <3>5. Len(r) < HEADER_LEN + CHANNEL_MAX + MAX_MESSAGE_LEN
      <4>1. PICK e \in Written : Len(r) < Len(encode(e))
        BY <2>3, <3>1, <3>2 DEF Begins
      <4>2. Len(encode(e)) = 7 + Len(e.payload) /\ Len(e.payload) \in Nat
        BY EncodeCells DEF Written
      <4>3. Len(e.payload) <= MAX_MESSAGE_LEN
        BY DEF Written, Encodes
      <4>4. Len(r) \in Nat
        BY <3>2, LenProperties
      <4> QED BY <4>1, <4>2, <4>3, <4>4, LogWireAssumption DEF HEADER_LEN
    <3> QED BY <2>1, <2>3, <3>1, <3>2, <3>4, <3>5 DEF LogInOrder, TakenInOrder, Due
  <2> QED BY <2>1, <2>2, <2>3 DEF OneTear
<1> QED BY <1>1, WriterCorrect, PTL

\* A flush that gave back Ok has every event taken before it in the file, and a
\* close that did has every event of the session.
THEOREM AllTakenIsThereHolds == Spec => []AllTakenIsThere
<1>1. ASSUME WriterInv PROVE AllTakenIsThere
  <2>1. WriterType /\ SavedInv
    BY <1>1 DEF WriterInv
  <2>2. PICK s \in Seq(Nat), t \in Seq(Nat) : s = SavedPart /\ t = file
    BY <2>1, PartsType DEF DiskType
  <2>3. PICK r \in Seq(Nat) : r = Behind(s, t)
    BY <2>2, BehindType
  <2>4. s \in Seq(Nat) /\ r \in Seq(Nat) /\ t = s \o r
    BY <2>1, <2>2, <2>3 DEF StartsWith, SavedInv, SavedPart
  <2>5. IsPrefix(s, t)
    BY <2>4, StartIsPrefix
  <2> QED BY <2>1, <2>2, <2>5 DEF AllTakenIsThere, SavedInv, SavedPart
<1> QED BY <1>1, WriterCorrect, PTL

-----------------------------------------------------------------------------
(* What the sessions leave.                                                *)

\* Behind its first p cells, `cells` has the event e, or as much of e as there are
\* cells.
Holds(cells, p, e) ==
  \A k \in 1..Len(encode(e)) : p + k <= Len(cells) => cells[p + k] = encode(e)[k]

\* The first m of `some` are in `cells`, one behind the other, up to ends[m].
Lie(cells, some, m, ends) ==
  /\ ends \in [0..m -> 0..Len(cells)] /\ ends[0] = 0
  /\ \A i \in 1..m : /\ some[i] \in Written /\ Holds(cells, ends[i - 1], some[i])
                     /\ ends[i] = ends[i - 1] + Len(encode(some[i]))

\* Behind its first p cells, `cells` has one event in part, and no more.
PartBehind(cells, p) ==
  p < Len(cells) /\ \E e \in Written : Holds(cells, p, e) /\ Len(cells) < p + Len(encode(e))

\* In front of the first tear, or in all, there are m events; and where nothing
\* came after that tear, it is a part of one event.
Left(cells, some, m, ends) ==
  /\ m \in 0..Len(some) /\ Lie(cells, some, m, ends)
  /\ \/ m = Len(some) /\ ends[m] = Len(cells)
     \/ /\ m < Len(some) /\ some[m + 1] = Tear
        /\ m + 1 = Len(some) => PartBehind(cells, ends[m])

PastInv ==
  /\ history \in Seq(Written \cup {Tear})
  /\ \E m \in Nat : \E ends \in [0..m -> Nat] : Left(base, history, m, ends)

\* An event is where it was put.
LEMMA HoldsAt ==
  ASSUME NEW e, e.number \in Nat, e.timestamp \in Nat, e.payload \in Seq(Nat),
         NEW a \in Seq(Nat), NEW t \in Seq(Nat), NEW x, x = a \o (encode(e) \o t)
  PROVE  /\ Holds(x, Len(a), e) /\ Len(a \o encode(e)) = Len(a) + Len(encode(e))
         /\ Len(a) + Len(encode(e)) <= Len(x)
<1> DEFINE c == encode(e)
           ct == c \o t
<1>1. c \in Seq(Nat) /\ Len(a) \in Nat /\ Len(c) \in Nat /\ Len(t) \in Nat
  BY EncodeCells, LenProperties
<1>2. c = encode(e) /\ x = a \o ct
  OBVIOUS
<1> HIDE DEF c
<1>3. /\ ct \in Seq(Nat) /\ Len(ct) = Len(c) + Len(t)
      /\ \A i \in 1..Len(c) : ct[i] = c[i]
  BY <1>1, Joined
<1> HIDE DEF ct
<1>4. /\ Len(a \o ct) = Len(a) + Len(ct)
      /\ \A i \in 1..Len(ct) : (a \o ct)[Len(a) + i] = ct[i]
  <2>1. a \in Seq(Nat) /\ ct \in Seq(Nat)
    BY <1>3
  <2> QED BY <2>1, Joined
<1>5. ASSUME NEW i \in 1..Len(c) PROVE x[Len(a) + i] = c[i]
  <2>1. i \in 1..Len(ct)
    BY <1>1, <1>3
  <2> QED BY <1>2, <1>3, <1>4, <2>1
<1>6. Len(a \o c) = Len(a) + Len(c)
  BY <1>1, Joined
<1>7. Len(a) + Len(c) <= Len(x)
  BY <1>1, <1>2, <1>3, <1>4
<1> QED BY <1>2, <1>5, <1>6, <1>7 DEF Holds

\* A part of an event is where it was put.
LEMMA PartHoldsAt ==
  ASSUME NEW e, NEW a \in Seq(Nat), NEW r \in Seq(Nat), Begins(r, e), NEW x, x = a \o r
  PROVE  Holds(x, Len(a), e) /\ Len(x) = Len(a) + Len(r)
<1>1. Len(a) \in Nat /\ Len(r) \in Nat
  BY LenProperties
<1>2. /\ Len(x) = Len(a) + Len(r)
      /\ \A i \in 1..Len(r) : x[Len(a) + i] = r[i]
  BY Joined
<1>3. ASSUME NEW k \in 1..Len(encode(e)), Len(a) + k <= Len(x) PROVE x[Len(a) + k] = encode(e)[k]
  <2>1. k \in 1..Len(r)
    BY <1>1, <1>2, <1>3
  <2> QED BY <1>2, <2>1 DEF Begins
<1> QED BY <1>2, <1>3 DEF Holds

\* A log and the first part of it hold the same.
Heads(s, t) == Len(s) <= Len(t) /\ \A k \in 1..Len(s) : t[k] = s[k]

LEMMA HeadHolds ==
  ASSUME NEW s \in Seq(Nat), NEW t \in Seq(Nat), Heads(s, t), NEW p \in Nat, NEW e,
         Len(encode(e)) \in Nat
  PROVE  /\ Holds(t, p, e) => Holds(s, p, e)
         /\ Holds(s, p, e) /\ p + Len(encode(e)) <= Len(s) => Holds(t, p, e)
<1>1. Len(s) \in Nat /\ Len(t) \in Nat /\ Len(s) <= Len(t) /\ \A k \in 1..Len(s) : t[k] = s[k]
  BY LenProperties DEF Heads
<1>2. ASSUME Holds(t, p, e), NEW k \in 1..Len(encode(e)), p + k <= Len(s)
      PROVE  s[p + k] = encode(e)[k]
  <2>1. p + k \in 1..Len(s) /\ p + k <= Len(t)
    BY <1>1, <1>2
  <2>2. t[p + k] = encode(e)[k]
    BY <1>2, <2>1 DEF Holds
  <2> QED BY <1>1, <2>1, <2>2
<1>3. ASSUME Holds(s, p, e), p + Len(encode(e)) <= Len(s), NEW k \in 1..Len(encode(e)), p + k <= Len(t)
      PROVE  t[p + k] = encode(e)[k]
  <2>1. p + k \in 1..Len(s) /\ p + k <= Len(s)
    BY <1>1, <1>3
  <2>2. s[p + k] = encode(e)[k]
    BY <1>3, <2>1 DEF Holds
  <2> QED BY <1>1, <2>1, <2>2
<1> QED BY <1>2, <1>3 DEF Holds

\* A sequence and what is behind it.
LEMMA HeadsOf ==
  ASSUME NEW s \in Seq(Nat), NEW r \in Seq(Nat), NEW t, t = s \o r
  PROVE  t \in Seq(Nat) /\ Heads(s, t) /\ Len(t) = Len(s) + Len(r)
<1>1. Len(s) \in Nat /\ Len(r) \in Nat
  BY LenProperties
<1>2. /\ t \in Seq(Nat) /\ Len(t) = Len(s) + Len(r)
      /\ \A k \in 1..Len(s) : t[k] = s[k]
  BY Joined
<1> QED BY <1>1, <1>2 DEF Heads

\* Of two heads of one sequence the shorter is a head of the other, and the same
\* if it is as long.
LEMMA HeadsMeet ==
  ASSUME NEW S, NEW s \in Seq(S), NEW t \in Seq(S), NEW x \in Seq(S), Heads(s, x), Heads(t, x)
  PROVE  /\ Len(s) <= Len(t) => Heads(s, t)
         /\ IsPrefix(s, t) <=> Len(s) <= Len(t)
         /\ s = t <=> Len(s) = Len(t)
<1>1. Len(s) \in Nat /\ Len(t) \in Nat /\ Len(x) \in Nat
  BY LenProperties
<1>2. /\ \A k \in 1..Len(s) : x[k] = s[k]
      /\ \A k \in 1..Len(t) : x[k] = t[k]
  BY DEF Heads
<1>3. ASSUME Len(s) <= Len(t) PROVE Heads(s, t)
  <2>1. \A k \in 1..Len(s) : k \in 1..Len(t)
    BY <1>1, <1>3
  <2> QED BY <1>2, <1>3, <2>1 DEF Heads
<1>4. ASSUME Len(s) = Len(t) PROVE s = t
  <2>1. \A k \in 1..Len(s) : s[k] = t[k]
    BY <1>2, <1>4
  <2> QED BY <1>4, <2>1, SeqEqual
<1>5. ASSUME Len(s) <= Len(t) PROVE IsPrefix(s, t)
  <2> DEFINE a == SubSeq(t, 1, Len(s))
  <2>1. Len(s) \in 0..Len(t)
    BY <1>1, <1>5
  <2>2. a \in Seq(S) /\ Len(a) = Len(s) /\ \A i \in 1..Len(s) : a[i] = t[i]
    BY <2>1, HeadIs
  <2> HIDE DEF a
  <2>3. \A i \in 1..Len(a) : a[i] = s[i]
    BY <1>3, <1>5, <2>2 DEF Heads
  <2>4. a = s
    BY <2>2, <2>3, SeqEqual
  <2>5. SubSeq(s, 1, Len(s)) = s
    BY SubSeqFull
  <2> QED BY <1>5, <2>4, <2>5 DEF IsPrefix, a
<1>6. IsPrefix(s, t) => Len(s) <= Len(t)
  BY DEF IsPrefix
<1> QED BY <1>3, <1>4, <1>5, <1>6

\* The greatest of some numbers up to n is one of them.
LEMMA GreatestIs ==
  ASSUME NEW n \in Nat, NEW S, S \subseteq 0..n, S # {}
  PROVE  Max(S) \in S /\ \A y \in S : y <= Max(S)
<1> DEFINE D == {n - y : y \in S}
<1>1. D \subseteq Nat /\ D # {}
  <2>1. \A y \in S : n - y \in Nat
    <3>1. ASSUME NEW y \in S PROVE n - y \in Nat
      <4>1. y \in 0..n
        OBVIOUS
      <4> QED BY <4>1
    <3> QED BY <3>1
  <2> QED BY <2>1, Zenon
<1>2. Min(D) \in D /\ \A d \in D : Min(D) <= d
  BY <1>1, LeastIs
<1>3. PICK x \in S : Min(D) = n - x
  BY <1>2
<1>4. \A y \in S : x >= y
  <2>1. ASSUME NEW y \in S PROVE x >= y
    <3>1. n - x <= n - y
      BY <1>2, <1>3
    <3> QED BY <3>1
  <2> QED BY <2>1
<1>5. \E z \in S : \A y \in S : z >= y
  BY <1>4
<1>6. Max(S) \in S /\ \A y \in S : Max(S) >= y
  BY <1>5 DEF Max
<1> QED BY <1>6

\* The log up to the event j of those of a session.
FrontOf(b, w, j) == b \o Cells(SubSeq(w, 1, j))

LEMMA FrontNext ==
  ASSUME NEW b \in Seq(Nat), NEW w \in Seq(Taken)
  PROVE  /\ FrontOf(b, w, 0) = b /\ FrontOf(b, w, Len(w)) = b \o Cells(w)
         /\ \A j \in 0..Len(w) : FrontOf(b, w, j) \in Seq(Nat)
         /\ \A j \in 0..Len(w) : j < Len(w) =>
              FrontOf(b, w, j + 1) = FrontOf(b, w, j) \o encode(w[j + 1])
<1>1. FrontOf(b, w, 0) = b
  <2>1. SubSeq(w, 1, 0) = <<>>
    BY SubSeqEmpty
  <2> QED BY <2>1, CellsOfEvents, ConcatEmptySeq DEF FrontOf
<1>2. FrontOf(b, w, Len(w)) = b \o Cells(w)
  BY SubSeqFull DEF FrontOf
<1>3. ASSUME NEW j \in 0..Len(w)
      PROVE  Cells(SubSeq(w, 1, j)) \in Seq(Nat) /\ FrontOf(b, w, j) \in Seq(Nat)
  <2>1. SubSeq(w, 1, j) \in Seq(Taken)
    BY HeadIs
  <2>2. Cells(SubSeq(w, 1, j)) \in Seq(Nat)
    BY <2>1, CellsOfEvents
  <2> QED BY <2>2, ConcatProperties DEF FrontOf
<1>4. ASSUME NEW j \in 0..Len(w), j < Len(w)
      PROVE  FrontOf(b, w, j + 1) = FrontOf(b, w, j) \o encode(w[j + 1])
  <2> DEFINE s == SubSeq(w, 1, j)
             e == w[j + 1]
             c == Cells(s)
             d == encode(e)
  <2>1. j + 1 \in 1..Len(w) /\ j + 1 \in 0..Len(w) /\ j \in Nat /\ Len(w) \in Nat
    BY <1>4, LenProperties
  <2>2. s \in Seq(Taken) /\ e \in Taken
    BY <2>1, HeadIs, ElementOfSeq
  <2>3. SubSeq(w, 1, j + 1) = Append(s, e)
    <3> DEFINE t == SubSeq(w, 1, j + 1)
               u == Append(s, e)
    <3>1. t \in Seq(Taken) /\ Len(t) = j + 1 /\ \A i \in 1..j + 1 : t[i] = w[i]
      BY <2>1, HeadIs
    <3>2. Len(s) = j /\ \A i \in 1..j : s[i] = w[i]
      BY <2>1, HeadIs
    <3>3. e = w[j + 1]
      OBVIOUS
    <3> HIDE DEF s, e, t
    <3>4. /\ u \in Seq(Taken) /\ Len(u) = Len(s) + 1
          /\ \A i \in 1..Len(s) : u[i] = s[i]
          /\ u[Len(s) + 1] = e
      BY <2>2, AppendProperties
    <3> HIDE DEF u
    <3>5. ASSUME NEW i \in 1..Len(t) PROVE t[i] = u[i]
      <4>1. CASE i = j + 1
        BY <2>1, <3>1, <3>2, <3>3, <3>4, <4>1
      <4>2. CASE i # j + 1
        <5>1. i \in 1..j
          BY <2>1, <3>1, <4>2
        <5>2. u[i] = s[i] /\ s[i] = w[i]
          BY <3>2, <3>4, <5>1
        <5> QED BY <3>1, <5>2
      <4> QED BY <4>1, <4>2
    <3>6. Len(t) = Len(u)
      BY <3>1, <3>2, <3>4
    <3>7. t = u
      BY <3>1, <3>4, <3>5, <3>6, SeqEqual
    <3> QED BY <3>7 DEF t, u
  <2>4. Cells(SubSeq(w, 1, j + 1)) = c \o d
    BY <2>2, <2>3, CellsOfEvents
  <2>5. c \in Seq(Nat) /\ d \in Seq(Nat)
    BY <1>3, <2>2, EncodeIs
  <2>6. (b \o c) \o d = b \o (c \o d)
    <3> HIDE DEF c, d
    <3> QED BY <2>5, ThreeParts, Zenon
  <2> QED BY <2>4, <2>6 DEF FrontOf
<1> QED BY <1>1, <1>2, <1>3, <1>4

\* In a log that starts with all events of a session, each of them is where the
\* ones in front of it end.
LEMMA FrontIs ==
  ASSUME NEW b \in Seq(Nat), NEW w \in Seq(Taken), NEW r \in Seq(Nat),
         NEW x, x = (b \o Cells(w)) \o r
  PROVE  /\ \A j \in 0..Len(w) : Heads(FrontOf(b, w, j), x)
         /\ \A j \in 0..Len(w) : j < Len(w) =>
              /\ Holds(x, Len(FrontOf(b, w, j)), w[j + 1])
              /\ Len(FrontOf(b, w, j + 1)) = Len(FrontOf(b, w, j)) + Len(encode(w[j + 1]))
<1> DEFINE n == Len(w)
           F(j) == FrontOf(b, w, j)
           AsFront(j) == \E t \in Seq(Nat) : x = F(j) \o t
           B == {d \in Nat : d <= n => AsFront(n - d)}
<1>1. n \in Nat
  BY LenProperties
<1>2. ASSUME NEW j \in 0..n, j < n
      PROVE  /\ j + 1 \in 0..n /\ w[j + 1] \in Taken /\ encode(w[j + 1]) \in Seq(Nat)
             /\ F(j) \in Seq(Nat) /\ F(j + 1) = F(j) \o encode(w[j + 1])
  <2>1. j + 1 \in 1..n /\ j + 1 \in 0..n
    BY <1>1, <1>2
  <2>2. w[j + 1] \in Taken
    BY <2>1, ElementOfSeq
  <2>3. encode(w[j + 1]) \in Seq(Nat)
    BY <2>2, EncodeIs
  <2> QED BY <1>2, <2>1, <2>2, <2>3, FrontNext
<1>3. F(n) = b \o Cells(w) /\ \A j \in 0..n : F(j) \in Seq(Nat)
  BY FrontNext
<1> HIDE DEF F, n
<1>4. AsFront(n)
  BY <1>3
<1>5. ASSUME NEW j \in 0..n, j < n, NEW t \in Seq(Nat), x = F(j + 1) \o t
      PROVE  x = F(j) \o (encode(w[j + 1]) \o t) /\ encode(w[j + 1]) \o t \in Seq(Nat)
  <2>1. PICK f \in Seq(Nat), c \in Seq(Nat) : f = F(j) /\ c = encode(w[j + 1])
    BY <1>2, <1>5
  <2>2. x = (f \o c) \o t
    BY <1>2, <1>5, <2>1
  <2>3. (f \o c) \o t = f \o (c \o t)
    BY <2>1, ThreeParts, Zenon
  <2>4. c \o t \in Seq(Nat)
    BY <2>1, ConcatProperties
  <2> QED BY <2>1, <2>2, <2>3, <2>4
<1>6. \A j \in 0..n : AsFront(j)
  <2>1. 0 \in B
    <3>1. n - 0 = n
      BY <1>1
    <3> QED BY <1>4, <3>1
  <2>2. ASSUME NEW d \in Nat, d \in B PROVE d + 1 \in B
    <3>0. d + 1 \in Nat
      OBVIOUS
    <3>1. SUFFICES ASSUME d + 1 <= n PROVE AsFront(n - (d + 1))
      BY <3>0, Zenon
    <3> DEFINE j == n - (d + 1)
    <3>2. j \in 0..n /\ j < n /\ j + 1 = n - d /\ d <= n
      BY <1>1, <3>1
    <3> HIDE DEF j
    <3>3. PICK t \in Seq(Nat) : x = F(j + 1) \o t
      BY <2>2, <3>2
    <3>4. AsFront(j)
      BY <1>5, <3>2, <3>3
    <3> QED BY <3>4 DEF j
  <2> HIDE DEF B
  <2>3. \A d \in Nat : d \in B
    BY <2>1, <2>2, NatSetInduction
  <2>4. ASSUME NEW j \in 0..n PROVE AsFront(j)
    <3>1. n - j \in Nat /\ n - j <= n /\ n - (n - j) = j
      BY <1>1
    <3> QED BY <2>3, <3>1 DEF B
  <2> QED BY <2>4
<1>7. ASSUME NEW j \in 0..n PROVE Heads(F(j), x)
  <2>1. PICK t \in Seq(Nat) : x = F(j) \o t
    BY <1>6
  <2> QED BY <1>3, <2>1, HeadsOf
<1>8. ASSUME NEW j \in 0..n, j < n
      PROVE  /\ Holds(x, Len(F(j)), w[j + 1])
             /\ Len(F(j + 1)) = Len(F(j)) + Len(encode(w[j + 1]))
  <2>1. PICK f \in Seq(Nat), e \in Taken : f = F(j) /\ e = w[j + 1]
    BY <1>2, <1>8
  <2>2. PICK t \in Seq(Nat) : x = F(j + 1) \o t
    BY <1>2, <1>6, <1>8
  <2>3. x = f \o (encode(e) \o t)
    BY <1>5, <1>8, <2>1, <2>2
  <2>4. e.number \in Nat /\ e.timestamp \in Nat /\ e.payload \in Seq(Nat)
    BY DEF Taken
  <2>5. Holds(x, Len(f), e) /\ Len(f \o encode(e)) = Len(f) + Len(encode(e))
    BY <2>3, <2>4, HoldsAt
  <2> QED BY <1>2, <1>8, <2>1, <2>5
<1> QED BY <1>7, <1>8 DEF F, n

\* An event as a replay gives it.
Strip(e) == [number |-> e.number, timestamp |-> e.timestamp, payload |-> e.payload]

LEMMA StripIs ==
  ASSUME NEW e \in Taken, Encodes(e)
  PROVE  /\ Strip(e) \in Written /\ Strip(e) # Tear /\ encode(Strip(e)) = encode(e)
         /\ Len(encode(e)) \in Nat \ {0}
         /\ \A cells, p : Holds(cells, p, Strip(e)) <=> Holds(cells, p, e)
<1>1. Strip(e) \in Written
  BY DEF Strip, Written, Taken, Encodes
<1>2. encode(Strip(e)) = encode(e)
  BY DEF Strip, encode
<1>3. Len(encode(e)) \in Nat \ {0}
  BY EncodeIs
<1>4. Strip(e) # Tear
  BY DEF Strip, Tear, NoTime, NoEvent, Taken
<1> QED BY <1>1, <1>2, <1>3, <1>4 DEF Holds

\* What an event of a log is.
LEMMA WrittenIs ==
  ASSUME NEW e \in Written
  PROVE  /\ e.number \in Nat /\ e.timestamp \in Nat /\ e.payload \in Seq(Nat)
         /\ Len(e.payload) <= MAX_MESSAGE_LEN /\ e # Tear
         /\ encode(e) \in Seq(Nat) /\ Len(encode(e)) \in Nat \ {0}
         /\ Len(encode(e)) = 7 + Len(e.payload) /\ Len(e.payload) \in Nat
<1>1. /\ e.number \in Nat /\ e.timestamp \in Nat /\ e.payload \in Seq(Nat)
      /\ Len(e.payload) <= MAX_MESSAGE_LEN
  BY DEF Written, Encodes
<1>2. e # Tear
  BY <1>1 DEF Tear, NoTime, NoEvent
<1> QED BY <1>1, <1>2, EncodeCells

\* The log f is b and behind it the n events of w, each where G says the ones in
\* front of it end, and then nothing or a part of an event; and g is what h was,
\* with these events, and a tear for that part.
Adds(b, f, h, n, w, G, g) ==
  /\ Heads(b, f) /\ G[0] = Len(b) /\ G[n] <= Len(f)
  /\ \A j \in 1..n : /\ w[j] \in Taken /\ Encodes(w[j]) /\ Holds(f, G[j - 1], w[j])
                    /\ G[j] = G[j - 1] + Len(encode(w[j])) /\ G[j] <= Len(f)
  /\ \A i \in 1..Len(h) : g[i] = h[i]
  /\ \A j \in 1..n : g[Len(h) + j] = Strip(w[j])
  /\ \/ Len(g) = Len(h) + n /\ G[n] = Len(f)
     \/ Len(g) = Len(h) + n + 1 /\ g[Len(h) + n + 1] = Tear /\ PartBehind(f, G[n])

\* The events that a session put behind a log with no tear are whole like those
\* before, and behind a tear they leave it where it is.
LEMMA LeftMore ==
  ASSUME NEW b \in Seq(Nat), NEW f \in Seq(Nat), NEW n \in Nat, NEW w,
         NEW h \in Seq(Written \cup {Tear}), NEW g \in Seq(Written \cup {Tear}),
         NEW m \in Nat, NEW ends \in [0..m -> Nat], Left(b, h, m, ends),
         NEW G \in [0..n -> Nat], Adds(b, f, h, n, w, G, g)
  PROVE  \E k \in Nat : \E more \in [0..k -> Nat] : Left(f, g, k, more)
<1>0. /\ Heads(b, f) /\ G[0] = Len(b) /\ G[n] <= Len(f)
      /\ \A j \in 1..n : /\ w[j] \in Taken /\ Encodes(w[j]) /\ Holds(f, G[j - 1], w[j])
                        /\ G[j] = G[j - 1] + Len(encode(w[j])) /\ G[j] <= Len(f)
      /\ \A i \in 1..Len(h) : g[i] = h[i]
      /\ \A j \in 1..n : g[Len(h) + j] = Strip(w[j])
      /\ \/ Len(g) = Len(h) + n /\ G[n] = Len(f)
         \/ Len(g) = Len(h) + n + 1 /\ g[Len(h) + n + 1] = Tear /\ PartBehind(f, G[n])
  BY DEF Adds
<1> USE <1>0
<1>1. /\ Len(b) \in Nat /\ Len(f) \in Nat /\ Len(h) \in Nat /\ Len(g) \in Nat /\ Len(b) <= Len(f)
      /\ m \in 0..Len(h)
  BY LenProperties DEF Heads, Left
<1>2. /\ ends \in [0..m -> 0..Len(b)] /\ ends[0] = 0
      /\ \A i \in 1..m : /\ h[i] \in Written /\ Holds(b, ends[i - 1], h[i])
                         /\ ends[i] = ends[i - 1] + Len(encode(h[i]))
  BY DEF Left, Lie
<1>3. ASSUME NEW i \in 1..m
      PROVE  /\ g[i] = h[i] /\ g[i] \in Written /\ Holds(f, ends[i - 1], g[i])
             /\ ends[i] = ends[i - 1] + Len(encode(g[i]))
  <2>1. i \in 1..Len(h) /\ i \in 0..m /\ i - 1 \in 0..m
    BY <1>1
  <2>2. g[i] = h[i] /\ h[i] \in Written
    BY <1>2, <2>1
  <2>3. ends[i - 1] \in Nat /\ ends[i] <= Len(b) /\ Len(encode(h[i])) \in Nat
    BY <1>1, <1>2, <2>1, <2>2, WrittenIs
  <2>4. ends[i - 1] + Len(encode(h[i])) <= Len(b)
    BY <1>2, <2>3
  <2>5. Holds(f, ends[i - 1], h[i])
    BY <1>2, <2>3, <2>4, HeadHolds
  <2> QED BY <1>2, <2>2, <2>5
<1>4. CASE m < Len(h) /\ h[m + 1] = Tear
  <2>1. g[m + 1] = Tear /\ m < Len(g) /\ m \in 0..Len(g)
    <3>1. m + 1 \in 1..Len(h)
      BY <1>1, <1>4
    <3>2. g[m + 1] = Tear
      BY <1>4, <3>1
    <3>3. Len(h) <= Len(g)
      BY <1>1
    <3> QED BY <1>1, <1>4, <3>2, <3>3
  <2>2. ends \in [0..m -> 0..Len(f)]
    BY <1>1, <1>2
  <2>3. ASSUME m + 1 = Len(g) PROVE PartBehind(f, ends[m])
    <3>1. n = 0 /\ Len(g) = Len(h)
      BY <1>1, <1>4, <2>3
    <3>2. Len(f) = Len(b)
      BY <1>1, <3>1
    <3>3. f = b
      <4>1. Heads(f, f)
        BY <1>1 DEF Heads
      <4> QED BY <3>2, <4>1, HeadsMeet
    <3>4. PartBehind(b, ends[m])
      BY <1>4, <2>3, <3>1 DEF Left
    <3> QED BY <3>3, <3>4
  <2>4. Left(f, g, m, ends)
    BY <1>2, <1>3, <2>1, <2>2, <2>3 DEF Left, Lie
  <2> QED BY <2>4
<1>5. CASE m = Len(h) /\ ends[m] = Len(b)
  <2> DEFINE k == m + n
             more == [i \in 0..k |-> IF i <= m THEN ends[i] ELSE G[i - m]]
  <2>1. k \in Nat /\ k \in 0..Len(g)
    BY <1>1, <1>5
  <2>2. /\ more \in [0..k -> 0..Len(f)]
        /\ \A i \in 0..m : more[i] = ends[i]
        /\ \A j \in 0..n : more[m + j] = G[j]
    <3>1. ASSUME NEW i \in 0..k PROVE (IF i <= m THEN ends[i] ELSE G[i - m]) \in 0..Len(f)
      <4>1. CASE i <= m
        <5>1. i \in 0..m
          BY <4>1
        <5>2. ends[i] \in 0..Len(b)
          BY <1>2, <5>1
        <5> QED BY <1>1, <4>1, <5>2
      <4>2. CASE ~(i <= m)
        <5>1. i - m \in 1..n /\ i - m \in 0..n
          BY <1>1, <4>2
        <5>2. G[i - m] \in Nat /\ G[i - m] <= Len(f)
          BY <5>1
        <5> QED BY <1>1, <4>2, <5>2
      <4> QED BY <4>1, <4>2
    <3>2. more \in [0..k -> 0..Len(f)]
      BY <3>1
    <3>3. \A i \in 0..m : more[i] = ends[i]
      OBVIOUS
    <3>4. ASSUME NEW j \in 0..n PROVE more[m + j] = G[j]
      <4>1. m + j \in 0..k
        OBVIOUS
      <4>2. CASE j = 0
        BY <1>5, <4>1, <4>2
      <4>3. CASE j # 0
        <5>1. ~(m + j <= m) /\ (m + j) - m = j
          BY <4>3
        <5> QED BY <4>1, <5>1
      <4> QED BY <4>2, <4>3
    <3> QED BY <3>2, <3>3, <3>4
  <2> HIDE DEF more, k
  <2>3. ASSUME NEW i \in 1..k
        PROVE  /\ g[i] \in Written /\ Holds(f, more[i - 1], g[i])
               /\ more[i] = more[i - 1] + Len(encode(g[i]))
    <3>1. CASE i <= m
      <4>1. i \in 1..m /\ i \in 0..m /\ i - 1 \in 0..m
        BY <3>1
      <4> QED BY <1>3, <2>2, <4>1
    <3>2. CASE ~(i <= m)
      <4> DEFINE j == i - m
      <4>1. j \in 1..n /\ j \in 0..n /\ j - 1 \in 0..n /\ m + j = i /\ m + (j - 1) = i - 1
        BY <3>2 DEF k
      <4> HIDE DEF j
      <4>2. g[i] = Strip(w[j]) /\ more[i] = G[j] /\ more[i - 1] = G[j - 1]
        BY <1>5, <2>2, <4>1
      <4>3. /\ w[j] \in Taken /\ Encodes(w[j]) /\ Holds(f, G[j - 1], w[j])
            /\ G[j] = G[j - 1] + Len(encode(w[j]))
        BY <4>1
      <4>4. /\ Strip(w[j]) \in Written /\ encode(Strip(w[j])) = encode(w[j])
            /\ Holds(f, G[j - 1], Strip(w[j]))
        BY <4>3, StripIs
      <4> QED BY <4>2, <4>3, <4>4
    <3> QED BY <3>1, <3>2
  <2>4. more[0] = 0 /\ more[k] = G[n]
    <3>1. 0 \in 0..m /\ n \in 0..n
      OBVIOUS
    <3> QED BY <1>2, <2>2, <3>1 DEF k
  <2>5. \/ k = Len(g) /\ more[k] = Len(f)
        \/ /\ k < Len(g) /\ g[k + 1] = Tear
           /\ k + 1 = Len(g) => PartBehind(f, more[k])
    BY <1>1, <1>5, <2>4 DEF k
  <2>6. Left(f, g, k, more)
    BY <2>1, <2>2, <2>3, <2>4, <2>5 DEF Left, Lie
  <2>7. more \in [0..k -> Nat]
    BY <1>1, <2>1, <2>2
  <2> QED BY <2>1, <2>6, <2>7
<1> QED BY <1>4, <1>5 DEF Left

\* What never goes down from one to the next never goes down.
LEMMA Grows ==
  ASSUME NEW n \in Nat, NEW q \in [0..n -> Nat], \A i \in 1..n : q[i - 1] <= q[i]
  PROVE  \A i, j \in 0..n : i <= j => q[i] <= q[j]
<1> DEFINE D == {d \in Nat : \A i \in 0..n : i + d <= n => q[i] <= q[i + d]}
<1>1. 0 \in D
  <2>1. \A i \in 0..n : i + 0 = i /\ q[i] <= q[i]
    OBVIOUS
  <2> QED BY <2>1
<1>2. ASSUME NEW d \in Nat, d \in D PROVE d + 1 \in D
  <2>1. ASSUME NEW i \in 0..n, i + (d + 1) <= n PROVE q[i] <= q[i + (d + 1)]
    <3>1. i + d <= n /\ i + d \in 0..n /\ i + (d + 1) \in 1..n /\ i + (d + 1) \in 0..n
          /\ (i + (d + 1)) - 1 = i + d
      BY <2>1
    <3>2. q[i] <= q[i + d] /\ q[i + d] <= q[i + (d + 1)]
      BY <1>2, <3>1
    <3>3. q[i] \in Nat /\ q[i + d] \in Nat /\ q[i + (d + 1)] \in Nat
      BY <3>1
    <3> QED BY <3>2, <3>3
  <2> QED BY <2>1
<1> HIDE DEF D
<1>3. \A d \in Nat : d \in D
  BY <1>1, <1>2, NatSetInduction
<1>4. ASSUME NEW i \in 0..n, NEW j \in 0..n, i <= j PROVE q[i] <= q[j]
  <2>1. j - i \in Nat /\ i + (j - i) = j
    BY <1>4
  <2>2. j - i \in D /\ i + (j - i) <= n
    BY <1>3, <2>1
  <2>3. q[i] <= q[i + (j - i)]
    BY <2>2 DEF D
  <2> QED BY <2>1, <2>3
<1> QED BY <1>4

\* The process goes: what it leaves are events, and a part of one at most.
LEMMA GoneKeeps ==
  ASSUME WriterInv, PastInv, Gone
  PROVE  PastInv'
<1> DEFINE w == taken
           L == Len(taken)
           F(j) == FrontOf(base, w, j)
           f == file'
           n == WholeIn(f)
           new == [i \in 1..n |-> Strip(w[i])]
           last == IF f = F(n) THEN <<>> ELSE <<Tear>>
           W == Written \cup {Tear}
<1>1. /\ WriterType /\ DiskType /\ OneTear /\ SavedInv /\ base \in Seq(Nat) /\ taken \in Seq(Taken)
      /\ Len(taken) \in Nat /\ Due \in Seq(Nat) /\ SavedPart \in Seq(Nat)
      /\ file \in Seq(Nat) /\ buffer \in Seq(Nat)
      /\ \A i \in 1..Len(taken) : taken[i] \in Taken /\ Encodes(taken[i])
  <2>1. WriterType /\ OneTear /\ SavedInv /\ base \in Seq(Nat) /\ taken \in Seq(Taken)
    BY DEF WriterInv, WriterType
  <2>2. \A i \in 1..Len(taken) : taken[i] \in Taken /\ Encodes(taken[i])
    BY <2>1, ElementOfSeq DEF WriterInv, TakenInOrder
  <2> QED BY <2>1, <2>2, PartsType, LenProperties DEF DiskType
<1>2. PICK x \in Seq(Nat) : x = file \o buffer
  BY <1>1, ConcatProperties
<1>3. f \in Seq(Nat) /\ Heads(f, x) /\ Len(file) <= Len(f)
  <2>1. PICK k \in 0..Len(buffer) : f = file \o SubSeq(buffer, 1, k)
    BY DEF Gone
  <2>2. PICK a \in Seq(Nat), c \in Seq(Nat) : a = SubSeq(buffer, 1, k) /\ a \o c = buffer
    <3>1. PICK t \in Seq(Nat) : t = buffer
      BY <1>1
    <3>2. k \in 0..Len(t)
      BY <2>1, <3>1
    <3>3. SubSeq(t, 1, k) \in Seq(Nat) /\ SubSeq(t, k + 1, Len(t)) \in Seq(Nat)
          /\ SubSeq(t, 1, k) \o SubSeq(t, k + 1, Len(t)) = t
      BY <3>2, CutInTwo
    <3> QED BY <3>1, <3>3
  <2>3. PICK d \in Seq(Nat) : d = file
    BY <1>1
  <2>4. f = d \o a /\ x = d \o (a \o c)
    BY <1>2, <2>1, <2>2, <2>3
  <2>5. d \o (a \o c) = (d \o a) \o c
    BY <2>2, <2>3, ThreeParts, Zenon
  <2>6. f \in Seq(Nat) /\ Len(f) = Len(d) + Len(a) /\ Len(a) \in Nat /\ Len(d) \in Nat
    BY <2>2, <2>3, <2>4, HeadsOf, LenProperties
  <2> HIDE DEF f
  <2>7. Heads(f, x)
    <3>1. x = f \o c
      BY <2>4, <2>5
    <3> QED BY <2>2, <2>6, <3>1, HeadsOf
  <2> QED BY <2>3, <2>6, <2>7
<1>4. PICK r \in Seq(Nat) : /\ x = Due \o r
                            /\ r = <<>> \/ \E e \in Written : Begins(r, e)
  <2>1. CASE file \o buffer = Due
    <3>1. Due \o <<>> = Due /\ <<>> \in Seq(Nat)
      BY <1>1, ConcatEmptySeq, EmptySeq
    <3> QED BY <1>2, <2>1, <3>1
  <2>2. CASE /\ buffer = <<>> /\ StartsWith(file, Due)
             /\ \E e \in Written : Begins(Behind(Due, file), e)
    <3>1. x = file
      BY <1>1, <1>2, <2>2, ConcatEmptySeq
    <3>2. Behind(Due, file) \in Seq(Nat)
      BY <1>1, BehindType
    <3> QED BY <2>2, <3>1, <3>2 DEF StartsWith
  <2> QED BY <1>1, <2>1, <2>2 DEF OneTear
<1>5. /\ F(0) = base /\ F(L) = Due
      /\ \A j \in 0..L : F(j) \in Seq(Nat) /\ Len(F(j)) \in Nat /\ Heads(F(j), x)
      /\ \A j \in 0..L : j < L => /\ Holds(x, Len(F(j)), w[j + 1])
                                  /\ Len(F(j + 1)) = Len(F(j)) + Len(encode(w[j + 1]))
  <2>1. base \in Seq(Nat) /\ taken \in Seq(Taken) /\ x = (base \o Cells(taken)) \o r
    BY <1>1, <1>4 DEF Due
  <2>2. /\ F(0) = base /\ F(L) = Due /\ \A j \in 0..L : F(j) \in Seq(Nat)
    BY <2>1, FrontNext DEF Due
  <2>3. /\ \A j \in 0..L : Heads(F(j), x)
        /\ \A j \in 0..L : j < L => /\ Holds(x, Len(F(j)), w[j + 1])
                                    /\ Len(F(j + 1)) = Len(F(j)) + Len(encode(w[j + 1]))
    BY <2>1, FrontIs
  <2>4. \A j \in 0..L : Len(F(j)) \in Nat
    BY <2>2, LenProperties
  <2> QED BY <2>2, <2>3, <2>4
<1>6. \A j \in 0..L : /\ IsPrefix(F(j), f) <=> Len(F(j)) <= Len(f)
                      /\ f = F(j) <=> Len(f) = Len(F(j))
                      /\ Len(F(j)) <= Len(f) => Heads(F(j), f)
  BY <1>3, <1>5, HeadsMeet
<1>7. Len(base) <= Len(f) /\ Len(f) \in Nat /\ L \in Nat /\ Len(base) \in Nat
  <2>1. PICK c \in Seq(Nat) : SavedPart = base \o c
    <3>1. Cells(SubSeq(taken, 1, saved)) \in Seq(Nat)
      <4>1. saved \in 0..Len(taken)
        BY <1>1 DEF WriterType
      <4>2. SubSeq(taken, 1, saved) \in Seq(Taken)
        BY <1>1, <4>1, HeadIs
      <4> QED BY <4>2, CellsOfEvents
    <3> QED BY <3>1 DEF SavedPart
  <2>2. PICK s \in Seq(Nat), b \in Seq(Nat) : s = SavedPart /\ b = base
    BY <1>1
  <2>3. file = s \o Behind(s, file) /\ Behind(s, file) \in Seq(Nat)
    BY <1>1, <2>2, BehindType DEF SavedInv, StartsWith, SavedPart
  <2>4. Heads(s, file)
    BY <2>2, <2>3, HeadsOf
  <2>5. s = b \o c
    BY <2>1, <2>2
  <2>6. Heads(b, s)
    BY <2>1, <2>2, <2>5, HeadsOf
  <2>7. Len(b) \in Nat /\ Len(s) \in Nat /\ Len(file) \in Nat /\ Len(f) \in Nat
    BY <1>1, <1>3, <2>2, LenProperties
  <2> QED BY <1>1, <1>3, <2>2, <2>4, <2>6, <2>7 DEF Heads
<1>8. /\ n \in 0..L /\ Len(F(n)) <= Len(f)
      /\ n < L => Len(f) < Len(F(n + 1))
  <2> DEFINE S == {j \in 0..L : IsPrefix(F(j), f)}
  <2>1. n = Max(S)
    BY DEF WholeIn, FrontOf
  <2>2. 0 \in S
    BY <1>5, <1>6, <1>7
  <2>3. S \subseteq 0..L
    OBVIOUS
  <2>4. \A j \in S : Len(F(j)) <= Len(f)
    BY <1>6
  <2>5. \A j \in 0..L : Len(F(j)) <= Len(f) => j \in S
    BY <1>6
  <2> HIDE DEF S, n, F, f
  <2>6. n \in S /\ \A y \in S : y <= n
    BY <1>7, <2>1, <2>2, <2>3, GreatestIs
  <2>7. ASSUME n < L PROVE Len(f) < Len(F(n + 1))
    <3>1. n + 1 \in 0..L
      BY <1>7, <2>3, <2>6, <2>7
    <3>2. n + 1 \notin S
      BY <1>7, <2>3, <2>6
    <3> QED BY <1>5, <1>7, <2>5, <3>1, <3>2
  <2> QED BY <2>3, <2>4, <2>6, <2>7
<1>9. history' = (history \o new) \o last /\ base' = f
  BY DEF Gone, Strip, FrontOf
<1>10. PICK h \in Seq(W) : h = history
  BY DEF PastInv
<1>11. PICK m \in Nat : \E ends \in [0..m -> Nat] : Left(base, h, m, ends)
  BY <1>10 DEF PastInv
<1>24. PICK ends \in [0..m -> Nat] : Left(base, h, m, ends)
  BY <1>11
<1> HIDE DEF F, f, n, L, w
<1>12. new \in Seq(W) /\ Len(new) = n /\ \A j \in 1..n : new[j] = Strip(w[j])
  <2>1. n \in Nat /\ \A j \in 1..n : Strip(w[j]) \in W
    <3>1. n \in Nat /\ 1..n \subseteq 1..L
      BY <1>7, <1>8
    <3> QED BY <1>1, <3>1, StripIs DEF w, L
  <2>2. new \in [1..n -> W]
    BY <2>1
  <2>3. new \in Seq(W) /\ DOMAIN new = 1..n
    BY <2>1, <2>2, SeqDef
  <2>4. Len(new) = n
    BY <2>1, <2>3, LenIs
  <2> QED BY <2>3, <2>4
<1>13. /\ last \in Seq(W)
       /\ f = F(n) => Len(last) = 0
       /\ f # F(n) => Len(last) = 1 /\ last[1] = Tear
  <2>1. CASE f = F(n)
    <3>1. last = <<>>
      BY <2>1
    <3> QED BY <2>1, <3>1, EmptySeq
  <2>2. CASE f # F(n)
    <3>1. last = <<Tear>> /\ Tear \in W
      BY <2>2
    <3> HIDE DEF last, W
    <3>2. <<Tear>> \in Seq(W) /\ Len(<<Tear>>) = 1 /\ <<Tear>>[1] = Tear
      BY <3>1
    <3> QED BY <2>2, <3>1, <3>2
  <2> QED BY <2>1, <2>2
<1>14. PICK u \in Seq(W), l \in Seq(W) : u = new /\ l = last
  BY <1>12, <1>13
<1> HIDE DEF new, last
<1> DEFINE hu == h \o u
           g == hu \o l
<1>15. /\ hu \in Seq(W) /\ Len(hu) = Len(h) + Len(u)
       /\ \A i \in 1..Len(h) : hu[i] = h[i]
       /\ \A i \in 1..Len(u) : hu[Len(h) + i] = u[i]
  BY Joined
<1>16. g = history'
  BY <1>9, <1>10, <1>14
<1> HIDE DEF hu
<1>17. /\ g \in Seq(W) /\ Len(g) = Len(hu) + Len(l)
       /\ \A i \in 1..Len(hu) : g[i] = hu[i]
       /\ \A i \in 1..Len(l) : g[Len(hu) + i] = l[i]
  <2>1. hu \in Seq(W) /\ l \in Seq(W)
    BY <1>15
  <2> QED BY <2>1, Joined
<1> HIDE DEF g
<1> DEFINE G == [j \in 0..n |-> Len(F(j))]
<1>18. /\ G \in [0..n -> Nat] /\ G[0] = Len(base) /\ G[n] = Len(F(n)) /\ n \in Nat
       /\ \A j \in 0..n : G[j] = Len(F(j))
  <2>1. n \in Nat /\ \A j \in 0..n : j \in 0..L
    BY <1>7, <1>8
  <2> QED BY <1>5, <2>1
<1> HIDE DEF G
<1>19. ASSUME NEW j \in 1..n
       PROVE  /\ w[j] \in Taken /\ Encodes(w[j]) /\ Holds(f, G[j - 1], w[j])
              /\ G[j] = G[j - 1] + Len(encode(w[j])) /\ G[j - 1] <= G[j]
  <2>1. /\ j \in 0..n /\ j - 1 \in 0..n /\ j \in 1..L /\ j - 1 \in 0..L /\ j - 1 < L
        /\ (j - 1) + 1 = j /\ j \in 0..L
    BY <1>7, <1>8
  <2>2. w[j] \in Taken /\ Encodes(w[j]) /\ Len(encode(w[j])) \in Nat
    BY <1>1, <2>1, StripIs DEF w, L
  <2>3. Holds(x, Len(F(j - 1)), w[j]) /\ Len(F(j)) = Len(F(j - 1)) + Len(encode(w[j]))
    BY <1>5, <2>1
  <2>4. Len(F(j - 1)) \in Nat
    BY <1>5, <2>1
  <2>5. Holds(f, Len(F(j - 1)), w[j])
    BY <1>3, <2>2, <2>3, <2>4, HeadHolds
  <2>6. G[j] = Len(F(j)) /\ G[j - 1] = Len(F(j - 1))
    BY <1>18, <2>1
  <2>7. G[j] = G[j - 1] + Len(encode(w[j])) /\ G[j - 1] <= G[j]
    BY <2>2, <2>3, <2>4, <2>6
  <2> QED BY <2>2, <2>5, <2>6, <2>7
<1>20. \A j \in 1..n : G[j] <= Len(f)
  <2>1. \A i, j \in 0..n : i <= j => G[i] <= G[j]
    BY <1>18, <1>19, Grows
  <2>2. ASSUME NEW j \in 1..n PROVE G[j] <= Len(f)
    <3>1. j \in 0..n /\ n \in 0..n /\ j <= n
      BY <1>18
    <3>2. G[j] <= G[n] /\ G[j] \in Nat /\ G[n] <= Len(f) /\ G[n] \in Nat
      BY <1>8, <1>18, <2>1, <3>1
    <3> QED BY <1>7, <3>2
  <2> QED BY <2>2
<1>21. /\ \A i \in 1..Len(h) : g[i] = h[i]
       /\ \A j \in 1..n : g[Len(h) + j] = Strip(w[j])
       /\ Len(g) = Len(h) + n + Len(l)
       /\ l # <<>> => g[Len(h) + n + 1] = l[1]
  <2>1. Len(u) = n /\ Len(h) \in Nat /\ n \in Nat /\ Len(hu) = Len(h) + n /\ Len(l) \in Nat
    BY <1>12, <1>14, <1>15, <1>18, LenProperties
  <2>2. ASSUME NEW i \in 1..Len(h) PROVE g[i] = h[i]
    <3>1. i \in 1..Len(hu)
      BY <2>1
    <3> QED BY <1>15, <1>17, <3>1
  <2>3. ASSUME NEW j \in 1..n PROVE g[Len(h) + j] = Strip(w[j])
    <3>1. Len(h) + j \in 1..Len(hu) /\ j \in 1..Len(u)
      BY <2>1
    <3> QED BY <1>12, <1>14, <1>15, <1>17, <3>1
  <2>4. ASSUME l # <<>> PROVE g[Len(h) + n + 1] = l[1]
    <3>1. 1 \in 1..Len(l)
      BY <2>1, <2>4, EmptySeq
    <3> QED BY <1>17, <2>1, <3>1
  <2> QED BY <1>17, <2>1, <2>2, <2>3, <2>4
<1>22. \/ Len(g) = Len(h) + n /\ G[n] = Len(f)
       \/ Len(g) = Len(h) + n + 1 /\ g[Len(h) + n + 1] = Tear /\ PartBehind(f, G[n])
  <2>1. Len(h) \in Nat /\ n \in Nat
    BY <1>18, LenProperties
  <2>2. CASE f = F(n)
    <3>1. Len(l) = 0 /\ G[n] = Len(f)
      BY <1>13, <1>14, <1>18, <2>2
    <3> QED BY <1>21, <2>1, <3>1
  <2>3. CASE f # F(n)
    <3>1. Len(l) = 1 /\ l[1] = Tear /\ l # <<>>
      <4>1. Len(l) = 1 /\ l[1] = Tear
        BY <1>13, <1>14, <2>3
      <4>2. Len(<<>>) = 0 /\ 1 # 0
        OBVIOUS
      <4> QED BY <4>1, <4>2, Zenon
    <3>2. Len(F(n)) < Len(f) /\ Len(F(n)) \in Nat
      BY <1>5, <1>6, <1>7, <1>8, <2>3
    <3>3. CASE n < L
      <4>1. n + 1 \in 1..L
        BY <1>7, <2>1, <3>3
      <4>2. w[n + 1] \in Taken /\ Encodes(w[n + 1]) /\ Len(encode(w[n + 1])) \in Nat
        BY <1>1, <4>1, StripIs DEF w, L
      <4>3. PICK e \in Written : e = Strip(w[n + 1])
        BY <4>2, StripIs
      <4>4. Holds(x, Len(F(n)), w[n + 1]) /\ Len(F(n + 1)) = Len(F(n)) + Len(encode(w[n + 1]))
        BY <1>5, <1>8, <3>3
      <4>5. Holds(f, Len(F(n)), w[n + 1])
        BY <1>3, <3>2, <4>2, <4>4, HeadHolds
      <4>6. Holds(f, Len(F(n)), e) /\ encode(e) = encode(w[n + 1])
        BY <4>2, <4>3, <4>5, StripIs
      <4>7. Len(f) < Len(F(n)) + Len(encode(e))
        BY <1>8, <3>3, <4>4, <4>6
      <4> QED BY <1>18, <1>21, <3>1, <3>2, <4>6, <4>7 DEF PartBehind
    <3>4. CASE n = L
      <4>1. F(n) = Due /\ Len(f) <= Len(x)
        BY <1>3, <1>5, <3>4 DEF Heads
      <4>2. PICK d \in Seq(Nat) : d = Due
        BY <1>1
      <4>3. x = d \o r /\ Len(x) = Len(d) + Len(r) /\ Len(d) \in Nat /\ Len(r) \in Nat
        BY <1>4, <4>2, HeadsOf, LenProperties
      <4>4. r # <<>>
        <5>1. CASE r = <<>>
          <6>1. Len(x) = Len(d)
            BY <4>3, <5>1, EmptySeq
          <6> QED BY <1>7, <3>2, <4>1, <4>2, <6>1
        <5> QED BY <5>1
      <4>5. PICK e \in Written : Begins(r, e)
        BY <1>4, <4>4
      <4>6. Holds(x, Len(d), e) /\ Len(encode(e)) \in Nat
        BY <4>3, <4>5, PartHoldsAt, WrittenIs
      <4>7. Holds(f, Len(d), e)
        BY <1>3, <4>3, <4>6, HeadHolds
      <4>8. Len(f) < Len(d) + Len(encode(e))
        <5>1. Len(r) < Len(encode(e))
          BY <4>5 DEF Begins
        <5> QED BY <1>7, <4>1, <4>3, <4>6, <5>1
      <4> QED BY <1>18, <1>21, <3>1, <3>2, <4>1, <4>2, <4>7, <4>8 DEF PartBehind
    <3> QED BY <1>7, <1>8, <3>3, <3>4
  <2> QED BY <2>2, <2>3
<1>23. \E k \in Nat : \E more \in [0..k -> Nat] : Left(f, g, k, more)
  <2>1. Heads(base, f)
    <3>1. 0 \in 0..L
      BY <1>7
    <3> QED BY <1>5, <1>6, <1>7, <3>1
  <2>2. G[n] <= Len(f)
    BY <1>8, <1>18
  <2>3. \A j \in 1..n : /\ w[j] \in Taken /\ Encodes(w[j]) /\ Holds(f, G[j - 1], w[j])
                       /\ G[j] = G[j - 1] + Len(encode(w[j])) /\ G[j] <= Len(f)
    BY <1>19, <1>20
  <2>4. PICK b \in Seq(Nat), c \in Seq(Nat) : b = base /\ c = f
    BY <1>1, <1>3
  <2>5. Left(b, h, m, ends) /\ Adds(b, c, h, n, w, G, g)
    BY <1>18, <1>21, <1>22, <1>24, <2>1, <2>2, <2>3, <2>4 DEF Adds
  <2>6. \E k \in Nat : \E more \in [0..k -> Nat] : Left(c, g, k, more)
    <3>1. n \in Nat /\ G \in [0..n -> Nat]
      BY <1>18
    <3>2. h \in Seq(Written \cup {Tear}) /\ g \in Seq(Written \cup {Tear})
      BY <1>17
    <3> QED BY <2>4, <2>5, <3>1, <3>2, LeftMore
  <2> QED BY <2>4, <2>6
<1> QED BY <1>9, <1>16, <1>17, <1>23 DEF PastInv

\* An empty log holds nothing.
LEMMA LeftNothing ==
  /\ <<>> \in Seq(Written \cup {Tear})
  /\ \E m \in Nat : \E ends \in [0..m -> Nat] : Left(<<>>, <<>>, m, ends)
<1> DEFINE ends == [i \in 0..0 |-> 0]
<1>1. Len(<<>>) = 0 /\ <<>> \in Seq(Written \cup {Tear})
  BY EmptySeq
<1>2. ends \in [0..0 -> Nat] /\ ends \in [0..0 -> 0..0] /\ ends[0] = 0
  OBVIOUS
<1> HIDE DEF ends
<1>3. Lie(<<>>, <<>>, 0, ends)
  <2>1. \A i \in 1..0 : FALSE
    OBVIOUS
  <2> QED BY <1>1, <1>2, <2>1 DEF Lie
<1>4. Left(<<>>, <<>>, 0, ends)
  BY <1>1, <1>2, <1>3 DEF Left
<1> QED BY <1>1, <1>2, <1>4

\* No step but an open and an end changes what a session found.
LEMMA PastStep == WriterInv /\ PastInv /\ [Next]_vars => PastInv'
<1> SUFFICES ASSUME WriterInv, PastInv, [Next]_vars PROVE PastInv'
  OBVIOUS
<1>1. CASE UNCHANGED past
  BY <1>1 DEF past, PastInv
<1>2. CASE Gone
  BY <1>2, GoneKeeps
<1>3. ASSUME NEW mode \in {"write", "append"}, Open(mode) PROVE PastInv'
  <2>1. /\ base' = file' /\ file' = (IF mode = "write" THEN <<>> ELSE file)
        /\ history' = (IF mode = "write" THEN <<>> ELSE history) /\ file = base
    BY <1>3 DEF Open, WriterInv, SessionInv
  <2>2. CASE mode = "write"
    <3>1. base' = <<>> /\ history' = <<>>
      BY <2>1, <2>2
    <3> QED BY <3>1, LeftNothing DEF PastInv
  <2>3. CASE mode # "write"
    <3>1. base' = base /\ history' = history
      BY <2>1, <2>3
    <3> QED BY <3>1 DEF PastInv
  <2> QED BY <2>2, <2>3
<1>4. CASE WriterNext
  <2>1. ASSUME NEW t \in Threads, Publish(t) \/ WriteEvent(t) PROVE UNCHANGED past
    BY <2>1 DEF Publish, WriteEvent
  <2>2. Flush \/ BeginClose \/ CloseFlush \/ Tick => UNCHANGED past
    BY DEF Flush, BeginClose, CloseFlush, Tick
  <2> QED BY <1>1, <1>2, <1>3, <1>4, <2>1, <2>2 DEF WriterNext
<1>5. CASE Replay \/ UNCHANGED writerVars
  <2>1. UNCHANGED past
    BY <1>5 DEF Replay, writerVars
  <2> QED BY <1>1, <2>1
<1> QED BY <1>4, <1>5 DEF Next, vars

\* A program starts with an empty log.
LEMMA PastInit == WriterInit => PastInv
<1> SUFFICES ASSUME WriterInit PROVE PastInv
  OBVIOUS
<1> QED BY LeftNothing DEF WriterInit, PastInv

-----------------------------------------------------------------------------
(* What a replay owes.                                                     *)

\* The events of `some` that a replay from `time` owes, each in a sequence of its
\* own, and all it owes of the first i.
Picks(time, some) ==
  [j \in 1..Len(some) |-> IF time = NoTime \/ some[j].timestamp >= time THEN <<some[j]>> ELSE <<>>]
OwedTo(time, some, i) == UpTo(Picks(time, some), i)

\* It goes on event by event.
LEMMA OwedIs ==
  ASSUME NEW S, NEW h \in Seq(S), NEW time
  PROVE  /\ OwedTo(time, h, 0) = <<>>
         /\ \A i \in 0..Len(h) : OwedTo(time, h, i) \in Seq(S)
         /\ \A i \in 0..Len(h) : i < Len(h) =>
              OwedTo(time, h, i + 1) =
                IF time = NoTime \/ h[i + 1].timestamp >= time
                THEN Append(OwedTo(time, h, i), h[i + 1]) ELSE OwedTo(time, h, i)
         /\ \A i, j \in 0..Len(h) : i <= j => Heads(OwedTo(time, h, i), OwedTo(time, h, j))
<1> DEFINE n == Len(h)
           Yes(j) == time = NoTime \/ h[j].timestamp >= time
           q == Picks(time, h)
           O(i) == UpTo(q, i)
<1>1. n \in Nat /\ \A j \in 1..n : h[j] \in S
  BY LenProperties, ElementOfSeq
<1>2. /\ q \in Seq(Seq(S)) /\ Len(q) = n
      /\ \A j \in 1..n : q[j] = IF Yes(j) THEN <<h[j]>> ELSE <<>>
  <2>1. ASSUME NEW j \in 1..n PROVE (IF Yes(j) THEN <<h[j]>> ELSE <<>>) \in Seq(S)
    <3>1. h[j] \in S
      BY <1>1
    <3>2. <<h[j]>> \in Seq(S) /\ <<>> \in Seq(S)
      BY <3>1, EmptySeq
    <3> HIDE DEF Yes
    <3> QED BY <3>2
  <2>2. q = [j \in 1..n |-> IF Yes(j) THEN <<h[j]>> ELSE <<>>]
    BY DEF Picks
  <2> HIDE DEF q, Yes, n
  <2>3. q \in [1..n -> Seq(S)]
    BY <2>1, <2>2
  <2>4. q \in Seq(Seq(S)) /\ DOMAIN q = 1..n
    BY <1>1, <2>3, SeqDef
  <2>5. Len(q) = n
    BY <1>1, <2>4, LenIs
  <2> QED BY <2>2, <2>4, <2>5
<1>3. OwedTo(time, h, 0) = <<>>
  <2>1. [j \in 1..0 |-> q[j]] = <<>>
    OBVIOUS
  <2> QED BY <2>1, FlattenEmpty DEF OwedTo, UpTo
<1>4. \A i : OwedTo(time, h, i) = O(i)
  BY DEF OwedTo
<1> HIDE DEF q, n
<1>5. \A i \in 0..n : O(i) \in Seq(S) /\ O(n) \in Seq(S) /\ Heads(O(i), O(n))
  BY <1>2, FlattenPrefix DEF Heads
<1>6. ASSUME NEW i \in 0..n, i < n
      PROVE  /\ O(i + 1) = O(i) \o q[i + 1] /\ i + 1 \in 1..n /\ i + 1 \in 0..n
             /\ q[i + 1] \in Seq(S)
  <2>1. i \in Nat /\ i + 1 \in 1..n /\ i + 1 \in 0..n
    BY <1>1, <1>6
  <2>2. q[i + 1] \in Seq(S)
    BY <1>2, <2>1, ElementOfSeq
  <2> QED BY <1>2, <1>6, <2>1, <2>2, FlattenNext
<1> HIDE DEF O
<1>7. ASSUME NEW i \in 0..n, i < n
      PROVE  O(i + 1) = IF Yes(i + 1) THEN Append(O(i), h[i + 1]) ELSE O(i)
  <2>1. PICK o \in Seq(S) : o = O(i)
    BY <1>5
  <2>2. PICK e \in S : e = h[i + 1]
    BY <1>1, <1>6, <1>7
  <2>3. O(i + 1) = o \o (IF Yes(i + 1) THEN <<e>> ELSE <<>>)
    BY <1>2, <1>6, <1>7, <2>1, <2>2
  <2>4. o \o <<e>> = Append(o, e) /\ o \o <<>> = o
    BY <2>1, <2>2, AppendIsConcat, ConcatEmptySeq
  <2> QED BY <2>1, <2>2, <2>3, <2>4
<1>8. ASSUME NEW i \in 0..n, NEW j \in 0..n, i <= j PROVE Heads(O(i), O(j))
  <2> DEFINE G == [k \in 0..n |-> Len(O(k))]
  <2>1. \A k \in 0..n : Len(O(k)) \in Nat
    BY <1>5, LenProperties
  <2>2. G \in [0..n -> Nat] /\ \A k \in 0..n : G[k] = Len(O(k))
    BY <2>1
  <2> HIDE DEF G
  <2>3. ASSUME NEW k \in 1..n PROVE G[k - 1] <= G[k]
    <3>1. k - 1 \in 0..n /\ k - 1 < n /\ (k - 1) + 1 = k /\ k \in 0..n
      BY <1>1
    <3>2. O(k) = O(k - 1) \o q[k] /\ q[k] \in Seq(S)
      BY <1>6, <3>1
    <3>3. PICK o \in Seq(S), r \in Seq(S) : o = O(k - 1) /\ r = q[k]
      BY <1>5, <3>1, <3>2
    <3>4. Len(o \o r) = Len(o) + Len(r) /\ Len(o) \in Nat /\ Len(r) \in Nat
      BY Joined, LenProperties
    <3>5. O(k) = o \o r
      BY <3>2, <3>3
    <3>6. G[k] = Len(O(k)) /\ G[k - 1] = Len(O(k - 1))
      BY <2>2, <3>1
    <3>7. G[k] = Len(o \o r) /\ G[k - 1] = Len(o)
      BY <3>3, <3>5, <3>6
    <3> QED BY <3>4, <3>7
  <2>4. Len(O(i)) <= Len(O(j))
    <3>1. G[i] <= G[j]
      BY <1>1, <1>8, <2>2, <2>3, Grows
    <3> QED BY <2>2, <3>1
  <2>5. PICK a \in Seq(S), b \in Seq(S), c \in Seq(S) : a = O(i) /\ b = O(j) /\ c = O(n)
    BY <1>5
  <2>6. Heads(a, c) /\ Heads(b, c) /\ Len(a) <= Len(b)
    BY <1>5, <2>4, <2>5
  <2>7. Heads(a, b)
    BY <2>6, HeadsMeet
  <2> QED BY <2>5, <2>7
<1> QED BY <1>3, <1>4, <1>5, <1>7, <1>8 DEF n

\* What a replay is to give, as the property states it.
LEMMA OwedIsTo ==
  ASSUME NEW S, NEW h \in Seq(S), NEW i \in 0..Len(h)
  PROVE  Owed(SubSeq(h, 1, i)) = OwedTo(start, h, i)
<1> DEFINE s == SubSeq(h, 1, i)
           p == [j \in DOMAIN s |-> IF Wanted(s[j]) THEN <<s[j]>> ELSE <<>>]
           q == [j \in 1..i |-> Picks(start, h)[j]]
<1>1. s \in Seq(S) /\ Len(s) = i /\ \A j \in 1..i : s[j] = h[j]
  BY HeadIs
<1>2. Len(h) \in Nat
  BY LenProperties
<1> HIDE DEF s
<1>3. DOMAIN s = 1..i
  BY <1>1, LenProperties
<1>4. ASSUME NEW j \in 1..i
      PROVE  (IF Wanted(s[j]) THEN <<s[j]>> ELSE <<>>) = Picks(start, h)[j]
  <2>1. j \in 1..Len(h) /\ s[j] = h[j]
    BY <1>1, <1>2
  <2> QED BY <2>1 DEF Picks, Wanted
<1>5. p = q
  BY <1>3, <1>4
<1> QED BY <1>5 DEF Owed, OwedTo, UpTo, s

-----------------------------------------------------------------------------
(* An event as a read finds it.                                            *)

\* Some of the cells of a log, from behind the first p on.
Piece(cells, p, data) ==
  /\ data \in Seq(Nat) /\ p + Len(data) <= Len(cells)
  /\ \A k \in 1..Len(data) : data[k] = cells[p + k]

LEMMA PieceOf ==
  ASSUME NEW cells \in Seq(Nat), NEW p \in Nat, NEW q \in Nat, p <= q, q <= Len(cells)
  PROVE  /\ Piece(cells, p, SubSeq(cells, p + 1, q))
         /\ Len(SubSeq(cells, p + 1, q)) = q - p
<1> DEFINE data == SubSeq(cells, p + 1, q)
<1>1. data \in Seq(Nat) /\ Len(data) = q - p /\ \A k \in 1..q - p : data[k] = cells[p + k]
  BY SubSeqIs
<1> HIDE DEF data
<1>2. Len(cells) \in Nat /\ p + Len(data) = q
  BY <1>1, LenProperties
<1> QED BY <1>1, <1>2 DEF Piece, data

\* It has what the log has there, and so has a piece of it.
LEMMA PieceHolds ==
  ASSUME NEW cells \in Seq(Nat), NEW p \in Nat, NEW data, Piece(cells, p, data), NEW n \in Nat,
         NEW e, Holds(cells, p + n, e)
  PROVE  Holds(data, n, e)
<1>1. /\ Len(cells) \in Nat /\ Len(data) \in Nat /\ p + Len(data) <= Len(cells)
      /\ \A k \in 1..Len(data) : data[k] = cells[p + k]
  BY LenProperties DEF Piece
<1>2. ASSUME NEW k \in 1..Len(encode(e)), n + k <= Len(data)
      PROVE  data[n + k] = encode(e)[k]
  <2>1. k \in Int /\ 1 <= k
    OBVIOUS
  <2>2. n + k \in 1..Len(data) /\ (p + n) + k <= Len(cells) /\ p + (n + k) = (p + n) + k
    BY <1>1, <1>2, <2>1
  <2>3. cells[(p + n) + k] = encode(e)[k]
    BY <2>2 DEF Holds
  <2>4. data[n + k] = cells[p + (n + k)]
    BY <1>1, <2>2
  <2> QED BY <2>2, <2>3, <2>4
<1> QED BY <1>2 DEF Holds

\* What starts as an event does, as far as it goes, has a sync word there.
LEMMA SyncWord ==
  ASSUME NEW data \in Seq(Nat), NEW e \in Written, Holds(data, 0, e)
  PROVE  /\ Len(data) >= 2 => IsPrefix(MAGIC, data)
         /\ SyncBehind(data)
<1>1. /\ encode(e)[1] = S1 /\ encode(e)[2] = S2
      /\ Len(encode(e)) \in Nat /\ Len(encode(e)) >= 7 /\ Len(data) \in Nat
  <2>1. e.number \in Nat /\ e.timestamp \in Nat /\ e.payload \in Seq(Nat)
    BY WrittenIs
  <2>2. /\ encode(e)[1] = S1 /\ encode(e)[2] = S2
        /\ Len(encode(e)) = 7 + Len(e.payload) /\ Len(e.payload) \in Nat
    BY <2>1, EncodeCells
  <2> QED BY <2>2, LenProperties
<1>2. ASSUME Len(data) >= 2 PROVE IsPrefix(MAGIC, data)
  <2>1. 1 \in 1..Len(encode(e)) /\ 2 \in 1..Len(encode(e)) /\ 0 + 1 = 1 /\ 0 + 2 = 2
    BY <1>1
  <2>2. data[1] = S1 /\ data[2] = S2
    BY <1>1, <1>2, <2>1 DEF Holds
  <2>3. MAGIC \in Seq(Nat) /\ Len(MAGIC) = 2 /\ MAGIC[1] = S1 /\ MAGIC[2] = S2
    BY DEF MAGIC, S1, S2
  <2>4. Heads(MAGIC, data) /\ Heads(data, data)
    BY <1>1, <1>2, <2>2, <2>3 DEF Heads
  <2> QED BY <1>1, <1>2, <2>3, <2>4, HeadsMeet
<1>3. Len(MAGIC) = 2
  BY DEF MAGIC
<1> QED BY <1>1, <1>2, <1>3 DEF SyncBehind

\* The head of an event reads, and says how long the event is, and its time.
LEMMA HeadOf ==
  ASSUME NEW data \in Seq(Nat), NEW e \in Written, Holds(data, 0, e), HEADER_LEN <= Len(data)
  PROVE  /\ HeadReads(data) /\ EventLen(data) = Len(encode(e))
         /\ data[3] = e.number /\ data[4] = e.timestamp
         /\ data[5] = 1 /\ data[6] = Len(e.payload)
<1>1. /\ encode(e)[3] = e.number /\ encode(e)[4] = e.timestamp
      /\ encode(e)[5] = 1 /\ encode(e)[6] = Len(e.payload)
      /\ Len(encode(e)) = 7 + Len(e.payload) /\ Len(e.payload) \in Nat
      /\ Len(e.payload) <= MAX_MESSAGE_LEN
  BY WrittenIs, EncodeCells
<1>2. Len(data) \in Nat /\ 6 <= Len(data)
  BY LenProperties DEF HEADER_LEN
<1>3. \A k \in {3, 4, 5, 6} : k \in 1..Len(encode(e)) /\ 0 + k <= Len(data) /\ 0 + k = k
  BY <1>1, <1>2
<1>4. \A k \in {3, 4, 5, 6} : data[k] = encode(e)[k]
  BY <1>3 DEF Holds
<1>5. /\ data[3] = e.number /\ data[4] = e.timestamp
      /\ data[5] = 1 /\ data[6] = Len(e.payload)
  BY <1>1, <1>4
<1>6. IsPrefix(MAGIC, data)
  BY <1>2, SyncWord
<1>7. HeadReads(data)
  BY <1>1, <1>5, <1>6, LogWireAssumption DEF HeadReads
<1>8. EventLen(data) = Len(encode(e))
  BY <1>1, <1>5 DEF EventLen, HEADER_LEN
<1> QED BY <1>5, <1>7, <1>8

\* A part of an event asks for more.
LEMMA DecodePart ==
  ASSUME NEW data \in Seq(Nat), NEW e \in Written, Holds(data, 0, e),
         Len(data) < Len(encode(e))
  PROVE  decode(data).answer = "need"
<1>1. Len(data) \in Nat /\ Len(encode(e)) \in Nat
  BY LenProperties, WrittenIs
<1>2. CASE Len(data) < HEADER_LEN
  BY <1>2 DEF decode, Need
<1>3. CASE ~(Len(data) < HEADER_LEN)
  <2>1. HEADER_LEN <= Len(data)
    BY <1>1, <1>3 DEF HEADER_LEN
  <2>2. HeadReads(data) /\ EventLen(data) = Len(encode(e))
    BY <2>1, HeadOf
  <2>3. Len(data) < EventLen(data)
    BY <2>2
  <2> HIDE DEF HEADER_LEN
  <2> QED BY <1>3, <2>2, <2>3 DEF decode, Need
<1> QED BY <1>2, <1>3

\* A whole event, with a sync word behind it or with too little to say so, is what
\* was encoded.
LEMMA DecodeWhole ==
  ASSUME NEW data \in Seq(Nat), NEW e \in Written, Holds(data, 0, e),
         NEW n, n = Len(encode(e)), n <= Len(data),
         SyncBehind(SubSeq(data, n + 1, Len(data)))
  PROVE  decode(data) = Item(e, n)
<1> DEFINE name == SubSeq(data, HEADER_LEN + 1, HEADER_LEN + data[5])
           payload == SubSeq(data, HEADER_LEN + data[5] + 1, n)
           event == [number |-> data[3], timestamp |-> data[4], payload |-> payload]
           z == Len(e.payload)
<1>1. /\ Len(encode(e)) = 7 + z /\ z \in Nat /\ Len(data) \in Nat /\ n \in Nat
      /\ e.payload \in Seq(Nat)
      /\ encode(e)[7] = Letter /\ \A k \in 1..z : encode(e)[7 + k] = e.payload[k]
  BY WrittenIs, EncodeCells, LenProperties
<1>2. HEADER_LEN <= Len(data) /\ ~(Len(data) < HEADER_LEN) /\ ~(Len(data) < n)
  BY <1>1 DEF HEADER_LEN
<1>3. /\ HeadReads(data) /\ EventLen(data) = n
      /\ data[3] = e.number /\ data[4] = e.timestamp /\ data[5] = 1
  BY <1>2, HeadOf
<1>4. \A k \in 1..Len(encode(e)) : data[k] = encode(e)[k]
  <2>1. \A k \in 1..Len(encode(e)) : 0 + k <= Len(data) /\ 0 + k = k
    BY <1>1
  <2> QED BY <2>1 DEF Holds
<1>5. NameReads(name)
  <2>1. name = SubSeq(data, 6 + 1, 7)
    BY <1>3 DEF HEADER_LEN
  <2> DEFINE t == SubSeq(data, 6 + 1, 7)
  <2>2. t \in Seq(Nat) /\ Len(t) = 7 - 6 /\ \A k \in 1..7 - 6 : t[k] = data[6 + k]
    BY <1>1, SubSeqIs
  <2> HIDE DEF t
  <2>3. data[7] = Letter
    <3>1. 7 \in 1..Len(encode(e))
      BY <1>1
    <3> QED BY <1>1, <1>4, <3>1
  <2>4. DOMAIN t = 1..1 /\ t[1] = Letter
    BY <2>2, <2>3, LenProperties
  <2>5. \A i \in DOMAIN t : t[i] \notin {NUL, S1, S2}
    BY <2>4 DEF Letter, NUL, S1, S2
  <2> QED BY <2>1, <2>5 DEF NameReads, t
<1>6. payload = e.payload
  <2>1. payload = SubSeq(data, 7 + 1, 7 + z)
    BY <1>1, <1>3 DEF HEADER_LEN
  <2>2. \A k \in 1..z : 7 + k \in 1..Len(encode(e))
    <3> HIDE DEF z
    <3>1. ASSUME NEW k \in 1..z PROVE 7 + k \in 1..7 + z
      BY <1>1
    <3> QED BY <1>1, <3>1
  <2>3. 7 + z <= Len(data) /\ \A k \in 1..z : data[7 + k] = e.payload[k]
    BY <1>1, <1>4, <2>2
  <2>4. SubSeq(data, 7 + 1, 7 + z) = e.payload
    BY <1>1, <2>3, PieceIs
  <2> QED BY <2>1, <2>4
<1>7. event = e
  <2>1. e \in [number : Nat, timestamp : Nat, payload : Seq(Nat)]
    BY DEF Written
  <2>2. e = [number |-> e.number, timestamp |-> e.timestamp, payload |-> e.payload]
    BY <2>1
  <2> HIDE DEF payload
  <2> QED BY <1>3, <1>6, <2>2
<1>8. decode(data) = Item(event, n)
  <2> HIDE DEF HEADER_LEN, payload
  <2>1. /\ EventLen(data) = n /\ HeadReads(data) /\ ~(Len(data) < HEADER_LEN) /\ ~(Len(data) < n)
        /\ SyncBehind(SubSeq(data, n + 1, Len(data))) /\ NameReads(name)
    BY <1>2, <1>3, <1>5
  <2> QED BY <2>1 DEF decode, payload
<1> QED BY <1>7, <1>8

-----------------------------------------------------------------------------
(* The replay.                                                             *)

\* The event in front, or none.
Before(i) == IF i = 0 THEN 0 ELSE i - 1

\* The reader is at the start of one of the m events in front of the first tear, or
\* behind them, and gave what it owes up to there; or it walks and owes nothing so
\* far, or is at the end and says rightly how the log ends.
Sure(m, ends) ==
  \/ /\ reader = "walk" /\ start # NoTime /\ given = <<>>
     /\ \/ \E i \in 0..m : /\ at = ends[i] /\ from = ends[Before(i)]
                           /\ OwedTo(start, history, i) = <<>>
        \/ at + HEADER_LEN > Len(file) /\ from = ends[m] /\ OwedTo(start, history, m) = <<>>
  \/ /\ reader = "read"
     /\ \E i \in 0..m : /\ pos = ends[i] /\ have \in pos..Len(file)
                        /\ given = OwedTo(start, history, i)
  \/ reader = "stopped" /\ \E i \in 0..m : given = OwedTo(start, history, i)
  \/ reader = "end of log" /\ m = Len(history) /\ given = OwedTo(start, history, m)
  \/ reader = "torn log" /\ m + 1 = Len(history) /\ given = OwedTo(start, history, m)

\* A sync word is behind the first p cells.
SyncAt(cells, p) == p + 2 <= Len(cells) /\ cells[p + 1] = S1 /\ cells[p + 2] = S2

\* Of the m events in front of the first tear, those it cannot take with it.
Kept(cells, m, ends) == IF SyncAt(cells, ends[m]) THEN m ELSE Before(m)

\* Something came after the first tear, and the reader gave all it owes of the
\* events that the tear cannot take with it.
Lost(m, ends) ==
  /\ m + 1 < Len(history)
  /\ Heads(OwedTo(start, history, Kept(file, m, ends)), given)
  /\ \E S : given \in Seq(S)

ReaderInv ==
  /\ reader = "off" => at = 0 /\ from = 0 /\ pos = 0 /\ have = 0 /\ given = <<>>
  /\ reader # "off" =>
       /\ session = "none"
       /\ \E m \in Nat : \E ends \in [0..m -> Nat] :
            Left(file, history, m, ends) /\ (Sure(m, ends) \/ Lost(m, ends))

\* The event behind the first i, as long as no tear that was appended to can take it.
Calm(cells, some, m, ends, i) == i < Kept(cells, m, ends) \/ m + 1 >= Len(some)

\* Where the events are, and what is behind the last.
LEMMA EventsOf ==
  ASSUME NEW cells \in Seq(Nat), NEW some \in Seq(Written \cup {Tear}),
         NEW m \in Nat, NEW ends \in [0..m -> Nat], Left(cells, some, m, ends)
  PROVE  /\ m <= Len(some) /\ Len(some) \in Nat /\ Len(cells) \in Nat
         /\ ends[0] = 0 /\ \A i \in 0..m : ends[i] \in Nat /\ ends[i] <= Len(cells)
         /\ \A i \in 0..m : i < m =>
              /\ some[i + 1] \in Written /\ Holds(cells, ends[i], some[i + 1])
              /\ ends[i + 1] = ends[i] + Len(encode(some[i + 1])) /\ i + 1 \in 0..m
         /\ m + 1 >= Len(some) => \/ m = Len(some) /\ ends[m] = Len(cells)
                                  \/ m + 1 = Len(some) /\ PartBehind(cells, ends[m])
<1>1. Len(some) \in Nat /\ Len(cells) \in Nat
  BY LenProperties
<1>2. /\ m \in 0..Len(some)
      /\ ends \in [0..m -> 0..Len(cells)] /\ ends[0] = 0
      /\ \A i \in 1..m : /\ some[i] \in Written /\ Holds(cells, ends[i - 1], some[i])
                         /\ ends[i] = ends[i - 1] + Len(encode(some[i]))
  BY DEF Left, Lie
<1>3. ASSUME NEW i \in 0..m, i < m
      PROVE  /\ some[i + 1] \in Written /\ Holds(cells, ends[i], some[i + 1])
             /\ ends[i + 1] = ends[i] + Len(encode(some[i + 1])) /\ i + 1 \in 0..m
  <2>1. i + 1 \in 1..m /\ i + 1 \in 0..m /\ (i + 1) - 1 = i
    BY <1>3
  <2> QED BY <1>2, <2>1
<1>4. \A i \in 0..m : ends[i] \in Nat /\ ends[i] <= Len(cells)
  BY <1>1, <1>2
<1>5. ASSUME m + 1 >= Len(some)
      PROVE  \/ m = Len(some) /\ ends[m] = Len(cells)
             \/ m + 1 = Len(some) /\ PartBehind(cells, ends[m])
  <2>1. CASE m = Len(some) /\ ends[m] = Len(cells)
    BY <2>1
  <2>2. CASE m < Len(some) /\ (m + 1 = Len(some) => PartBehind(cells, ends[m]))
    <3>1. m + 1 = Len(some)
      BY <1>1, <1>5, <2>2
    <3> QED BY <2>2, <3>1
  <2> QED BY <2>1, <2>2 DEF Left
<1> QED BY <1>1, <1>2, <1>3, <1>4, <1>5

\* The m events take the cells up to ends[m].
LEMMA CellsEnd ==
  ASSUME NEW cells \in Seq(Nat), NEW some \in Seq(Written \cup {Tear}),
         NEW m \in Nat, NEW ends \in [0..m -> Nat], Left(cells, some, m, ends)
  PROVE  Len(Cells(SubSeq(some, 1, m))) = ends[m]
<1>1. /\ m <= Len(some) /\ Len(some) \in Nat /\ Len(cells) \in Nat
      /\ ends[0] = 0 /\ \A i \in 0..m : ends[i] \in Nat /\ ends[i] <= Len(cells)
      /\ \A i \in 0..m : i < m =>
           /\ some[i + 1] \in Written /\ Holds(cells, ends[i], some[i + 1])
           /\ ends[i + 1] = ends[i] + Len(encode(some[i + 1])) /\ i + 1 \in 0..m
  BY EventsOf
<1> DEFINE s == SubSeq(some, 1, m)
           q == [j \in 1..m |-> encode(some[j])]
           E == {i \in Nat : i <= m => Len(UpTo(q, i)) = ends[i]}
<1>2. q \in Seq(Seq(Nat)) /\ Len(q) = m /\ DOMAIN q = 1..m
      /\ \A j \in 1..m : q[j] = encode(some[j]) /\ q[j] \in Seq(Nat)
  <2>1. ASSUME NEW j \in 1..m PROVE encode(some[j]) \in Seq(Nat)
    <3>1. j - 1 \in 0..m /\ j - 1 < m /\ (j - 1) + 1 = j
      OBVIOUS
    <3>2. some[j] \in Written
      BY <1>1, <3>1
    <3> QED BY <3>2, WrittenIs
  <2>2. q \in [1..m -> Seq(Nat)]
    BY <2>1
  <2>3. q \in Seq(Seq(Nat)) /\ DOMAIN q = 1..m
    BY <2>2, SeqDef
  <2>4. \A j \in 1..m : q[j] = encode(some[j])
    OBVIOUS
  <2> HIDE DEF q
  <2>5. Len(q) = m
    BY <2>3, LenIs
  <2> QED BY <2>1, <2>3, <2>4, <2>5
<1> HIDE DEF q
<1>3. 0 \in E
  <2>1. [j \in 1..0 |-> q[j]] = <<>>
    OBVIOUS
  <2>2. UpTo(q, 0) = <<>>
    BY <2>1, FlattenEmpty DEF UpTo
  <2> QED BY <1>1, <2>2
<1>4. ASSUME NEW i \in Nat, i \in E PROVE i + 1 \in E
  <2>1. SUFFICES ASSUME i + 1 <= m PROVE Len(UpTo(q, i + 1)) = ends[i + 1]
    OBVIOUS
  <2>2. i < m /\ i \in 0..m /\ i + 1 \in 1..m
    BY <2>1
  <2>3. Len(UpTo(q, i)) = ends[i]
    BY <1>4, <2>2
  <2>4. UpTo(q, i) \in Seq(Nat) /\ UpTo(q, i + 1) = UpTo(q, i) \o q[i + 1]
    BY <1>2, <2>2, FlattenNext
  <2>5. Len(UpTo(q, i + 1)) = Len(UpTo(q, i)) + Len(q[i + 1])
    BY <1>2, <2>2, <2>4, Joined
  <2> QED BY <1>1, <1>2, <2>2, <2>3, <2>5
<1> HIDE DEF E
<1>5. m \in E
  BY <1>3, <1>4, NatSetInduction
<1>6. Cells(s) = UpTo(q, m)
  <2>1. s \in Seq(Written \cup {Tear}) /\ Len(s) = m /\ \A j \in 1..m : s[j] = some[j]
    BY <1>1, HeadIs
  <2> HIDE DEF s
  <2>2. DOMAIN s = 1..m
    BY <2>1, LenProperties
  <2>3. [j \in DOMAIN s |-> encode(s[j])] = [j \in 1..m |-> q[j]]
    BY <1>2, <2>1, <2>2
  <2> QED BY <2>3 DEF Cells, UpTo
<1> QED BY <1>5, <1>6 DEF E

\* What starts with the cells of a sync word starts with one.
LEMMA StartsWithMagic ==
  ASSUME NEW data \in Seq(Nat)
  PROVE  IsPrefix(MAGIC, data) <=> 2 <= Len(data) /\ data[1] = S1 /\ data[2] = S2
<1>1. MAGIC \in Seq(Nat) /\ Len(MAGIC) = 2 /\ MAGIC[1] = S1 /\ MAGIC[2] = S2
  BY DEF MAGIC, S1, S2
<1>2. Len(data) \in Nat
  BY LenProperties
<1>3. ASSUME 2 <= Len(data), data[1] = S1, data[2] = S2 PROVE IsPrefix(MAGIC, data)
  <2>1. Heads(MAGIC, data) /\ Heads(data, data)
    BY <1>1, <1>2, <1>3 DEF Heads
  <2> QED BY <1>1, <1>2, <1>3, <2>1, HeadsMeet
<1>4. ASSUME IsPrefix(MAGIC, data) PROVE 2 <= Len(data) /\ data[1] = S1 /\ data[2] = S2
  <2> DEFINE t == SubSeq(data, 1, 2)
  <2>1. 2 <= Len(data) /\ SubSeq(MAGIC, 1, 2) = t
    BY <1>1, <1>4 DEF IsPrefix
  <2>2. SubSeq(MAGIC, 1, 2) = MAGIC
    BY <1>1, SubSeqFull
  <2>3. 2 \in 0..Len(data)
    BY <1>2, <2>1
  <2>4. t[1] = data[1] /\ t[2] = data[2]
    BY <2>3, HeadIs
  <2> HIDE DEF t
  <2> QED BY <1>1, <2>1, <2>2, <2>4
<1> QED BY <1>3, <1>4

LEMMA SyncAtIs ==
  ASSUME NEW cells \in Seq(Nat), NEW p \in Nat, p <= Len(cells)
  PROVE  IsPrefix(MAGIC, SubSeq(cells, p + 1, Len(cells))) <=> SyncAt(cells, p)
<1> DEFINE data == SubSeq(cells, p + 1, Len(cells))
<1>1. Len(cells) \in Nat
  BY LenProperties
<1>2. data \in Seq(Nat) /\ Len(data) = Len(cells) - p /\ \A k \in 1..Len(cells) - p : data[k] = cells[p + k]
  BY <1>1, SubSeqIs
<1> HIDE DEF data
<1>3. IsPrefix(MAGIC, data) <=> 2 <= Len(data) /\ data[1] = S1 /\ data[2] = S2
  BY <1>2, StartsWithMagic
<1>4. CASE 2 <= Len(data)
  <2>1. p + 2 <= Len(cells) /\ data[1] = cells[p + 1] /\ data[2] = cells[p + 2]
    <3>1. 1 \in 1..Len(cells) - p /\ 2 \in 1..Len(cells) - p /\ p + 2 <= Len(cells)
      BY <1>1, <1>2, <1>4
    <3> QED BY <1>2, <3>1
  <2> QED BY <1>3, <1>4, <2>1 DEF SyncAt, data
<1>5. CASE ~(2 <= Len(data))
  <2>1. ~(p + 2 <= Len(cells))
    BY <1>1, <1>2, <1>5
  <2> QED BY <1>3, <1>5, <2>1 DEF SyncAt, data
<1> QED BY <1>4, <1>5

\* What is behind an event of the log starts with a sync word, or the log ends.
LEMMA BehindSyncs ==
  ASSUME NEW cells \in Seq(Nat), NEW p \in Nat, NEW data, Piece(cells, p, data),
         NEW n \in Nat, n <= Len(data),
         \/ p + n = Len(cells) \/ SyncAt(cells, p + n)
         \/ \E e \in Written : Holds(cells, p + n, e)
  PROVE  SyncBehind(SubSeq(data, n + 1, Len(data)))
<1> DEFINE l == Len(data)
           rest == SubSeq(data, n + 1, l)
<1>1. Len(cells) \in Nat /\ l \in Nat /\ p + l <= Len(cells) /\ data \in Seq(Nat) /\ n <= l
  BY LenProperties DEF Piece
<1>2. Piece(data, n, rest) /\ Len(rest) = l - n
  <2>1. data \in Seq(Nat) /\ l \in Nat /\ n <= l /\ l <= Len(data)
    BY <1>1
  <2> QED BY <2>1, PieceOf
<1> HIDE DEF l, rest
<1>3. CASE p + n = Len(cells)
  <2>1. Len(rest) < 2 /\ Len(MAGIC) = 2
    BY <1>1, <1>2, <1>3 DEF MAGIC
  <2> QED BY <2>1 DEF SyncBehind, rest, l
<1>4. ASSUME NEW e \in Written, Holds(cells, p + n, e) PROVE SyncBehind(rest)
  <2>1. Holds(data, n, e)
    BY <1>4, PieceHolds
  <2>2. Holds(data, n + 0, e)
    <3>1. n + 0 = n
      OBVIOUS
    <3> QED BY <2>1, <3>1
  <2>3. Holds(rest, 0, e)
    BY <1>1, <1>2, <2>2, PieceHolds
  <2>4. rest \in Seq(Nat)
    BY <1>2 DEF Piece
  <2> QED BY <2>3, <2>4, SyncWord
<1>5. CASE SyncAt(cells, p + n)
  <2>1. CASE Len(rest) < 2
    <3>1. Len(MAGIC) = 2
      BY DEF MAGIC
    <3> QED BY <2>1, <3>1 DEF SyncBehind, rest, l
  <2>2. CASE ~(Len(rest) < 2)
    <3>1. 2 <= Len(rest) /\ rest \in Seq(Nat)
      BY <1>1, <1>2, <2>2 DEF Piece
    <3>2. rest[1] = data[n + 1] /\ rest[2] = data[n + 2]
      <4>1. 1 \in 1..Len(rest) /\ 2 \in 1..Len(rest)
        BY <1>1, <1>2, <3>1
      <4> QED BY <1>2, <4>1 DEF Piece
    <3>3. n + 1 \in 1..l /\ n + 2 \in 1..l /\ p + (n + 1) = (p + n) + 1 /\ p + (n + 2) = (p + n) + 2
      BY <1>1, <1>2, <2>2
    <3>4. data[n + 1] = cells[(p + n) + 1] /\ data[n + 2] = cells[(p + n) + 2]
      BY <3>3 DEF Piece, l
    <3>5. IsPrefix(MAGIC, rest)
      BY <1>5, <3>1, <3>2, <3>4, StartsWithMagic DEF SyncAt
    <3> QED BY <3>5 DEF SyncBehind, rest, l
  <2> QED BY <2>1, <2>2
<1> QED BY <1>3, <1>4, <1>5 DEF rest, l

\* What decode says of a log from the start of one of its events on.
LEMMA DecodeAt ==
  ASSUME NEW cells \in Seq(Nat), NEW some \in Seq(Written \cup {Tear}),
         NEW m \in Nat, NEW ends \in [0..m -> Nat], Left(cells, some, m, ends),
         NEW i \in 0..m, Calm(cells, some, m, ends, i), NEW data, Piece(cells, ends[i], data)
  PROVE  \/ /\ i < m /\ decode(data) = Item(some[i + 1], Len(encode(some[i + 1])))
            /\ ends[i + 1] <= ends[i] + Len(data)
         \/ /\ decode(data).answer = "need" /\ i < m /\ ends[i] + Len(data) < Len(cells)
         \/ /\ decode(data).answer = "need" /\ i = m
            /\ m = Len(some) /\ ends[i] = Len(cells)
         \/ /\ decode(data).answer = "need" /\ i = m
            /\ m + 1 = Len(some) /\ ends[i] < Len(cells)
<1>1. /\ m <= Len(some) /\ Len(some) \in Nat /\ Len(cells) \in Nat
      /\ ends[0] = 0 /\ \A j \in 0..m : ends[j] \in Nat /\ ends[j] <= Len(cells)
      /\ \A j \in 0..m : j < m =>
           /\ some[j + 1] \in Written /\ Holds(cells, ends[j], some[j + 1])
           /\ ends[j + 1] = ends[j] + Len(encode(some[j + 1])) /\ j + 1 \in 0..m
      /\ m + 1 >= Len(some) => \/ m = Len(some) /\ ends[m] = Len(cells)
                               \/ m + 1 = Len(some) /\ PartBehind(cells, ends[m])
  BY EventsOf
<1> DEFINE l == Len(data)
<1>2. PICK p \in Nat : p = ends[i]
  BY <1>1
<1>3. Piece(cells, p, data) /\ data \in Seq(Nat) /\ l \in Nat /\ p + l <= Len(cells) /\ i \in Nat
  BY <1>2, LenProperties DEF Piece
<1>4. ASSUME NEW e \in Written, Holds(cells, p, e) PROVE Holds(data, 0, e)
  <2>1. Holds(cells, p + 0, e)
    <3>1. p + 0 = p
      OBVIOUS
    <3> QED BY <1>4, <3>1
  <2> QED BY <1>3, <2>1, PieceHolds
<1> HIDE DEF l
<1>5. CASE i < m
  <2>1. PICK e \in Written : e = some[i + 1]
    BY <1>1, <1>5
  <2> DEFINE n == Len(encode(e))
  <2>2. i + 1 \in 0..m /\ Holds(cells, p, e) /\ ends[i + 1] = p + n
    BY <1>1, <1>2, <1>5, <2>1
  <2>3. n \in Nat /\ Holds(data, 0, e)
    BY <1>4, <2>2, WrittenIs
  <2> HIDE DEF n
  <2>4. ends[i + 1] = p + n /\ n \in Nat /\ p + n <= Len(cells)
    BY <1>1, <2>2, <2>3
  <2>5. CASE l < n
    <3>1. decode(data).answer = "need"
      BY <1>3, <2>3, <2>5, DecodePart DEF n, l
    <3>2. p + l < Len(cells)
      BY <1>1, <1>3, <2>4, <2>5
    <3> QED BY <1>2, <1>5, <3>1, <3>2 DEF l
  <2>6. CASE n <= l
    <3>1. \/ p + n = Len(cells) \/ SyncAt(cells, p + n)
          \/ \E x \in Written : Holds(cells, p + n, x)
      <4>1. CASE i + 1 < m
        <5>1. some[(i + 1) + 1] \in Written /\ Holds(cells, ends[i + 1], some[(i + 1) + 1])
          BY <1>1, <2>2, <4>1
        <5> QED BY <2>2, <5>1
      <4>2. CASE ~(i + 1 < m)
        <5>1. i + 1 = m /\ (SyncAt(cells, ends[m]) \/ m + 1 >= Len(some))
          BY <1>1, <1>3, <1>5, <4>2 DEF Calm, Kept, Before
        <5>2. ends[m] = p + n
          BY <2>2, <5>1
        <5>3. CASE PartBehind(cells, ends[m])
          BY <5>2, <5>3 DEF PartBehind
        <5> QED BY <1>1, <5>1, <5>2, <5>3
      <4> QED BY <4>1, <4>2
    <3>2. SyncBehind(SubSeq(data, n + 1, Len(data)))
      BY <1>3, <2>4, <2>6, <3>1, BehindSyncs DEF l
    <3>3. decode(data) = Item(e, n)
      BY <1>3, <2>3, <2>6, <3>2, DecodeWhole DEF n, l
    <3>4. ends[i + 1] <= p + l
      BY <1>3, <2>4, <2>6
    <3> QED BY <1>2, <1>5, <2>1, <3>3, <3>4 DEF n, l
  <2>7. l < n \/ n <= l
    BY <1>3, <2>4
  <2> QED BY <2>5, <2>6, <2>7
<1>6. CASE ~(i < m)
  <2>1. i = m /\ m + 1 >= Len(some)
    BY <1>1, <1>3, <1>6 DEF Calm, Kept, Before
  <2>2. CASE m = Len(some) /\ p = Len(cells)
    <3>1. l = 0
      BY <1>1, <1>3, <2>2
    <3>2. Len(data) < HEADER_LEN
      BY <3>1 DEF HEADER_LEN, l
    <3>3. decode(data).answer = "need"
      BY <3>2 DEF decode, Need
    <3> QED BY <1>2, <2>1, <2>2, <3>3
  <2>3. CASE m + 1 = Len(some) /\ PartBehind(cells, p)
    <3>1. PICK e \in Written : Holds(cells, p, e) /\ Len(cells) < p + Len(encode(e))
      BY <2>3 DEF PartBehind
    <3>2. p < Len(cells)
      BY <2>3 DEF PartBehind
    <3>3. Len(encode(e)) \in Nat
      BY WrittenIs
    <3>4. Holds(data, 0, e)
      BY <1>4, <3>1
    <3>5. l < Len(encode(e))
      BY <1>1, <1>3, <3>1, <3>3
    <3>6. decode(data).answer = "need"
      BY <1>3, <3>4, <3>5, DecodePart DEF l
    <3> QED BY <1>2, <2>1, <2>3, <3>2, <3>6
  <2> QED BY <1>1, <1>2, <2>1, <2>2, <2>3
<1> QED BY <1>5, <1>6

\* Event by event, what a replay of the log owes.
LEMMA OwedMore ==
  ASSUME NEW h \in Seq(Written \cup {Tear}), NEW time, NEW i \in 0..Len(h), i < Len(h)
  PROVE  OwedTo(time, h, i + 1) =
           IF time = NoTime \/ h[i + 1].timestamp >= time
           THEN Append(OwedTo(time, h, i), h[i + 1]) ELSE OwedTo(time, h, i)
<1>1. \A k \in 0..Len(h) : k < Len(h) =>
        OwedTo(time, h, k + 1) =
          IF time = NoTime \/ h[k + 1].timestamp >= time
          THEN Append(OwedTo(time, h, k), h[k + 1]) ELSE OwedTo(time, h, k)
  BY OwedIs, Zenon
<1> QED BY <1>1

\* A turn of the reader over an event in front of the first tear, or of the part
\* that ends the log.
LEMMA ReadKeeps ==
  ASSUME file \in Seq(Nat), history \in Seq(Written \cup {Tear}),
         NEW m \in Nat, NEW ends \in [0..m -> Nat], Left(file, history, m, ends),
         reader = "read", NEW i \in 0..m, Calm(file, history, m, ends, i),
         pos = ends[i], have \in pos..Len(file), given = OwedTo(start, history, i),
         log_reader, file' = file, history' = history
  PROVE  Sure(m, ends)'
<1> DEFINE data == Data
           O(j) == OwedTo(start, history, j)
           e == history[i + 1]
<1>1. /\ m <= Len(history) /\ Len(history) \in Nat /\ Len(file) \in Nat
      /\ \A j \in 0..m : ends[j] \in Nat /\ ends[j] <= Len(file)
      /\ \A j \in 0..m : j < m =>
           /\ history[j + 1] \in Written /\ Holds(file, ends[j], history[j + 1])
           /\ ends[j + 1] = ends[j] + Len(encode(history[j + 1])) /\ j + 1 \in 0..m
  BY EventsOf
<1>2. /\ pos \in Nat /\ have \in Nat /\ pos <= have /\ have <= Len(file)
      /\ pos = ends[i] /\ i \in Nat
  BY <1>1
<1>3. Piece(file, ends[i], data) /\ Len(data) = have - pos
  BY <1>2, PieceOf DEF Data
<1> HIDE DEF data
<1>4. \/ /\ i < m /\ decode(data) = Item(e, Len(encode(e)))
         /\ ends[i + 1] <= ends[i] + Len(data)
      \/ /\ decode(data).answer = "need" /\ i < m /\ ends[i] + Len(data) < Len(file)
      \/ /\ decode(data).answer = "need" /\ i = m
         /\ m = Len(history) /\ ends[i] = Len(file)
      \/ /\ decode(data).answer = "need" /\ i = m
         /\ m + 1 = Len(history) /\ ends[i] < Len(file)
  BY <1>3, DecodeAt
<1>5. \/ TakeItem(decode(data)) \/ TakeSkip(decode(data)) \/ SlideOn(decode(data))
      \/ Fill(decode(data))
  BY DEF log_reader, data
<1>6. CASE i < m /\ decode(data) = Item(e, Len(encode(e))) /\ ends[i + 1] <= ends[i] + Len(data)
  <2> DEFINE n == Len(encode(e))
  <2>1. decode(data).answer = "item" /\ decode(data).n = n /\ decode(data).event = e
    BY <1>6 DEF Item
  <2>2. TakeItem(decode(data))
    BY <1>5, <2>1 DEF TakeSkip, SlideOn, Fill
  <2>3. /\ pos' = pos + n /\ have' = have /\ reader' = reader /\ start' = start
        /\ given' = IF Wanted(e) THEN Append(given, e) ELSE given
    BY <2>1, <2>2 DEF TakeItem
  <2>4. i + 1 \in 0..m /\ ends[i + 1] = ends[i] + n
    BY <1>1, <1>6
  <2> HIDE DEF n, e
  <2>5. O(i + 1) = IF start = NoTime \/ history[i + 1].timestamp >= start
                   THEN Append(O(i), history[i + 1]) ELSE O(i)
    <3>1. i \in 0..Len(history) /\ i < Len(history)
      BY <1>1, <1>2, <1>6
    <3> QED BY <3>1, OwedMore
  <2>6. given' = O(i + 1)
    BY <2>3, <2>5 DEF Wanted, e
  <2>7. pos' = ends[i + 1] /\ have' \in pos'..Len(file')
    <3>1. pos' = ends[i + 1]
      BY <1>2, <2>3, <2>4
    <3>2. ends[i + 1] \in Nat /\ ends[i + 1] <= have
      BY <1>1, <1>2, <1>3, <1>6, <2>4
    <3> QED BY <1>2, <2>3, <3>1, <3>2
  <2>8. \E j \in 0..m : /\ pos' = ends[j] /\ have' \in pos'..Len(file')
                        /\ given' = OwedTo(start', history', j)
    BY <2>3, <2>4, <2>6, <2>7
  <2>9. reader' = "read"
    BY <2>3
  <2> QED BY <2>8, <2>9 DEF Sure
<1>7. ASSUME decode(data).answer = "need"
      PROVE  \/ /\ have' \in (have + 1)..Len(file) /\ pos' = pos /\ reader' = "read"
                /\ start' = start /\ given' = given
             \/ /\ have = Len(file) /\ start' = start /\ given' = given
                /\ reader' = IF pos = have THEN "end of log" ELSE "torn log"
  <2>1. Fill(decode(data))
    BY <1>5, <1>7 DEF TakeItem, TakeSkip, SlideOn
  <2> QED BY <2>1 DEF Fill, Stops
<1>8. ASSUME have' \in (have + 1)..Len(file), pos' = pos, reader' = "read",
             start' = start, given' = given
      PROVE  Sure(m, ends)'
  <2>1. have' \in pos'..Len(file')
    BY <1>1, <1>2, <1>8
  <2>2. given' = OwedTo(start', history', i) /\ pos' = ends[i]
    BY <1>8
  <2>3. \E j \in 0..m : /\ pos' = ends[j] /\ have' \in pos'..Len(file')
                        /\ given' = OwedTo(start', history', j)
    BY <2>1, <2>2
  <2> QED BY <1>8, <2>3 DEF Sure
<1>9. CASE /\ decode(data).answer = "need" /\ i < m /\ ends[i] + Len(data) < Len(file)
  <2>1. have # Len(file)
    BY <1>1, <1>2, <1>3, <1>9
  <2> QED BY <1>7, <1>8, <1>9, <2>1
<1>10. CASE decode(data).answer = "need" /\ i = m /\ m = Len(history) /\ ends[i] = Len(file)
  <2>1. pos = have /\ ~(have' \in (have + 1)..Len(file))
    BY <1>1, <1>2, <1>10
  <2>2. reader' = "end of log" /\ start' = start /\ given' = given
    BY <1>7, <1>10, <2>1
  <2>3. m = Len(history') /\ given' = OwedTo(start', history', m)
    BY <1>10, <2>2
  <2> QED BY <2>2, <2>3 DEF Sure
<1>11. CASE decode(data).answer = "need" /\ i = m /\ m + 1 = Len(history) /\ ends[i] < Len(file)
  <2>1. CASE have = Len(file) /\ start' = start /\ given' = given
             /\ reader' = IF pos = have THEN "end of log" ELSE "torn log"
    <3>1. pos # have
      <4>1. ends[i] < Len(file) /\ have = Len(file)
        BY <1>11, <2>1
      <4> QED BY <1>1, <1>2, <4>1
    <3>2. reader' = "torn log"
      BY <2>1, <3>1
    <3>3. m + 1 = Len(history') /\ given' = OwedTo(start', history', m)
      BY <1>11, <2>1
    <3> QED BY <3>2, <3>3 DEF Sure
  <2> QED BY <1>7, <1>8, <1>11, <2>1
<1> QED BY <1>4, <1>6, <1>9, <1>10, <1>11

\* A turn of the walk in front of the first tear, or behind all events.
LEMMA WalkKeeps ==
  ASSUME file \in Seq(Nat), history \in Seq(Written \cup {Tear}),
         NEW m \in Nat, NEW ends \in [0..m -> Nat], Left(file, history, m, ends),
         reader = "walk", start # NoTime, given = <<>>, NEW i \in 0..m, Calm(file, history, m, ends, i),
         at = ends[i], from = ends[Before(i)], OwedTo(start, history, i) = <<>>,
         Walk, file' = file, history' = history
  PROVE  Sure(m, ends)'
<1> DEFINE O(j) == OwedTo(start, history, j)
           head == PeekedHead
<1>1. /\ m <= Len(history) /\ Len(history) \in Nat /\ Len(file) \in Nat
      /\ \A j \in 0..m : ends[j] \in Nat /\ ends[j] <= Len(file)
      /\ \A j \in 0..m : j < m =>
           /\ history[j + 1] \in Written /\ Holds(file, ends[j], history[j + 1])
           /\ ends[j + 1] = ends[j] + Len(encode(history[j + 1])) /\ j + 1 \in 0..m
      /\ m + 1 >= Len(history) => \/ m = Len(history) /\ ends[m] = Len(file)
                                  \/ m + 1 = Len(history) /\ PartBehind(file, ends[m])
  BY EventsOf
<1>2. at \in Nat /\ at = ends[i] /\ at <= Len(file) /\ i \in Nat
  BY <1>1
<1>3. start' = start /\ given' = <<>>
  BY DEF Walk
<1>4. \A j \in 0..m : j <= i => O(j) = <<>>
  <2>1. ASSUME NEW j \in 0..m, j <= i PROVE O(j) = <<>>
    <3>1. j \in 0..Len(history) /\ i \in 0..Len(history)
      BY <1>1
    <3>2. Heads(O(j), O(i)) /\ O(j) \in Seq(Written \cup {Tear})
      BY <2>1, <3>1, OwedIs
    <3> HIDE DEF O
    <3>3. O(i) = <<>>
      BY DEF O
    <3>4. Len(O(j)) <= 0 /\ Len(O(j)) \in Nat
      BY <3>2, <3>3, LenProperties DEF Heads
    <3>5. Len(O(j)) = 0
      BY <3>4
    <3> QED BY <3>2, <3>5, EmptySeq
  <2> QED BY <2>1
<1>5. Before(i) \in 0..m /\ Before(i) <= i
  BY <1>2 DEF Before
<1>6. ASSUME NEW j \in 0..m, j <= i, reader' = "read", pos' = ends[j], have' = ends[j]
      PROVE  Sure(m, ends)'
  <2>1. have' \in pos'..Len(file')
    BY <1>1, <1>6
  <2>2. given' = OwedTo(start', history', j)
    BY <1>3, <1>4, <1>6
  <2>3. \E k \in 0..m : /\ pos' = ends[k] /\ have' \in pos'..Len(file')
                        /\ given' = OwedTo(start', history', k)
    BY <1>6, <2>1, <2>2
  <2> QED BY <1>6, <2>3 DEF Sure
<1>7. ASSUME reader' = "walk", NEW j \in 0..m, at' = ends[j], from' = ends[Before(j)],
             O(j) = <<>>
      PROVE  Sure(m, ends)'
  <2>1. OwedTo(start', history', j) = <<>>
    BY <1>3, <1>7
  <2>2. start' # NoTime /\ given' = <<>>
    BY <1>3
  <2> QED BY <1>7, <2>1, <2>2 DEF Sure
<1>8. CASE at + HEADER_LEN > Len(file)
  <2>1. reader' = "read" /\ pos' = from /\ have' = from
    BY <1>8 DEF Walk, ReadFrom
  <2> QED BY <1>5, <1>6, <2>1
<1>9. ASSUME at + HEADER_LEN <= Len(file), NEW e \in Written, Holds(file, at, e)
      PROVE  /\ HeadReads(head) /\ EventLen(head) = Len(encode(e)) /\ head[4] = e.timestamp
             /\ \/ reader' = "read" /\ pos' = at /\ have' = at
                \/ /\ ~(e.timestamp >= start) /\ reader' = "walk"
                   /\ from' = at /\ at' = at + Len(encode(e))
  <2>1. Piece(file, at, head) /\ Len(head) = HEADER_LEN
    <3>1. HEADER_LEN \in Nat /\ at + HEADER_LEN \in Nat /\ at <= at + HEADER_LEN
          /\ (at + HEADER_LEN) - at = HEADER_LEN
      BY <1>2 DEF HEADER_LEN
    <3> HIDE DEF HEADER_LEN
    <3>2. /\ Piece(file, at, SubSeq(file, at + 1, at + HEADER_LEN))
          /\ Len(SubSeq(file, at + 1, at + HEADER_LEN)) = (at + HEADER_LEN) - at
      BY <1>2, <1>9, <3>1, PieceOf
    <3> QED BY <3>1, <3>2 DEF PeekedHead
  <2> HIDE DEF head
  <2>2. Holds(file, at + 0, e)
    <3>1. at + 0 = at
      BY <1>2
    <3> QED BY <1>9, <3>1
  <2>3. Holds(head, 0, e) /\ head \in Seq(Nat) /\ HEADER_LEN <= Len(head)
    <3>1. Holds(head, 0, e)
      BY <1>2, <2>1, <2>2, PieceHolds
    <3> QED BY <2>1, <3>1 DEF Piece, HEADER_LEN
  <2>4. HeadReads(head) /\ EventLen(head) = Len(encode(e)) /\ head[4] = e.timestamp
    BY <2>3, HeadOf
  <2>5. ~(at + HEADER_LEN > Len(file))
    BY <1>1, <1>2, <1>9 DEF HEADER_LEN
  <2>6. \/ Reached(head[4]) /\ ReadFrom(at)
        \/ ~Reached(head[4]) /\ from' = at /\ at' = at + EventLen(head) /\ reader' = reader
    BY <2>4, <2>5 DEF Walk, head
  <2> QED BY <2>4, <2>6 DEF ReadFrom, Reached
<1>10. CASE i < m
  <2>1. PICK e \in Written : e = history[i + 1]
    BY <1>1, <1>10
  <2>2. /\ Holds(file, at, e) /\ i + 1 \in 0..m /\ ends[i + 1] = at + Len(encode(e))
        /\ ends[i + 1] <= Len(file)
    BY <1>1, <1>2, <1>10, <2>1
  <2>3. CASE at + HEADER_LEN <= Len(file)
    <3>1. CASE reader' = "read" /\ pos' = at /\ have' = at
      BY <1>2, <1>6, <3>1
    <3>2. CASE ~(e.timestamp >= start) /\ reader' = "walk" /\ from' = at
               /\ at' = at + Len(encode(e))
      <4>1. Before(i + 1) = i
        BY <1>2 DEF Before
      <4>2. O(i + 1) = <<>>
        <5>1. i \in 0..Len(history) /\ i < Len(history)
          BY <1>1, <1>2, <1>10
        <5>2. O(i + 1) = IF start = NoTime \/ history[i + 1].timestamp >= start
                         THEN Append(O(i), history[i + 1]) ELSE O(i)
          BY <5>1, OwedMore
        <5> QED BY <2>1, <3>2, <5>2
      <4>3. at' = ends[i + 1] /\ from' = ends[Before(i + 1)]
        BY <1>2, <2>2, <3>2, <4>1
      <4> QED BY <1>7, <2>2, <3>2, <4>2, <4>3
    <3> QED BY <1>9, <2>2, <2>3, <3>1, <3>2
  <2> QED BY <1>1, <1>2, <1>8, <2>3 DEF HEADER_LEN
<1>11. CASE ~(i < m) /\ at + HEADER_LEN <= Len(file)
  <2>1. i = m /\ m + 1 >= Len(history)
    BY <1>1, <1>2, <1>11 DEF Calm, Kept, Before
  <2>2. at # Len(file)
    BY <1>1, <1>2, <1>11 DEF HEADER_LEN
  <2>3. PartBehind(file, at)
    BY <1>1, <1>2, <2>1, <2>2
  <2>4. PICK e \in Written : Holds(file, at, e) /\ Len(file) < at + Len(encode(e))
    BY <2>3 DEF PartBehind
  <2>5. CASE reader' = "read" /\ pos' = at /\ have' = at
    BY <1>2, <1>6, <2>5
  <2>6. CASE reader' = "walk" /\ from' = at /\ at' = at + Len(encode(e))
    <3>1. Len(encode(e)) \in Nat
      BY WrittenIs
    <3>2. at' + HEADER_LEN > Len(file')
      BY <1>1, <1>2, <2>4, <2>6, <3>1 DEF HEADER_LEN
    <3>3. from' = ends[m] /\ OwedTo(start', history', m) = <<>> /\ start' # NoTime
      BY <1>2, <1>3, <2>1, <2>6
    <3> QED BY <1>3, <2>6, <3>2, <3>3 DEF Sure
  <2> QED BY <1>9, <1>11, <2>4, <2>5, <2>6
<1> QED
  <2>1. at + HEADER_LEN > Len(file) \/ at + HEADER_LEN <= Len(file)
    BY <1>1, <1>2 DEF HEADER_LEN
  <2> QED BY <1>8, <1>10, <1>11, <2>1

\* What is lost stays lost: no step takes back what was given.
LEMMA LostKeeps ==
  ASSUME history \in Seq(Written \cup {Tear}), NEW m \in Nat, NEW ends, Lost(m, ends),
         ReadStep \/ StopReplay, history' = history, file' = file
  PROVE  Lost(m, ends)'
<1> DEFINE kept == Kept(file, m, ends)
           o == OwedTo(start, history, kept)
<1>1. Len(history) \in Nat /\ m + 1 < Len(history)
  BY LenProperties DEF Lost
<1>2. o \in Seq(Written \cup {Tear}) /\ Heads(o, given)
  <2>1. kept \in 0..Len(history)
    BY <1>1 DEF Kept, Before
  <2> HIDE DEF kept
  <2> QED BY <2>1, OwedIs DEF Lost, kept
<1>3. PICK S : given \in Seq(S)
  BY DEF Lost
<1>4. start' = start /\ (given' = given \/ \E x : given' = Append(given, x))
  <2>1. CASE Walk \/ StopReplay
    BY <2>1 DEF Walk, StopReplay, Stops
  <2>2. CASE log_reader
    <3>1. \/ TakeItem(decode(Data)) \/ TakeSkip(decode(Data)) \/ SlideOn(decode(Data))
          \/ Fill(decode(Data))
      BY <2>2 DEF log_reader
    <3>2. CASE TakeItem(decode(Data))
      BY <3>2, Zenon DEF TakeItem
    <3>3. CASE TakeSkip(decode(Data)) \/ SlideOn(decode(Data)) \/ Fill(decode(Data))
      BY <3>3 DEF TakeSkip, SlideOn, Fill, Stops
    <3> QED BY <3>1, <3>2, <3>3
  <2> QED BY <2>1, <2>2 DEF ReadStep
<1>5. m + 1 < Len(history') /\ o = OwedTo(start', history', Kept(file', m, ends))
  BY <1>1, <1>4
<1> HIDE DEF o
<1>6. CASE given' = given
  BY <1>2, <1>3, <1>5, <1>6 DEF Lost
<1>7. ASSUME NEW x, given' = Append(given, x) PROVE Lost(m, ends)'
  <2> DEFINE T == S \cup {x}
  <2>1. given \in Seq(T) /\ x \in T
    <3>1. S \subseteq T
      OBVIOUS
    <3> HIDE DEF T
    <3>2. given \in [1..Len(given) -> T] /\ Len(given) \in Nat
      BY <1>3, <3>1, LenProperties, ElementOfSeq
    <3>3. given \in Seq(T)
      BY <3>2, SeqDef
    <3> QED BY <3>3 DEF T
  <2> HIDE DEF T
  <2>2. PICK g \in Seq(T) : g = given
    BY <2>1
  <2>3. /\ Append(g, x) \in Seq(T) /\ Len(Append(g, x)) = Len(g) + 1
        /\ \A k \in 1..Len(g) : Append(g, x)[k] = g[k]
    BY <2>1, <2>2, AppendProperties
  <2>4. Len(g) \in Nat /\ Len(o) \in Nat /\ Len(o) <= Len(g) /\ \A k \in 1..Len(o) : g[k] = o[k]
    BY <1>2, <2>2, LenProperties DEF Heads
  <2>5. Heads(o, Append(g, x))
    <3>1. \A k \in 1..Len(o) : k \in 1..Len(g)
      BY <2>4
    <3> QED BY <2>3, <2>4, <3>1 DEF Heads
  <2>6. Heads(o, given') /\ given' \in Seq(T)
    BY <1>7, <2>2, <2>3, <2>5
  <2> QED BY <1>5, <2>6 DEF Lost
<1> QED BY <1>4, <1>6, <1>7

\* At an event that a tear that was appended to can take with it, a replay gave all it
\* owes of the others.
LEMMA SureIsLost ==
  ASSUME history \in Seq(Written \cup {Tear}), NEW m \in Nat, NEW ends, NEW i \in 0..m,
         m <= Len(history), ~Calm(file, history, m, ends, i), given = OwedTo(start, history, i)
  PROVE  Lost(m, ends)
<1>1. Len(history) \in Nat /\ i \in Nat
  BY LenProperties
<1> DEFINE kept == Kept(file, m, ends)
<1>2. m + 1 < Len(history) /\ kept <= i /\ kept \in 0..Len(history) /\ i \in 0..Len(history)
  BY <1>1 DEF Calm, Kept, Before
<1> HIDE DEF kept
<1>3. /\ Heads(OwedTo(start, history, kept), OwedTo(start, history, i))
      /\ OwedTo(start, history, i) \in Seq(Written \cup {Tear})
  BY <1>2, OwedIs
<1> QED BY <1>2, <1>3 DEF Lost, kept

\* The reader takes the invariant on.
LEMMA ReaderKeeps ==
  ASSUME WriterInv, PastInv, ReaderInv, ReadStep \/ StopReplay, UNCHANGED writerVars
  PROVE  ReaderInv'
<1>1. /\ file \in Seq(Nat) /\ history \in Seq(Written \cup {Tear})
      /\ file' = file /\ history' = history /\ session' = session
  BY DEF WriterInv, WriterType, PastInv, writerVars, disk, past
<1>2. reader # "off" /\ reader' # "off"
  <2>1. CASE Walk
    BY <2>1 DEF Walk, ReadFrom
  <2>2. CASE StopReplay
    BY <2>2 DEF StopReplay, Stops
  <2>3. CASE log_reader
    <3>1. \/ TakeItem(decode(Data)) \/ TakeSkip(decode(Data)) \/ SlideOn(decode(Data))
          \/ Fill(decode(Data))
      BY <2>3 DEF log_reader
    <3>2. reader = "read"
      BY <2>3 DEF log_reader
    <3> QED BY <3>1, <3>2 DEF TakeItem, TakeSkip, SlideOn, Fill, Stops
  <2> QED BY <2>1, <2>2, <2>3 DEF ReadStep
<1>3. PICK m \in Nat : \E ends \in [0..m -> Nat] :
        Left(file, history, m, ends) /\ (Sure(m, ends) \/ Lost(m, ends))
  BY <1>2 DEF ReaderInv
<1>4. PICK ends \in [0..m -> Nat] : Left(file, history, m, ends) /\ (Sure(m, ends) \/ Lost(m, ends))
  BY <1>3
<1>5. m <= Len(history) /\ \A j \in 0..m : ends[j] \in Nat /\ ends[j] <= Len(file)
  BY <1>1, <1>4, EventsOf
<1>6. Lost(m, ends) => Lost(m, ends)'
  BY <1>1, LostKeeps
<1>7. ASSUME NEW i \in 0..m, ~Calm(file, history, m, ends, i), given = OwedTo(start, history, i)
      PROVE  Lost(m, ends)'
  BY <1>1, <1>5, <1>6, <1>7, SureIsLost
<1>8. ASSUME Sure(m, ends), StopReplay PROVE Sure(m, ends)'
  <2>1. reader' = "stopped" /\ start' = start /\ given' = given /\ reader \in {"walk", "read"}
    BY <1>8 DEF StopReplay, Stops
  <2>2. \E i \in 0..m : given = OwedTo(start, history, i)
    <3>1. CASE reader = "walk"
      <4>1. given = <<>> /\ 0 \in 0..m
        BY <1>8, <3>1 DEF Sure
      <4>2. OwedTo(start, history, 0) = <<>>
        BY <1>1, OwedIs
      <4> QED BY <4>1, <4>2
    <3>2. CASE reader = "read"
      BY <1>8, <3>2 DEF Sure
    <3> QED BY <2>1, <3>1, <3>2
  <2>3. \E i \in 0..m : given' = OwedTo(start', history', i)
    BY <1>1, <2>1, <2>2
  <2> QED BY <2>1, <2>3 DEF Sure
<1>9. ASSUME Sure(m, ends), Walk PROVE Sure(m, ends)' \/ Lost(m, ends)'
  <2>1. /\ reader = "walk" /\ start # NoTime /\ given = <<>>
        /\ \/ \E i \in 0..m : /\ at = ends[i] /\ from = ends[Before(i)]
                              /\ OwedTo(start, history, i) = <<>>
           \/ /\ at + HEADER_LEN > Len(file) /\ from = ends[m]
              /\ OwedTo(start, history, m) = <<>>
    <3>1. reader = "walk"
      BY <1>9 DEF Walk
    <3> HIDE DEF HEADER_LEN, NoTime
    <3> QED BY <1>9, <3>1 DEF Sure
  <2>2. ASSUME NEW i \in 0..m, at = ends[i], from = ends[Before(i)],
               OwedTo(start, history, i) = <<>>
        PROVE  Sure(m, ends)' \/ Lost(m, ends)'
    <3>1. CASE Calm(file, history, m, ends, i)
      BY <1>1, <1>4, <1>9, <2>1, <2>2, <3>1, WalkKeeps
    <3>2. CASE ~Calm(file, history, m, ends, i)
      BY <1>7, <2>1, <2>2, <3>2
    <3> QED BY <3>1, <3>2
  <2>3. ASSUME at + HEADER_LEN > Len(file), from = ends[m], OwedTo(start, history, m) = <<>>
        PROVE  Sure(m, ends)'
    <3>1. /\ reader' = "read" /\ pos' = ends[m] /\ have' = ends[m]
          /\ start' = start /\ given' = given
      BY <1>9, <2>3 DEF Walk, ReadFrom
    <3>2. m \in 0..m /\ have' \in pos'..Len(file') /\ given' = OwedTo(start', history', m)
      <4>1. given' = OwedTo(start', history', m)
        BY <1>1, <2>1, <2>3, <3>1
      <4>2. Len(file) \in Nat
        BY <1>1, LenProperties
      <4> QED BY <1>1, <1>5, <3>1, <4>1, <4>2
    <3>3. \E k \in 0..m : /\ pos' = ends[k] /\ have' \in pos'..Len(file')
                          /\ given' = OwedTo(start', history', k)
      BY <3>1, <3>2
    <3> QED BY <3>1, <3>3 DEF Sure
  <2> QED BY <2>1, <2>2, <2>3
<1>10. ASSUME Sure(m, ends), log_reader PROVE Sure(m, ends)' \/ Lost(m, ends)'
  <2>1. reader = "read"
    BY <1>10 DEF log_reader
  <2>2. PICK i \in 0..m : /\ pos = ends[i] /\ have \in pos..Len(file)
                          /\ given = OwedTo(start, history, i)
    BY <1>10, <2>1 DEF Sure
  <2>3. CASE Calm(file, history, m, ends, i)
    BY <1>1, <1>4, <1>10, <2>1, <2>2, <2>3, ReadKeeps
  <2>4. CASE ~Calm(file, history, m, ends, i)
    BY <1>7, <2>2, <2>4
  <2> QED BY <2>3, <2>4
<1>11. Left(file', history', m, ends) /\ (Sure(m, ends)' \/ Lost(m, ends)')
  BY <1>1, <1>4, <1>6, <1>8, <1>9, <1>10 DEF ReadStep
<1>12. session' = "none"
  BY <1>1, <1>2 DEF ReaderInv
<1> QED BY <1>2, <1>11, <1>12 DEF ReaderInv

\* A replay starts in front of all events, and owes nothing so far.
LEMMA ReplayStarts ==
  ASSUME WriterInv, PastInv, ReaderInv, Replay
  PROVE  ReaderInv'
<1>1. /\ file = base /\ file \in Seq(Nat) /\ history \in Seq(Written \cup {Tear})
      /\ at = 0 /\ from = 0 /\ pos = 0 /\ have = 0 /\ given = <<>>
  BY DEF WriterInv, WriterType, SessionInv, PastInv, ReaderInv, Replay
<1>2. /\ file' = file /\ history' = history /\ session' = "none"
      /\ at' = 0 /\ from' = 0 /\ pos' = 0 /\ have' = 0 /\ given' = <<>>
      /\ reader' = IF start' = NoTime THEN "read" ELSE "walk"
  BY <1>1 DEF Replay, disk, past
<1>3. PICK m \in Nat : \E ends \in [0..m -> Nat] : Left(file, history, m, ends)
  BY <1>1 DEF PastInv
<1>4. PICK ends \in [0..m -> Nat] : Left(file, history, m, ends)
  BY <1>3
<1>5. ends[0] = 0 /\ 0 \in 0..m /\ Len(file) \in Nat /\ Before(0) = 0
  <2>1. ends[0] = 0 /\ Len(file) \in Nat
    BY <1>1, <1>4, EventsOf
  <2> QED BY <2>1 DEF Before
<1>6. OwedTo(start', history', 0) = <<>>
  <2>1. PICK t : t = start'
    OBVIOUS
  <2>2. OwedTo(t, history, 0) = <<>>
    BY <1>1, OwedIs
  <2> QED BY <1>2, <2>1, <2>2
<1>7. Sure(m, ends)'
  <2>1. CASE start' = NoTime
    <3>1. have' \in pos'..Len(file')
      BY <1>2, <1>5
    <3>2. \E i \in 0..m : /\ pos' = ends[i] /\ have' \in pos'..Len(file')
                          /\ given' = OwedTo(start', history', i)
      BY <1>2, <1>5, <1>6, <3>1
    <3> QED BY <1>2, <2>1, <3>2 DEF Sure
  <2>2. CASE start' # NoTime
    <3>1. \E i \in 0..m : /\ at' = ends[i] /\ from' = ends[Before(i)]
                          /\ OwedTo(start', history', i) = <<>>
      BY <1>2, <1>5, <1>6
    <3> QED BY <1>2, <2>2, <3>1 DEF Sure
  <2> QED BY <2>1, <2>2
<1>8. reader' # "off"
  BY <1>2
<1>9. Left(file', history', m, ends)
  BY <1>2, <1>4
<1> QED BY <1>2, <1>7, <1>8, <1>9 DEF ReaderInv

\* Every step of the sessions and of the replay.
LEMMA ReaderStep == WriterInv /\ PastInv /\ ReaderInv /\ [Next]_vars => ReaderInv'
<1> SUFFICES ASSUME WriterInv, PastInv, ReaderInv, [Next]_vars PROVE ReaderInv'
  OBVIOUS
<1>1. CASE WriterNext /\ reader = "off" /\ UNCHANGED readerVars
  BY <1>1 DEF readerVars, ReaderInv
<1>2. CASE Replay
  BY <1>2, ReplayStarts
<1>3. CASE (ReadStep \/ StopReplay) /\ UNCHANGED writerVars
  BY <1>3, ReaderKeeps
<1>4. CASE UNCHANGED vars
  <2>1. UNCHANGED <<file, history, session, reader, start, at, from, pos, have, given>>
    BY <1>4 DEF vars, writerVars, readerVars, disk, past
  <2> QED BY <2>1 DEF ReaderInv, Sure, Lost, Kept
<1> QED BY <1>1, <1>2, <1>3, <1>4 DEF Next

\* What the two say of the events that were given: they are those that the replay
\* owes of the first i.
LEMMA SureGives ==
  ASSUME history \in Seq(Written \cup {Tear}), NEW m \in Nat, NEW ends, Sure(m, ends)
  PROVE  \E i \in 0..m : /\ given = OwedTo(start, history, i)
                         /\ reader \in {"end of log", "torn log"} => i = m
<1>1. 0 \in 0..m /\ m \in 0..m
  OBVIOUS
<1>2. CASE reader = "walk"
  <2>1. given = <<>>
    BY <1>2 DEF Sure
  <2>2. OwedTo(start, history, 0) = <<>>
    BY OwedIs
  <2> QED BY <1>1, <1>2, <2>1, <2>2
<1>3. CASE reader = "read" \/ reader = "stopped"
  <2>1. \E i \in 0..m : given = OwedTo(start, history, i)
    BY <1>3 DEF Sure
  <2>2. reader \notin {"end of log", "torn log"}
    BY <1>3
  <2> QED BY <2>1, <2>2
<1>4. CASE reader = "end of log" \/ reader = "torn log"
  <2>1. given = OwedTo(start, history, m)
    BY <1>4 DEF Sure
  <2> QED BY <1>1, <2>1
<1>5. reader \in {"walk", "read", "stopped", "end of log", "torn log"}
  BY DEF Sure
<1> QED BY <1>2, <1>3, <1>4, <1>5

\* The first tear is behind the events that Left counts.
LEMMA FirstTearIs ==
  ASSUME history \in Seq(Written \cup {Tear}), NEW cells \in Seq(Nat), NEW m \in Nat,
         NEW ends \in [0..m -> Nat], Left(cells, history, m, ends)
  PROVE  /\ m <= Len(history) /\ Len(history) \in Nat
         /\ FirstTear = IF m = Len(history) THEN 0 ELSE m + 1
<1> DEFINE I == {i \in 1..Len(history) : history[i] = Tear}
<1>1. /\ m <= Len(history) /\ Len(history) \in Nat
      /\ m < Len(history) => history[m + 1] = Tear
  <2>1. m \in 0..Len(history) /\ Len(history) \in Nat
    BY LenProperties DEF Left
  <2>2. m < Len(history) => history[m + 1] = Tear
    BY <2>1 DEF Left
  <2> QED BY <2>1, <2>2
<1>2. \A i \in 1..m : history[i] # Tear
  <2>1. \A i \in 1..m : history[i] \in Written
    BY DEF Left, Lie
  <2> QED BY <2>1, WrittenIs
<1>3. FirstTear = IF I # {} THEN Min(I) ELSE 0
  BY DEF FirstTear, SelectInSeq
<1>4. \A i \in I : i \in Nat /\ i >= m + 1
  <2>1. ASSUME NEW i \in I PROVE i \in Nat /\ i >= m + 1
    <3>1. i \in 1..Len(history) /\ history[i] = Tear
      OBVIOUS
    <3>2. i \notin 1..m
      BY <1>2, <3>1
    <3> QED BY <1>1, <3>1, <3>2
  <2> QED BY <2>1
<1>5. CASE m = Len(history)
  <2>1. \A i \in 1..Len(history) : history[i] # Tear
    BY <1>2, <1>5
  <2>2. I = {}
    BY <2>1
  <2> HIDE DEF I
  <2> QED BY <1>1, <1>3, <1>5, <2>2
<1>6. CASE m # Len(history)
  <2>1. m + 1 \in I
    BY <1>1, <1>6
  <2> HIDE DEF I
  <2>2. I \subseteq Nat /\ I # {}
    BY <1>4, <2>1
  <2>3. Min(I) \in I /\ Min(I) <= m + 1
    BY <2>1, <2>2, LeastIs
  <2>4. Min(I) = m + 1
    BY <1>4, <2>3
  <2> QED BY <1>1, <1>3, <1>6, <2>2, <2>4
<1> QED BY <1>5, <1>6, <1>1

\* Of what a replay owes of more or of fewer events, one goes on where the other ends.
LEMMA OwedInOrder ==
  ASSUME NEW h \in Seq(Written \cup {Tear}), NEW time, NEW i \in 0..Len(h), NEW j \in 0..Len(h),
         i <= j
  PROVE  IsPrefix(OwedTo(time, h, i), OwedTo(time, h, j))
<1>1. /\ Heads(OwedTo(time, h, i), OwedTo(time, h, j))
      /\ OwedTo(time, h, i) \in Seq(Written \cup {Tear})
      /\ OwedTo(time, h, j) \in Seq(Written \cup {Tear})
  BY OwedIs
<1>2. PICK a \in Seq(Written \cup {Tear}), b \in Seq(Written \cup {Tear}) :
        a = OwedTo(time, h, i) /\ b = OwedTo(time, h, j)
  BY <1>1
<1>3. Heads(a, b) /\ Heads(b, b) /\ Len(a) <= Len(b)
  <2>1. Heads(a, b)
    BY <1>1, <1>2
  <2>2. Len(b) \in Nat
    BY LenProperties
  <2> QED BY <2>1, <2>2 DEF Heads
<1>4. IsPrefix(a, b)
  BY <1>3, HeadsMeet
<1> QED BY <1>2, <1>4

\* What starts with some sequence has it as a prefix, whatever its elements are.
LEMMA HeadsArePrefix ==
  ASSUME NEW S, NEW T, NEW s \in Seq(S), NEW t \in Seq(T), Heads(s, t)
  PROVE  IsPrefix(s, t)
<1> DEFINE U == S \cup T
<1>1. S \subseteq U /\ T \subseteq U
  OBVIOUS
<1> HIDE DEF U
<1>2. s \in [1..Len(s) -> U] /\ Len(s) \in Nat /\ t \in [1..Len(t) -> U] /\ Len(t) \in Nat
  BY <1>1, LenProperties, ElementOfSeq
<1>3. s \in Seq(U) /\ t \in Seq(U)
  BY <1>2, SeqDef
<1>4. Heads(t, t) /\ Len(s) <= Len(t)
  BY <1>2 DEF Heads
<1> QED BY <1>3, <1>4, HeadsMeet

\* The invariant says all of it.
LEMMA GivenIs == WriterInv /\ PastInv /\ ReaderInv => GivenAsWritten
<1> SUFFICES ASSUME WriterInv, PastInv, ReaderInv, reader # "off"
             PROVE  AllIsGiven /\ InFrontIsGiven
  BY DEF GivenAsWritten
<1> DEFINE O(i) == OwedTo(start, history, i)
           atEnd == {"end of log", "torn log"}
<1>1. history \in Seq(Written \cup {Tear}) /\ file \in Seq(Nat) /\ Len(history) \in Nat
  BY LenProperties DEF PastInv, WriterInv, WriterType
<1>2. PICK m \in Nat : \E ends \in [0..m -> Nat] :
        Left(file, history, m, ends) /\ (Sure(m, ends) \/ Lost(m, ends))
  BY DEF ReaderInv
<1>3. PICK ends \in [0..m -> Nat] : Left(file, history, m, ends) /\ (Sure(m, ends) \/ Lost(m, ends))
  BY <1>2
<1>4. m <= Len(history) /\ FirstTear = IF m = Len(history) THEN 0 ELSE m + 1
  BY <1>1, <1>3, FirstTearIs
<1>5. \A i \in 0..m : i \in 0..Len(history) /\ Owed(SubSeq(history, 1, i)) = O(i)
  <2>1. ASSUME NEW i \in 0..m
        PROVE  i \in 0..Len(history) /\ Owed(SubSeq(history, 1, i)) = O(i)
    <3>1. i \in 0..Len(history)
      BY <1>1, <1>4
    <3> QED BY <1>1, <3>1, OwedIsTo
  <2> QED BY <2>1
<1>6. Owed(Whole) = O(m)
  <2>1. (IF FirstTear = 0 THEN Len(history) ELSE FirstTear - 1) = m
    BY <1>1, <1>4
  <2>2. Whole = SubSeq(history, 1, m)
    BY <2>1 DEF Whole
  <2>3. m \in 0..m
    OBVIOUS
  <2> QED BY <1>5, <2>2, <2>3
<1>7. \A i, j \in 0..m : i <= j => IsPrefix(O(i), O(j))
  BY <1>1, <1>5, OwedInOrder
<1> HIDE DEF O
<1>8. ASSUME Sure(m, ends)
      PROVE  \E i \in 0..m : given = O(i) /\ (reader \in atEnd => i = m)
  BY <1>1, <1>8, SureGives DEF O
<1>9. AllIsGiven
  <2>1. SUFFICES ASSUME FirstTear \in {0, Len(history)}
        PROVE  /\ IsPrefix(given, O(m))
               /\ reader \in atEnd => given = O(m)
               /\ reader = "end of log" => FirstTear = 0
               /\ reader = "torn log" => FirstTear # 0
    BY <1>6 DEF AllIsGiven
  <2>2. ~(m + 1 < Len(history))
    BY <1>1, <1>4, <2>1
  <2>3. Sure(m, ends)
    BY <1>3, <2>2 DEF Lost
  <2>4. PICK i \in 0..m : given = O(i) /\ (reader \in atEnd => i = m)
    BY <1>8, <2>3
  <2>5. IsPrefix(given, O(m))
    <3>1. m \in 0..m /\ i <= m
      OBVIOUS
    <3> QED BY <1>7, <2>4, <3>1
  <2>6. reader \in atEnd => given = O(m)
    BY <2>4
  <2>7. reader = "end of log" => FirstTear = 0
    BY <1>4, <2>3 DEF Sure
  <2>8. reader = "torn log" => FirstTear # 0
    <3>1. ASSUME reader = "torn log" PROVE FirstTear # 0
      <4>1. m + 1 = Len(history)
        BY <2>3, <3>1 DEF Sure
      <4>2. m # Len(history) /\ m + 1 # 0
        BY <1>1, <4>1
      <4> QED BY <1>4, <4>2
    <3> QED BY <3>1
  <2> QED BY <2>5, <2>6, <2>7, <2>8
<1>10. InFrontIsGiven
  <2>1. SUFFICES ASSUME FirstTear > 1
        PROVE  /\ IsPrefix(given, Owed(Safe)) \/ IsPrefix(Owed(Safe), given)
               /\ reader \in atEnd => IsPrefix(Owed(Safe), given)
    BY DEF InFrontIsGiven
  <2> DEFINE b == Kept(file, m, ends)
  <2>2. b \in 0..m /\ m \in 0..m /\ b <= m /\ b \in 0..Len(history)
    BY <1>1, <1>4, <2>1 DEF Kept, Before
  <2>3. Owed(Safe) = O(b)
    <3>1. Whole = SubSeq(history, 1, m) /\ m \in Nat /\ m \in 0..Len(history) /\ m # 0
      BY <1>1, <1>4, <2>1 DEF Whole
    <3>2. Len(Whole) = m /\ Len(Cells(Whole)) = ends[m]
      <4>1. Len(SubSeq(history, 1, m)) = m
        BY <1>1, <3>1, HeadIs
      <4>2. Len(Cells(SubSeq(history, 1, m))) = ends[m]
        BY <1>1, <1>3, CellsEnd
      <4> QED BY <3>1, <4>1, <4>2
    <3>3. ends[m] \in Nat /\ ends[m] <= Len(file)
      BY <1>1, <1>3, <2>2, EventsOf
    <3>4. IsPrefix(MAGIC, SubSeq(file, ends[m] + 1, Len(file))) <=> SyncAt(file, ends[m])
      BY <1>1, <3>3, SyncAtIs
    <3>5. (IF IsPrefix(MAGIC, SubSeq(file, ends[m] + 1, Len(file))) THEN m ELSE m - 1) = b
      BY <3>1, <3>4 DEF Kept, Before
    <3>6. Safe = SubSeq(history, 1, b)
      BY <3>2, <3>5 DEF Safe
    <3> HIDE DEF b
    <3> QED BY <1>5, <2>2, <3>6
  <2> HIDE DEF b
  <2>4. SUFFICES /\ IsPrefix(given, O(b)) \/ IsPrefix(O(b), given)
                 /\ reader \in atEnd => IsPrefix(O(b), given)
    BY <2>3
  <2>5. CASE Sure(m, ends)
    <3>1. PICK i \in 0..m : given = O(i) /\ (reader \in atEnd => i = m)
      BY <1>8, <2>5
    <3>2. i <= b \/ b <= i
      BY <2>2
    <3>3. IsPrefix(O(i), O(b)) \/ IsPrefix(O(b), O(i))
      BY <1>7, <2>2, <3>2
    <3>4. IsPrefix(O(b), O(m))
      BY <1>7, <2>2
    <3> QED BY <3>1, <3>3, <3>4
  <2>6. CASE Lost(m, ends)
    <3>1. PICK S : given \in Seq(S)
      BY <2>6 DEF Lost
    <3>2. Heads(O(b), given)
      BY <2>2, <2>6 DEF Lost, O, b
    <3>3. O(b) \in Seq(Written \cup {Tear})
      BY <1>1, <2>2, OwedIs DEF O
    <3>4. IsPrefix(O(b), given)
      BY <3>1, <3>2, <3>3, HeadsArePrefix
    <3> QED BY <3>4
  <2> QED BY <1>3, <2>5, <2>6
<1> QED BY <1>9, <1>10

-----------------------------------------------------------------------------
(* The theorems about the replay.                                          *)

\* What the sessions that Client::write, flush and close make leave is whole events
\* up to the first tear, and log_reader, that starts where seek_before put it, stands
\* at one of them with what it owes up to there.
THEOREM ReplayCorrect == Spec => [](WriterInv /\ PastInv /\ ReaderInv)
<1>1. Init => WriterInv /\ PastInv /\ ReaderInv
  <2> SUFFICES ASSUME Init PROVE WriterInv /\ PastInv /\ ReaderInv
    OBVIOUS
  <2>1. WriterInv /\ PastInv
    BY WriterInitInv, PastInit DEF Init
  <2>2. ReaderInv
    BY DEF Init, ReaderInv
  <2> QED BY <2>1, <2>2
<1>2. (WriterInv /\ PastInv /\ ReaderInv) /\ [Next]_vars => (WriterInv /\ PastInv /\ ReaderInv)'
  BY LogNextInv, PastStep, ReaderStep
<1> QED BY <1>1, <1>2, PTL DEF Spec

\* log_reader gives the log back as Client::write wrote it: each event once, in order
\* and with its own number, time and payload, from the start time on; and a tear costs
\* at most the event that touches it, and not that one where a sync word is left of the
\* torn event.
THEOREM GivenAsWrittenHolds == Spec => []GivenAsWritten
<1>1. WriterInv /\ PastInv /\ ReaderInv => GivenAsWritten
  BY GivenIs
<1> QED BY <1>1, ReplayCorrect, PTL

===============================================================================
