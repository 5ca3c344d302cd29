---------------------------- MODULE SequenceLemmas ----------------------------
(***************************************************************************)
(* What the proofs about several modules need of the sequences: induction   *)
(* over the natural numbers for a set; FlattenSeq, which the community       *)
(* module defines as a recursive function over the places of a sequence; and *)
(* lists that have each of their elements once.                              *)
(***************************************************************************)
EXTENDS Integers, Sequences, SequencesExt, SequenceTheorems, FiniteSetTheorems,
        WellFoundedInduction, TLAPS

\* Induction over the natural numbers, for a set.
LEMMA NatSetInduction ==
  ASSUME NEW S, 0 \in S, \A n \in Nat : n \in S => n + 1 \in S
  PROVE  \A n \in Nat : n \in S
<1> DEFINE T == {n \in Nat : n \notin S}
<1>1. SUFFICES T = {}
  OBVIOUS
<1>2. SUFFICES ASSUME T # {} PROVE FALSE
  OBVIOUS
<1>3. PICK n \in T : \A m \in T : ~(<<m, n>> \in OpToRel(<, Nat))
  <2>1. T \subseteq Nat
    OBVIOUS
  <2> HIDE DEF T
  <2> QED BY <1>2, <2>1, NatLessThanWellFounded, WFMin
<1>4. n \in Nat /\ n # 0 /\ n - 1 \in Nat /\ n - 1 \notin T
  <2>1. n \in Nat /\ n # 0
    OBVIOUS
  <2>2. n - 1 \in Nat /\ n - 1 < n
    BY <2>1
  <2>3. <<n - 1, n>> \in OpToRel(<, Nat)
    BY <2>1, <2>2 DEF OpToRel
  <2> QED BY <1>3, <2>1, <2>2, <2>3
<1>5. n - 1 \in S
  BY <1>4
<1> QED BY <1>4, <1>5

\* The least of some natural numbers is one of them.
LEMMA LeastIs ==
  ASSUME NEW S, S \subseteq Nat, S # {}
  PROVE  Min(S) \in S /\ \A y \in S : Min(S) <= y
<1>1. \E m \in S : \A y \in S : m <= y
  <2>1. SUFFICES ASSUME ~ \E m \in S : \A y \in S : m <= y PROVE FALSE
    OBVIOUS
  <2> DEFINE N == {n \in Nat : \A k \in 0..n : k \notin S}
  <2>2. 0 \in N
    <3>1. \A y \in S : 0 <= y
      OBVIOUS
    <3>2. 0 \notin S
      BY <2>1, <3>1
    <3> QED BY <3>2
  <2>3. ASSUME NEW n \in Nat, n \in N PROVE n + 1 \in N
    <3>1. \A y \in S : n + 1 <= y
      <4>1. ASSUME NEW y \in S, ~(n + 1 <= y) PROVE FALSE
        <5>1. y \in 0..n
          BY <4>1
        <5> QED BY <2>3, <4>1, <5>1
      <4> QED BY <4>1
    <3>2. n + 1 \notin S
      BY <2>1, <3>1
    <3>3. \A k \in 0..n + 1 : k \in 0..n \/ k = n + 1
      OBVIOUS
    <3> QED BY <2>3, <3>2, <3>3
  <2> HIDE DEF N
  <2>4. \A n \in Nat : n \in N
    BY <2>2, <2>3, NatSetInduction
  <2>5. PICK x \in S : TRUE
    OBVIOUS
  <2>6. x \in N /\ x \in 0..x
    BY <2>4
  <2> QED BY <2>5, <2>6 DEF N
<1> QED BY <1>1 DEF Min

\* f puts the first n sequences of q behind one another, place by place.
Flattens(q, n, f) ==
  f = [i \in 1..n |-> IF i = 1 THEN q[i] ELSE f[i - 1] \o q[i]]

\* Place by place.
LEMMA FlattensAt ==
  ASSUME NEW q, NEW n, NEW f, Flattens(q, n, f)
  PROVE  \A i \in 1..n : f[i] = IF i = 1 THEN q[i] ELSE f[i - 1] \o q[i]
BY DEF Flattens

\* f goes on by one sequence.
LEMMA FlattensMore ==
  ASSUME NEW n \in Nat, NEW q, NEW f, Flattens(q, n, f), NEW r,
         NEW g, g = [i \in 1..n + 1 |-> IF i = n + 1 THEN IF n = 0 THEN r[1] ELSE f[n] \o r[n + 1]
                                        ELSE f[i]],
         \A i \in 1..n : r[i] = q[i]
  PROVE  Flattens(r, n + 1, g)
<1>1. ASSUME NEW i \in 1..n + 1 PROVE g[i] = IF i = 1 THEN r[i] ELSE g[i - 1] \o r[i]
  <2>1. CASE i = n + 1 /\ n = 0
    BY <2>1
  <2>2. CASE i = n + 1 /\ n # 0
    <3>1. n \in 1..n + 1 /\ n # n + 1 /\ i # 1 /\ i - 1 = n
      BY <2>2
    <3>2. g[n] = f[n] /\ g[i] = f[n] \o r[n + 1]
      BY <2>2, <3>1
    <3> QED BY <2>2, <3>1, <3>2
  <2>3. CASE i # n + 1
    <3>1. i \in 1..n /\ g[i] = f[i] /\ r[i] = q[i]
      BY <2>3
    <3>2. f[i] = IF i = 1 THEN q[i] ELSE f[i - 1] \o q[i]
      BY <3>1 DEF Flattens
    <3>3. i # 1 => i - 1 \in 1..n + 1 /\ i - 1 # n + 1
      BY <3>1
    <3>4. i # 1 => g[i - 1] = f[i - 1]
      BY <3>3
    <3> QED BY <3>1, <3>2, <3>4
  <2> QED BY <2>1, <2>2, <2>3
<1>2. g = [i \in 1..n + 1 |-> g[i]]
  OBVIOUS
<1> QED BY <1>1, <1>2 DEF Flattens

\* There is such an f.
LEMMA FlattensExists ==
  ASSUME NEW q, NEW n \in Nat
  PROVE  \E f : Flattens(q, n, f)
<1> DEFINE S == {k \in Nat : \E f : Flattens(q, k, f)}
<1>1. 0 \in S
  <2>1. Flattens(q, 0, [i \in 1..0 |-> q[i]])
    BY DEF Flattens
  <2> QED BY <2>1
<1>2. ASSUME NEW k \in Nat, k \in S PROVE k + 1 \in S
  <2>1. PICK f : Flattens(q, k, f)
    BY <1>2
  <2> DEFINE g == [i \in 1..k + 1 |-> IF i = k + 1 THEN IF k = 0 THEN q[1] ELSE f[k] \o q[k + 1]
                                      ELSE f[i]]
  <2>2. Flattens(q, k + 1, g)
    BY <2>1, FlattensMore
  <2> QED BY <2>2
<1> HIDE DEF S
<1>3. n \in S
  BY <1>1, <1>2, NatSetInduction
<1> QED BY <1>3 DEF S

\* And one only.
LEMMA FlattensUnique ==
  ASSUME NEW q, NEW n \in Nat, NEW f, Flattens(q, n, f), NEW g, Flattens(q, n, g)
  PROVE  \A i \in 1..n : f[i] = g[i]
<1> DEFINE S == {k \in Nat : k \in 1..n => f[k] = g[k]}
<1>1. 0 \in S
  OBVIOUS
<1>2. ASSUME NEW k \in Nat, k \in S PROVE k + 1 \in S
  <2>1. SUFFICES ASSUME k + 1 \in 1..n PROVE f[k + 1] = g[k + 1]
    OBVIOUS
  <2>2. /\ f[k + 1] = IF k + 1 = 1 THEN q[k + 1] ELSE f[k + 1 - 1] \o q[k + 1]
        /\ g[k + 1] = IF k + 1 = 1 THEN q[k + 1] ELSE g[k + 1 - 1] \o q[k + 1]
    BY <2>1, FlattensAt
  <2>3. k + 1 - 1 = k /\ (k + 1 # 1 => k \in 1..n)
    BY <2>1
  <2>4. k + 1 # 1 => f[k] = g[k]
    BY <1>2, <2>3
  <2> QED BY <2>2, <2>3, <2>4
<1> HIDE DEF S
<1>3. \A k \in Nat : k \in S
  BY <1>1, <1>2, NatSetInduction
<1> QED BY <1>3 DEF S

\* FlattenSeq is what any such f has at its end.
LEMMA FlattenIs ==
  ASSUME NEW q, Len(q) \in Nat \ {0}, NEW f, Flattens(q, Len(q), f)
  PROVE  FlattenSeq(q) = f[Len(q)]
<1> DEFINE c == CHOOSE g : Flattens(q, Len(q), g)
<1>1. FlattenSeq(q) = c[Len(q)]
  BY DEF FlattenSeq, Flattens
<1>2. Flattens(q, Len(q), c)
  OBVIOUS
<1> HIDE DEF c
<1>3. Len(q) \in 1..Len(q)
  OBVIOUS
<1>4. c[Len(q)] = f[Len(q)]
  BY <1>2, <1>3, FlattensUnique
<1> QED BY <1>1, <1>4

\* No sequences make the empty one.
LEMMA FlattenEmpty == FlattenSeq(<<>>) = <<>>
<1>1. Len(<<>>) = 0
  BY EmptySeq
<1> QED BY <1>1 DEF FlattenSeq

\* Sequences over a set make one over it.
LEMMA FlattenType ==
  ASSUME NEW S, NEW q \in Seq(Seq(S))
  PROVE  FlattenSeq(q) \in Seq(S)
<1>0. Len(q) \in Nat /\ \A i \in 1..Len(q) : q[i] \in Seq(S)
  BY LenProperties, ElementOfSeq
<1>1. CASE Len(q) = 0
  <2>1. q = <<>>
    BY <1>1, EmptySeq
  <2>2. <<>> \in Seq(S)
    BY EmptySeq
  <2> QED BY <2>1, <2>2, FlattenEmpty
<1>2. CASE Len(q) # 0
  <2>1. PICK f : Flattens(q, Len(q), f)
    BY <1>0, FlattensExists
  <2> DEFINE T == {k \in Nat : k \in 1..Len(q) => f[k] \in Seq(S)}
  <2>2. 0 \in T
    OBVIOUS
  <2>3. ASSUME NEW k \in Nat, k \in T PROVE k + 1 \in T
    <3>1. SUFFICES ASSUME k + 1 \in 1..Len(q) PROVE f[k + 1] \in Seq(S)
      OBVIOUS
    <3>2. f[k + 1] = IF k + 1 = 1 THEN q[k + 1] ELSE f[k + 1 - 1] \o q[k + 1]
      BY <2>1, <3>1, FlattensAt
    <3>3. CASE k = 0
      BY <1>0, <3>1, <3>2, <3>3
    <3>4. CASE k # 0
      <4>1. k + 1 - 1 = k /\ k \in 1..Len(q) /\ k + 1 # 1
        BY <1>0, <3>1, <3>4
      <4>2. f[k] \in Seq(S) /\ q[k + 1] \in Seq(S)
        BY <1>0, <2>3, <3>1, <4>1
      <4>3. f[k] \o q[k + 1] \in Seq(S)
        BY <4>2, ConcatProperties
      <4> QED BY <3>2, <4>1, <4>3
    <3> QED BY <3>3, <3>4
  <2> HIDE DEF T
  <2>4. Len(q) \in T
    BY <1>0, <2>2, <2>3, NatSetInduction
  <2>5. Len(q) \in 1..Len(q)
    BY <1>0, <1>2
  <2>6. f[Len(q)] \in Seq(S)
    BY <2>4, <2>5 DEF T
  <2> QED BY <1>0, <1>2, <2>1, <2>6, FlattenIs
<1> QED BY <1>1, <1>2

\* One sequence more goes behind the others.
LEMMA FlattenAppend ==
  ASSUME NEW S, NEW q \in Seq(Seq(S)), NEW s \in Seq(S)
  PROVE  FlattenSeq(Append(q, s)) = FlattenSeq(q) \o s
<1> DEFINE n == Len(q)
           r == Append(q, s)
<1>1. /\ r \in Seq(Seq(S)) /\ Len(r) = n + 1 /\ n \in Nat
      /\ \A i \in 1..n : r[i] = q[i]
      /\ r[n + 1] = s
  BY AppendProperties, LenProperties
<1>2. PICK f : Flattens(q, n, f)
  BY <1>1, FlattensExists
<1> DEFINE g == [i \in 1..n + 1 |-> IF i = n + 1 THEN IF n = 0 THEN r[1] ELSE f[n] \o r[n + 1]
                                    ELSE f[i]]
<1>3. g[n + 1] = IF n = 0 THEN r[1] ELSE f[n] \o r[n + 1]
  BY <1>1
<1>4. n # 0 => FlattenSeq(q) = f[n]
  BY <1>1, <1>2, FlattenIs
<1>5. n = 0 => q = <<>>
  BY EmptySeq
<1> HIDE DEF n, r
<1>6. Flattens(r, n + 1, g)
  BY <1>1, <1>2, FlattensMore
<1> HIDE DEF g
<1>7. FlattenSeq(r) = g[n + 1]
  BY <1>1, <1>6, FlattenIs
<1>8. CASE n = 0
  <2>1. FlattenSeq(r) = s
    BY <1>1, <1>3, <1>7, <1>8
  <2>2. FlattenSeq(q) = <<>> /\ <<>> \o s = s
    BY <1>5, <1>8, FlattenEmpty, ConcatEmptySeq
  <2> QED BY <2>1, <2>2 DEF r
<1>9. CASE n # 0
  BY <1>1, <1>3, <1>4, <1>7, <1>9 DEF r
<1> QED BY <1>8, <1>9

\* Two ranges from one with the same members end at the same number.
LEMMA SameRange ==
  ASSUME NEW m \in Nat, NEW n \in Nat, 1..m = 1..n
  PROVE  m = n
<1>1. CASE m < n
  <2>1. n \in 1..n /\ n \notin 1..m
    BY <1>1
  <2> QED BY <2>1
<1>2. CASE n < m
  <2>1. m \in 1..m /\ m \notin 1..n
    BY <1>2
  <2> QED BY <2>1
<1> QED BY <1>1, <1>2

\* A sequence is as long as its domain says.
LEMMA LenIs ==
  ASSUME NEW S, NEW s \in Seq(S), NEW n \in Nat, DOMAIN s = 1..n
  PROVE  Len(s) = n
<1>1. Len(s) \in Nat /\ DOMAIN s = 1..Len(s)
  BY LenProperties
<1>2. 1..Len(s) = 1..n
  BY <1>1
<1> QED BY <1>1, <1>2, SameRange

\* Two sequences behind one another, place by place.
LEMMA Joined ==
  ASSUME NEW S, NEW s \in Seq(S), NEW t \in Seq(S)
  PROVE  /\ s \o t \in Seq(S) /\ Len(s \o t) = Len(s) + Len(t)
         /\ \A i \in 1..Len(s) : (s \o t)[i] = s[i]
         /\ \A i \in 1..Len(t) : (s \o t)[Len(s) + i] = t[i]
<1> DEFINE u == s \o t
           m == Len(s)
           n == Len(t)
<1>1. /\ u \in Seq(S) /\ Len(u) = m + n
      /\ \A i \in 1..m + n : u[i] = IF i <= m THEN s[i] ELSE t[i - m]
  BY ConcatProperties
<1>2. m \in Nat /\ n \in Nat
  BY LenProperties
<1> HIDE DEF u, m, n
<1>3. ASSUME NEW i \in 1..m PROVE u[i] = s[i]
  <2>1. i \in 1..m + n /\ i <= m
    BY <1>2
  <2> QED BY <1>1, <2>1
<1>4. ASSUME NEW i \in 1..n PROVE u[m + i] = t[i]
  <2> DEFINE k == m + i
  <2>1. k \in 1..m + n /\ ~(k <= m) /\ k - m = i
    BY <1>2
  <2> HIDE DEF k
  <2>2. u[k] = t[k - m]
    BY <1>1, <2>1
  <2> QED BY <2>1, <2>2 DEF k
<1> QED BY <1>1, <1>3, <1>4 DEF u, m, n

\* A piece of a sequence that is, place by place, another sequence.
LEMMA PieceIs ==
  ASSUME NEW S, NEW data \in Seq(S), NEW s \in Seq(S), NEW m \in Nat, m + Len(s) <= Len(data),
         \A i \in 1..Len(s) : data[m + i] = s[i]
  PROVE  SubSeq(data, m + 1, m + Len(s)) = s
<1> DEFINE k == Len(s)
           t == SubSeq(data, m + 1, m + k)
<1>1. k \in Nat /\ Len(data) \in Nat
  BY LenProperties
<1>2. \A i \in m + 1..m + k : data[i] \in S
  <2>1. \A i \in 1..Len(data) : data[i] \in S
    BY ElementOfSeq
  <2> QED BY <1>1, <2>1
<1>3. /\ m + 1 \in Int /\ m + k \in Int /\ m + k - (m + 1) + 1 = k
      /\ m + 1 <= m + k <=> k # 0
  BY <1>1
<1> HIDE DEF k
<1> DEFINE a == m + 1
           b == m + k
<1>4. /\ t \in Seq(S) /\ Len(t) = IF a <= b THEN b - a + 1 ELSE 0
      /\ \A i \in 1..b - a + 1 : t[i] = data[a + i - 1]
  <2>1. a \in Int /\ b \in Int /\ \A i \in a..b : data[i] \in S
    BY <1>2, <1>3
  <2>2. t = SubSeq(data, a, b)
    OBVIOUS
  <2> HIDE DEF a, b, t
  <2> QED BY <2>1, <2>2, SubSeqProperties
<1> HIDE DEF t
<1>5. Len(t) = k
  BY <1>1, <1>3, <1>4
<1>6. ASSUME NEW i \in 1..k PROVE t[i] = s[i]
  <2>1. a + i - 1 = m + i /\ i \in 1..b - a + 1
    BY <1>1, <1>3
  <2> QED BY <1>4, <2>1 DEF k
<1>7. t = s
  BY <1>4, <1>5, <1>6, SeqEqual DEF k
<1> QED BY <1>7 DEF t, k

\* The first i sequences of q, behind one another.
UpTo(q, i) == FlattenSeq([j \in 1..i |-> q[j]])

\* The first i + 1 sequences of q are the first i and then the next one.
LEMMA FlattenNext ==
  ASSUME NEW S, NEW q \in Seq(Seq(S)), NEW i \in Nat, i < Len(q)
  PROVE  UpTo(q, i) \in Seq(S) /\ UpTo(q, i + 1) = UpTo(q, i) \o q[i + 1]
<1> DEFINE a == [j \in 1..i |-> q[j]]
           b == [j \in 1..i + 1 |-> q[j]]
           s == q[i + 1]
<1> DEFINE n == Len(q)
<1>0. n \in Nat /\ q \in [1..n -> Seq(S)] /\ i < n
  BY LenProperties
<1> HIDE DEF n
<1>1. i \in Nat /\ i + 1 \in 1..n /\ \A j \in 1..i + 1 : j \in 1..n
  BY <1>0
<1>2. s \in Seq(S)
  BY <1>0, <1>1
<1>3. a \in [1..i -> Seq(S)] /\ b \in [1..i + 1 -> Seq(S)]
  BY <1>0, <1>1
<1>4. a \in Seq(Seq(S)) /\ b \in Seq(Seq(S))
  BY <1>1, <1>3, SeqDef
<1>5. Len(a) = i /\ Len(b) = i + 1
  <2>1. DOMAIN a = 1..i /\ DOMAIN b = 1..(i + 1)
    OBVIOUS
  <2> HIDE DEF a, b
  <2>2. Len(a) = i
    BY <1>1, <1>4, <2>1, LenIs
  <2>3. Len(b) = i + 1
    BY <1>1, <1>4, <2>1, LenIs
  <2> QED BY <2>2, <2>3
<1>6. \A j \in 1..i : a[j] = q[j] /\ b[j] = q[j]
  BY <1>1
<1>7. b[i + 1] = s
  BY <1>1
<1> HIDE DEF a, b, s
<1>8. b = Append(a, s)
  <2>1. /\ Append(a, s) \in Seq(Seq(S)) /\ Len(Append(a, s)) = i + 1
        /\ \A j \in 1..i : Append(a, s)[j] = a[j]
        /\ Append(a, s)[i + 1] = s
    BY <1>2, <1>4, <1>5, AppendProperties
  <2> DEFINE c == Append(a, s)
  <2>2. \A j \in 1..i + 1 : b[j] = c[j]
    BY <1>1, <1>6, <1>7, <2>1
  <2>3. c \in Seq(Seq(S)) /\ Len(b) = Len(c)
    BY <1>5, <2>1
  <2> HIDE DEF c
  <2>4. b = c
    BY <1>4, <1>5, <2>2, <2>3, SeqEqual
  <2> QED BY <2>4 DEF c
<1>9. FlattenSeq(Append(a, s)) = FlattenSeq(a) \o s /\ FlattenSeq(a) \in Seq(S)
  BY <1>2, <1>4, FlattenAppend, FlattenType
<1> QED BY <1>8, <1>9 DEF a, b, s, UpTo

\* The first i sequences of q are the head of them all.
LEMMA FlattenPrefix ==
  ASSUME NEW S, NEW q \in Seq(Seq(S)), NEW i \in 0..Len(q)
  PROVE  LET all == UpTo(q, Len(q))
         IN  /\ UpTo(q, i) \in Seq(S) /\ all \in Seq(S)
             /\ Len(UpTo(q, i)) <= Len(all)
             /\ \A k \in 1..Len(UpTo(q, i)) : all[k] = UpTo(q, i)[k]
<1> DEFINE n == Len(q)
<1>0. n \in Nat /\ q \in [1..n -> Seq(S)] /\ i \in 0..n /\ n = Len(q)
  BY LenProperties
<1> HIDE DEF n
<1> DEFINE F(j) == UpTo(q, j)
           Head2(j) == /\ Len(F(i)) <= Len(F(j))
                       /\ \A k \in 1..Len(F(i)) : F(j)[k] = F(i)[k]
           T == {d \in Nat : i + d \in i..n => Head2(i + d)}
<1>1. ASSUME NEW j \in 0..n PROVE F(j) \in Seq(S)
  <2>1. [k \in 1..j |-> q[k]] \in [1..j -> Seq(S)] /\ j \in Nat
    BY <1>0
  <2>2. [k \in 1..j |-> q[k]] \in Seq(Seq(S))
    BY <2>1, SeqDef
  <2> QED BY <2>2, FlattenType DEF UpTo
<1>2. ASSUME NEW j \in 0..n - 1 PROVE F(j + 1) = F(j) \o q[j + 1]
  <2>1. j \in Nat /\ j < Len(q)
    BY <1>0
  <2> QED BY <2>1, FlattenNext
<1> HIDE DEF F
<1>3. 0 \in T
  <2>1. Len(F(i)) \in Nat
    BY <1>1, LenProperties
  <2>2. i + 0 = i /\ Head2(i)
    BY <2>1
  <2> QED BY <2>2
<1>4. ASSUME NEW d \in Nat, d \in T PROVE d + 1 \in T
  <2>1. SUFFICES ASSUME i + (d + 1) \in i..n PROVE Head2(i + (d + 1))
    OBVIOUS
  <2> DEFINE j == i + d
  <2>2. j \in 0..n - 1 /\ i + (d + 1) = j + 1 /\ j + 1 \in 1..n /\ Head2(j)
    BY <1>0, <1>4, <2>1
  <2> HIDE DEF j
  <2>3. F(j + 1) = F(j) \o q[j + 1] /\ F(j) \in Seq(S) /\ q[j + 1] \in Seq(S) /\ F(i) \in Seq(S)
    BY <1>0, <1>1, <1>2, <2>2
  <2>4. /\ Len(F(j + 1)) = Len(F(j)) + Len(q[j + 1])
        /\ \A k \in 1..Len(F(j)) + Len(q[j + 1]) :
             F(j + 1)[k] = IF k <= Len(F(j)) THEN F(j)[k] ELSE q[j + 1][k - Len(F(j))]
    BY <2>3, ConcatProperties
  <2>5. Len(F(j)) \in Nat /\ Len(q[j + 1]) \in Nat /\ Len(F(i)) \in Nat
    BY <2>3, LenProperties
  <2>6. Len(F(i)) <= Len(F(j + 1))
    BY <2>2, <2>4, <2>5
  <2>7. ASSUME NEW k \in 1..Len(F(i)) PROVE F(j + 1)[k] = F(i)[k]
    <3>1. k \in 1..Len(F(j)) + Len(q[j + 1]) /\ k <= Len(F(j))
      BY <2>2, <2>5
    <3> QED BY <2>2, <2>4, <3>1
  <2> QED BY <2>2, <2>6, <2>7
<1> HIDE DEF T
<1>5. \A d \in Nat : d \in T
  BY <1>3, <1>4, NatSetInduction
<1>6. n - i \in Nat /\ i + (n - i) = n /\ n \in i..n /\ n \in 0..n
  BY <1>0
<1>7. Head2(n)
  BY <1>5, <1>6 DEF T
<1>8. F(i) \in Seq(S) /\ F(n) \in Seq(S)
  BY <1>1, <1>6
<1> QED BY <1>0, <1>7, <1>8 DEF F

-----------------------------------------------------------------------------
(* Sequences that have each of their elements once.                        *)

\* Each element is there once.
Once(s) == \A i, j \in 1..Len(s) : s[i] = s[j] => i = j

\* A part of a sequence, place by place.
LEMMA SubSeqIs ==
  ASSUME NEW S, NEW s \in Seq(S), NEW m \in Nat, NEW n \in Nat, m <= n, n <= Len(s)
  PROVE  LET t == SubSeq(s, m + 1, n) IN
         /\ t \in Seq(S) /\ Len(t) = n - m
         /\ \A k \in 1..n - m : t[k] = s[m + k]
<1> DEFINE t == SubSeq(s, m + 1, n)
<1>1. Len(s) \in Nat /\ \A k \in 1..Len(s) : s[k] \in S
  BY LenProperties, ElementOfSeq
<1>2. \A k \in m + 1..n : s[k] \in S
  BY <1>1
<1>3. m + 1 \in Int /\ n \in Int
  OBVIOUS
<1>4. /\ t \in Seq(S) /\ Len(t) = IF m + 1 <= n THEN n - (m + 1) + 1 ELSE 0
      /\ \A k \in 1..n - (m + 1) + 1 : t[k] = s[(m + 1) + k - 1]
  BY <1>2, <1>3, SubSeqProperties
<1> HIDE DEF t
<1> QED BY <1>1, <1>4 DEF t

\* A sequence without the element at one place, place by place.
LEMMA RemoveAtIs ==
  ASSUME NEW S, NEW s \in Seq(S), NEW i \in 1..Len(s)
  PROVE  LET r == RemoveAt(s, i) IN
         /\ r \in Seq(S) /\ Len(r) = Len(s) - 1 /\ DOMAIN r = 1..Len(s) - 1
         /\ \A k \in 1..Len(s) - 1 : r[k] = s[IF k < i THEN k ELSE k + 1]
<1> DEFINE a == SubSeq(s, 1, i - 1)
           b == SubSeq(s, i + 1, Len(s))
           r == RemoveAt(s, i)
<1>0. Len(s) \in Nat /\ DOMAIN s = 1..Len(s) /\ i - 1 \in Nat
  BY LenProperties
<1>1. a \in Seq(S) /\ Len(a) = i - 1 /\ \A k \in 1..i - 1 : a[k] = s[k]
  <2>1. PICK z \in Nat : z = 0
    OBVIOUS
  <2>2. LET t == SubSeq(s, z + 1, i - 1) IN
        t \in Seq(S) /\ Len(t) = (i - 1) - z /\ \A k \in 1..(i - 1) - z : t[k] = s[z + k]
    BY <1>0, <2>1, SubSeqIs
  <2>3. SubSeq(s, z + 1, i - 1) = a
    BY <2>1
  <2> HIDE DEF a
  <2> QED BY <1>0, <2>1, <2>2, <2>3
<1>2. b \in Seq(S) /\ Len(b) = Len(s) - i /\ \A k \in 1..Len(s) - i : b[k] = s[i + k]
  <2>1. i \in Nat /\ i <= Len(s) /\ Len(s) <= Len(s)
    BY <1>0
  <2> QED BY <1>0, <2>1, SubSeqIs
<1> HIDE DEF a, b
<1>3. /\ r \in Seq(S) /\ Len(r) = Len(s) - 1 /\ DOMAIN r = 1..Len(s) - 1
      /\ \A k \in 1..Len(s) - 1 : r[k] = s[IF k < i THEN k ELSE k + 1]
  <2>0. r = a \o b
    BY DEF r, RemoveAt, a, b
  <2> HIDE DEF r
  <2>1. /\ r \in Seq(S) /\ Len(r) = Len(a) + Len(b)
        /\ \A k \in 1..Len(a) : r[k] = a[k]
        /\ \A k \in 1..Len(b) : r[Len(a) + k] = b[k]
    <3>1. a \in Seq(S) /\ b \in Seq(S)
      BY <1>1, <1>2
    <3>2. /\ a \o b \in Seq(S) /\ Len(a \o b) = Len(a) + Len(b)
          /\ \A k \in 1..Len(a) : (a \o b)[k] = a[k]
          /\ \A k \in 1..Len(b) : (a \o b)[Len(a) + k] = b[k]
      BY <3>1, Joined
    <3> QED BY <2>0, <3>2
  <2>2. Len(r) = Len(s) - 1
    BY <1>0, <1>1, <1>2, <2>1
  <2>3. ASSUME NEW k \in 1..Len(s) - 1 PROVE r[k] = s[IF k < i THEN k ELSE k + 1]
    <3>1. CASE k < i
      BY <1>0, <1>1, <2>1, <3>1
    <3>2. CASE ~(k < i)
      <4>1. PICK c \in 1..Len(s) - i : k = (i - 1) + c
        <5>1. k - (i - 1) \in 1..Len(s) - i /\ k = (i - 1) + (k - (i - 1))
          BY <1>0, <3>2
        <5> QED BY <5>1
      <4>2. r[k] = b[c]
        BY <1>1, <1>2, <2>1, <4>1
      <4>3. i + c = k + 1
        BY <1>0, <4>1
      <4> QED BY <1>2, <3>2, <4>2, <4>3
    <3> QED BY <3>1, <3>2
  <2>4. DOMAIN r = 1..Len(r)
    BY <2>1, LenProperties
  <2> QED BY <2>1, <2>2, <2>3, <2>4
<1> QED BY <1>3 DEF r

\* And each element left is there once.
LEMMA OnceRemove ==
  ASSUME NEW S, NEW s \in Seq(S), NEW i \in 1..Len(s), Once(s)
  PROVE  /\ RemoveAt(s, i) \in Seq(S) /\ Once(RemoveAt(s, i))
         /\ ToSet(RemoveAt(s, i)) = ToSet(s) \ {s[i]}
<1> DEFINE r == RemoveAt(s, i)
<1>0. Len(s) \in Nat /\ DOMAIN s = 1..Len(s) /\ i - 1 \in Nat
  BY LenProperties
<1>3. /\ r \in Seq(S) /\ Len(r) = Len(s) - 1 /\ DOMAIN r = 1..Len(s) - 1
      /\ \A k \in 1..Len(s) - 1 : r[k] = s[IF k < i THEN k ELSE k + 1]
  BY RemoveAtIs
<1> HIDE DEF r
<1>4. ASSUME NEW j \in 1..Len(r), NEW k \in 1..Len(r), r[j] = r[k] PROVE j = k
  <2> DEFINE p == IF j < i THEN j ELSE j + 1
             q == IF k < i THEN k ELSE k + 1
  <2>1. p \in 1..Len(s) /\ q \in 1..Len(s) /\ s[p] = s[q]
    BY <1>0, <1>3, <1>4
  <2>2. p = q
    BY <2>1 DEF Once
  <2> QED BY <1>0, <1>3, <2>2
<1>5. ASSUME NEW x \in ToSet(r) PROVE x \in ToSet(s) \ {s[i]}
  <2>1. PICK k \in 1..Len(s) - 1 : x = s[IF k < i THEN k ELSE k + 1]
    BY <1>3 DEF ToSet
  <2>2. PICK p \in 1..Len(s) : x = s[p] /\ p # i
    BY <1>0, <2>1
  <2> QED BY <1>0, <2>2 DEF Once, ToSet
<1>6. ASSUME NEW x \in ToSet(s) \ {s[i]} PROVE x \in ToSet(r)
  <2>1. PICK p \in 1..Len(s) : x = s[p] /\ p # i
    BY <1>0 DEF ToSet
  <2>2. PICK k \in 1..Len(s) - 1 : p = IF k < i THEN k ELSE k + 1
    <3> DEFINE k == IF p < i THEN p ELSE p - 1
    <3>1. k \in 1..Len(s) - 1 /\ p = IF k < i THEN k ELSE k + 1
      BY <1>0, <2>1
    <3> QED BY <3>1
  <2>3. r[k] = x
    BY <1>3, <2>1, <2>2
  <2> QED BY <1>3, <2>3 DEF ToSet
<1> QED BY <1>3, <1>4, <1>5, <1>6 DEF r, Once

\* A sequence in two parts.
LEMMA OnceParts ==
  ASSUME NEW S, NEW s \in Seq(S), Once(s), NEW n \in 0..Len(s)
  PROVE  LET a == SubSeq(s, 1, n)
             b == SubSeq(s, n + 1, Len(s))
         IN  /\ b \in Seq(S) /\ Once(b) /\ Len(b) = Len(s) - n
             /\ ToSet(b) = ToSet(s) \ ToSet(a) /\ ToSet(a) \subseteq ToSet(s)
<1> DEFINE a == SubSeq(s, 1, n)
           b == SubSeq(s, n + 1, Len(s))
<1>0. Len(s) \in Nat /\ DOMAIN s = 1..Len(s) /\ n \in Nat /\ n <= Len(s)
  BY LenProperties
<1>1. a \in Seq(S) /\ Len(a) = n /\ \A k \in 1..n : a[k] = s[k]
  <2>1. PICK z \in Nat : z = 0
    OBVIOUS
  <2>2. LET t == SubSeq(s, z + 1, n) IN
        t \in Seq(S) /\ Len(t) = n - z /\ \A k \in 1..n - z : t[k] = s[z + k]
    BY <1>0, <2>1, SubSeqIs
  <2>3. SubSeq(s, z + 1, n) = a
    BY <2>1
  <2> HIDE DEF a
  <2> QED BY <1>0, <2>1, <2>2, <2>3
<1>2. b \in Seq(S) /\ Len(b) = Len(s) - n /\ \A k \in 1..Len(s) - n : b[k] = s[n + k]
  <2>1. Len(s) \in Nat /\ Len(s) <= Len(s)
    BY <1>0
  <2> QED BY <1>0, <2>1, SubSeqIs
<1> HIDE DEF a, b
<1>3. DOMAIN a = 1..n /\ DOMAIN b = 1..Len(s) - n
  BY <1>1, <1>2, LenProperties
<1>4. Once(b)
  <2>1. ASSUME NEW j \in 1..Len(b), NEW k \in 1..Len(b), b[j] = b[k] PROVE j = k
    <3>1. n + j \in 1..Len(s) /\ n + k \in 1..Len(s) /\ s[n + j] = s[n + k]
      BY <1>0, <1>2, <2>1
    <3>2. n + j = n + k
      BY <3>1 DEF Once
    <3> QED BY <1>0, <1>2, <3>2
  <2> QED BY <2>1 DEF Once
<1>5. ToSet(a) \subseteq ToSet(s)
  BY <1>0, <1>1, <1>3 DEF ToSet
<1>6. ToSet(b) = ToSet(s) \ ToSet(a)
  <2>1. ASSUME NEW x \in ToSet(b) PROVE x \in ToSet(s) /\ x \notin ToSet(a)
    <3>1. PICK k \in 1..Len(s) - n : x = s[n + k]
      BY <1>2, <1>3 DEF ToSet
    <3>2. n + k \in 1..Len(s) /\ \A j \in 1..n : j \in 1..Len(s) /\ j # n + k
      BY <1>0
    <3>3. \A j \in 1..n : s[j] # x
      BY <3>1, <3>2 DEF Once
    <3> QED BY <1>0, <1>1, <1>3, <3>1, <3>2, <3>3 DEF ToSet
  <2>2. ASSUME NEW x \in ToSet(s), x \notin ToSet(a) PROVE x \in ToSet(b)
    <3>1. PICK p \in 1..Len(s) : x = s[p]
      BY <1>0 DEF ToSet
    <3>2. p \notin 1..n
      BY <1>1, <1>3, <2>2, <3>1 DEF ToSet
    <3>3. PICK k \in 1..Len(s) - n : p = n + k
      <4>1. p - n \in 1..Len(s) - n /\ p = n + (p - n)
        BY <1>0, <3>2
      <4> QED BY <4>1
    <3> QED BY <1>2, <1>3, <3>1, <3>3 DEF ToSet
  <2> QED BY <2>1, <2>2
<1> QED BY <1>2, <1>4, <1>5, <1>6 DEF a, b

\* A sequence with one element more.
LEMMA OnceMore ==
  ASSUME NEW S, NEW s \in Seq(S), NEW x \in S, Once(s), x \notin ToSet(s)
  PROVE  /\ Append(s, x) \in Seq(S) /\ Once(Append(s, x))
         /\ ToSet(Append(s, x)) = ToSet(s) \cup {x} /\ Len(Append(s, x)) = Len(s) + 1
<1>1. PICK t : t = Append(s, x)
  OBVIOUS
<1>2. /\ t \in Seq(S) /\ Len(t) = Len(s) + 1 /\ Len(s) \in Nat
      /\ \A i \in 1..Len(s) : t[i] = s[i]
      /\ t[Len(s) + 1] = x
  BY <1>1, AppendProperties, LenProperties
<1>3. DOMAIN s = 1..Len(s) /\ DOMAIN t = 1..Len(s) + 1
  BY <1>2, LenProperties
<1>4. \A i \in 1..Len(s) : s[i] # x
  BY <1>3 DEF ToSet
<1>5. Once(t)
  <2>1. ASSUME NEW i \in 1..Len(s) + 1, NEW j \in 1..Len(s) + 1, t[i] = t[j] PROVE i = j
    BY <1>2, <1>4, <2>1 DEF Once
  <2> QED BY <1>2, <2>1 DEF Once
<1>6. ToSet(t) = ToSet(s) \cup {x}
  <2>1. ToSet(t) \subseteq ToSet(s) \cup {x}
    BY <1>2, <1>3 DEF ToSet
  <2>2. ToSet(s) \subseteq ToSet(t)
    <3>1. \A i \in 1..Len(s) : i \in 1..Len(s) + 1
      BY <1>2
    <3> QED BY <1>2, <1>3, <3>1 DEF ToSet
  <2>3. x \in ToSet(t)
    <3>1. Len(s) + 1 \in 1..Len(s) + 1
      BY <1>2
    <3> QED BY <1>2, <1>3, <3>1 DEF ToSet
  <2> QED BY <2>1, <2>2, <2>3
<1> QED BY <1>1, <1>2, <1>5, <1>6

\* A line with each of its members once is as long as they are many.
LEMMA OnceCounts ==
  ASSUME NEW S, NEW s \in Seq(S), Once(s)
  PROVE  IsFiniteSet(ToSet(s)) /\ Cardinality(ToSet(s)) = Len(s)
<1>1. Len(s) \in Nat /\ DOMAIN s = 1..Len(s) /\ s = [i \in 1..Len(s) |-> s[i]]
  BY LenProperties
<1>2. s \in [1..Len(s) -> ToSet(s)]
  BY <1>1 DEF ToSet
<1>3. s \in Bijection(1..Len(s), ToSet(s))
  BY <1>1, <1>2 DEF Once, ToSet, Bijection, Injection, Surjection, IsInjective
<1>4. ExistsBijection(1..Len(s), ToSet(s))
  BY <1>3 DEF ExistsBijection
<1>5. IsFiniteSet(ToSet(s))
  BY <1>1, <1>4, FS_NatBijection
<1> QED BY <1>1, <1>4, <1>5, FS_CountingElements

=============================================================================
