------------------------- MODULE SubscriptionsProofs -------------------------
(***************************************************************************)
(* Proofs about Subscriptions, for any threads, names, patterns, escaping,  *)
(* opening rules and room in the line: the relay will hold what the client  *)
(* holds.                                                                  *)
(*                                                                         *)
(* The counting comes first: how often a text is in a sequence after one    *)
(* text more or less.  Reading all the frames under way is then taken apart  *)
(* at either end, where a frame comes in and where one is read.  The         *)
(* invariant adds to RelayAgrees what the lock is for: of the calls at most  *)
(* one is amid a change, the rule that it told of is still the one it will   *)
(* change, and once it told, the relay is ahead of the client by that call.  *)
(***************************************************************************)
EXTENDS Subscriptions, SequenceLemmas

-----------------------------------------------------------------------------
(* How often a text is in a sequence.                                      *)

\* The places of a text.
Places(s, x) == {i \in 1..Len(s) : s[i] = x}

\* They are finitely many.
LEMMA OftenIs ==
  ASSUME NEW S, NEW s \in Seq(S), NEW x
  PROVE  /\ HowOften(s, x) = Cardinality(Places(s, x)) /\ IsFiniteSet(Places(s, x))
         /\ HowOften(s, x) \in Nat
         /\ HowOften(s, x) = 0 <=> x \notin ToSet(s)
<1>1. Len(s) \in Nat /\ DOMAIN s = 1..Len(s)
  BY LenProperties
<1>2. HowOften(s, x) = Cardinality(Places(s, x))
  BY <1>1 DEF HowOften, Places
<1>3. Places(s, x) \in SUBSET (1..Len(s)) /\ IsFiniteSet(1..Len(s))
  <2>1. IsFiniteSet(1..Len(s))
    BY <1>1, FS_Interval
  <2> QED BY <2>1 DEF Places
<1>4. IsFiniteSet(Places(s, x))
  BY <1>3, FS_Subset
<1>5. Cardinality(Places(s, x)) \in Nat
  BY <1>4, FS_CardinalityType
<1>6. Cardinality(Places(s, x)) = 0 <=> Places(s, x) = {}
  BY <1>4, FS_EmptySet
<1>7. Places(s, x) = {} <=> x \notin ToSet(s)
  BY <1>1 DEF Places, ToSet
<1> QED BY <1>2, <1>4, <1>5, <1>6, <1>7

\* A text more.
LEMMA OftenMore ==
  ASSUME NEW S, NEW s \in Seq(S), NEW y \in S, NEW x
  PROVE  HowOften(Append(s, y), x) = HowOften(s, x) + (IF x = y THEN 1 ELSE 0)
<1> DEFINE t == Append(s, y)
           n == Len(s)
<1>1. /\ n \in Nat /\ t \in Seq(S) /\ Len(t) = n + 1
      /\ \A i \in 1..n : t[i] = s[i]
      /\ t[n + 1] = y
  BY AppendProperties, LenProperties
<1>2. /\ HowOften(s, x) = Cardinality(Places(s, x)) /\ IsFiniteSet(Places(s, x))
      /\ HowOften(s, x) \in Nat
  BY OftenIs
<1>3. HowOften(t, x) = Cardinality(Places(t, x))
  BY <1>1, OftenIs
<1> HIDE DEF t
<1>4. CASE x = y
  <2>1. Places(t, x) = Places(s, x) \cup {n + 1} /\ n + 1 \notin Places(s, x)
    BY <1>1, <1>4 DEF Places
  <2>2. Cardinality(Places(s, x) \cup {n + 1}) = Cardinality(Places(s, x)) + 1
    BY <1>2, <2>1, FS_AddElement
  <2> QED BY <1>2, <1>3, <1>4, <2>1, <2>2 DEF t
<1>5. CASE x # y
  <2>1. Places(t, x) = Places(s, x)
    BY <1>1, <1>5 DEF Places
  <2> QED BY <1>2, <1>3, <1>5, <2>1 DEF t
<1> QED BY <1>4, <1>5

\* The text at one place less.
LEMMA OftenLess ==
  ASSUME NEW S, NEW s \in Seq(S), NEW i \in 1..Len(s), NEW x
  PROVE  HowOften(RemoveAt(s, i), x) = HowOften(s, x) - (IF x = s[i] THEN 1 ELSE 0)
<1> DEFINE r == RemoveAt(s, i)
           n == Len(s)
           P == Places(s, x)
           Q == P \ {i}
           R == Places(r, x)
           f == [k \in R |-> IF k < i THEN k ELSE k + 1]
<1>1. /\ n \in Nat /\ r \in Seq(S) /\ Len(r) = n - 1
      /\ \A k \in 1..n - 1 : r[k] = s[IF k < i THEN k ELSE k + 1]
  BY RemoveAtIs, LenProperties
<1>2. HowOften(s, x) = Cardinality(P) /\ IsFiniteSet(P) /\ HowOften(s, x) \in Nat
  BY OftenIs
<1>3. HowOften(r, x) = Cardinality(R) /\ IsFiniteSet(R)
  BY <1>1, OftenIs
<1> HIDE DEF r, n
<1>4. i \in 1..n
  BY DEF n
<1>5. f \in Bijection(R, Q)
  <2>1. f \in [R -> Q]
    <3>1. ASSUME NEW k \in R PROVE (IF k < i THEN k ELSE k + 1) \in Q
      <4> DEFINE p == IF k < i THEN k ELSE k + 1
      <4>1. k \in 1..n - 1 /\ r[k] = x
        BY <1>1 DEF Places
      <4>2. p \in 1..n /\ p # i /\ s[p] = x
        BY <1>1, <1>4, <4>1
      <4> HIDE DEF p
      <4>3. p \in Q
        BY <4>2 DEF Places, n
      <4> QED BY <4>3 DEF p
    <3> QED BY <3>1
  <2>2. ASSUME NEW j \in R, NEW k \in R, f[j] = f[k] PROVE j = k
    <3>1. j \in Int /\ k \in Int
      BY <1>1 DEF Places
    <3> QED BY <2>2, <3>1, <1>4
  <2>3. ASSUME NEW q \in Q PROVE \E k \in R : f[k] = q
    <3> DEFINE k == IF q < i THEN q ELSE q - 1
    <3>1. q \in 1..n /\ s[q] = x /\ q # i
      BY DEF Places, n
    <3>2. k \in 1..n - 1 /\ q = IF k < i THEN k ELSE k + 1
      BY <1>1, <1>4, <3>1
    <3>3. r[k] = x
      BY <1>1, <3>1, <3>2
    <3>4. k \in R
      BY <1>1, <3>2, <3>3 DEF Places
    <3>5. f[k] = q
      BY <3>2, <3>4
    <3> QED BY <3>4, <3>5
  <2> HIDE DEF f, R, Q
  <2> QED BY <2>1, <2>2, <2>3 DEF Bijection, Injection, Surjection, IsInjective
<1>6. Cardinality(Q) = Cardinality(R)
  <2> HIDE DEF f, R, Q
  <2>1. ExistsBijection(R, Q)
    BY <1>5 DEF ExistsBijection
  <2> QED BY <1>3, <2>1, FS_Bijection
<1>7. Cardinality(Q) = IF i \in P THEN Cardinality(P) - 1 ELSE Cardinality(P)
  <2> HIDE DEF P
  <2> QED BY <1>2, FS_RemoveElement
<1>8. i \in P <=> x = s[i]
  BY <1>4 DEF Places, n
<1> HIDE DEF P, Q, R
<1> QED BY <1>2, <1>3, <1>6, <1>7, <1>8 DEF r

-----------------------------------------------------------------------------
(* The rules, and what the relay makes of the frames.                      *)

\* What may be told of.
Texts == {for_a_relay(rule) : rule \in Rule}

\* The frames that tell of it.
Frames == [op : {"subscribe", "unsubscribe"}, text : Texts]

\* What one frame makes of the relay's rules is rules.
LEMMA ApplyType ==
  ASSUME NEW held \in Seq(Texts), NEW f \in Frames
  PROVE  Apply(held, f) \in Seq(Texts)
<1>0. f.text \in Texts /\ Len(held) \in Nat
  BY LenProperties DEF Frames
<1>1. CASE f.op = "unsubscribe" /\ \E i \in 1..Len(held) : held[i] = f.text
  <2> DEFINE I == {i \in 1..Len(held) : held[i] = f.text}
  <2>1. I \subseteq Nat /\ I # {}
    BY <1>1
  <2>2. Min(I) \in 1..Len(held)
    <3> HIDE DEF I
    <3>1. Min(I) \in I
      BY <2>1, LeastIs
    <3> QED BY <3>1 DEF I
  <2>3. Apply(held, f) = RemoveAt(held, Min(I))
    BY <1>1, <2>1 DEF Apply, RemoveFirst, SelectInSeq
  <2> HIDE DEF I
  <2> QED BY <2>2, <2>3, RemoveAtIs
<1>2. CASE f.op = "unsubscribe" /\ ~ \E i \in 1..Len(held) : held[i] = f.text
  BY <1>2 DEF Apply, RemoveFirst
<1>3. CASE f.op # "unsubscribe"
  BY <1>0, <1>3, AppendProperties DEF Apply
<1> QED BY <1>1, <1>2, <1>3

\* s has what the relay holds after each of the frames.
After(held, q, n, s) ==
  /\ s = [i \in 0..n |-> s[i]]
  /\ s[0] = held
  /\ \A i \in 1..n : s[i] = Apply(s[i - 1], q[i])

\* In one equation.
AfterFunction(held, q, n, s) ==
  s = [i \in 0..n |-> IF i = 0 THEN held ELSE Apply(s[i - 1], q[i])]

\* The two say the same.
LEMMA AfterIs ==
  ASSUME NEW held, NEW q, NEW n \in Nat, NEW s
  PROVE  After(held, q, n, s) <=> AfterFunction(held, q, n, s)
<1>1. ASSUME After(held, q, n, s) PROVE AfterFunction(held, q, n, s)
  <2>1. ASSUME NEW i \in 0..n PROVE s[i] = IF i = 0 THEN held ELSE Apply(s[i - 1], q[i])
    <3>1. i = 0 \/ i \in 1..n
      OBVIOUS
    <3> QED BY <1>1, <3>1 DEF After
  <2>2. s = [i \in 0..n |-> s[i]]
    BY <1>1 DEF After
  <2>3. [i \in 0..n |-> s[i]] = [i \in 0..n |-> IF i = 0 THEN held ELSE Apply(s[i - 1], q[i])]
    BY <2>1
  <2> QED BY <2>2, <2>3 DEF AfterFunction
<1>2. ASSUME AfterFunction(held, q, n, s) PROVE After(held, q, n, s)
  <2>1. \A i \in 0..n : s[i] = IF i = 0 THEN held ELSE Apply(s[i - 1], q[i])
    BY <1>2 DEF AfterFunction
  <2>2. s = [i \in 0..n |-> s[i]]
    BY <1>2 DEF AfterFunction
  <2>3. 0 \in 0..n /\ \A i \in 1..n : i \in 0..n /\ i # 0
    OBVIOUS
  <2> QED BY <2>1, <2>2, <2>3 DEF After
<1> QED BY <1>1, <1>2

\* One frame more.
LEMMA AfterMore ==
  ASSUME NEW held, NEW q, NEW r, NEW n \in Nat, NEW s, After(held, q, n, s),
         \A i \in 1..n : r[i] = q[i]
  PROVE  \E t : After(held, r, n + 1, t) /\ t[n + 1] = Apply(s[n], r[n + 1])
<1> DEFINE last == Apply(s[n], r[n + 1])
           t == [i \in 0..n + 1 |-> IF i = n + 1 THEN last ELSE s[i]]
<1>0. s[0] = held /\ \A i \in 1..n : s[i] = Apply(s[i - 1], q[i])
  BY DEF After
<1> HIDE DEF last
<1>1. t[n + 1] = last /\ \A i \in 0..n : t[i] = s[i]
  OBVIOUS
<1>2. t = [i \in 0..n + 1 |-> t[i]]
  OBVIOUS
<1> HIDE DEF t
<1>3. t[0] = held
  BY <1>0, <1>1
<1>4. ASSUME NEW i \in 1..n + 1 PROVE t[i] = Apply(t[i - 1], r[i])
  <2>1. CASE i = n + 1
    <3>1. i - 1 = n /\ n \in 0..n
      BY <2>1
    <3> QED BY <1>1, <2>1, <3>1 DEF last
  <2>2. CASE i # n + 1
    <3>1. i \in 1..n /\ i \in 0..n /\ i - 1 \in 0..n
      BY <2>2
    <3> QED BY <1>0, <1>1, <3>1
  <2> QED BY <2>1, <2>2
<1>5. After(held, r, n + 1, t)
  BY <1>2, <1>3, <1>4 DEF After
<1> QED BY <1>1, <1>5 DEF t, last

\* There is such an s.
LEMMA AfterExists ==
  ASSUME NEW held, NEW q, NEW n \in Nat
  PROVE  \E s : After(held, q, n, s)
<1> DEFINE S == {k \in Nat : \E s : After(held, q, k, s)}
<1>1. 0 \in S
  <2> DEFINE s == [i \in 0..0 |-> held]
  <2>1. s = [i \in 0..0 |-> s[i]] /\ s[0] = held
    OBVIOUS
  <2> HIDE DEF s
  <2>2. After(held, q, 0, s)
    BY <2>1 DEF After
  <2> QED BY <2>2
<1>2. ASSUME NEW k \in Nat, k \in S PROVE k + 1 \in S
  <2>1. PICK s : After(held, q, k, s)
    BY <1>2
  <2>2. \E t : After(held, q, k + 1, t)
    BY <2>1, AfterMore
  <2> QED BY <2>2
<1> HIDE DEF S
<1>3. n \in S
  BY <1>1, <1>2, NatSetInduction
<1> QED BY <1>3 DEF S

\* And one only.
LEMMA AfterUnique ==
  ASSUME NEW held, NEW q, NEW n \in Nat, NEW s, After(held, q, n, s), NEW t, After(held, q, n, t)
  PROVE  s[n] = t[n]
<1> DEFINE S == {k \in Nat : k <= n => s[k] = t[k]}
<1>0. /\ s[0] = held /\ \A i \in 1..n : s[i] = Apply(s[i - 1], q[i])
      /\ t[0] = held /\ \A i \in 1..n : t[i] = Apply(t[i - 1], q[i])
  BY DEF After
<1>1. 0 \in S
  BY <1>0
<1>2. ASSUME NEW k \in Nat, k \in S PROVE k + 1 \in S
  <2>1. SUFFICES ASSUME k + 1 <= n PROVE s[k + 1] = t[k + 1]
    OBVIOUS
  <2>2. k + 1 \in 1..n /\ k + 1 - 1 = k /\ s[k] = t[k]
    BY <1>2, <2>1
  <2> QED BY <1>0, <2>2
<1> HIDE DEF S
<1>3. n \in S
  BY <1>1, <1>2, NatSetInduction
<1> QED BY <1>3 DEF S

\* What the relay holds at the end is what any such s has there.
LEMMA ReadsAre ==
  ASSUME NEW held, NEW q, Len(q) \in Nat, NEW s, After(held, q, Len(q), s)
  PROVE  Reads(held, q) = s[Len(q)]
<1> DEFINE n == Len(q)
           c == CHOOSE t : AfterFunction(held, q, n, t)
<1>1. Reads(held, q) = c[n]
  BY DEF Reads, AfterFunction
<1>2. AfterFunction(held, q, n, s)
  BY AfterIs
<1>3. AfterFunction(held, q, n, c)
  BY <1>2
<1> HIDE DEF n, c
<1>4. n \in Nat /\ After(held, q, n, s)
  BY DEF n
<1>5. After(held, q, n, c)
  BY <1>3, <1>4, AfterIs
<1>6. c[n] = s[n]
  BY <1>4, <1>5, AfterUnique
<1> QED BY <1>1, <1>6 DEF n

\* Nothing read.
LEMMA ReadsNone ==
  ASSUME NEW held
  PROVE  Reads(held, <<>>) = held
<1>1. Len(<<>>) = 0
  OBVIOUS
<1>2. PICK s : After(held, <<>>, 0, s)
  BY AfterExists
<1>3. Reads(held, <<>>) = s[0]
  BY <1>1, <1>2, ReadsAre
<1> QED BY <1>2, <1>3 DEF After

\* The relay's rules stay rules.
LEMMA ReadsType ==
  ASSUME NEW held \in Seq(Texts), NEW q \in Seq(Frames)
  PROVE  Reads(held, q) \in Seq(Texts)
<1> DEFINE n == Len(q)
<1>0. n \in Nat /\ \A i \in 1..n : q[i] \in Frames
  BY LenProperties, ElementOfSeq
<1>1. PICK s : After(held, q, n, s)
  BY <1>0, AfterExists
<1>2. Reads(held, q) = s[n]
  BY <1>0, <1>1, ReadsAre
<1> HIDE DEF n
<1>3. s[0] = held /\ \A i \in 1..n : s[i] = Apply(s[i - 1], q[i])
  BY <1>1 DEF After
<1> DEFINE S == {k \in Nat : k <= n => s[k] \in Seq(Texts)}
<1>4. 0 \in S
  BY <1>3
<1>5. ASSUME NEW k \in Nat, k \in S PROVE k + 1 \in S
  <2>1. SUFFICES ASSUME k + 1 <= n PROVE s[k + 1] \in Seq(Texts)
    OBVIOUS
  <2>2. k + 1 \in 1..n /\ k + 1 - 1 = k /\ s[k] \in Seq(Texts)
    BY <1>0, <1>5, <2>1
  <2>3. s[k + 1] = Apply(s[k], q[k + 1]) /\ q[k + 1] \in Frames
    BY <1>0, <1>3, <2>2
  <2> QED BY <2>2, <2>3, ApplyType
<1> HIDE DEF S
<1>6. n \in S
  BY <1>0, <1>4, <1>5, NatSetInduction
<1> QED BY <1>0, <1>2, <1>6 DEF S

\* A frame at the end is read last.
LEMMA ReadsMore ==
  ASSUME NEW held, NEW q \in Seq(Frames), NEW f \in Frames
  PROVE  Reads(held, Append(q, f)) = Apply(Reads(held, q), f)
<1> DEFINE n == Len(q)
           r == Append(q, f)
<1>1. /\ n \in Nat /\ Len(r) = n + 1 /\ r[n + 1] = f
      /\ \A i \in 1..n : r[i] = q[i]
  BY LenProperties, AppendProperties
<1>2. PICK s : After(held, q, n, s)
  BY <1>1, AfterExists
<1>3. Reads(held, q) = s[n]
  BY <1>1, <1>2, ReadsAre
<1> HIDE DEF n, r
<1>4. PICK t : After(held, r, n + 1, t) /\ t[n + 1] = Apply(s[n], r[n + 1])
  BY <1>1, <1>2, AfterMore
<1>5. Reads(held, r) = t[n + 1]
  BY <1>1, <1>4, ReadsAre
<1> QED BY <1>1, <1>3, <1>4, <1>5 DEF r

\* The frame in front is read first.
LEMMA ReadsFirst ==
  ASSUME NEW held, NEW q \in Seq(Frames), q # <<>>
  PROVE  Reads(held, q) = Reads(Apply(held, Head(q)), Tail(q))
<1> DEFINE n == Len(q) - 1
           r == Tail(q)
           first == Apply(held, Head(q))
<1>1. n \in Nat /\ Len(q) = n + 1 /\ Len(r) = n
      /\ (\A i \in 1..n : r[i] = q[i + 1]) /\ Head(q) = q[1]
  BY EmptySeq, HeadTailProperties, LenProperties
<1>2. PICK s : After(held, q, n + 1, s)
  <2>1. n + 1 \in Nat
    BY <1>1
  <2> QED BY <2>1, AfterExists
<1>3. Reads(held, q) = s[n + 1]
  BY <1>1, <1>2, ReadsAre
<1> DEFINE t == [i \in 0..n |-> s[i + 1]]
<1>4. first = Apply(held, q[1])
  BY <1>1
<1> HIDE DEF n, r, first
<1>5. s[0] = held /\ \A i \in 1..n + 1 : s[i] = Apply(s[i - 1], q[i])
  BY <1>2 DEF After
<1>6. After(first, r, n, t)
  <2>1. \A i \in 0..n : t[i] = s[i + 1]
    OBVIOUS
  <2>2. t = [i \in 0..n |-> t[i]]
    OBVIOUS
  <2> HIDE DEF t
  <2>3. t[0] = first
    <3>1. 0 \in 0..n /\ 1 \in 1..n + 1 /\ 0 + 1 = 1 /\ 1 - 1 = 0
      BY <1>1
    <3> QED BY <1>4, <1>5, <2>1, <3>1
  <2>4. ASSUME NEW i \in 1..n PROVE t[i] = Apply(t[i - 1], r[i])
    <3>1. /\ i \in 0..n /\ i - 1 \in 0..n /\ i + 1 \in 1..n + 1
          /\ i - 1 + 1 = i /\ i + 1 - 1 = i
      BY <1>1
    <3>2. t[i] = s[i + 1] /\ t[i - 1] = s[i] /\ r[i] = q[i + 1]
      BY <1>1, <2>1, <3>1
    <3> QED BY <1>5, <3>1, <3>2
  <2> QED BY <2>2, <2>3, <2>4 DEF After
<1>7. Reads(first, r) = t[n]
  BY <1>1, <1>6, ReadsAre
<1>8. t[n] = s[n + 1]
  BY <1>1
<1> QED BY <1>3, <1>7, <1>8 DEF r, first

\* A first place that a test finds is a place, and passes it.
LEMMA FirstIs ==
  ASSUME NEW S, NEW s \in Seq(S), NEW I, I \subseteq 1..Len(s), I # {}
  PROVE  Min(I) \in I /\ Min(I) \in 1..Len(s)
<1>1. I \subseteq Nat
  BY LenProperties
<1> QED BY <1>1, LeastIs

\* What the relay was told of the rules is a text for each.
LEMMA ToldIs ==
  ASSUME NEW rs \in Seq(Rule)
  PROVE  /\ ToldOf(rs) \in Seq(Texts) /\ Len(ToldOf(rs)) = Len(rs)
         /\ \A i \in 1..Len(rs) : ToldOf(rs)[i] = for_a_relay(rs[i])
<1>1. Len(rs) \in Nat /\ DOMAIN rs = 1..Len(rs) /\ \A i \in 1..Len(rs) : rs[i] \in Rule
  BY LenProperties, ElementOfSeq
<1> DEFINE n == Len(rs)
<1>2. ToldOf(rs) = [i \in 1..n |-> for_a_relay(rs[i])]
  BY <1>1 DEF ToldOf
<1>3. \A i \in 1..n : for_a_relay(rs[i]) \in Texts
  BY <1>1 DEF Texts
<1> HIDE DEF n
<1>4. ToldOf(rs) \in [1..n -> Texts] /\ \A i \in 1..n : ToldOf(rs)[i] = for_a_relay(rs[i])
  BY <1>2, <1>3
<1>5. n \in Nat
  BY <1>1 DEF n
<1>6. ToldOf(rs) \in Seq(Texts)
  BY <1>4, <1>5, SeqDef
<1>7. Len(ToldOf(rs)) = n
  BY <1>4, <1>5, <1>6, LenIs
<1> QED BY <1>4, <1>6, <1>7 DEF n

\* Of a rule more.
LEMMA ToldMore ==
  ASSUME NEW rs \in Seq(Rule), NEW r \in Rule
  PROVE  ToldOf(Append(rs, r)) = Append(ToldOf(rs), for_a_relay(r))
<1> DEFINE a == Append(rs, r)
           b == Append(ToldOf(rs), for_a_relay(r))
           n == Len(rs)
<1>1. /\ n \in Nat /\ a \in Seq(Rule) /\ Len(a) = n + 1 /\ a[n + 1] = r
      /\ \A i \in 1..n : a[i] = rs[i]
  BY AppendProperties, LenProperties
<1>2. /\ ToldOf(rs) \in Seq(Texts) /\ Len(ToldOf(rs)) = n
      /\ \A i \in 1..n : ToldOf(rs)[i] = for_a_relay(rs[i])
  BY ToldIs
<1>3. for_a_relay(r) \in Texts
  BY DEF Texts
<1>4. /\ b \in Seq(Texts) /\ Len(b) = n + 1 /\ b[n + 1] = for_a_relay(r)
      /\ \A i \in 1..n : b[i] = ToldOf(rs)[i]
  BY <1>2, <1>3, AppendProperties
<1> HIDE DEF a, b, n
<1>5. /\ ToldOf(a) \in Seq(Texts) /\ Len(ToldOf(a)) = n + 1
      /\ \A i \in 1..n + 1 : ToldOf(a)[i] = for_a_relay(a[i])
  BY <1>1, ToldIs
<1>6. ASSUME NEW i \in 1..n + 1 PROVE ToldOf(a)[i] = b[i]
  <2>1. i \in 1..n \/ i = n + 1
    BY <1>1
  <2> QED BY <1>1, <1>2, <1>4, <1>5, <2>1
<1>7. ToldOf(a) = b
  BY <1>4, <1>5, <1>6, SeqEqual
<1> QED BY <1>7 DEF a, b

\* Of a rule less.
LEMMA ToldLess ==
  ASSUME NEW rs \in Seq(Rule), NEW i \in 1..Len(rs)
  PROVE  ToldOf(RemoveAt(rs, i)) = RemoveAt(ToldOf(rs), i)
<1> DEFINE a == RemoveAt(rs, i)
           t == ToldOf(rs)
           b == RemoveAt(t, i)
           n == Len(rs)
<1>0. n \in Nat /\ i \in 1..n
  BY LenProperties
<1>1. /\ a \in Seq(Rule) /\ Len(a) = n - 1
      /\ \A k \in 1..n - 1 : a[k] = rs[IF k < i THEN k ELSE k + 1]
  BY RemoveAtIs
<1>2. t \in Seq(Texts) /\ Len(t) = n /\ \A k \in 1..n : t[k] = for_a_relay(rs[k])
  BY ToldIs
<1> HIDE DEF a, t, n
<1>3. /\ b \in Seq(Texts) /\ Len(b) = n - 1
      /\ \A k \in 1..n - 1 : b[k] = t[IF k < i THEN k ELSE k + 1]
  <2>1. i \in 1..Len(t)
    BY <1>0, <1>2
  <2> QED BY <1>2, <2>1, RemoveAtIs
<1> HIDE DEF b
<1>4. /\ ToldOf(a) \in Seq(Texts) /\ Len(ToldOf(a)) = n - 1
      /\ \A k \in 1..n - 1 : ToldOf(a)[k] = for_a_relay(a[k])
  BY <1>1, ToldIs
<1>5. ASSUME NEW k \in 1..n - 1 PROVE ToldOf(a)[k] = b[k]
  <2> DEFINE p == IF k < i THEN k ELSE k + 1
  <2>1. p \in 1..n
    BY <1>0
  <2>2. a[k] = rs[p] /\ b[k] = t[p]
    BY <1>1, <1>3
  <2> HIDE DEF p
  <2> QED BY <1>2, <1>4, <2>1, <2>2
<1>6. ToldOf(a) = b
  BY <1>3, <1>4, <1>5, SeqEqual
<1> QED BY <1>6 DEF a, b, t

\* The relay holds w, and that is the rules: each as often, and none it refuses.
Same(w, rs) ==
  \A x \in Texts :
    HowOften(w, x) = IF x \in RelayRefuses THEN 0 ELSE HowOften(ToldOf(rs), x)

\* A rule that both are given.
LEMMA SameMore ==
  ASSUME NEW w \in Seq(Texts), NEW rs \in Seq(Rule), NEW r \in Rule, Same(w, rs)
  PROVE  Same(Apply(w, Frame("subscribe", for_a_relay(r))), Append(rs, r))
<1> DEFINE y == for_a_relay(r)
           v == Apply(w, Frame("subscribe", y))
<1>1. v = IF y \in RelayRefuses THEN w ELSE Append(w, y)
  BY DEF Apply, Frame
<1>2. ToldOf(Append(rs, r)) = Append(ToldOf(rs), y)
  BY ToldMore
<1>3. ToldOf(rs) \in Seq(Texts) /\ y \in Texts
  BY ToldIs DEF Texts
<1> HIDE DEF v, y
<1> SUFFICES ASSUME NEW x \in Texts
             PROVE  HowOften(v, x) = IF x \in RelayRefuses THEN 0
                                     ELSE HowOften(ToldOf(Append(rs, r)), x)
  BY DEF Same, v, y
<1>4. /\ HowOften(Append(w, y), x) = HowOften(w, x) + (IF x = y THEN 1 ELSE 0)
      /\ HowOften(Append(ToldOf(rs), y), x) = HowOften(ToldOf(rs), x) + (IF x = y THEN 1 ELSE 0)
  BY <1>3, OftenMore
<1>5. HowOften(w, x) = IF x \in RelayRefuses THEN 0 ELSE HowOften(ToldOf(rs), x)
  BY DEF Same
<1>6. HowOften(w, x) \in Nat /\ HowOften(ToldOf(rs), x) \in Nat
  BY <1>3, OftenIs
<1> QED BY <1>1, <1>2, <1>4, <1>5, <1>6

\* A rule that both lose.
LEMMA SameLess ==
  ASSUME NEW w \in Seq(Texts), NEW rs \in Seq(Rule), NEW i \in 1..Len(rs), Same(w, rs)
  PROVE  Same(Apply(w, Frame("unsubscribe", for_a_relay(rs[i]))), RemoveAt(rs, i))
<1> DEFINE y == for_a_relay(rs[i])
           v == Apply(w, Frame("unsubscribe", y))
           t == ToldOf(rs)
           I == {k \in 1..Len(w) : w[k] = y}
<1>1. v = IF I # {} THEN RemoveAt(w, Min(I)) ELSE w
  BY DEF Apply, Frame, RemoveFirst, SelectInSeq
<1>2. I # {} => Min(I) \in 1..Len(w) /\ w[Min(I)] = y
  <2>1. I \subseteq 1..Len(w)
    OBVIOUS
  <2>2. ASSUME I # {} PROVE Min(I) \in I
    <3> HIDE DEF I
    <3> QED BY <2>1, <2>2, FirstIs
  <2> QED BY <2>2
<1>3. I # {} <=> y \in ToSet(w)
  <2>1. DOMAIN w = 1..Len(w)
    BY LenProperties
  <2> QED BY <2>1 DEF ToSet
<1>4. ToldOf(RemoveAt(rs, i)) = RemoveAt(t, i)
  BY ToldLess
<1>5. t \in Seq(Texts) /\ i \in 1..Len(t) /\ t[i] = y
  BY ToldIs
<1>6. y \in ToSet(t)
  <2>1. DOMAIN t = 1..Len(t)
    BY <1>5, LenProperties
  <2> QED BY <1>5, <2>1 DEF ToSet
<1>7. y \in Texts
  <2>1. rs[i] \in Rule
    BY ElementOfSeq
  <2> QED BY <2>1 DEF Texts
<1> HIDE DEF v, y, t, I
<1> SUFFICES ASSUME NEW x \in Texts
             PROVE  HowOften(v, x) = IF x \in RelayRefuses THEN 0
                                     ELSE HowOften(ToldOf(RemoveAt(rs, i)), x)
  BY DEF Same, v, y
<1>8. /\ HowOften(w, x) = IF x \in RelayRefuses THEN 0 ELSE HowOften(t, x)
      /\ HowOften(w, y) = IF y \in RelayRefuses THEN 0 ELSE HowOften(t, y)
  BY <1>7 DEF Same, t
<1>9. /\ HowOften(w, x) \in Nat /\ HowOften(t, x) \in Nat
      /\ HowOften(w, y) = 0 <=> y \notin ToSet(w)
      /\ HowOften(t, y) # 0
  BY <1>5, <1>6, OftenIs
<1>10. HowOften(RemoveAt(t, i), x) = HowOften(t, x) - (IF x = y THEN 1 ELSE 0)
  BY <1>5, OftenLess
<1>11. CASE I # {}
  <2>1. HowOften(v, x) = HowOften(w, x) - (IF x = y THEN 1 ELSE 0)
    BY <1>1, <1>2, <1>11, OftenLess
  <2>2. y \notin RelayRefuses
    BY <1>3, <1>8, <1>9, <1>11
  <2> QED BY <1>4, <1>8, <1>9, <1>10, <2>1, <2>2
<1>12. CASE I = {}
  <2>1. v = w /\ y \in RelayRefuses
    BY <1>1, <1>3, <1>8, <1>9, <1>12
  <2> QED BY <1>4, <1>8, <1>9, <1>10, <2>1
<1> QED BY <1>11, <1>12

\* What it comes to: the two agree on each text that either has.
LEMMA SameAgrees ==
  ASSUME NEW w \in Seq(Texts), NEW rs \in Seq(Rule), Same(w, rs)
  PROVE  \A x \in ToSet(w) \cup ToSet(ToldOf(rs)) :
           HowOften(w, x) = IF x \in RelayRefuses THEN 0 ELSE HowOften(ToldOf(rs), x)
<1>1. ToldOf(rs) \in Seq(Texts)
  BY ToldIs
<1>2. ASSUME NEW s \in Seq(Texts) PROVE ToSet(s) \subseteq Texts
  <2>1. DOMAIN s = 1..Len(s) /\ \A i \in 1..Len(s) : s[i] \in Texts
    BY LenProperties, ElementOfSeq
  <2> QED BY <2>1 DEF ToSet
<1>3. ToSet(w) \subseteq Texts /\ ToSet(ToldOf(rs)) \subseteq Texts
  BY <1>1, <1>2
<1> QED BY <1>3 DEF Same

-----------------------------------------------------------------------------
(* The frames under way.                                                   *)

\* A first element and the others.
LEMMA FirstAndRest ==
  ASSUME NEW S, NEW h \in S, NEW u \in Seq(S)
  PROVE  LET s == <<h>> \o u IN
         /\ s \in Seq(S) /\ s # <<>> /\ Head(s) = h /\ Tail(s) = u
         /\ Len(s) = 1 + Len(u)
         /\ \A i \in 1..1 + Len(u) : s[i] = IF i <= 1 THEN h ELSE u[i - 1]
<1>1. PICK s : s = <<h>> \o u
  OBVIOUS
<1>2. /\ s \in Seq(S) /\ Len(s) = 1 + Len(u) /\ Len(u) \in Nat
      /\ \A i \in 1..1 + Len(u) : s[i] = IF i <= 1 THEN h ELSE u[i - 1]
  <2>1. <<h>> \in Seq(S) /\ Len(<<h>>) = 1 /\ <<h>>[1] = h
    OBVIOUS
  <2>2. /\ s \in Seq(S) /\ Len(s) = Len(<<h>>) + Len(u)
        /\ \A i \in 1..Len(<<h>>) + Len(u) :
             s[i] = IF i <= Len(<<h>>) THEN <<h>>[i] ELSE u[i - Len(<<h>>)]
    BY <1>1, <2>1, ConcatProperties
  <2>3. Len(u) \in Nat
    BY LenProperties
  <2>4. ASSUME NEW i \in 1..1 + Len(u) PROVE s[i] = IF i <= 1 THEN h ELSE u[i - 1]
    <3>1. i <= 1 => i = 1
      OBVIOUS
    <3> QED BY <2>1, <2>2, <3>1
  <2> QED BY <2>1, <2>2, <2>3, <2>4
<1>3. s # <<>>
  BY <1>2, EmptySeq
<1>4. /\ Head(s) = s[1] /\ Tail(s) \in Seq(S) /\ Len(Tail(s)) = Len(s) - 1
      /\ \A i \in 1..Len(Tail(s)) : Tail(s)[i] = s[i + 1]
  BY <1>2, <1>3, HeadTailProperties
<1>5. Head(s) = h
  BY <1>2, <1>4
<1>6. ASSUME NEW i \in 1..Len(Tail(s)) PROVE Tail(s)[i] = u[i]
  <2>1. i + 1 \in 1..1 + Len(u) /\ ~(i + 1 <= 1) /\ i + 1 - 1 = i
    BY <1>2, <1>4
  <2> QED BY <1>2, <1>4, <2>1
<1>7. Len(Tail(s)) = Len(u)
  BY <1>2, <1>4
<1>8. Tail(s) = u
  BY <1>4, <1>6, <1>7, SeqEqual
<1> QED BY <1>1, <1>2, <1>3, <1>5, <1>8

\* Any sequence is that.
LEMMA IsFirstAndRest ==
  ASSUME NEW S, NEW s \in Seq(S), s # <<>>
  PROVE  s = <<Head(s)>> \o Tail(s)
<1>1. PICK n \in Nat : n # 0 /\ Len(s) = n
  BY EmptySeq
<1>2. PICK h \in S : h = Head(s) /\ h = s[1]
  BY HeadTailProperties
<1>3. PICK u \in Seq(S) : /\ u = Tail(s) /\ Len(u) = n - 1
                          /\ \A i \in 1..n - 1 : u[i] = s[i + 1]
  <2>1. PICK u : u = Tail(s)
    OBVIOUS
  <2>2. u \in Seq(S) /\ Len(u) = Len(s) - 1 /\ \A i \in 1..Len(u) : u[i] = s[i + 1]
    BY <2>1, HeadTailProperties
  <2> QED BY <1>1, <2>1, <2>2
<1>4. PICK t : t = <<h>> \o u
  OBVIOUS
<1>5. /\ t \in Seq(S) /\ Len(t) = 1 + Len(u)
      /\ \A i \in 1..1 + Len(u) : t[i] = IF i <= 1 THEN h ELSE u[i - 1]
  BY <1>4, FirstAndRest
<1>6. 1 + Len(u) = n
  BY <1>1, <1>3
<1>7. ASSUME NEW i \in 1..n PROVE t[i] = s[i]
  <2>1. CASE i = 1
    BY <1>2, <1>5, <1>6, <2>1
  <2>2. CASE i # 1
    <3>1. i - 1 \in 1..n - 1 /\ i - 1 + 1 = i /\ ~(i <= 1)
      BY <2>2
    <3>2. t[i] = u[i - 1]
      BY <1>5, <1>6, <3>1
    <3> QED BY <1>3, <3>1, <3>2
  <2> QED BY <2>1, <2>2
<1>8. t = s
  BY <1>1, <1>5, <1>6, <1>7, SeqEqual
<1> QED BY <1>2, <1>3, <1>4, <1>8

\* A frame that comes into the line is the last.
LEMMA WayIn ==
  ASSUME NEW w \in Seq(Frames), NEW l \in Seq(Frames), NEW f \in Frames
  PROVE  w \o l \in Seq(Frames) /\ w \o Append(l, f) = Append(w \o l, f)
<1>1. <<f>> \in Seq(Frames)
  OBVIOUS
<1>2. Append(l, f) = l \o <<f>>
  BY AppendIsConcat
<1>3. w \o l \in Seq(Frames)
  BY ConcatProperties
<1>4. Append(w \o l, f) = (w \o l) \o <<f>>
  BY <1>3, AppendIsConcat
<1> QED BY <1>1, <1>2, <1>3, <1>4, ConcatAssociative

\* The frame that is written is still under way.
LEMMA WayOn ==
  ASSUME NEW w \in Seq(Frames), NEW l \in Seq(Frames), l # <<>>
  PROVE  /\ Append(w, Head(l)) \in Seq(Frames) /\ Tail(l) \in Seq(Frames)
         /\ Append(w, Head(l)) \o Tail(l) = w \o l
<1>1. Head(l) \in Frames /\ Tail(l) \in Seq(Frames)
  BY HeadTailProperties
<1>2. Append(w, Head(l)) = w \o <<Head(l)>> /\ <<Head(l)>> \in Seq(Frames)
  BY <1>1, AppendIsConcat
<1>3. l = <<Head(l)>> \o Tail(l)
  BY IsFirstAndRest
<1>4. (w \o <<Head(l)>>) \o Tail(l) = w \o (<<Head(l)>> \o Tail(l))
  BY <1>1, <1>2, ConcatAssociative
<1>5. Append(w, Head(l)) \in Seq(Frames)
  BY <1>1, AppendProperties
<1> QED BY <1>1, <1>2, <1>3, <1>4, <1>5

\* The frame that is read is the first.
LEMMA WayOut ==
  ASSUME NEW w \in Seq(Frames), NEW l \in Seq(Frames), w # <<>>
  PROVE  /\ Head(w) \in Frames /\ Tail(w) \in Seq(Frames)
         /\ w \o l \in Seq(Frames) /\ w \o l # <<>>
         /\ Head(w \o l) = Head(w) /\ Tail(w \o l) = Tail(w) \o l
<1>1. Head(w) \in Frames /\ Tail(w) \in Seq(Frames)
  BY HeadTailProperties
<1>2. w = <<Head(w)>> \o Tail(w) /\ <<Head(w)>> \in Seq(Frames)
  BY <1>1, IsFirstAndRest
<1>3. w \o l = <<Head(w)>> \o (Tail(w) \o l)
  BY <1>1, <1>2, ConcatAssociative
<1>4. Tail(w) \o l \in Seq(Frames)
  BY <1>1, ConcatProperties
<1> QED BY <1>1, <1>3, <1>4, FirstAndRest

-----------------------------------------------------------------------------
(* The invariant.                                                          *)

\* The first rule with this text, of any rules, and the rules after a call.
PlaceIn(rs, text) == SelectInSeq(rs, LAMBDA rule : rule.text = text)
ChangedBy(rs, c) ==
  IF c.op = "unsubscribe" THEN RemoveFirstMatch(rs, LAMBDA rule : rule.text = c.text)
  ELSE Append(rs, RuleOf(c))

\* The rule a call is about.
RuleFor(rs, c) == IF c.op = "unsubscribe" THEN rs[PlaceIn(rs, c.text)] ELSE RuleOf(c)

\* What the relay will hold.
Will == Reads(relay, wire \o lane)

Types ==
  /\ rules \in Seq(Rule)
  /\ relay \in Seq(Texts) /\ wire \in Seq(Frames) /\ lane \in Seq(Frames)
  /\ pc \in [Threads -> {"idle", "lock", "tell", "take"}]
  /\ call \in [Threads -> Asked \cup {NoCall}]
  /\ DOMAIN told = Threads

\* A call that was told the relay, or is about to be, is the one that has the
\* lock, and what it tells is the rule it is about.
CallOk(t) ==
  /\ pc[t] # "idle" => call[t] \in Asked
  /\ pc[t] \in {"tell", "take"} =>
       /\ changing = t
       /\ call[t].op = "unsubscribe" => PlaceIn(rules, call[t].text) # 0
       /\ told[t] = for_a_relay(RuleFor(rules, call[t]))
LockInv == \A t \in Threads : CallOk(t)

\* The relay will hold the rules, and after a call has told it, the rules that
\* the call is about to make.
WillAgree ==
  open => /\ (\A t \in Threads : pc[t] # "take") => Same(Will, rules)
          /\ \A t \in Threads : pc[t] = "take" => Same(Will, ChangedBy(rules, call[t]))

SubscriptionsInv == Types /\ LockInv /\ WillAgree

\* The model's words for them.
LEMMA Words ==
  /\ \A text : Held(text) = PlaceIn(rules, text)
  /\ \A t \in Threads : Change(t) = ChangedBy(rules, call[t])
<1>1. ASSUME NEW text PROVE Held(text) = PlaceIn(rules, text)
  BY DEF Held, PlaceIn
<1>2. ASSUME NEW t \in Threads PROVE Change(t) = ChangedBy(rules, call[t])
  BY DEF Change, ChangedBy
<1> QED BY <1>1, <1>2

\* A subscribe adds a rule.
LEMMA AddedIs ==
  ASSUME NEW c \in Asked, c.op # "unsubscribe"
  PROVE  /\ RuleOf(c) \in Rule /\ Telling(c) = "subscribe"
         /\ \A rs : RuleFor(rs, c) = RuleOf(c) /\ ChangedBy(rs, c) = Append(rs, RuleOf(c))
<1>1. RuleOf(c) \in Rule
  <2>1. CASE c.op = "name"
    <3>1. c.text \in Names
      BY <2>1 DEF Asked
    <3> QED BY <2>1, <3>1 DEF RuleOf, Rule
  <2>2. CASE c.op # "name"
    <3>1. c.text \in Patterns
      BY <2>2 DEF Asked
    <3> QED BY <2>2, <3>1 DEF RuleOf, Rule
  <2> QED BY <2>1, <2>2
<1>2. Telling(c) = "subscribe"
  BY DEF Telling
<1>3. ASSUME NEW rs PROVE RuleFor(rs, c) = RuleOf(c) /\ ChangedBy(rs, c) = Append(rs, RuleOf(c))
  BY DEF RuleFor, ChangedBy
<1> QED BY <1>1, <1>2, <1>3

\* An unsubscribe takes the rule it found.
LEMMA TakenIs ==
  ASSUME NEW rs \in Seq(Rule), NEW c \in Asked, c.op = "unsubscribe", PlaceIn(rs, c.text) # 0
  PROVE  LET i == PlaceIn(rs, c.text) IN
         /\ i \in 1..Len(rs) /\ Telling(c) = "unsubscribe"
         /\ RuleFor(rs, c) = rs[i] /\ ChangedBy(rs, c) = RemoveAt(rs, i)
<1> DEFINE I == {k \in 1..Len(rs) : rs[k].text = c.text}
           i == PlaceIn(rs, c.text)
<1>1. I # {} /\ i = Min(I)
  BY DEF PlaceIn, SelectInSeq
<1>2. I \subseteq 1..Len(rs)
  OBVIOUS
<1>3. i \in 1..Len(rs)
  <2> HIDE DEF I, i
  <2> QED BY <1>1, <1>2, FirstIs
<1>4. ChangedBy(rs, c) = RemoveAt(rs, i)
  <2>1. \E k \in 1..Len(rs) : rs[k].text = c.text
    BY <1>1
  <2>2. ChangedBy(rs, c) = RemoveFirstMatch(rs, LAMBDA rule : rule.text = c.text)
    BY DEF ChangedBy
  <2>3. RemoveFirstMatch(rs, LAMBDA rule : rule.text = c.text)
          = RemoveAt(rs, SelectInSeq(rs, LAMBDA rule : rule.text = c.text))
    BY <2>1 DEF RemoveFirstMatch
  <2> QED BY <2>2, <2>3 DEF PlaceIn
<1>5. Telling(c) = "unsubscribe" /\ RuleFor(rs, c) = rs[i]
  BY DEF Telling, RuleFor
<1> QED BY <1>3, <1>4, <1>5

\* The rules stay rules, and the frame that tells of a call does to what the
\* relay holds what the call does to the rules.
LEMMA TellingIs ==
  ASSUME NEW rs \in Seq(Rule), NEW c \in Asked,
         c.op = "unsubscribe" => PlaceIn(rs, c.text) # 0
  PROVE  LET f == Frame(Telling(c), for_a_relay(RuleFor(rs, c))) IN
         /\ f \in Frames /\ ChangedBy(rs, c) \in Seq(Rule)
         /\ \A w \in Seq(Texts) : Same(w, rs) => Same(Apply(w, f), ChangedBy(rs, c))
<1>1. CASE c.op # "unsubscribe"
  <2> DEFINE r == RuleOf(c)
  <2>1. /\ r \in Rule /\ Telling(c) = "subscribe"
        /\ RuleFor(rs, c) = r /\ ChangedBy(rs, c) = Append(rs, r)
    BY <1>1, AddedIs
  <2> HIDE DEF r
  <2>2. Append(rs, r) \in Seq(Rule)
    BY <2>1, AppendProperties
  <2>3. Frame("subscribe", for_a_relay(r)) \in Frames
    BY <2>1 DEF Frame, Frames, Texts
  <2>4. ASSUME NEW w \in Seq(Texts), Same(w, rs)
        PROVE  Same(Apply(w, Frame("subscribe", for_a_relay(r))), Append(rs, r))
    BY <2>1, <2>4, SameMore
  <2> QED BY <2>1, <2>2, <2>3, <2>4
<1>2. CASE c.op = "unsubscribe"
  <2> DEFINE i == PlaceIn(rs, c.text)
  <2>1. /\ i \in 1..Len(rs) /\ Telling(c) = "unsubscribe"
        /\ RuleFor(rs, c) = rs[i] /\ ChangedBy(rs, c) = RemoveAt(rs, i)
    BY <1>2, TakenIs
  <2> HIDE DEF i
  <2>2. RemoveAt(rs, i) \in Seq(Rule)
    BY <2>1, RemoveAtIs
  <2>3. Frame("unsubscribe", for_a_relay(rs[i])) \in Frames
    <3>1. rs[i] \in Rule
      BY <2>1, ElementOfSeq
    <3> QED BY <3>1 DEF Frame, Frames, Texts
  <2>4. ASSUME NEW w \in Seq(Texts), Same(w, rs)
        PROVE  Same(Apply(w, Frame("unsubscribe", for_a_relay(rs[i]))), RemoveAt(rs, i))
    BY <2>1, <2>4, SameLess
  <2> QED BY <2>1, <2>2, <2>3, <2>4
<1> QED BY <1>1, <1>2

\* A relay that was told of each rule the client was opened with will hold them.
LEMMA OpeningIs ==
  LET w == [i \in DOMAIN Opening |-> Frame("subscribe", for_a_relay(Opening[i]))]
  IN  w \in Seq(Frames) /\ Same(Reads(<<>>, w), Opening)
<1> DEFINE w == [i \in DOMAIN Opening |-> Frame("subscribe", for_a_relay(Opening[i]))]
           n == Len(Opening)
           p(k) == [i \in 1..k |-> Opening[i]]
<1>1. /\ n \in Nat /\ DOMAIN Opening = 1..n /\ Opening \in Seq(Rule) /\ Opening = p(n)
      /\ \A i \in 1..n : Opening[i] \in Rule
  BY SubscriptionsAssumption, LenProperties, ElementOfSeq
<1>2. \A i \in 1..n : /\ w[i] = Frame("subscribe", for_a_relay(Opening[i]))
                      /\ w[i] \in Frames
  BY <1>1 DEF Frame, Frames, Texts
<1>3. w \in Seq(Frames) /\ Len(w) = n
  <2>1. w \in [1..n -> Frames]
    BY <1>1, <1>2
  <2>2. DOMAIN w = 1..n
    BY <1>1
  <2> HIDE DEF w, n
  <2>3. w \in Seq(Frames)
    BY <1>1, <2>1, SeqDef
  <2> QED BY <1>1, <2>2, <2>3, LenIs
<1> HIDE DEF w, n
<1>4. PICK s : After(<<>>, w, n, s)
  BY <1>1, AfterExists
<1>5. Reads(<<>>, w) = s[n]
  BY <1>1, <1>3, <1>4, ReadsAre
<1>6. s[0] = <<>>
  BY <1>4 DEF After
<1>7. \A i \in 1..n : s[i] = Apply(s[i - 1], w[i])
  BY <1>4 DEF After
<1>8. ASSUME NEW k \in 0..n PROVE p(k) \in Seq(Rule) /\ Len(p(k)) = k /\ \A i \in 1..k : p(k)[i] = Opening[i]
  <2>1. k \in Nat /\ p(k) \in [1..k -> Rule] /\ DOMAIN p(k) = 1..k
    BY <1>1
  <2>2. \A i \in 1..k : p(k)[i] = Opening[i]
    OBVIOUS
  <2> HIDE DEF p
  <2>3. p(k) \in Seq(Rule)
    BY <2>1, SeqDef
  <2>4. Len(p(k)) = k
    BY <2>1, <2>3, LenIs
  <2> QED BY <2>2, <2>3, <2>4
<1> HIDE DEF p
<1> DEFINE T == {k \in Nat : k <= n => s[k] \in Seq(Texts) /\ Same(s[k], p(k))}
<1>9. 0 \in T
  <2>1. <<>> \in Seq(Texts) /\ p(0) = <<>>
    <3>1. p(0) \in Seq(Rule) /\ Len(p(0)) = 0
      BY <1>1, <1>8
    <3> QED BY <3>1, EmptySeq
  <2>2. ToldOf(<<>>) = <<>>
    <3>1. <<>> \in Seq(Rule) /\ Len(<<>>) = 0
      BY EmptySeq
    <3>2. ToldOf(<<>>) \in Seq(Texts) /\ Len(ToldOf(<<>>)) = 0
      BY <3>1, ToldIs
    <3> QED BY <3>2, EmptySeq
  <2>3. ASSUME NEW x \in Texts PROVE HowOften(<<>>, x) = 0
    <3>1. x \notin ToSet(<<>>)
      BY DEF ToSet
    <3> QED BY <2>1, <3>1, OftenIs
  <2>4. Same(<<>>, <<>>)
    BY <2>2, <2>3 DEF Same
  <2> QED BY <1>6, <2>1, <2>4
<1>10. ASSUME NEW k \in Nat, k \in T PROVE k + 1 \in T
  <2>1. SUFFICES ASSUME k + 1 <= n
                 PROVE  s[k + 1] \in Seq(Texts) /\ Same(s[k + 1], p(k + 1))
    OBVIOUS
  <2>2. k + 1 \in 1..n /\ k \in 0..n /\ k + 1 \in 0..n /\ k + 1 - 1 = k
    BY <1>1, <2>1
  <2>3. s[k] \in Seq(Texts) /\ Same(s[k], p(k))
    BY <1>10, <2>2
  <2> HIDE DEF T
  <2>4. s[k + 1] = Apply(s[k], Frame("subscribe", for_a_relay(Opening[k + 1])))
    BY <1>2, <1>7, <2>2
  <2>5. p(k + 1) = Append(p(k), Opening[k + 1])
    <3>1. /\ p(k) \in Seq(Rule) /\ Len(p(k)) = k
          /\ \A i \in 1..k : p(k)[i] = Opening[i]
          /\ p(k + 1) \in Seq(Rule) /\ Len(p(k + 1)) = k + 1
          /\ \A i \in 1..k + 1 : p(k + 1)[i] = Opening[i]
      BY <1>8, <2>2
    <3> DEFINE a == Append(p(k), Opening[k + 1])
    <3>2. /\ a \in Seq(Rule) /\ Len(a) = k + 1 /\ a[k + 1] = Opening[k + 1]
          /\ \A i \in 1..k : a[i] = p(k)[i]
      BY <1>1, <2>2, <3>1, AppendProperties
    <3> HIDE DEF a
    <3>3. ASSUME NEW i \in 1..k + 1 PROVE a[i] = p(k + 1)[i]
      <4>1. i \in 1..k \/ i = k + 1
        OBVIOUS
      <4> QED BY <3>1, <3>2, <4>1
    <3>4. a = p(k + 1)
      BY <3>1, <3>2, <3>3, SeqEqual
    <3> QED BY <3>4 DEF a
  <2>6. Opening[k + 1] \in Rule /\ p(k) \in Seq(Rule)
    BY <1>1, <1>8, <2>2
  <2>7. Same(s[k + 1], p(k + 1))
    BY <2>3, <2>4, <2>5, <2>6, SameMore
  <2>8. s[k + 1] \in Seq(Texts)
    BY <1>2, <1>7, <2>2, <2>3, ApplyType
  <2> QED BY <2>7, <2>8
<1> HIDE DEF T
<1>11. n \in T
  BY <1>1, <1>9, <1>10, NatSetInduction
<1>12. Same(s[n], p(n))
  BY <1>1, <1>11 DEF T
<1> QED BY <1>1, <1>3, <1>5, <1>12 DEF w

\* The invariant holds at the start.
LEMMA InitInv == Init => SubscriptionsInv
<1> SUFFICES ASSUME Init PROVE SubscriptionsInv
  OBVIOUS
<1>1. wire \in Seq(Frames) /\ Same(Reads(<<>>, wire), Opening)
  BY OpeningIs DEF Init
<1>2. Types
  <2>1. rules \in Seq(Rule)
    BY SubscriptionsAssumption DEF Init
  <2>2. relay \in Seq(Texts) /\ lane \in Seq(Frames)
    BY EmptySeq DEF Init
  <2>3. /\ pc \in [Threads -> {"idle", "lock", "tell", "take"}]
        /\ call \in [Threads -> Asked \cup {NoCall}]
        /\ DOMAIN told = Threads
    BY DEF Init
  <2> QED BY <1>1, <2>1, <2>2, <2>3 DEF Types
<1>3. LockInv
  BY DEF Init, LockInv, CallOk
<1>4. WillAgree
  <2>1. Will = Reads(<<>>, wire)
    BY <1>1, ConcatEmptySeq DEF Will, Init
  <2>2. rules = Opening /\ \A t \in Threads : pc[t] # "take"
    BY DEF Init
  <2> QED BY <1>1, <2>1, <2>2 DEF WillAgree
<1> QED BY <1>2, <1>3, <1>4 DEF SubscriptionsInv

\* A step that leaves the rules, the line and the wire alone, and nobody comes
\* to take or leaves it, leaves what will be.
LEMMA WillStays ==
  ASSUME WillAgree, rules' = rules, conn' = conn,
         \A t \in Threads : (pc'[t] = "take") <=> (pc[t] = "take"),
         \A t \in Threads : pc[t] = "take" => call'[t] = call[t]
  PROVE  WillAgree'
<1>1. open' = open /\ Will' = Will
  BY DEF conn, Will
<1> QED BY <1>1 DEF WillAgree

\* A thread's place and call that go together stay so when others move.
LEMMA CallStays ==
  ASSUME NEW t \in Threads, CallOk(t), pc'[t] = pc[t], call'[t] = call[t], told'[t] = told[t],
         pc[t] \in {"tell", "take"} => rules' = rules /\ changing' = changing
  PROVE  CallOk(t)'
BY DEF CallOk

\* When nobody is amid a change, or one thread gives back, the others keep theirs.
LEMMA Alone ==
  ASSUME LockInv, NEW t \in Threads, NEW u \in Threads,
         pc[t] \in {"tell", "take"}, pc[u] \in {"tell", "take"}
  PROVE  t = u
BY DEF LockInv, CallOk

\* A call that starts, or that gives back at once.
LEMMA BeginInv == ASSUME SubscriptionsInv, NEW t \in Threads, Begin(t) PROVE SubscriptionsInv'
<1>0. /\ Types /\ LockInv /\ WillAgree
      /\ pc[t] = "idle" /\ rules' = rules /\ changing' = changing /\ conn' = conn /\ told' = told
  BY DEF SubscriptionsInv, Begin
<1>1. CASE pc' = pc /\ call' = call
  <2>1. Types'
    BY <1>0, <1>1 DEF Types, conn
  <2>2. LockInv'
    <3>1. ASSUME NEW u \in Threads PROVE CallOk(u)'
      <4>1. CallOk(u)
        BY <1>0 DEF LockInv
      <4> QED BY <1>0, <1>1, <4>1, CallStays
    <3> QED BY <3>1 DEF LockInv
  <2>3. WillAgree'
    BY <1>0, <1>1, WillStays
  <2> QED BY <2>1, <2>2, <2>3 DEF SubscriptionsInv
<1>2. CASE \E c \in Asked : call' = [call EXCEPT ![t] = c] /\ pc' = [pc EXCEPT ![t] = "lock"]
  <2>1. PICK c \in Asked : call' = [call EXCEPT ![t] = c] /\ pc' = [pc EXCEPT ![t] = "lock"]
    BY <1>2
  <2>2. Types'
    BY <1>0, <2>1 DEF Types, conn
  <2>3. pc'[t] = "lock" /\ call'[t] = c
    BY <1>0, <2>1 DEF Types
  <2>4. \A u \in Threads : u # t => pc'[u] = pc[u] /\ call'[u] = call[u]
    BY <1>0, <2>1 DEF Types
  <2>5. LockInv'
    <3>1. CallOk(t)'
      BY <2>3 DEF CallOk
    <3>2. ASSUME NEW u \in Threads, u # t PROVE CallOk(u)'
      <4>1. CallOk(u)
        BY <1>0 DEF LockInv
      <4> QED BY <1>0, <2>4, <3>2, <4>1, CallStays
    <3> QED BY <3>1, <3>2 DEF LockInv
  <2>6. WillAgree'
    <3>1. \A u \in Threads : (pc'[u] = "take" <=> pc[u] = "take") /\ (pc[u] = "take" => call'[u] = call[u])
      BY <1>0, <2>3, <2>4
    <3> QED BY <1>0, <3>1, WillStays
  <2> QED BY <2>2, <2>5, <2>6 DEF SubscriptionsInv
<1> QED BY <1>1, <1>2 DEF Begin

\* A call that gives back, before it told the relay.
LEMMA FinishInv ==
  ASSUME SubscriptionsInv, NEW t \in Threads, Finish(t), rules' = rules, conn' = conn,
         pc[t] # "take",
         \A u \in Threads : u # t => pc[u] \notin {"tell", "take"}
  PROVE  SubscriptionsInv'
<1>0. /\ Types /\ LockInv /\ WillAgree
      /\ changing' = NoThread
      /\ pc' = [pc EXCEPT ![t] = "idle"]
      /\ call' = [call EXCEPT ![t] = NoCall]
      /\ told' = [told EXCEPT ![t] = NoThread]
  BY DEF SubscriptionsInv, Finish
<1>1. Types'
  BY <1>0 DEF Types, conn
<1>2. pc'[t] = "idle" /\ \A u \in Threads : u # t => pc'[u] = pc[u] /\ call'[u] = call[u] /\ told'[u] = told[u]
  BY <1>0 DEF Types
<1>3. LockInv'
  <2>1. CallOk(t)'
    BY <1>2 DEF CallOk
  <2>2. ASSUME NEW u \in Threads, u # t PROVE CallOk(u)'
    <3>1. CallOk(u)
      BY <1>0 DEF LockInv
    <3>2. pc[u] \notin {"tell", "take"}
      BY <2>2
    <3> QED BY <1>2, <2>2, <3>1, <3>2, CallStays
  <2> QED BY <2>1, <2>2 DEF LockInv
<1>4. WillAgree'
  <2>1. \A u \in Threads : (pc'[u] = "take" <=> pc[u] = "take") /\ (pc[u] = "take" => call'[u] = call[u])
    BY <1>2
  <2> QED BY <1>0, <2>1, WillStays
<1> QED BY <1>1, <1>3, <1>4 DEF SubscriptionsInv

\* A call that gets the lock, or finds nothing to tell of.
LEMMA LockStep == ASSUME SubscriptionsInv, NEW t \in Threads, Lock(t) PROVE SubscriptionsInv'
<1>0. /\ Types /\ LockInv /\ WillAgree
      /\ pc[t] = "lock" /\ changing = NoThread /\ rules' = rules /\ conn' = conn
  BY DEF SubscriptionsInv, Lock, Free
<1>1. \A u \in Threads : pc[u] \notin {"tell", "take"}
  <2>1. NoThread \notin Threads
    BY SubscriptionsAssumption
  <2>2. ASSUME NEW u \in Threads, pc[u] \in {"tell", "take"} PROVE FALSE
    BY <1>0, <2>1, <2>2 DEF LockInv, CallOk
  <2> QED BY <2>2
<1>2. call[t] \in Asked
  BY <1>0 DEF LockInv, CallOk
<1>3. CASE call[t].op = "unsubscribe" /\ Held(call[t].text) = 0
  <2>1. Finish(t)
    BY <1>3 DEF Lock
  <2> QED BY <1>0, <1>1, <2>1, FinishInv
<1>4. CASE ~(call[t].op = "unsubscribe" /\ Held(call[t].text) = 0)
  <2> DEFINE c == call[t]
  <2>1. /\ changing' = t
        /\ pc' = [pc EXCEPT ![t] = "tell"]
        /\ told' = [told EXCEPT ![t] = for_a_relay(RuleFor(rules, c))]
        /\ call' = call
    <3>1. RuleFor(rules, c) = IF c.op = "unsubscribe" THEN rules[Held(c.text)] ELSE RuleOf(c)
      BY Words DEF RuleFor
    <3>2. /\ changing' = t
          /\ pc' = [pc EXCEPT ![t] = "tell"]
          /\ told' = [told EXCEPT ![t] = for_a_relay(IF c.op = "unsubscribe" THEN rules[Held(c.text)]
                                                     ELSE RuleOf(c))]
          /\ call' = call
      BY <1>4 DEF Lock
    <3> HIDE DEF c
    <3> QED BY <3>1, <3>2
  <2>2. c.op = "unsubscribe" => PlaceIn(rules, c.text) # 0
    BY <1>4, Words
  <2>3. Types'
    BY <1>0, <2>1 DEF Types, conn
  <2>4. /\ pc'[t] = "tell" /\ told'[t] = for_a_relay(RuleFor(rules, c))
        /\ \A u \in Threads : u # t => pc'[u] = pc[u] /\ told'[u] = told[u]
    BY <1>0, <2>1 DEF Types
  <2>5. LockInv'
    <3>1. CallOk(t)'
      BY <1>0, <1>2, <2>1, <2>2, <2>4 DEF CallOk
    <3>2. ASSUME NEW u \in Threads, u # t PROVE CallOk(u)'
      <4>1. CallOk(u) /\ pc[u] \notin {"tell", "take"}
        BY <1>0, <1>1 DEF LockInv
      <4> QED BY <2>1, <2>4, <3>2, <4>1, CallStays
    <3> QED BY <3>1, <3>2 DEF LockInv
  <2>6. WillAgree'
    <3>1. \A u \in Threads : (pc'[u] = "take" <=> pc[u] = "take") /\ (pc[u] = "take" => call'[u] = call[u])
      BY <1>0, <2>1, <2>4
    <3> QED BY <1>0, <3>1, WillStays
  <2> QED BY <2>3, <2>5, <2>6 DEF SubscriptionsInv
<1> QED BY <1>3, <1>4

\* A call that gives up gives the lock back with the rules as they were.
LEMMA GiveUpInv == ASSUME SubscriptionsInv, NEW t \in Threads, GiveUp(t) PROVE SubscriptionsInv'
<1>0. LockInv /\ pc[t] = "tell" /\ Finish(t) /\ rules' = rules /\ conn' = conn
  BY DEF SubscriptionsInv, GiveUp
<1>1. ASSUME NEW u \in Threads, u # t PROVE pc[u] \notin {"tell", "take"}
  BY <1>0, <1>1, Alone
<1> QED BY <1>0, <1>1, FinishInv

\* The frame that tells of a call puts the relay ahead of the client by it.
LEMMA TellInv == ASSUME SubscriptionsInv, NEW t \in Threads, Tell(t) PROVE SubscriptionsInv'
<1> DEFINE c == call[t]
           f == Frame(Telling(c), told[t])
<1>0. /\ Types /\ LockInv /\ WillAgree /\ CallOk(t)
      /\ pc[t] = "tell" /\ open /\ lane' = Append(lane, f)
      /\ pc' = [pc EXCEPT ![t] = "take"]
      /\ rules' = rules /\ changing' = changing /\ open' = open /\ wire' = wire
      /\ relay' = relay /\ call' = call /\ told' = told
  BY DEF SubscriptionsInv, Tell, LockInv
<1>1. /\ c \in Asked /\ told[t] = for_a_relay(RuleFor(rules, c))
      /\ c.op = "unsubscribe" => PlaceIn(rules, c.text) # 0
  BY <1>0 DEF CallOk
<1>2. rules \in Seq(Rule) /\ relay \in Seq(Texts) /\ wire \in Seq(Frames) /\ lane \in Seq(Frames)
  BY <1>0 DEF Types
<1> HIDE DEF c
<1>3. /\ f \in Frames
      /\ \A w \in Seq(Texts) : Same(w, rules) => Same(Apply(w, f), ChangedBy(rules, c))
  BY <1>1, <1>2, TellingIs
<1> HIDE DEF f
<1>4. \A u \in Threads : u # t => pc[u] # "take"
  BY <1>0, Alone
<1>5. Same(Will, rules)
  BY <1>0, <1>4 DEF WillAgree
<1>6. Same(Will', ChangedBy(rules, c))
  <2>1. wire \o lane \in Seq(Frames) /\ wire \o Append(lane, f) = Append(wire \o lane, f)
    BY <1>2, <1>3, WayIn
  <2>2. Will' = Apply(Will, f)
    <3>1. Will' = Reads(relay, Append(wire \o lane, f))
      BY <1>0, <2>1 DEF Will
    <3> QED BY <1>3, <2>1, <3>1, ReadsMore DEF Will
  <2>3. Will \in Seq(Texts)
    BY <1>2, <2>1, ReadsType DEF Will
  <2> QED BY <1>3, <1>5, <2>2, <2>3
<1>7. Types'
  <2>1. lane' \in Seq(Frames)
    BY <1>0, <1>2, <1>3, AppendProperties
  <2> QED BY <1>0, <2>1 DEF Types
<1>8. pc'[t] = "take" /\ \A u \in Threads : u # t => pc'[u] = pc[u]
  BY <1>0 DEF Types
<1>9. LockInv'
  <2>1. CallOk(t)'
    BY <1>0, <1>8 DEF CallOk
  <2>2. ASSUME NEW u \in Threads, u # t PROVE CallOk(u)'
    <3>1. CallOk(u)
      BY <1>0 DEF LockInv
    <3> QED BY <1>0, <1>8, <2>2, <3>1, CallStays
  <2> QED BY <2>1, <2>2 DEF LockInv
<1>10. WillAgree'
  <2>1. \A u \in Threads : pc'[u] = "take" => u = t
    BY <1>4, <1>8
  <2>2. ChangedBy(rules', call'[t]) = ChangedBy(rules, c)
    BY <1>0 DEF c
  <2> QED BY <1>6, <1>8, <2>1, <2>2 DEF WillAgree
<1> QED BY <1>7, <1>9, <1>10 DEF SubscriptionsInv

\* And the call then makes the client follow.
LEMMA TakeInv == ASSUME SubscriptionsInv, NEW t \in Threads, Take(t) PROVE SubscriptionsInv'
<1> DEFINE c == call[t]
<1>0. /\ Types /\ LockInv /\ WillAgree /\ CallOk(t)
      /\ pc[t] = "take" /\ rules' = ChangedBy(rules, c) /\ conn' = conn
      /\ changing' = NoThread
      /\ pc' = [pc EXCEPT ![t] = "idle"]
      /\ call' = [call EXCEPT ![t] = NoCall]
      /\ told' = [told EXCEPT ![t] = NoThread]
  BY Words DEF SubscriptionsInv, Take, Finish, LockInv
<1>1. c \in Asked /\ (c.op = "unsubscribe" => PlaceIn(rules, c.text) # 0)
  BY <1>0 DEF CallOk
<1>2. rules' \in Seq(Rule)
  <2>1. rules \in Seq(Rule)
    BY <1>0 DEF Types
  <2> HIDE DEF c
  <2> QED BY <1>0, <1>1, <2>1, TellingIs
<1>3. Types'
  BY <1>0, <1>2 DEF Types, conn
<1>4. \A u \in Threads : u # t => pc[u] \notin {"tell", "take"}
  BY <1>0, Alone
<1>5. /\ pc'[t] = "idle"
      /\ \A u \in Threads : u # t => pc'[u] = pc[u] /\ call'[u] = call[u] /\ told'[u] = told[u]
  BY <1>0 DEF Types
<1>6. LockInv'
  <2>1. CallOk(t)'
    BY <1>5 DEF CallOk
  <2>2. ASSUME NEW u \in Threads, u # t PROVE CallOk(u)'
    <3>1. CallOk(u) /\ pc[u] \notin {"tell", "take"}
      BY <1>0, <1>4, <2>2 DEF LockInv
    <3> QED BY <1>5, <2>2, <3>1, CallStays
  <2> QED BY <2>1, <2>2 DEF LockInv
<1>7. WillAgree'
  <2>1. open' = open /\ Will' = Will
    BY <1>0 DEF conn, Will
  <2>2. \A u \in Threads : pc'[u] # "take"
    BY <1>4, <1>5
  <2>3. open => Same(Will, rules')
    BY <1>0 DEF WillAgree
  <2> QED BY <2>1, <2>2, <2>3 DEF WillAgree
<1> QED BY <1>3, <1>6, <1>7 DEF SubscriptionsInv

\* A step of the writer, the relay or the connection.
LEMMA ConnInv ==
  ASSUME SubscriptionsInv, rules' = rules, changing' = changing, locals' = locals,
         relay' \in Seq(Texts), wire' \in Seq(Frames), lane' \in Seq(Frames),
         open' => open /\ Will' = Will
  PROVE  SubscriptionsInv'
<1>0. /\ Types /\ LockInv /\ WillAgree /\ pc' = pc /\ call' = call /\ told' = told
  BY DEF SubscriptionsInv, locals
<1>1. Types'
  BY <1>0 DEF Types
<1>2. LockInv'
  <2>1. ASSUME NEW u \in Threads PROVE CallOk(u)'
    <3>1. CallOk(u)
      BY <1>0 DEF LockInv
    <3> QED BY <1>0, <3>1, CallStays
  <2> QED BY <2>1 DEF LockInv
<1>3. WillAgree'
  BY <1>0 DEF WillAgree
<1> QED BY <1>1, <1>2, <1>3 DEF SubscriptionsInv

\* A frame that is written is still under way.
LEMMA WriteInv == ASSUME SubscriptionsInv, Write PROVE SubscriptionsInv'
<1>0. /\ relay \in Seq(Texts) /\ wire \in Seq(Frames) /\ lane \in Seq(Frames)
      /\ open /\ lane # <<>> /\ wire' = Append(wire, Head(lane)) /\ lane' = Tail(lane)
      /\ rules' = rules /\ changing' = changing /\ relay' = relay /\ locals' = locals
  BY DEF SubscriptionsInv, Types, Write
<1>1. wire' \in Seq(Frames) /\ lane' \in Seq(Frames) /\ wire' \o lane' = wire \o lane
  BY <1>0, WayOn
<1>2. Will' = Will
  BY <1>0, <1>1 DEF Will
<1> QED BY <1>0, <1>1, <1>2, ConnInv

\* The connection ends.
LEMMA EndsInv ==
  ASSUME SubscriptionsInv, Ends, rules' = rules, changing' = changing, locals' = locals
  PROVE  SubscriptionsInv'
<1>1. /\ ~open' /\ relay' = <<>> /\ wire' = <<>> /\ lane' = <<>>
  BY DEF Ends
<1>2. relay' \in Seq(Texts) /\ wire' \in Seq(Frames) /\ lane' \in Seq(Frames)
  BY <1>1, EmptySeq
<1> QED BY <1>1, <1>2, ConnInv

\* A frame that is read has done what it was going to do.
LEMMA RelayReadsInv == ASSUME SubscriptionsInv, RelayReads PROVE SubscriptionsInv'
<1>0. /\ relay \in Seq(Texts) /\ wire \in Seq(Frames) /\ lane \in Seq(Frames)
      /\ open /\ wire # <<>>
      /\ rules' = rules /\ changing' = changing /\ locals' = locals
  BY DEF SubscriptionsInv, Types, RelayReads
<1>1. CASE Head(wire).text \in TooLong
  <2>1. Ends
    BY <1>1 DEF RelayReads
  <2> QED BY <1>0, <2>1, EndsInv
<1>2. CASE Head(wire).text \notin TooLong
  <2>1. relay' = Apply(relay, Head(wire)) /\ wire' = Tail(wire) /\ open' = open /\ lane' = lane
    BY <1>2 DEF RelayReads
  <2>2. /\ Head(wire) \in Frames /\ Tail(wire) \in Seq(Frames)
        /\ wire \o lane \in Seq(Frames) /\ wire \o lane # <<>>
        /\ Head(wire \o lane) = Head(wire) /\ Tail(wire \o lane) = Tail(wire) \o lane
    BY <1>0, WayOut
  <2>3. relay' \in Seq(Texts)
    BY <1>0, <2>1, <2>2, ApplyType
  <2>4. Will' = Will
    <3>1. Reads(relay, wire \o lane) = Reads(Apply(relay, Head(wire)), Tail(wire) \o lane)
      <4>1. Reads(relay, wire \o lane)
              = Reads(Apply(relay, Head(wire \o lane)), Tail(wire \o lane))
        BY <2>2, ReadsFirst
      <4> QED BY <2>2, <4>1
    <3> QED BY <2>1, <3>1 DEF Will
  <2> QED BY <1>0, <2>1, <2>2, <2>3, <2>4, ConnInv
<1> QED BY <1>1, <1>2

\* A step that changes nothing.
LEMMA StutterInv == ASSUME SubscriptionsInv, UNCHANGED vars PROVE SubscriptionsInv'
<1>1. /\ rules' = rules /\ changing' = changing /\ locals' = locals
      /\ relay' = relay /\ wire' = wire /\ lane' = lane /\ open' = open
  BY DEF vars, conn
<1>2. relay \in Seq(Texts) /\ wire \in Seq(Frames) /\ lane \in Seq(Frames)
  BY DEF SubscriptionsInv, Types
<1>3. Will' = Will
  BY <1>1 DEF Will
<1> QED BY <1>1, <1>2, <1>3, ConnInv

\* The relay will hold what the client holds, and what it will hold after a
\* change that is half made is what the client will.
THEOREM SubscriptionsCorrect == Spec => []SubscriptionsInv
<1>1. Init => SubscriptionsInv
  BY InitInv
<1>2. SubscriptionsInv /\ [Next]_vars => SubscriptionsInv'
  <2> SUFFICES ASSUME SubscriptionsInv, [Next]_vars PROVE SubscriptionsInv'
    OBVIOUS
  <2>1. ASSUME NEW t \in Threads, Begin(t) \/ Lock(t) \/ Tell(t) \/ GiveUp(t) \/ Take(t)
        PROVE  SubscriptionsInv'
    BY <2>1, BeginInv, LockStep, TellInv, GiveUpInv, TakeInv
  <2>2. CASE Write
    BY <2>2, WriteInv
  <2>3. CASE RelayReads
    BY <2>3, RelayReadsInv
  <2>4. CASE ConnectionEnds
    BY <2>4, EndsInv DEF ConnectionEnds
  <2>5. CASE UNCHANGED vars
    BY <2>5, StutterInv
  <2> QED BY <2>1, <2>2, <2>3, <2>4, <2>5 DEF Next
<1> QED BY <1>1, <1>2, PTL DEF Spec

\* RelayAgrees, from it.
THEOREM RelayAgreesHolds == Spec => []RelayAgrees
<1>1. SubscriptionsInv => RelayAgrees
  <2> SUFFICES ASSUME SubscriptionsInv, open, ~Doomed,
                      \A t \in Threads : pc[t] # "take"
               PROVE  \A x \in ToSet(Will) \cup ToSet(ToldOf(rules)) :
                        HowOften(Will, x) = IF x \in RelayRefuses THEN 0
                                            ELSE HowOften(ToldOf(rules), x)
    BY DEF RelayAgrees, Will
  <2>1. Same(Will, rules)
    BY DEF SubscriptionsInv, WillAgree
  <2>2. rules \in Seq(Rule) /\ relay \in Seq(Texts) /\ wire \o lane \in Seq(Frames)
    BY ConcatProperties DEF SubscriptionsInv, Types
  <2>3. Will \in Seq(Texts)
    BY <2>2, ReadsType DEF Will
  <2> QED BY <2>1, <2>2, <2>3, SameAgrees
<1> QED BY <1>1, SubscriptionsCorrect, PTL

=============================================================================
