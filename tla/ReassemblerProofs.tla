--------------------------- MODULE ReassemblerProofs ---------------------------
(***************************************************************************)
(* Proofs about the udpm:// bus of Reassembler: the arithmetic by which     *)
(* `fragments` cuts a message, for every length of name, payload and        *)
(* datagram; what the publishers put on the network by it; and what the     *)
(* receiver makes of it, whatever the network loses, repeats and mixes.     *)
(***************************************************************************)
EXTENDS Reassembler, SequenceLemmas, FiniteSetTheorems

-----------------------------------------------------------------------------
(* Sums over a finite set, which the community module defines as a recursive *)
(* function that takes the members one by one, in an order of its choice.    *)

AnyOf(s) == CHOOSE x \in s : TRUE

\* f adds up g over every subset of S.
Sums(g, S, f) ==
  f = [s \in SUBSET S |-> IF s = {} THEN 0 ELSE g[AnyOf(s)] + f[s \ {AnyOf(s)}]]

\* Subset by subset.
LEMMA SumsAt ==
  ASSUME NEW g, NEW S, NEW f, Sums(g, S, f), NEW T \in SUBSET S
  PROVE  /\ T = {} => f[T] = 0
         /\ T # {} => /\ f[T] = g[AnyOf(T)] + f[T \ {AnyOf(T)}]
                      /\ AnyOf(T) \in T
<1>1. f[T] = IF T = {} THEN 0 ELSE g[AnyOf(T)] + f[T \ {AnyOf(T)}]
  BY DEF Sums
<1>2. T # {} => AnyOf(T) \in T
  BY DEF AnyOf
<1> QED BY <1>1, <1>2

\* Nothing adds up to zero.
LEMMA SumsNone ==
  ASSUME NEW g, NEW S, NEW f, Sums(g, S, f)
  PROVE  f[{}] = 0
<1>1. {} \in SUBSET S
  OBVIOUS
<1> QED BY <1>1, SumsAt

\* A member less.
LEMMA OneLess ==
  ASSUME NEW T, IsFiniteSet(T), NEW n \in Nat, Cardinality(T) = n + 1, NEW x \in T
  PROVE  IsFiniteSet(T \ {x}) /\ Cardinality(T \ {x}) = n
<1>1. IsFiniteSet(T \ {x}) /\ Cardinality(T \ {x}) = Cardinality(T) - 1
  BY FS_RemoveElement
<1> QED BY <1>1

\* A set with no members, by its cardinality.
LEMMA NoMembers ==
  ASSUME NEW T, IsFiniteSet(T)
  PROVE  Cardinality(T) \in Nat /\ (Cardinality(T) = 0 <=> T = {})
BY FS_CardinalityType, FS_EmptySet

\* What two of them say of a set where their terms agree is one and the same.
LEMMA SumsAgree ==
  ASSUME NEW T, IsFiniteSet(T), NEW S, T \subseteq S, NEW R, T \subseteq R,
         NEW g, NEW f, Sums(g, S, f), NEW h, NEW e, Sums(h, R, e),
         \A x \in T : g[x] = h[x]
  PROVE  f[T] = e[T]
<1> DEFINE N == {n \in Nat : \A Q \in SUBSET T : Cardinality(Q) = n => f[Q] = e[Q]}
<1>0. ASSUME NEW Q \in SUBSET T PROVE IsFiniteSet(Q)
  BY FS_Subset
<1>1. 0 \in N
  <2>1. ASSUME NEW Q \in SUBSET T, Cardinality(Q) = 0 PROVE f[Q] = e[Q]
    <3>1. Q = {}
      BY <1>0, <2>1, NoMembers
    <3>2. f[{}] = 0
      BY SumsNone
    <3>3. e[{}] = 0
      BY SumsNone
    <3> QED BY <3>1, <3>2, <3>3
  <2> QED BY <2>1
<1>2. ASSUME NEW n \in Nat, n \in N PROVE n + 1 \in N
  <2>1. ASSUME NEW Q \in SUBSET T, Cardinality(Q) = n + 1 PROVE f[Q] = e[Q]
    <3>1. Q # {}
      BY <1>0, <2>1, NoMembers
    <3>2. Q \in SUBSET S /\ Q \in SUBSET R
      OBVIOUS
    <3>3. PICK x : x = AnyOf(Q)
      OBVIOUS
    <3>4. x \in Q /\ f[Q] = g[x] + f[Q \ {x}]
      <4>1. AnyOf(Q) \in Q /\ f[Q] = g[AnyOf(Q)] + f[Q \ {AnyOf(Q)}]
        BY <3>1, <3>2, SumsAt
      <4> QED BY <3>3, <4>1
    <3>5. e[Q] = h[x] + e[Q \ {x}]
      <4>1. e[Q] = h[AnyOf(Q)] + e[Q \ {AnyOf(Q)}]
        BY <3>1, <3>2, SumsAt
      <4> QED BY <3>3, <4>1
    <3>6. Cardinality(Q \ {x}) = n
      BY <1>0, <2>1, <3>4, OneLess
    <3>7. f[Q \ {x}] = e[Q \ {x}]
      BY <1>2, <3>6
    <3>8. g[x] = h[x]
      BY <3>4
    <3> QED BY <3>4, <3>5, <3>7, <3>8
  <2> QED BY <2>1
<1> HIDE DEF N
<1>3. \A n \in Nat : n \in N
  BY <1>1, <1>2, NatSetInduction
<1>4. Cardinality(T) \in N
  BY <1>3, NoMembers
<1> QED BY <1>4 DEF N

\* There is such an f.
LEMMA SumsExist ==
  ASSUME NEW g, NEW S, IsFiniteSet(S)
  PROVE  \E f : Sums(g, S, f)
<1> DEFINE N == {n \in Nat : \A T : IsFiniteSet(T) /\ Cardinality(T) <= n
                                      => \E f : Sums(g, T, f)}
<1>1. 0 \in N
  <2>1. ASSUME NEW T, IsFiniteSet(T), Cardinality(T) <= 0 PROVE \E f : Sums(g, T, f)
    <3>1. T = {}
      BY <2>1, NoMembers
    <3> DEFINE f == [s \in SUBSET T |-> 0]
    <3>2. f = [s \in SUBSET T |-> IF s = {} THEN 0
                                  ELSE g[AnyOf(s)] + f[s \ {AnyOf(s)}]]
      BY <3>1
    <3>3. Sums(g, T, f)
      BY <3>2 DEF Sums
    <3> QED BY <3>3
  <2> QED BY <2>1
<1>2. ASSUME NEW n \in Nat, n \in N PROVE n + 1 \in N
  <2> DEFINE F(T) == CHOOSE f : Sums(g, T, f)
  <2>1. ASSUME NEW T, IsFiniteSet(T), Cardinality(T) <= n PROVE Sums(g, T, F(T))
    BY <1>2, <2>1
  <2>2. ASSUME NEW T, IsFiniteSet(T), Cardinality(T) <= n + 1 PROVE \E f : Sums(g, T, f)
    <3> DEFINE Less(s) == s \ {AnyOf(s)}
               h == [s \in SUBSET T |-> IF s = {} THEN 0
                                        ELSE g[AnyOf(s)] + F(Less(s))[Less(s)]]
    <3>1. ASSUME NEW s \in SUBSET T, s # {}
          PROVE  Less(s) \in SUBSET T /\ IsFiniteSet(Less(s)) /\ Cardinality(Less(s)) <= n
      <4>1. IsFiniteSet(s) /\ Cardinality(s) <= Cardinality(T)
        BY <2>2, FS_Subset
      <4>2. AnyOf(s) \in s
        BY <3>1 DEF AnyOf
      <4>3. Cardinality(T) \in Nat /\ Cardinality(s) \in Nat
        BY <2>2, <4>1, NoMembers
      <4>4. IsFiniteSet(Less(s)) /\ Cardinality(Less(s)) = Cardinality(s) - 1
        BY <4>1, <4>2, FS_RemoveElement
      <4> QED BY <2>2, <4>1, <4>3, <4>4
    <3>2. ASSUME NEW s \in SUBSET T, s # {} PROVE h[Less(s)] = F(Less(s))[Less(s)]
      <4>1. PICK R : R = Less(s)
        OBVIOUS
      <4>2. R \in SUBSET T /\ IsFiniteSet(R) /\ Cardinality(R) <= n
        BY <3>1, <3>2, <4>1
      <4>3. Sums(g, R, F(R))
        BY <2>1, <4>2
      <4>4. PICK e : e = F(R)
        OBVIOUS
      <4>5. CASE R = {}
        <5>1. e[R] = 0
          BY <4>3, <4>4, <4>5, SumsAt
        <5>2. h[R] = 0
          BY <4>2, <4>5
        <5> QED BY <4>1, <4>4, <5>1, <5>2
      <4>6. CASE R # {}
        <5>1. PICK Q : Q = Less(R)
          OBVIOUS
        <5>2. Q \in SUBSET T /\ IsFiniteSet(Q) /\ Cardinality(Q) <= n /\ Q \subseteq R
          BY <3>1, <4>2, <4>6, <5>1
        <5>3. h[R] = g[AnyOf(R)] + F(Q)[Q]
          BY <4>2, <4>6, <5>1
        <5>4. Sums(g, R, e)
          BY <4>3, <4>4
        <5>5. e[R] = g[AnyOf(R)] + e[R \ {AnyOf(R)}]
          <6>1. R \in SUBSET R
            OBVIOUS
          <6> QED BY <4>6, <5>4, <6>1, SumsAt
        <5>6. Sums(g, Q, F(Q))
          BY <2>1, <5>2
        <5>7. PICK c : c = F(Q)
          OBVIOUS
        <5>8. Sums(g, Q, c) /\ Q \subseteq Q
          BY <5>6, <5>7
        <5> HIDE DEF F, h
        <5>9. e[Q] = c[Q]
          BY <5>2, <5>4, <5>8, SumsAgree
        <5> QED BY <4>1, <4>4, <5>1, <5>3, <5>5, <5>7, <5>9
      <4> QED BY <4>5, <4>6
    <3>3. h = [s \in SUBSET T |-> IF s = {} THEN 0 ELSE g[AnyOf(s)] + h[Less(s)]]
      <4>1. \A s \in SUBSET T : h[s] = IF s = {} THEN 0 ELSE g[AnyOf(s)] + h[Less(s)]
        <5>1. ASSUME NEW s \in SUBSET T
              PROVE  h[s] = IF s = {} THEN 0 ELSE g[AnyOf(s)] + F(Less(s))[Less(s)]
          OBVIOUS
        <5> HIDE DEF h, Less, F
        <5> QED BY <3>2, <5>1
      <4>2. h = [s \in SUBSET T |-> h[s]]
        OBVIOUS
      <4> HIDE DEF h, Less, F
      <4> QED BY <4>1, <4>2, Zenon
    <3> HIDE DEF h
    <3>4. Sums(g, T, h)
      BY <3>3 DEF Sums
    <3> QED BY <3>4
  <2> QED BY <2>2
<1> HIDE DEF N
<1>3. \A n \in Nat : n \in N
  BY <1>1, <1>2, NatSetInduction
<1>4. Cardinality(S) \in Nat
  BY NoMembers
<1>5. Cardinality(S) \in N
  BY <1>3, <1>4
<1> QED BY <1>4, <1>5 DEF N

\* The sum of g over S.
Total(g, S) == (CHOOSE f : Sums(g, S, f))[S]

\* Whatever adds up g over a set says what its sum is over each part.
LEMMA TotalIs ==
  ASSUME NEW S, NEW T, IsFiniteSet(T), T \subseteq S, NEW g, NEW f, Sums(g, S, f)
  PROVE  Total(g, T) = f[T]
<1>1. PICK e : e = CHOOSE h : Sums(g, T, h)
  OBVIOUS
<1>2. Sums(g, T, e)
  BY <1>1, SumsExist
<1>3. T \subseteq T /\ \A x \in T : g[x] = g[x]
  OBVIOUS
<1>4. e[T] = f[T]
  BY <1>2, <1>3, SumsAgree
<1> QED BY <1>1, <1>4 DEF Total

\* The sum over no members.
LEMMA TotalNone ==
  ASSUME NEW g
  PROVE  Total(g, {}) = 0
<1>1. IsFiniteSet({})
  BY FS_EmptySet
<1>2. PICK f : Sums(g, {}, f)
  BY <1>1, SumsExist
<1>3. Total(g, {}) = f[{}]
  BY <1>1, <1>2, TotalIs
<1> QED BY <1>2, <1>3, SumsNone

\* Equal terms have an equal sum.
LEMMA TotalAgree ==
  ASSUME NEW S, IsFiniteSet(S), NEW g, NEW h, \A x \in S : g[x] = h[x]
  PROVE  Total(g, S) = Total(h, S)
<1>1. PICK f : Sums(g, S, f)
  BY SumsExist
<1>2. PICK e : Sums(h, S, e)
  BY SumsExist
<1>3. f[S] = e[S]
  BY <1>1, <1>2, SumsAgree
<1>4. Total(g, S) = f[S]
  BY <1>1, TotalIs
<1>5. Total(h, S) = e[S]
  BY <1>2, TotalIs
<1> QED BY <1>3, <1>4, <1>5

\* The sum takes a member of its choice out first.
LEMMA TotalAny ==
  ASSUME NEW g, NEW S, IsFiniteSet(S), S # {}
  PROVE  \E x \in S : Total(g, S) = g[x] + Total(g, S \ {x})
<1>1. PICK f : Sums(g, S, f)
  BY SumsExist
<1>2. PICK x : x = AnyOf(S)
  OBVIOUS
<1>3. S \in SUBSET S
  OBVIOUS
<1>4. AnyOf(S) \in S /\ f[S] = g[AnyOf(S)] + f[S \ {AnyOf(S)}]
  BY <1>1, <1>3, SumsAt
<1>5. x \in S /\ f[S] = g[x] + f[S \ {x}]
  BY <1>2, <1>4
<1>6. IsFiniteSet(S \ {x}) /\ S \ {x} \subseteq S
  BY FS_RemoveElement
<1>7. Total(g, S) = f[S]
  BY <1>1, TotalIs
<1>8. Total(g, S \ {x}) = f[S \ {x}]
  BY <1>1, <1>6, TotalIs
<1> QED BY <1>5, <1>7, <1>8

\* The sum of natural numbers is one, and takes any member out first.
LEMMA TotalBoth ==
  ASSUME NEW S, IsFiniteSet(S), NEW g, \A x \in S : g[x] \in Nat
  PROVE  /\ Total(g, S) \in Nat
         /\ \A x \in S : Total(g, S) = g[x] + Total(g, S \ {x})
<1> DEFINE Good(T) == /\ Total(g, T) \in Nat
                      /\ \A x \in T : Total(g, T) = g[x] + Total(g, T \ {x})
           N == {n \in Nat : \A T \in SUBSET S : Cardinality(T) <= n => Good(T)}
<1>0. ASSUME NEW T \in SUBSET S PROVE IsFiniteSet(T) /\ Cardinality(T) \in Nat
  BY FS_Subset, FS_CardinalityType
<1>1. 0 \in N
  <2>1. ASSUME NEW T \in SUBSET S, Cardinality(T) <= 0 PROVE Good(T)
    <3>1. T = {}
      BY <1>0, <2>1, NoMembers
    <3> QED BY <3>1, TotalNone
  <2> QED BY <2>1
<1>2. ASSUME NEW n \in Nat, n \in N PROVE n + 1 \in N
  <2>1. ASSUME NEW T \in SUBSET S, Cardinality(T) <= n + 1 PROVE Good(T)
    <3>1. CASE T = {}
      BY <3>1, TotalNone
    <3>2. CASE T # {}
      <4>1. PICK p \in T : Total(g, T) = g[p] + Total(g, T \ {p})
        BY <1>0, <3>2, TotalAny
      <4>2. ASSUME NEW y \in T
            PROVE  T \ {y} \in SUBSET S /\ Cardinality(T \ {y}) <= n
        <5>1. Cardinality(T \ {y}) = Cardinality(T) - 1
          BY <1>0, FS_RemoveElement
        <5> QED BY <1>0, <2>1, <5>1
      <4>3. ASSUME NEW y \in T PROVE Good(T \ {y})
        BY <1>2, <4>2
      <4>4. g[p] \in Nat /\ Total(g, T \ {p}) \in Nat
        BY <4>3
      <4>5. ASSUME NEW x \in T PROVE Total(g, T) = g[x] + Total(g, T \ {x})
        <5>1. CASE x = p
          BY <4>1, <5>1
        <5>2. CASE x # p
          <6>1. x \in T \ {p} /\ p \in T \ {x}
            BY <5>2
          <6>2. Total(g, T \ {p}) = g[x] + Total(g, (T \ {p}) \ {x})
            BY <4>3, <6>1
          <6>3. Total(g, T \ {x}) = g[p] + Total(g, (T \ {x}) \ {p})
            BY <4>3, <6>1
          <6>4. (T \ {p}) \ {x} = (T \ {x}) \ {p}
            OBVIOUS
          <6>5. Total(g, (T \ {p}) \ {x}) \in Nat
            <7>1. (T \ {p}) \ {x} \in SUBSET S /\ Cardinality((T \ {p}) \ {x}) <= n
              <8>1. IsFiniteSet(T \ {p}) /\ Cardinality(T \ {p}) <= n /\ Cardinality(T \ {p}) \in Nat
                BY <1>0, <4>2
              <8>2. Cardinality((T \ {p}) \ {x}) = Cardinality(T \ {p}) - 1
                BY <6>1, <8>1, FS_RemoveElement
              <8> QED BY <8>1, <8>2
            <7> QED BY <1>2, <7>1
          <6>6. g[x] \in Nat
            OBVIOUS
          <6>7. PICK t \in Nat : t = Total(g, (T \ {p}) \ {x})
            BY <6>5
          <6>8. Total(g, T \ {p}) = g[x] + t /\ Total(g, T \ {x}) = g[p] + t
            BY <6>2, <6>3, <6>4, <6>7
          <6> QED BY <4>1, <4>4, <6>6, <6>8
        <5> QED BY <5>1, <5>2
      <4> QED BY <4>1, <4>4, <4>5
    <3> QED BY <3>1, <3>2
  <2> QED BY <2>1
<1> HIDE DEF N
<1>3. \A n \in Nat : n \in N
  BY <1>1, <1>2, NatSetInduction
<1>4. Cardinality(S) \in N /\ Cardinality(S) \in Nat
  BY <1>3, NoMembers
<1>5. S \in SUBSET S /\ Cardinality(S) <= Cardinality(S)
  BY <1>4
<1>6. Good(S)
  <2> HIDE DEF Good
  <2> QED BY <1>4, <1>5 DEF N
<1> QED BY <1>6

\* A member more.
LEMMA TotalMore ==
  ASSUME NEW S, IsFiniteSet(S), NEW g, NEW y, y \notin S,
         \A x \in S \cup {y} : g[x] \in Nat
  PROVE  Total(g, S \cup {y}) = Total(g, S) + g[y]
<1>1. IsFiniteSet(S \cup {y})
  BY FS_AddElement
<1>2. Total(g, S) \in Nat
  <2>1. \A x \in S : g[x] \in Nat
    OBVIOUS
  <2> QED BY <2>1, TotalBoth
<1>3. Total(g, S \cup {y}) = g[y] + Total(g, (S \cup {y}) \ {y})
  BY <1>1, TotalBoth
<1>4. (S \cup {y}) \ {y} = S
  OBVIOUS
<1>5. g[y] \in Nat
  OBVIOUS
<1> QED BY <1>2, <1>3, <1>4, <1>5

\* A part of the terms adds up to no more than all of them.
LEMMA TotalPart ==
  ASSUME NEW S, IsFiniteSet(S), NEW g, \A x \in S : g[x] \in Nat, NEW T \in SUBSET S
  PROVE  Total(g, T) <= Total(g, S)
<1> DEFINE N == {n \in Nat : \A U \in SUBSET S :
                               T \subseteq U /\ Cardinality(U) <= n => Total(g, T) <= Total(g, U)}
<1>0. ASSUME NEW U \in SUBSET S
      PROVE IsFiniteSet(U) /\ Cardinality(U) \in Nat /\ Total(g, U) \in Nat
  <2>1. IsFiniteSet(U)
    BY FS_Subset
  <2>2. \A x \in U : g[x] \in Nat
    OBVIOUS
  <2> QED BY <2>1, <2>2, FS_CardinalityType, TotalBoth
<1>1. 0 \in N
  <2>1. ASSUME NEW U \in SUBSET S, T \subseteq U, Cardinality(U) <= 0
        PROVE  Total(g, T) <= Total(g, U)
    <3>1. U = {} /\ T = U
      BY <1>0, <2>1, NoMembers
    <3> QED BY <1>0, <3>1
  <2> QED BY <2>1
<1>2. ASSUME NEW n \in Nat, n \in N PROVE n + 1 \in N
  <2>1. ASSUME NEW U \in SUBSET S, T \subseteq U, Cardinality(U) <= n + 1
        PROVE  Total(g, T) <= Total(g, U)
    <3>1. CASE T = U
      BY <1>0, <3>1
    <3>2. CASE T # U
      <4>1. PICK y \in U : y \notin T
        BY <2>1, <3>2
      <4>2. T \subseteq U \ {y} /\ U \ {y} \in SUBSET S
        BY <2>1, <4>1
      <4>3. Cardinality(U \ {y}) = Cardinality(U) - 1
        BY <1>0, FS_RemoveElement
      <4>4. Cardinality(U \ {y}) <= n
        BY <1>0, <2>1, <4>3
      <4>5. Total(g, T) <= Total(g, U \ {y})
        BY <1>2, <4>2, <4>4
      <4>6. Total(g, U) = g[y] + Total(g, U \ {y})
        <5>1. \A x \in U : g[x] \in Nat
          OBVIOUS
        <5> QED BY <1>0, <5>1, TotalBoth
      <4>7. g[y] \in Nat /\ Total(g, U \ {y}) \in Nat /\ Total(g, T) \in Nat
        BY <1>0, <4>2
      <4> QED BY <4>5, <4>6, <4>7
    <3> QED BY <3>1, <3>2
  <2> QED BY <2>1
<1> HIDE DEF N
<1>3. \A n \in Nat : n \in N
  BY <1>1, <1>2, NatSetInduction
<1>4. Cardinality(S) \in N /\ Cardinality(S) \in Nat
  BY <1>3, NoMembers
<1>5. S \in SUBSET S /\ Cardinality(S) <= Cardinality(S)
  BY <1>4
<1> QED BY <1>4, <1>5 DEF N

\* A sum of natural numbers, in two parts.
LEMMA TotalSplit ==
  ASSUME NEW S, IsFiniteSet(S), NEW g, \A x \in S : g[x] \in Nat, NEW T \in SUBSET S
  PROVE  /\ Total(g, S) = Total(g, T) + Total(g, S \ T)
         /\ Total(g, T) \in Nat /\ Total(g, S \ T) \in Nat
<1> DEFINE Good(U) == Total(g, U \cup (S \ T)) = Total(g, U) + Total(g, S \ T)
           N == {n \in Nat : \A U \in SUBSET T : Cardinality(U) <= n => Good(U)}
<1>0. ASSUME NEW U \in SUBSET S
      PROVE  IsFiniteSet(U) /\ Cardinality(U) \in Nat /\ Total(g, U) \in Nat
  <2>1. IsFiniteSet(U)
    BY FS_Subset
  <2>2. \A x \in U : g[x] \in Nat
    OBVIOUS
  <2> QED BY <2>1, <2>2, FS_CardinalityType, TotalBoth
<1>1. Good({})
  <2>1. {} \cup (S \ T) = S \ T /\ Total(g, {}) = 0 /\ Total(g, S \ T) \in Nat
    BY <1>0, TotalNone
  <2> QED BY <2>1
<1>2. 0 \in N
  <2>1. ASSUME NEW U \in SUBSET T, Cardinality(U) <= 0 PROVE Good(U)
    <3>1. U = {}
      BY <1>0, <2>1, NoMembers
    <3> QED BY <1>1, <3>1
  <2> QED BY <2>1
<1>3. ASSUME NEW n \in Nat, n \in N PROVE n + 1 \in N
  <2>1. ASSUME NEW U \in SUBSET T, Cardinality(U) <= n + 1 PROVE Good(U)
    <3>1. CASE U = {}
      BY <1>1, <3>1
    <3>2. CASE U # {}
      <4>1. PICK y : y \in U
        BY <3>2
      <4> DEFINE V == U \ {y}
      <4>2. V \in SUBSET T /\ y \notin V /\ y \in S /\ U = V \cup {y}
        BY <4>1
      <4>3. Cardinality(V) <= n
        <5>1. Cardinality(V) = Cardinality(U) - 1
          BY <1>0, <4>1, FS_RemoveElement
        <5> QED BY <1>0, <2>1, <5>1
      <4> HIDE DEF V
      <4>4. Good(V)
        BY <1>3, <4>2, <4>3
      <4>5. U \cup (S \ T) = (V \cup (S \ T)) \cup {y}
            /\ V \cup (S \ T) \in SUBSET S /\ y \notin V \cup (S \ T) /\ V \in SUBSET S
        BY <4>1, <4>2
      <4>6. Total(g, (V \cup (S \ T)) \cup {y}) = Total(g, V \cup (S \ T)) + g[y]
        <5>1. IsFiniteSet(V \cup (S \ T)) /\ \A x \in (V \cup (S \ T)) \cup {y} : g[x] \in Nat
          BY <1>0, <4>2, <4>5
        <5> QED BY <4>5, <5>1, TotalMore
      <4>7. Total(g, V \cup {y}) = Total(g, V) + g[y]
        <5>1. IsFiniteSet(V) /\ \A x \in V \cup {y} : g[x] \in Nat
          BY <1>0, <4>2, <4>5
        <5> QED BY <4>2, <5>1, TotalMore
      <4>8. PICK a \in Nat, b \in Nat, c \in Nat :
              a = Total(g, V) /\ b = Total(g, S \ T) /\ c = g[y]
        BY <1>0, <4>2, <4>5
      <4>9. Total(g, U \cup (S \ T)) = (a + b) + c /\ Total(g, U) = a + c
        BY <4>2, <4>4, <4>5, <4>6, <4>7, <4>8
      <4> QED BY <4>8, <4>9
    <3> QED BY <3>1, <3>2
  <2> QED BY <2>1
<1> HIDE DEF N
<1>4. \A n \in Nat : n \in N
  BY <1>2, <1>3, NatSetInduction
<1>5. Cardinality(T) \in N /\ Cardinality(T) \in Nat
  BY <1>0, <1>4
<1>6. T \in SUBSET T /\ Cardinality(T) <= Cardinality(T)
  BY <1>5
<1>7. Good(T)
  <2> HIDE DEF Good
  <2> QED BY <1>5, <1>6 DEF N
<1>8. T \cup (S \ T) = S
  OBVIOUS
<1> QED BY <1>0, <1>7, <1>8

\* What came of one message, as a sum.
LEMMA ArrivedIs ==
  ASSUME NEW p, IsFiniteSet(DOMAIN p.pieces)
  PROVE  Arrived(p) = Total([i \in DOMAIN p.pieces |-> p.pieces[i].len], DOMAIN p.pieces)
<1> DEFINE D == DOMAIN p.pieces
           g == [i \in D |-> p.pieces[i].len]
           A(f) == [s \in SUBSET D |-> IF s = {} THEN 0
                      ELSE p.pieces[AnyOf(s)].len + f[s \ {AnyOf(s)}]]
           c == CHOOSE f : f = A(f)
<1>1. Arrived(p) = c[D]
  BY DEF Arrived, MapThenSumSet, MapThenFoldSet, AnyOf
<1>2. PICK f : Sums(g, D, f)
  BY SumsExist
<1>3. ASSUME NEW e PROVE Sums(g, D, e) <=> e = A(e)
  <2>1. ASSUME NEW s \in SUBSET D, s # {} PROVE g[AnyOf(s)] = p.pieces[AnyOf(s)].len
    <3>1. AnyOf(s) \in s
      BY <2>1 DEF AnyOf
    <3> QED BY <3>1
  <2> DEFINE B == [s \in SUBSET D |-> IF s = {} THEN 0
                      ELSE g[AnyOf(s)] + e[s \ {AnyOf(s)}]]
  <2>2. B = A(e)
    <3> HIDE DEF g
    <3> QED BY <2>1
  <2> QED BY <2>2 DEF Sums
<1>4. f = A(f)
  BY <1>2, <1>3
<1>5. c = A(c)
  <2> HIDE DEF A
  <2> QED BY <1>4
<1>6. Sums(g, D, c)
  BY <1>3, <1>5
<1> HIDE DEF c, g
<1>7. Total(g, D) = c[D]
  BY <1>6, TotalIs
<1> QED BY <1>1, <1>7 DEF g

-----------------------------------------------------------------------------
(* How a message is cut.                                                   *)

\* What the arithmetic is about: a name with its NUL, a payload, a datagram.
Lengths(name, len, short) ==
  name \in Nat \ {0} /\ len \in Nat /\ short \in Nat \ {0}

\* A fragment has room for a byte at least, and for no more than a datagram.
LEMMA FragmentMaxRange ==
  ASSUME NEW short \in Nat \ {0}
  PROVE  fragment_max(short) \in 1..short
BY LimitsAssumption DEF fragment_max

\* A message that is cut leaves room for its name in fragment zero, so that a
\* datagram is longer than what the header of a fragment is longer by.
LEMMA CutHasRoom ==
  ASSUME NEW name, NEW len, NEW short, Lengths(name, len, short),
         Encodes(name, len, short), ~IsWhole(name, len, short)
  PROVE  /\ fragment_max(short) \in Nat /\ fragment_max(short) = short - HEADER_GAP
         /\ First(name, short) \in 1..fragment_max(short) - 1
         /\ len > HEADER_GAP + First(name, short)
         /\ name < fragment_max(short)
BY LimitsAssumption DEF Lengths, Encodes, First, fragment_max, IsWhole

\* Where a fragment starts.
LEMMA StartIs ==
  ASSUME NEW name, NEW len, NEW short, Lengths(name, len, short),
         Encodes(name, len, short), ~IsWhole(name, len, short), NEW i \in Nat
  PROVE  /\ Start(name, short, i) \in Nat
         /\ Start(name, short, i + 1)
              = Start(name, short, i)
                  + (IF i = 0 THEN First(name, short) ELSE fragment_max(short))
<1> DEFINE f == fragment_max(short)
           g == First(name, short)
<1>1. f \in Nat /\ g \in Nat
  BY CutHasRoom
<1> HIDE DEF f, g
<1>2. ASSUME NEW k \in Nat PROVE k * f \in Nat /\ (k + 1) * f = k * f + f
  BY <1>1
<1>3. CASE i = 0
  <2>1. Start(name, short, 0) = 0 /\ Start(name, short, 1) = g + 0 * f
    BY DEF Start, f, g
  <2> QED BY <1>1, <1>3, <2>1 DEF g
<1>4. CASE i # 0
  <2>1. i - 1 \in Nat /\ i + 1 # 0 /\ (i + 1) - 1 = (i - 1) + 1
    BY <1>4
  <2>2. Start(name, short, i) = g + (i - 1) * f
    BY <1>4 DEF Start, f, g
  <2>3. Start(name, short, i + 1) = g + ((i - 1) + 1) * f
    BY <2>1 DEF Start, f, g
  <2>4. (i - 1) * f \in Nat /\ ((i - 1) + 1) * f = (i - 1) * f + f
    BY <1>2, <2>1
  <2> QED BY <1>1, <1>4, <2>2, <2>3, <2>4 DEF f
<1> QED BY <1>3, <1>4

\* A fragment takes no more of the payload than its share.
LEMMA ShareOfFragment ==
  ASSUME NEW name, NEW len, NEW short, Lengths(name, len, short),
         Encodes(name, len, short), ~IsWhole(name, len, short), NEW i \in Nat
  PROVE  End(name, len, short, i) - Start(name, short, i)
           <= IF i = 0 THEN First(name, short) ELSE fragment_max(short)
<1>1. First(name, short) \in Nat /\ fragment_max(short) \in Nat
  BY CutHasRoom
<1>2. Start(name, short, i) \in Nat /\ len \in Nat
  BY StartIs DEF Lengths
<1>3. PICK s \in Nat : s = Start(name, short, i)
  BY <1>2
<1>4. PICK share \in Nat : share = IF i = 0 THEN First(name, short) ELSE fragment_max(short)
  BY <1>1
<1>5. Start(name, short, i + 1) = s + share
  BY <1>3, <1>4, StartIs
<1>6. End(name, len, short, i) = IF s + share < len THEN s + share ELSE len
  BY <1>5 DEF End
<1> QED BY <1>2, <1>3, <1>4, <1>6

\* A message is cut into the fewest fragments that hold it and its name, so
\* that the last of them starts inside the payload and the next would not.
LEMMA CountIs ==
  ASSUME NEW name, NEW len, NEW short, Lengths(name, len, short),
         Encodes(name, len, short), ~IsWhole(name, len, short)
  PROVE  /\ Count(name, len, short) \in Nat \ {0, 1}
         /\ Start(name, short, Count(name, len, short) - 1) < len
         /\ Start(name, short, Count(name, len, short)) >= len
<1>1. PICK f \in Nat : f = fragment_max(short)
  BY CutHasRoom
<1>2. PICK g \in Nat : g = First(name, short)
  BY CutHasRoom
<1>3. g = f - name /\ g >= 1 /\ len > g /\ name \in Nat /\ len \in Nat /\ name < f
  BY <1>1, <1>2, CutHasRoom, LimitsAssumption DEF Lengths, First
<1>4. PICK c : c = (name + len + f - 1) \div f
  OBVIOUS
<1>5. c = Count(name, len, short)
  BY <1>1, <1>4 DEF Count
<1>6. c \in Int /\ c * f <= name + len + f - 1 /\ name + len + f - 1 < (c + 1) * f
  BY <1>3, <1>4
<1>7. name + len + f - 1 >= 2 * f
  BY <1>3
<1>8. c \in Nat /\ c >= 2
  BY <1>3, <1>6, <1>7
<1>9. (c - 1) * f = c * f - f /\ (c - 2) * f = c * f - 2 * f /\ (c + 1) * f = c * f + f
  BY <1>8
<1>10. Start(name, short, c) = g + (c - 1) * f /\ Start(name, short, c - 1) = g + (c - 2) * f
  <2>1. c # 0 /\ c - 1 # 0 /\ (c - 1) - 1 = c - 2
    BY <1>8
  <2> QED BY <1>1, <1>2, <2>1 DEF Start
<1>11. PICK cf \in Int : cf = c * f
  BY <1>6
<1>12. Start(name, short, c) = g + cf - f /\ Start(name, short, c - 1) = g + cf - 2 * f
  BY <1>9, <1>10, <1>11, <1>3
<1>13. cf <= name + len + f - 1 /\ name + len - 1 < cf
  BY <1>6, <1>9, <1>11, <1>3
<1> QED BY <1>3, <1>5, <1>8, <1>12, <1>13

\* k places from a on.
Run(a, k) == a..(a + k - 1)

\* b says what g adds up to over the first places from a on, n of them at most.
Adds(g, a, n, b) ==
  /\ b[0] = 0
  /\ \A j \in 0..n : b[j] \in Nat
  /\ \A j \in 0..n - 1 : g[a + j] \in Nat /\ b[j + 1] = b[j] + g[a + j]

\* Then that is what it adds up to.
LEMMA Telescope ==
  ASSUME NEW n \in Nat, NEW a \in Int, NEW g, NEW b, Adds(g, a, n, b)
  PROVE  \A k \in 0..n : Total(g, Run(a, k)) = b[k]
<1> DEFINE N == {k \in Nat : k <= n => Total(g, Run(a, k)) = b[k]}
<1>0. /\ b[0] = 0 /\ \A j \in 0..n : b[j] \in Nat
      /\ \A j \in 0..n - 1 : g[a + j] \in Nat /\ b[j + 1] = b[j] + g[a + j]
  BY DEF Adds
<1>1. 0 \in N
  <2>1. Run(a, 0) = {}
    BY DEF Run
  <2> QED BY <1>0, <2>1, TotalNone
<1>2. ASSUME NEW k \in Nat, k \in N PROVE k + 1 \in N
  <2>1. SUFFICES ASSUME k + 1 <= n PROVE Total(g, Run(a, k + 1)) = b[k + 1]
    OBVIOUS
  <2>2. PICK S : S = Run(a, k)
    OBVIOUS
  <2>3. Run(a, k + 1) = S \cup {a + k} /\ a + k \notin S
    BY <2>2 DEF Run
  <2>4. IsFiniteSet(S)
    BY <2>2, FS_Interval DEF Run
  <2>5. \A x \in S \cup {a + k} : g[x] \in Nat
    <3>1. ASSUME NEW x \in S \cup {a + k} PROVE g[x] \in Nat
      <4>1. x - a \in 0..n - 1 /\ a + (x - a) = x
        BY <2>1, <2>2 DEF Run
      <4> QED BY <1>0, <4>1
    <3> QED BY <3>1
  <2>6. PICK y : y = a + k
    OBVIOUS
  <2>7. Total(g, S \cup {y}) = Total(g, S) + g[y]
    <3>1. y \notin S /\ \A x \in S \cup {y} : g[x] \in Nat
      BY <2>3, <2>5, <2>6
    <3> QED BY <2>4, <3>1, TotalMore
  <2>8. Total(g, S) = b[k]
    BY <1>2, <2>1, <2>2
  <2>9. b[k + 1] = b[k] + g[a + k]
    BY <1>0, <2>1
  <2> QED BY <2>3, <2>6, <2>7, <2>8, <2>9
<1> HIDE DEF N
<1>3. \A k \in Nat : k \in N
  BY <1>1, <1>2, NatSetInduction
<1> QED BY <1>3 DEF N

\* A fragment starts inside the payload, behind the one before it.
LEMMA StartsRise ==
  ASSUME NEW name, NEW len, NEW short, Lengths(name, len, short),
         Encodes(name, len, short), ~IsWhole(name, len, short),
         NEW i \in Nat, NEW j \in Nat, i < j
  PROVE  Start(name, short, i) < Start(name, short, j)
<1> DEFINE N == {k \in Nat : Start(name, short, i) < Start(name, short, i + 1 + k)}
<1>1. ASSUME NEW k \in Nat
      PROVE  Start(name, short, k) < Start(name, short, k + 1)
  <2>1. First(name, short) \in Nat \ {0} /\ fragment_max(short) \in Nat \ {0}
    BY CutHasRoom
  <2>2. PICK share \in Nat \ {0} : share = IF k = 0 THEN First(name, short) ELSE fragment_max(short)
    BY <2>1
  <2>3. Start(name, short, k) \in Nat /\ Start(name, short, k + 1) = Start(name, short, k) + share
    BY <2>2, StartIs
  <2> QED BY <2>3
<1>2. ASSUME NEW k \in Nat PROVE Start(name, short, k) \in Nat
  BY StartIs
<1>3. 0 \in N
  <2>1. i + 1 + 0 = i + 1
    OBVIOUS
  <2> QED BY <1>1, <2>1
<1>4. ASSUME NEW k \in Nat, k \in N PROVE k + 1 \in N
  <2>1. PICK p \in Nat : p = i + 1 + k /\ i + 1 + (k + 1) = p + 1
    OBVIOUS
  <2>2. Start(name, short, i) < Start(name, short, p)
    BY <1>4, <2>1
  <2>3. Start(name, short, p) < Start(name, short, p + 1)
    BY <1>1
  <2>4. Start(name, short, i) \in Nat /\ Start(name, short, p) \in Nat /\ Start(name, short, p + 1) \in Nat
    BY <1>2
  <2>5. Start(name, short, i) < Start(name, short, p + 1)
    BY <2>2, <2>3, <2>4
  <2> QED BY <2>1, <2>5
<1> HIDE DEF N
<1>5. j - i - 1 \in N
  <2>1. j - i - 1 \in Nat
    OBVIOUS
  <2> QED BY <1>3, <1>4, <2>1, NatSetInduction
<1>6. i + 1 + (j - i - 1) = j
  OBVIOUS
<1> QED BY <1>5, <1>6 DEF N

\* The fragments of a message lie end to end: each holds a byte at least, the
\* first starts with the payload, each other where the one before it ends, and
\* the last ends with the payload.  There are no more of them than bytes.
THEOREM FragmentsTile ==
  ASSUME NEW name, NEW len, NEW short, Lengths(name, len, short),
         Encodes(name, len, short), ~IsWhole(name, len, short)
  PROVE  LET n == Count(name, len, short) IN
         /\ n \in 2..MAX_COUNT /\ n <= len
         /\ Start(name, short, 0) = 0
         /\ \A i \in 0..n - 1 :
              /\ Start(name, short, i) \in Nat /\ End(name, len, short, i) \in Nat
              /\ Start(name, short, i) < End(name, len, short, i)
              /\ End(name, len, short, i) = IF i = n - 1 THEN len ELSE Start(name, short, i + 1)
              /\ End(name, len, short, i) <= len
<1> DEFINE n == Count(name, len, short)
<1>1. n \in Nat \ {0, 1} /\ Start(name, short, n - 1) < len /\ Start(name, short, n) >= len
  BY CountIs
<1>2. len \in Nat
  BY DEF Lengths
<1>3. n <= MAX_COUNT
  BY DEF Encodes
<1> HIDE DEF n
<1>4. ASSUME NEW k \in Nat PROVE Start(name, short, k) \in Nat
  BY StartIs
<1>5. Start(name, short, 0) = 0
  BY DEF Start
<1>6. ASSUME NEW i \in 0..n - 1
      PROVE  /\ Start(name, short, i) \in Nat /\ End(name, len, short, i) \in Nat
             /\ Start(name, short, i) < End(name, len, short, i)
             /\ End(name, len, short, i) = IF i = n - 1 THEN len ELSE Start(name, short, i + 1)
             /\ End(name, len, short, i) <= len
  <2>1. i \in Nat /\ n - 1 \in Nat
    BY <1>1
  <2>2. PICK s \in Nat : s = Start(name, short, i)
    BY <1>4, <2>1
  <2>3. PICK t \in Nat : t = Start(name, short, i + 1)
    BY <1>4, <2>1
  <2>4. s < t
    BY <2>1, <2>2, <2>3, StartsRise
  <2>5. End(name, len, short, i) = IF t < len THEN t ELSE len
    BY <2>3 DEF End
  <2>6. CASE i = n - 1
    <3>1. t >= len /\ s < len
      BY <1>1, <2>2, <2>3, <2>6
    <3> QED BY <1>2, <2>2, <2>3, <2>5, <2>6, <3>1
  <2>7. CASE i # n - 1
    <3>1. t < len
      <4>1. CASE i + 1 = n - 1
        BY <1>1, <2>3, <4>1
      <4>2. CASE i + 1 # n - 1
        <5>1. i + 1 < n - 1
          BY <1>1, <2>1, <2>7, <4>2
        <5>2. t < Start(name, short, n - 1)
          BY <2>1, <2>3, <5>1, StartsRise
        <5>3. Start(name, short, n - 1) \in Nat
          BY <1>4, <2>1
        <5> QED BY <1>1, <1>2, <5>2, <5>3
      <4> QED BY <4>1, <4>2
    <3> QED BY <1>2, <2>2, <2>3, <2>4, <2>5, <2>7, <3>1
  <2> QED BY <2>6, <2>7
<1>7. n <= len
  <2> DEFINE N == {k \in Nat : k <= Start(name, short, k)}
  <2>1. 0 \in N
    BY <1>5
  <2>2. ASSUME NEW k \in Nat, k \in N PROVE k + 1 \in N
    <3>1. Start(name, short, k) < Start(name, short, k + 1)
      BY StartsRise
    <3> QED BY <1>4, <2>2, <3>1
  <2> HIDE DEF N
  <2>3. n - 1 \in Nat
    BY <1>1
  <2>4. n - 1 \in N
    BY <2>1, <2>2, <2>3, NatSetInduction
  <2>5. n - 1 <= Start(name, short, n - 1) /\ Start(name, short, n - 1) \in Nat
    BY <1>4, <2>3, <2>4 DEF N
  <2> QED BY <1>1, <1>2, <2>3, <2>5
<1>8. n \in 2..MAX_COUNT
  BY <1>1, <1>3, LimitsAssumption
<1> QED BY <1>5, <1>6, <1>7, <1>8 DEF n

-----------------------------------------------------------------------------
(* The messages of this crate and their datagrams.                         *)

Published == [by : Threads, nth : Nat, name : Names, len : Lens]

\* A message the encoder takes, and one it cuts.
Sendable(m) == m \in Published /\ Encoded(m)
Cut(m) == ~IsWhole(m.name, m.len, short_max)

\* The numbers of its datagrams.
Indexes(m) == 0..DatagramsOf(m) - 1

\* What the receiver has of a message when the fragments in S came.
Collected(m, S) ==
  [named |-> 0 \in S, total |-> m.len, count |-> DatagramsOf(m),
   pieces |-> [i \in S |-> Piece(Fragment(m, i))]]

\* What is given on when all of them came.
Given(m) ==
  [from |-> m.by[1], seq |-> m.nth % SEQ_SPAN,
   parts |-> IF Cut(m) THEN [i \in 1..DatagramsOf(m) |-> Piece(Fragment(m, i - 1))]
             ELSE <<[start |-> 0, len |-> m.len, of |-> m]>>]

\* A message has lengths the arithmetic is about.
LEMMA PublishedLengths ==
  ASSUME NEW m \in Published
  PROVE  Lengths(m.name, m.len, short_max) /\ m.name \in Nat \ {0} /\ m.len \in Nat
BY SizesAssumption DEF Published, Lengths

\* FragmentsTile, for a message.
LEMMA CutTiles ==
  ASSUME NEW m, Sendable(m), Cut(m)
  PROVE  /\ DatagramsOf(m) \in 2..MAX_COUNT /\ DatagramsOf(m) <= m.len
         /\ m.len \in Nat /\ m.len <= MAX_MESSAGE_LEN
         /\ \A i \in Indexes(m) :
              /\ Start(m.name, short_max, i) \in Nat
              /\ Fragment(m, i).offset = Start(m.name, short_max, i)
              /\ Fragment(m, i).len \in Nat \ {0}
              /\ Fragment(m, i).offset + Fragment(m, i).len
                   = IF i = DatagramsOf(m) - 1 THEN m.len
                     ELSE Start(m.name, short_max, i + 1)
              /\ Fragment(m, i).offset + Fragment(m, i).len <= m.len
<1> DEFINE name == m.name
           len == m.len
           n == Count(name, len, short_max)
<1>1. Lengths(name, len, short_max) /\ len \in Nat
  BY PublishedLengths DEF Sendable
<1>2. Encodes(name, len, short_max) /\ ~IsWhole(name, len, short_max)
  BY DEF Sendable, Encoded, Cut
<1>3. DatagramsOf(m) = n
  BY <1>2 DEF DatagramsOf, CountOf
<1>4. m.len <= MAX_MESSAGE_LEN
  BY <1>2 DEF Encodes
<1>5. ASSUME NEW i \in Indexes(m)
      PROVE  /\ Fragment(m, i).offset = Start(name, short_max, i)
             /\ Fragment(m, i).len = End(name, len, short_max, i) - Start(name, short_max, i)
  BY DEF Fragment
<1> HIDE DEF name, len, n
<1>6. /\ n \in 2..MAX_COUNT /\ n <= len
      /\ \A i \in 0..n - 1 :
           /\ Start(name, short_max, i) \in Nat /\ End(name, len, short_max, i) \in Nat
           /\ Start(name, short_max, i) < End(name, len, short_max, i)
           /\ End(name, len, short_max, i) = IF i = n - 1 THEN len ELSE Start(name, short_max, i + 1)
           /\ End(name, len, short_max, i) <= len
  BY <1>1, <1>2, FragmentsTile DEF n
<1>7. ASSUME NEW i \in Indexes(m)
      PROVE  /\ Start(m.name, short_max, i) \in Nat
             /\ Fragment(m, i).offset = Start(m.name, short_max, i)
             /\ Fragment(m, i).len \in Nat \ {0}
             /\ Fragment(m, i).offset + Fragment(m, i).len
                  = IF i = DatagramsOf(m) - 1 THEN m.len
                    ELSE Start(m.name, short_max, i + 1)
             /\ Fragment(m, i).offset + Fragment(m, i).len <= m.len
  <2>1. i \in 0..n - 1
    BY <1>3 DEF Indexes
  <2>2. PICK s \in Nat : s = Start(name, short_max, i)
    BY <1>6, <2>1
  <2>3. PICK e \in Nat : e = End(name, len, short_max, i)
    BY <1>6, <2>1
  <2>4. s < e /\ e <= len /\ e = IF i = n - 1 THEN len ELSE Start(name, short_max, i + 1)
    BY <1>6, <2>1, <2>2, <2>3
  <2>5. Fragment(m, i).offset = s /\ Fragment(m, i).len = e - s
    BY <1>5, <2>2, <2>3
  <2>6. Fragment(m, i).len \in Nat \ {0} /\ Fragment(m, i).offset + Fragment(m, i).len = e
    BY <2>2, <2>3, <2>4, <2>5
  <2> QED BY <1>3, <2>2, <2>4, <2>5, <2>6 DEF name, len
<1> QED BY <1>1, <1>3, <1>4, <1>6, <1>7 DEF len, name

\* The tests of `feed` that need no state let every fragment of ours through.
LEMMA OwnWellFormed ==
  ASSUME NEW m, Sendable(m), Cut(m), NEW i \in Indexes(m)
  PROVE  ~Malformed(Fragment(m, i))
<1>1. PICK f : f = Fragment(m, i)
  OBVIOUS
<1>2. f.total = m.len /\ f.index = i /\ f.count = DatagramsOf(m)
  BY <1>1 DEF Fragment
<1>3. PICK n : n = DatagramsOf(m)
  OBVIOUS
<1>4. n \in Nat /\ n # 0 /\ n <= m.len /\ m.len \in Nat /\ m.len <= MAX_MESSAGE_LEN
  BY <1>3, CutTiles
<1>5. f.offset + f.len \in Int /\ f.offset + f.len <= m.len
  <2>1. f.offset \in Nat /\ f.len \in Nat /\ f.offset + f.len <= m.len
    BY <1>1, CutTiles
  <2> QED BY <2>1
<1>6. i < n
  BY <1>3, <1>4 DEF Indexes
<1>7. Max({m.len, 1}) = m.len
  BY <1>4 DEF Max
<1>8. i \in Nat
  BY DEF Indexes
<1>9. f.total <= MAX_MESSAGE_LEN /\ ~(f.total > MAX_MESSAGE_LEN)
  BY <1>2, <1>4, LimitsAssumption
<1>10. f.count # 0 /\ ~(f.index >= f.count) /\ ~(f.count > Max({f.total, 1}))
  BY <1>2, <1>3, <1>4, <1>6, <1>7, <1>8
<1>11. ~(f.offset + f.len > f.total)
  BY <1>2, <1>4, <1>5
<1> QED BY <1>1, <1>9, <1>10, <1>11 DEF Malformed

\* No datagram of ours is longer than a short message of that length.
LEMMA OwnFits ==
  ASSUME NEW m, Sendable(m), NEW i \in Indexes(m)
  PROVE  LET d == Datagram(m, i) IN
         d.len + (IF d.whole THEN m.name
                  ELSE HEADER_GAP + (IF d.named THEN m.name ELSE 0)) <= short_max
<1>1. m.name \in Nat \ {0} /\ m.len \in Nat /\ short_max \in Nat
  BY PublishedLengths, SizesAssumption DEF Sendable
<1>2. CASE ~Cut(m)
  <2>1. Datagram(m, i) = Whole(m)
    BY <1>2 DEF Cut, Datagram
  <2>2. Whole(m).whole /\ Whole(m).len = m.len
    BY DEF Whole
  <2>3. m.len + m.name <= short_max
    BY <1>1, <1>2 DEF Cut, IsWhole
  <2> QED BY <2>1, <2>2, <2>3
<1>3. CASE Cut(m)
  <2>1. Datagram(m, i) = Fragment(m, i)
    BY <1>3 DEF Cut, Datagram
  <2>2. /\ ~Fragment(m, i).whole /\ Fragment(m, i).named = (i = 0)
        /\ Fragment(m, i).len = End(m.name, m.len, short_max, i) - Start(m.name, short_max, i)
    BY DEF Fragment
  <2>3. Lengths(m.name, m.len, short_max)
    BY PublishedLengths DEF Sendable
  <2>4. Encodes(m.name, m.len, short_max) /\ ~IsWhole(m.name, m.len, short_max)
    BY <1>3 DEF Sendable, Encoded, Cut
  <2>5. i \in Nat
    BY DEF Indexes
  <2>6. PICK g \in Int, f \in Int :
          /\ g = First(m.name, short_max) /\ f = fragment_max(short_max)
          /\ f = short_max - HEADER_GAP /\ g = f - m.name
    <3>1. /\ fragment_max(short_max) \in Nat
          /\ fragment_max(short_max) = short_max - HEADER_GAP
      BY <2>3, <2>4, CutHasRoom
    <3>2. First(m.name, short_max) = fragment_max(short_max) - m.name
      BY DEF First
    <3>3. First(m.name, short_max) \in Int /\ fragment_max(short_max) \in Int
      BY <1>1, <3>1, <3>2
    <3> QED BY <3>1, <3>2, <3>3
  <2>7. End(m.name, m.len, short_max, i) - Start(m.name, short_max, i) <= IF i = 0 THEN g ELSE f
    BY <2>3, <2>4, <2>5, <2>6, ShareOfFragment
  <2>8. PICK l : l = Fragment(m, i).len
    OBVIOUS
  <2>9. l \in Int /\ l <= IF i = 0 THEN g ELSE f
    BY <1>3, <2>2, <2>7, <2>8, CutTiles
  <2>10. l + (HEADER_GAP + (IF i = 0 THEN m.name ELSE 0)) <= short_max
    BY <1>1, <2>6, <2>9, LimitsAssumption
  <2> QED BY <2>1, <2>2, <2>8, <2>10
<1> QED BY <1>2, <1>3

-----------------------------------------------------------------------------
(* What the receiver puts together.                                        *)

\* How far the first parts of a message reach, as a sum.
LEMMA ReachIs ==
  ASSUME NEW parts, NEW n \in Int
  PROVE  Reach(parts, n) = Total([j \in 1..n |-> parts[j].len], 1..n)
<1> DEFINE D == 1..n
           g == [j \in D |-> parts[j].len]
           A(f) == [s \in SUBSET D |-> IF s = {} THEN 0
                      ELSE parts[AnyOf(s)].len + f[s \ {AnyOf(s)}]]
           c == CHOOSE f : f = A(f)
<1>0. IsFiniteSet(D)
  BY FS_Interval
<1>1. Reach(parts, n) = c[D]
  BY DEF Reach, MapThenSumSet, MapThenFoldSet, AnyOf
<1>2. PICK f : Sums(g, D, f)
  BY <1>0, SumsExist
<1>3. ASSUME NEW e PROVE Sums(g, D, e) <=> e = A(e)
  <2>1. ASSUME NEW s \in SUBSET D, s # {} PROVE g[AnyOf(s)] = parts[AnyOf(s)].len
    <3>1. AnyOf(s) \in s
      BY <2>1 DEF AnyOf
    <3> QED BY <3>1
  <2> DEFINE B == [s \in SUBSET D |-> IF s = {} THEN 0
                      ELSE g[AnyOf(s)] + e[s \ {AnyOf(s)}]]
  <2>2. B = A(e)
    <3> HIDE DEF g, D
    <3> QED BY <2>1
  <2> QED BY <2>2 DEF Sums
<1>4. f = A(f)
  BY <1>2, <1>3
<1>5. c = A(c)
  <2> HIDE DEF A
  <2> QED BY <1>4
<1>6. Sums(g, D, c)
  BY <1>3, <1>5
<1> HIDE DEF c, g
<1>7. Total(g, D) = c[D]
  BY <1>0, <1>6, TotalIs
<1> QED BY <1>1, <1>7 DEF g, D

\* The fragments that came of a message, and what they add up to.
LEMMA CollectedAll ==
  ASSUME NEW m, Sendable(m), Cut(m)
  PROVE  /\ Arrived(Collected(m, Indexes(m))) = m.len
         /\ \A S \in SUBSET Indexes(m) : Arrived(Collected(m, S)) <= m.len
         /\ \A S \in SUBSET Indexes(m) : \A i \in Indexes(m) \ S :
              Arrived(Collected(m, S)) + Fragment(m, i).len <= m.len
<1> DEFINE n == DatagramsOf(m)
           D == Indexes(m)
           g == [i \in D |-> Fragment(m, i).len]
           b == [k \in 0..n |-> IF k = n THEN m.len ELSE Start(m.name, short_max, k)]
<1>1. n \in Nat \ {0} /\ m.len \in Nat /\ D = 0..n - 1 /\ D = Run(0, n)
  BY CutTiles DEF Indexes, Run
<1>2. IsFiniteSet(D)
  BY <1>1, FS_Interval
<1>3. ASSUME NEW i \in D
      PROVE  /\ g[i] \in Nat /\ g[i] = Fragment(m, i).len
             /\ Start(m.name, short_max, i) \in Nat
             /\ Start(m.name, short_max, i) + g[i]
                  = IF i = n - 1 THEN m.len ELSE Start(m.name, short_max, i + 1)
  <2>1. /\ Start(m.name, short_max, i) \in Nat
        /\ Fragment(m, i).offset = Start(m.name, short_max, i)
        /\ Fragment(m, i).len \in Nat
        /\ Fragment(m, i).offset + Fragment(m, i).len
             = IF i = n - 1 THEN m.len ELSE Start(m.name, short_max, i + 1)
    BY CutTiles
  <2>2. g[i] = Fragment(m, i).len
    OBVIOUS
  <2> QED BY <2>1, <2>2
<1>4. ASSUME NEW S \in SUBSET D
      PROVE  IsFiniteSet(S) /\ Arrived(Collected(m, S)) = Total(g, S)
  <2>1. IsFiniteSet(S)
    BY <1>2, FS_Subset
  <2> DEFINE p == Collected(m, S)
             h == [i \in DOMAIN p.pieces |-> p.pieces[i].len]
  <2>2. DOMAIN p.pieces = S /\ \A i \in S : p.pieces[i].len = Fragment(m, i).len
    BY DEF Collected, Piece
  <2>3. \A i \in S : h[i] = g[i]
    BY <2>2
  <2> HIDE DEF p
  <2>4. Arrived(p) = Total(h, S)
    BY <2>1, <2>2, ArrivedIs
  <2> HIDE DEF h, g
  <2>5. Total(h, S) = Total(g, S)
    BY <2>1, <2>3, TotalAgree
  <2> QED BY <2>1, <2>4, <2>5 DEF p
<1>5. Start(m.name, short_max, 0) = 0
  BY DEF Start
<1>6. b[0] = 0
  BY <1>1, <1>5
<1>7. \A j \in 0..n : b[j] \in Nat
  BY <1>1, <1>3
<1>8. ASSUME NEW j \in 0..n - 1 PROVE g[0 + j] \in Nat /\ b[j + 1] = b[j] + g[0 + j]
  <2>1. j \in D /\ j \in 0..n /\ j + 1 \in 0..n /\ j # n /\ 0 + j = j
    BY <1>1
  <2>2. b[j] = Start(m.name, short_max, j)
    BY <2>1
  <2>3. b[j + 1] = IF j = n - 1 THEN m.len ELSE Start(m.name, short_max, j + 1)
    BY <1>1, <2>1
  <2> QED BY <1>3, <2>1, <2>2, <2>3
<1>9. b[n] = m.len
  BY <1>1
<1> HIDE DEF b, g
<1>10. \A k \in 0..n : Total(g, Run(0, k)) = b[k]
  <2>1. n \in Nat /\ 0 \in Int
    BY <1>1
  <2>2. Adds(g, 0, n, b)
    BY <1>6, <1>7, <1>8 DEF Adds
  <2> HIDE DEF n, D
  <2> QED BY <2>1, <2>2, Telescope
<1>11. Total(g, D) = m.len
  <2>1. n \in 0..n
    BY <1>1
  <2> QED BY <1>1, <1>9, <1>10, <2>1
<1> HIDE DEF n, D
<1>12. ASSUME NEW S \in SUBSET D PROVE Total(g, S) <= m.len
  <2>1. \A x \in D : g[x] \in Nat
    BY <1>3
  <2>2. Total(g, S) <= Total(g, D)
    BY <1>2, <2>1, TotalPart
  <2> QED BY <1>11, <2>2
<1>13. ASSUME NEW S \in SUBSET D, NEW i \in D \ S
       PROVE  Arrived(Collected(m, S)) + Fragment(m, i).len <= m.len
  <2>1. S \cup {i} \in SUBSET D
    OBVIOUS
  <2>2. \A x \in S \cup {i} : g[x] \in Nat
    BY <1>3
  <2>3. IsFiniteSet(S) /\ i \notin S
    BY <1>4
  <2>4. Total(g, S \cup {i}) = Total(g, S) + g[i]
    BY <2>2, <2>3, TotalMore
  <2>5. Total(g, S \cup {i}) <= m.len
    BY <1>12, <2>1
  <2> QED BY <1>3, <1>4, <2>4, <2>5
<1>14. D \in SUBSET D
  OBVIOUS
<1> QED BY <1>4, <1>11, <1>12, <1>13, <1>14 DEF D

\* An order of places that rises is the one there is.
LEMMA RisingOrder ==
  ASSUME NEW n \in Nat, NEW order \in [1..n -> 0..n - 1],
         \A i, j \in 1..n : i < j => order[i] < order[j]
  PROVE  \A i \in 1..n : order[i] = i - 1
<1> DEFINE U == {k \in Nat : k + 1 <= n => order[k + 1] >= k}
           V == {k \in Nat : k < n => order[n - k] <= n - 1 - k}
<1>0. \A i \in 1..n : order[i] \in Nat /\ order[i] <= n - 1
  OBVIOUS
<1>1. 0 \in U
  BY <1>0
<1>2. ASSUME NEW k \in Nat, k \in U PROVE k + 1 \in U
  <2>1. SUFFICES ASSUME k + 1 + 1 <= n PROVE order[k + 1 + 1] >= k + 1
    OBVIOUS
  <2>2. k + 1 \in 1..n /\ k + 1 + 1 \in 1..n /\ k + 1 < k + 1 + 1
    BY <2>1
  <2>3. order[k + 1] < order[k + 1 + 1] /\ order[k + 1] >= k
    BY <1>2, <2>1, <2>2
  <2> QED BY <1>0, <2>2, <2>3
<1>3. 0 \in V
  BY <1>0
<1>4. ASSUME NEW k \in Nat, k \in V PROVE k + 1 \in V
  <2>1. SUFFICES ASSUME k + 1 < n PROVE order[n - (k + 1)] <= n - 1 - (k + 1)
    OBVIOUS
  <2>2. n - k \in 1..n /\ n - (k + 1) \in 1..n /\ n - (k + 1) < n - k /\ k < n
    BY <2>1
  <2>3. order[n - (k + 1)] < order[n - k] /\ order[n - k] <= n - 1 - k
    BY <1>4, <2>2
  <2> QED BY <1>0, <2>2, <2>3
<1> HIDE DEF U, V
<1>5. \A k \in Nat : k \in U
  BY <1>1, <1>2, NatSetInduction
<1>6. \A k \in Nat : k \in V
  BY <1>3, <1>4, NatSetInduction
<1>7. ASSUME NEW i \in 1..n PROVE order[i] = i - 1
  <2>1. i - 1 \in Nat /\ n - i \in Nat /\ (i - 1) + 1 = i /\ n - (n - i) = i
    OBVIOUS
  <2>2. order[i] >= i - 1
    <3>1. i - 1 \in U
      BY <1>5, <2>1
    <3> QED BY <2>1, <3>1 DEF U
  <2>3. order[i] <= i - 1
    <3>1. n - i \in V
      BY <1>6, <2>1
    <3>2. n - 1 - (n - i) = i - 1 /\ n - i < n
      OBVIOUS
    <3> QED BY <2>1, <3>1, <3>2 DEF V
  <2> QED BY <1>0, <2>2, <2>3
<1> QED BY <1>7

\* How far the parts of a message that was given on reach.
LEMMA GivenReach ==
  ASSUME NEW m, Sendable(m), Cut(m), NEW k \in 0..DatagramsOf(m)
  PROVE  Reach(Given(m).parts, k)
           = IF k = DatagramsOf(m) THEN m.len ELSE Start(m.name, short_max, k)
<1> DEFINE n == DatagramsOf(m)
           parts == Given(m).parts
           g == [j \in 1..n |-> parts[j].len]
           h == [j \in 1..k |-> parts[j].len]
           b == [j \in 0..n |-> IF j = n THEN m.len ELSE Start(m.name, short_max, j)]
<1>1. n \in Nat \ {0} /\ m.len \in Nat /\ k \in 0..n /\ k \in Nat
  BY CutTiles
<1>2. /\ DOMAIN parts = 1..n
      /\ \A j \in 1..n : parts[j] = Piece(Fragment(m, j - 1))
  BY DEF Given
<1>3. ASSUME NEW j \in 0..n - 1
      PROVE  /\ g[1 + j] = Fragment(m, j).len
             /\ Fragment(m, j).len \in Nat
             /\ Start(m.name, short_max, j) \in Nat
             /\ Start(m.name, short_max, j) + Fragment(m, j).len
                  = IF j = n - 1 THEN m.len ELSE Start(m.name, short_max, j + 1)
  <2>1. j \in Indexes(m)
    BY DEF Indexes
  <2>2. 1 + j \in 1..n /\ (1 + j) - 1 = j
    BY <1>1
  <2>3. parts[1 + j] = Piece(Fragment(m, j))
    BY <1>2, <2>2
  <2>4. g[1 + j] = Fragment(m, j).len
    BY <2>2, <2>3 DEF Piece
  <2>5. /\ Start(m.name, short_max, j) \in Nat
        /\ Fragment(m, j).offset = Start(m.name, short_max, j)
        /\ Fragment(m, j).len \in Nat
        /\ Fragment(m, j).offset + Fragment(m, j).len
             = IF j = n - 1 THEN m.len ELSE Start(m.name, short_max, j + 1)
    BY <2>1, CutTiles
  <2> QED BY <2>4, <2>5
<1>4. b[0] = 0
  <2>1. Start(m.name, short_max, 0) = 0
    BY DEF Start
  <2> QED BY <1>1, <2>1
<1>5. ASSUME NEW j \in 0..n PROVE b[j] \in Nat
  <2>1. b[j] = IF j = n THEN m.len ELSE Start(m.name, short_max, j)
    OBVIOUS
  <2>2. j # n => j \in 0..n - 1
    BY <1>1
  <2>3. j # n => Start(m.name, short_max, j) \in Nat
    BY <1>3, <2>2
  <2> QED BY <1>1, <2>1, <2>3
<1>6. ASSUME NEW j \in 0..n - 1 PROVE g[1 + j] \in Nat /\ b[j + 1] = b[j] + g[1 + j]
  <2>1. j \in 0..n /\ j + 1 \in 0..n /\ j # n
    BY <1>1
  <2>2. b[j] = Start(m.name, short_max, j)
    BY <2>1
  <2>3. b[j + 1] = IF j = n - 1 THEN m.len ELSE Start(m.name, short_max, j + 1)
    BY <1>1, <2>1
  <2> QED BY <1>3, <2>2, <2>3
<1>7. b[k] = IF k = n THEN m.len ELSE Start(m.name, short_max, k)
  BY <1>1
<1>8. \A j \in 1..k : h[j] = g[j]
  BY <1>1
<1> HIDE DEF b, g
<1>9. Total(g, Run(1, k)) = b[k]
  <2>1. n \in Nat /\ 1 \in Int
    BY <1>1
  <2>2. Adds(g, 1, n, b)
    BY <1>4, <1>5, <1>6 DEF Adds
  <2> HIDE DEF n
  <2> QED BY <1>1, <2>1, <2>2, Telescope
<1>10. Run(1, k) = 1..k
  BY <1>1 DEF Run
<1>11. Reach(parts, k) = Total(h, 1..k)
  <2> HIDE DEF parts
  <2> QED BY <1>1, ReachIs
<1>12. Total(h, 1..k) = Total(g, 1..k)
  <2>1. IsFiniteSet(1..k)
    BY <1>1, FS_Interval
  <2> HIDE DEF h
  <2> QED BY <1>8, <2>1, TotalAgree
<1> QED BY <1>7, <1>9, <1>10, <1>11, <1>12

\* The pieces of a whole message come in one order.
LEMMA OwnOrder ==
  ASSUME NEW m, Sendable(m), Cut(m), NEW order \in Orders(Collected(m, Indexes(m)))
  PROVE  /\ Len(order) = DatagramsOf(m)
         /\ \A i \in 1..DatagramsOf(m) : order[i] = i - 1
<1> DEFINE n == DatagramsOf(m)
           p == Collected(m, Indexes(m))
<1>1. n \in Nat /\ Indexes(m) = 0..n - 1
  BY CutTiles DEF Indexes
<1>2. /\ DOMAIN p.pieces = Indexes(m)
      /\ \A i \in Indexes(m) : p.pieces[i].start = Fragment(m, i).offset
  BY DEF Collected, Piece
<1>3. Cardinality(0..n - 1) = n
  <2>1. Cardinality(0..n - 1) = IF 0 > n - 1 THEN 0 ELSE (n - 1) - 0 + 1
    BY <1>1, FS_Interval
  <2> QED BY <1>1, <2>1
<1> HIDE DEF p
<1>4. /\ order \in [1..n -> 0..n - 1]
      /\ \A i, j \in 1..n : i # j => order[i] # order[j]
      /\ \A i, j \in 1..Len(order) :
           i < j => p.pieces[order[i]].start <= p.pieces[order[j]].start
  <2>1. order \in Orders(p)
    BY DEF p
  <2> HIDE DEF n
  <2> QED BY <1>1, <1>2, <1>3, <2>1 DEF Orders, SetToSeqs
<1>5. Len(order) = n
  <2>1. DOMAIN order = 1..n /\ order \in Seq(0..n - 1)
    BY <1>1, <1>4
  <2> QED BY <1>1, <2>1, LenIs
<1>6. ASSUME NEW i \in 1..n, NEW j \in 1..n, i < j PROVE order[i] < order[j]
  <2>1. PICK x \in 0..n - 1 : x = order[i]
    BY <1>4
  <2>2. PICK y \in 0..n - 1 : y = order[j]
    BY <1>4
  <2>3. x # y
    BY <1>4, <1>6, <2>1, <2>2
  <2>4. p.pieces[x].start <= p.pieces[y].start
    BY <1>4, <1>5, <1>6, <2>1, <2>2
  <2>5. Start(m.name, short_max, x) <= Start(m.name, short_max, y)
    <3>1. x \in Indexes(m) /\ y \in Indexes(m)
      BY <1>1
    <3>2. Fragment(m, x).offset = Start(m.name, short_max, x)
      BY <3>1, CutTiles
    <3>3. Fragment(m, y).offset = Start(m.name, short_max, y)
      BY <3>1, CutTiles
    <3> QED BY <1>2, <2>4, <3>1, <3>2, <3>3
  <2>6. /\ Lengths(m.name, m.len, short_max) /\ Encodes(m.name, m.len, short_max)
        /\ ~IsWhole(m.name, m.len, short_max)
    BY PublishedLengths DEF Sendable, Encoded, Cut
  <2>7. x \in Nat /\ y \in Nat
    BY <2>1, <2>2
  <2>8. y < x => Start(m.name, short_max, y) < Start(m.name, short_max, x)
    BY <2>6, <2>7, StartsRise
  <2>9. Start(m.name, short_max, x) \in Nat /\ Start(m.name, short_max, y) \in Nat
    BY <2>6, <2>7, StartIs
  <2> QED BY <2>1, <2>2, <2>3, <2>5, <2>7, <2>8, <2>9
<1> HIDE DEF n
<1>7. \A i \in 1..n : order[i] = i - 1
  BY <1>1, <1>4, <1>6, RisingOrder
<1> QED BY <1>5, <1>7 DEF n

\* So what is given on when the last fragment came is the message.
LEMMA OwnWhole ==
  ASSUME NEW m, Sendable(m), Cut(m), NEW order \in Orders(Collected(m, Indexes(m))),
         NEW i
  PROVE  LET p == Collected(m, Indexes(m)) IN
         /\ Covers(p, order) /\ p.named
         /\ Message(Fragment(m, i), p, order) = Given(m)
<1> DEFINE n == DatagramsOf(m)
           p == Collected(m, Indexes(m))
           parts == Given(m).parts
<1>1. Len(order) = n /\ \A j \in 1..n : order[j] = j - 1
  BY OwnOrder
<1>2. n \in Nat \ {0} /\ Indexes(m) = 0..n - 1 /\ m.len \in Nat
  BY CutTiles DEF Indexes
<1>3. parts = [j \in 1..n |-> Piece(Fragment(m, j - 1))]
  BY DEF Given
<1>4. ASSUME NEW j \in 1..n PROVE p.pieces[order[j]] = Piece(Fragment(m, j - 1))
  <2>1. order[j] = j - 1 /\ j - 1 \in Indexes(m)
    BY <1>1, <1>2
  <2> QED BY <2>1 DEF Collected
<1>5. Parts(p, order) = parts
  <2> HIDE DEF p, n, parts
  <2> QED BY <1>1, <1>3, <1>4 DEF Parts
<1>6. p.named /\ p.total = m.len
  <2>1. 0 \in Indexes(m)
    BY <1>2
  <2>2. p.named = (0 \in Indexes(m)) /\ p.total = m.len
    BY DEF Collected
  <2> QED BY <2>1, <2>2
<1>7. Arrived(p) = m.len
  BY CollectedAll
<1>8. ASSUME NEW j \in 1..n PROVE p.pieces[order[j]].start = Reach(parts, j - 1)
  <2>1. j - 1 \in Indexes(m) /\ j - 1 \in 0..n /\ j - 1 # n
    BY <1>2
  <2>2. Reach(parts, j - 1) = Start(m.name, short_max, j - 1)
    BY <2>1, GivenReach
  <2>3. Fragment(m, j - 1).offset = Start(m.name, short_max, j - 1)
    BY <2>1, CutTiles
  <2>4. Piece(Fragment(m, j - 1)).start = Fragment(m, j - 1).offset
    BY DEF Piece
  <2> QED BY <1>4, <2>2, <2>3, <2>4
<1>9. Message(Fragment(m, i), p, order) = Given(m)
  <2>1. Fragment(m, i).from = m.by[1] /\ Fragment(m, i).seq = m.nth % SEQ_SPAN
    BY DEF Fragment
  <2>2. Given(m) = [from |-> m.by[1], seq |-> m.nth % SEQ_SPAN, parts |-> parts]
    BY DEF Given
  <2> HIDE DEF p, parts
  <2> QED BY <1>5, <2>1, <2>2 DEF Message
<1> HIDE DEF p, parts, n
<1>10. Covers(p, order)
  BY <1>1, <1>5, <1>6, <1>7, <1>8 DEF Covers
<1> QED BY <1>6, <1>9, <1>10 DEF p

\* And the message as it was published.
LEMMA GivenAsPublished ==
  ASSUME NEW m, Sendable(m)
  PROVE  /\ Stitched(Given(m)) /\ AsPublished(Given(m))
         /\ Given(m).from = m.by[1] /\ Given(m).parts[1].of = m
<1>1. m.len \in Nat /\ Given(m).from = m.by[1] /\ Given(m).seq = m.nth % SEQ_SPAN
  BY PublishedLengths DEF Sendable, Given
<1> DEFINE parts == Given(m).parts
<1>2. CASE Cut(m)
  <2> DEFINE n == DatagramsOf(m)
  <2>1. n \in Nat \ {0}
    BY <1>2, CutTiles
  <2>2. parts = [j \in 1..n |-> Piece(Fragment(m, j - 1))]
    BY <1>2 DEF Given
  <2>3. Len(parts) = n
    <3>1. DOMAIN parts = 1..n /\ parts \in Seq({parts[j] : j \in 1..n})
      BY <2>1, <2>2
    <3> HIDE DEF parts, n
    <3> QED BY <2>1, <3>1, LenIs
  <2>4. ASSUME NEW j \in 1..n
        PROVE  parts[j].of = m /\ parts[j].start = Reach(parts, j - 1)
    <3>1. j - 1 \in Indexes(m) /\ j - 1 \in 0..n /\ j - 1 # n
      BY <2>1 DEF Indexes
    <3>2. parts[j] = Piece(Fragment(m, j - 1))
      BY <2>2
    <3>3. Reach(parts, j - 1) = Start(m.name, short_max, j - 1)
      BY <1>2, <3>1, GivenReach
    <3>4. Fragment(m, j - 1).offset = Start(m.name, short_max, j - 1)
      BY <1>2, <3>1, CutTiles
    <3>5. Piece(Fragment(m, j - 1)).start = Fragment(m, j - 1).offset
          /\ Piece(Fragment(m, j - 1)).of = m
      BY DEF Piece, Fragment
    <3> QED BY <3>2, <3>3, <3>4, <3>5
  <2>5. Reach(parts, n) = m.len
    <3>1. n \in 0..n
      BY <2>1
    <3> QED BY <1>2, <3>1, GivenReach
  <2>6. 1 \in 1..n
    BY <2>1
  <2>7. parts[1].of = m
    BY <2>4, <2>6
  <2>8. Stitched(Given(m))
    <3> HIDE DEF n
    <3> QED BY <2>3, <2>4 DEF Stitched
  <2>9. AsPublished(Given(m))
    <3> HIDE DEF n
    <3> QED BY <1>1, <2>3, <2>4, <2>5, <2>7 DEF AsPublished
  <2> QED BY <1>1, <2>7, <2>8, <2>9
<1>3. CASE ~Cut(m)
  <2>1. parts = <<[start |-> 0, len |-> m.len, of |-> m]>>
    BY <1>3 DEF Given
  <2>2. Len(parts) = 1 /\ parts[1].start = 0 /\ parts[1].len = m.len /\ parts[1].of = m
    BY <2>1
  <2> HIDE DEF parts
  <2>3. Reach(parts, 0) = 0
    <3>1. 1..0 = {}
      OBVIOUS
    <3>2. PICK k \in Int : k = 0
      OBVIOUS
    <3>3. Reach(parts, k) = Total([j \in 1..k |-> parts[j].len], 1..k)
      BY ReachIs
    <3>4. 1..k = {}
      BY <3>2
    <3>5. Total([j \in 1..k |-> parts[j].len], {}) = 0
      BY TotalNone
    <3> QED BY <3>2, <3>3, <3>4, <3>5
  <2>4. Reach(parts, 1) = m.len
    <3>0. PICK k \in Int : k = 1
      OBVIOUS
    <3> DEFINE g == [j \in 1..k |-> parts[j].len]
    <3>1. Reach(parts, k) = Total(g, 1..k)
      BY ReachIs
    <3>2. g[1] = m.len
      BY <2>2, <3>0
    <3> HIDE DEF g
    <3>3. \A x \in {} \cup {1} : g[x] \in Nat
      BY <1>1, <3>2
    <3>4. Total(g, {} \cup {1}) = Total(g, {}) + g[1]
      BY <3>3, FS_EmptySet, TotalMore
    <3>5. {} \cup {1} = 1..1
      OBVIOUS
    <3> QED BY <1>1, <3>0, <3>1, <3>2, <3>4, <3>5, TotalNone
  <2>5. Stitched(Given(m))
    <3>1. \A i \in 1..Len(parts) : parts[i].start = Reach(parts, i - 1)
      BY <2>2, <2>3
    <3> QED BY <3>1 DEF Stitched, parts
  <2>6. AsPublished(Given(m))
    <3>1. /\ m.by[1] = Given(m).from /\ m.nth % SEQ_SPAN = Given(m).seq
          /\ \A i \in 1..Len(parts) : parts[i].of = m
          /\ Reach(parts, Len(parts)) = m.len
      BY <1>1, <2>2, <2>4
    <3> QED BY <2>2, <3>1 DEF AsPublished, parts
  <2> QED BY <1>1, <2>2, <2>5, <2>6 DEF parts
<1> QED BY <1>2, <1>3

-----------------------------------------------------------------------------
(* Bags.                                                                   *)

\* A bag with one more of x.
LEMMA BagWith ==
  ASSUME NEW b, IsABag(b), NEW x
  PROVE  LET a == b (+) SetToBag({x}) IN
         /\ IsABag(a) /\ DOMAIN a = DOMAIN b \cup {x}
         /\ \A y : Copies(y, a) = Copies(y, b) + (IF y = x THEN 1 ELSE 0)
         /\ \A y : Copies(y, b) \in Nat
<1> DEFINE a == b (+) SetToBag({x})
<1>1. a = [e \in DOMAIN b \cup {x} |-> (IF e \in DOMAIN b THEN b[e] ELSE 0)
                                         + (IF e \in {x} THEN 1 ELSE 0)]
  BY DEF (+), SetToBag
<1>2. \A e \in DOMAIN b : b[e] \in Nat /\ b[e] > 0
  BY DEF IsABag
<1> HIDE DEF a
<1>3. DOMAIN a = DOMAIN b \cup {x}
  BY <1>1
<1>4. \A e \in DOMAIN a : a[e] = (IF e \in DOMAIN b THEN b[e] ELSE 0)
                                   + (IF e = x THEN 1 ELSE 0)
  BY <1>1
<1>5. \A e \in DOMAIN a : a[e] \in Nat /\ a[e] > 0
  BY <1>2, <1>3, <1>4
<1>6. IsABag(a)
  <2>1. a = [e \in DOMAIN a |-> a[e]]
    BY <1>1
  <2> QED BY <1>5, <2>1 DEF IsABag
<1>7. \A y : Copies(y, b) \in Nat
  BY <1>2 DEF Copies, BagIn, BagToSet
<1>8. ASSUME NEW y PROVE Copies(y, a) = Copies(y, b) + (IF y = x THEN 1 ELSE 0)
  <2>1. CASE y \in DOMAIN a
    BY <1>2, <1>3, <1>4, <2>1 DEF Copies, BagIn, BagToSet
  <2>2. CASE y \notin DOMAIN a
    BY <1>3, <2>2 DEF Copies, BagIn, BagToSet
  <2> QED BY <2>1, <2>2
<1> QED BY <1>3, <1>6, <1>7, <1>8 DEF a

\* A bag with one less of x.
LEMMA BagWithout ==
  ASSUME NEW b, IsABag(b), NEW x
  PROVE  LET a == b (-) SetToBag({x}) IN
         IsABag(a) /\ DOMAIN a \subseteq DOMAIN b
<1> DEFINE a == b (-) SetToBag({x})
           c == [e \in DOMAIN b |-> IF e \in DOMAIN SetToBag({x})
                                    THEN b[e] - SetToBag({x})[e] ELSE b[e]]
<1>1. a = [e \in {d \in DOMAIN c : c[d] > 0} |-> c[e]]
  BY DEF (-)
<1>2. \A e \in DOMAIN b : b[e] \in Nat
  BY DEF IsABag
<1>3. \A e \in DOMAIN c : c[e] \in Int
  BY <1>2 DEF SetToBag
<1> HIDE DEF c, a
<1>4. DOMAIN a \subseteq DOMAIN c /\ \A e \in DOMAIN a : a[e] = c[e] /\ c[e] > 0
  BY <1>1
<1>5. \A e \in DOMAIN a : a[e] \in Nat /\ a[e] > 0
  BY <1>3, <1>4
<1>6. IsABag(a)
  <2>1. a = [e \in DOMAIN a |-> a[e]]
    BY <1>1
  <2> QED BY <1>5, <2>1 DEF IsABag
<1>7. DOMAIN c = DOMAIN b
  BY DEF c
<1> QED BY <1>4, <1>6, <1>7 DEF a

-----------------------------------------------------------------------------
(* What is on its way.                                                     *)

OwnDatagram(d) == \E m : Sendable(m) /\ \E i \in Indexes(m) : d = Datagram(m, i)

\* Whatever a thread sends, the network holds or the receiver got was cut from
\* a message the encoder takes, or comes from another program.
SendInv ==
  /\ sequence \in [Clients -> Nat]
  /\ DOMAIN job = Threads
  /\ \A t \in Threads : job[t] # NoJob =>
       /\ job[t] \in [of : Published, index : Nat]
       /\ job[t].of.by = t /\ Sendable(job[t].of) /\ job[t].index \in Indexes(job[t].of)
  /\ IsABag(net) /\ \A d \in DOMAIN net : OwnDatagram(d)
  /\ IsABag(came) /\ \A d \in DOMAIN came : OwnDatagram(d) \/ d \in Strays

\* The messages of this crate that something came of, and with them those that
\* are sent or on their way.
Came == {d.of : d \in {x \in DOMAIN came : x.from \in Clients}}
Seen == {job[t].of : t \in {u \in Threads : job[u] # NoJob}}
          \cup {d.of : d \in DOMAIN net} \cup Came

\* A client gives no two of its messages one number.
NumbersOnce ==
  /\ \A m \in Seen : m.nth < sequence[m.by[1]]
  /\ \A m, n \in Seen : m.by[1] = n.by[1] /\ m.nth = n.nth => m = n

\* A datagram of ours says whose it is.
LEMMA OwnIs ==
  ASSUME NEW m, Sendable(m), NEW i \in Indexes(m)
  PROVE  /\ Datagram(m, i).of = m /\ Datagram(m, i).from = m.by[1]
         /\ m.by[1] \in Clients
         /\ Datagram(m, i).seq = m.nth % SEQ_SPAN
         /\ Datagram(m, i) \notin Strays
<1>1. m.by \in Clients \X Workers
  BY DEF Sendable, Published, Threads
<1>2. m.by[1] \in Clients
  BY <1>1
<1>3. CASE Cut(m)
  <2>1. Datagram(m, i) = Fragment(m, i)
    BY <1>3 DEF Datagram, Cut
  <2>2. /\ Fragment(m, i).of = m /\ Fragment(m, i).from = m.by[1]
        /\ Fragment(m, i).seq = m.nth % SEQ_SPAN
    BY DEF Fragment
  <2> QED BY <1>2, <2>1, <2>2, StraysAssumption
<1>4. CASE ~Cut(m)
  <2>1. Datagram(m, i) = Whole(m)
    BY <1>4 DEF Datagram, Cut
  <2>2. /\ Whole(m).of = m /\ Whole(m).from = m.by[1]
        /\ Whole(m).seq = m.nth % SEQ_SPAN
    BY DEF Whole
  <2> QED BY <1>2, <2>1, <2>2, StraysAssumption
<1> QED BY <1>3, <1>4

\* What is seen was published.
LEMMA SeenAre ==
  ASSUME SendInv, NEW m \in Seen
  PROVE  Sendable(m) /\ m \in Published /\ m.by \in Threads /\ m.by[1] \in Clients /\ m.nth \in Nat
<1>1. Sendable(m)
  <2>1. CASE \E t \in Threads : job[t] # NoJob /\ m = job[t].of
    BY <2>1 DEF SendInv
  <2>2. CASE \E d \in DOMAIN net : m = d.of
    BY <2>2, OwnIs DEF SendInv, OwnDatagram
  <2>3. CASE \E d \in DOMAIN came : d.from \in Clients /\ m = d.of
    BY <2>3, OwnIs, StraysAssumption DEF SendInv, OwnDatagram
  <2> QED BY <2>1, <2>2, <2>3 DEF Seen, Came
<1>2. m \in Published /\ m.by \in Threads /\ m.nth \in Nat
  BY <1>1 DEF Sendable, Published
<1>3. m.by[1] \in Clients
  BY <1>2 DEF Threads
<1> QED BY <1>1, <1>2, <1>3

\* Nothing is on its way at first.
LEMMA SendInit == Init => SendInv /\ NumbersOnce
<1> SUFFICES ASSUME Init PROVE SendInv /\ NumbersOnce
  OBVIOUS
<1> USE DEF Init
<1>1. DOMAIN net = {} /\ DOMAIN came = {} /\ IsABag(net) /\ IsABag(came)
  BY DEF EmptyBag, SetToBag, IsABag
<1>2. \A t \in Threads : job[t] = NoJob
  OBVIOUS
<1>3. SendInv
  BY <1>1, <1>2 DEF SendInv
<1>4. Seen = {}
  BY <1>1, <1>2 DEF Seen, Came
<1>5. NumbersOnce
  BY <1>4 DEF NumbersOnce
<1> QED BY <1>3, <1>5

\* A message more, under the next number, and with it perhaps a job.
LEMMA PublishKeeps ==
  ASSUME SendInv, NumbersOnce, NEW t \in Threads, Publish(t)
  PROVE  SendInv' /\ NumbersOnce'
<1>1. PICK m \in Messages(t, sequence[t[1]]) :
        /\ job[t] = NoJob
        /\ sequence' = [sequence EXCEPT ![t[1]] = @ + 1]
        /\ job' = IF Encoded(m) THEN [job EXCEPT ![t] = [of |-> m, index |-> 0]] ELSE job
        /\ UNCHANGED <<net, came>>
  BY DEF Publish, receiverRest
<1>2. PICK c \in Clients : c = t[1]
  BY DEF Threads
<1>3. sequence \in [Clients -> Nat] /\ DOMAIN job = Threads
  BY DEF SendInv
<1>4. /\ sequence' \in [Clients -> Nat] /\ sequence'[c] = sequence[c] + 1
      /\ \A e \in Clients : sequence'[e] >= sequence[e]
  BY <1>1, <1>2, <1>3
<1>5. m.by = t /\ m.nth = sequence[c] /\ m \in Published /\ m.by[1] = c
  <2>1. m \in [by : {t}, nth : {sequence[t[1]]}, name : Names, len : Lens]
    BY DEF Messages
  <2>2. sequence[c] \in Nat
    BY <1>3
  <2> QED BY <1>2, <2>1, <2>2 DEF Published
<1>6. Encoded(m) => Sendable(m) /\ 0 \in Indexes(m)
  <2>1. ASSUME Encoded(m) PROVE Sendable(m) /\ 0 \in Indexes(m)
    <3>1. Sendable(m)
      BY <1>5, <2>1 DEF Sendable
    <3>2. CASE Cut(m)
      <4>1. DatagramsOf(m) \in Nat \ {0}
        BY <3>1, <3>2, CutTiles
      <4> QED BY <3>1, <4>1 DEF Indexes
    <3>3. CASE ~Cut(m)
      <4>1. DatagramsOf(m) = 1
        BY <3>3 DEF Cut, DatagramsOf, CountOf
      <4> QED BY <3>1, <4>1 DEF Indexes
    <3> QED BY <3>2, <3>3
  <2> QED BY <2>1
<1>7. /\ DOMAIN job' = Threads
      /\ \A u \in Threads : job'[u] = IF u = t /\ Encoded(m) THEN [of |-> m, index |-> 0] ELSE job[u]
  BY <1>1, <1>3
<1>8. SendInv'
  <2>1. ASSUME NEW u \in Threads, job'[u] # NoJob
        PROVE  /\ job'[u] \in [of : Published, index : Nat]
               /\ job'[u].of.by = u /\ Sendable(job'[u].of) /\ job'[u].index \in Indexes(job'[u].of)
    <3>1. CASE u = t /\ Encoded(m)
      <4>1. job'[u] = [of |-> m, index |-> 0]
        BY <1>7, <3>1
      <4>2. job'[u].of = m /\ job'[u].index = 0
        BY <4>1
      <4>3. job'[u] \in [of : Published, index : Nat]
        BY <1>5, <4>1
      <4> QED BY <1>5, <1>6, <3>1, <4>2, <4>3
    <3>2. CASE ~(u = t /\ Encoded(m))
      <4>1. job'[u] = job[u]
        BY <1>7, <3>2
      <4> QED BY <2>1, <4>1 DEF SendInv
    <3> QED BY <3>1, <3>2
  <2>2. net' = net /\ came' = came
    BY <1>1
  <2> QED BY <1>4, <1>7, <2>1, <2>2 DEF SendInv
<1>9. Seen' \subseteq Seen \cup {m}
  <2>1. ASSUME NEW u \in Threads, job'[u] # NoJob PROVE job'[u].of \in Seen \cup {m}
    <3>1. CASE u = t /\ Encoded(m)
      <4>1. job'[u].of = m
        BY <1>7, <3>1
      <4> QED BY <4>1
    <3>2. CASE ~(u = t /\ Encoded(m))
      BY <1>7, <2>1, <3>2 DEF Seen
    <3> QED BY <3>1, <3>2
  <2>2. net' = net /\ came' = came
    BY <1>1
  <2>3. Came' = Came
    BY <2>2 DEF Came
  <2> QED BY <2>1, <2>2, <2>3 DEF Seen
<1>10. ASSUME NEW n \in Seen
       PROVE  /\ n.nth < sequence'[n.by[1]] /\ n.nth \in Nat
              /\ (n.by[1] = c => n.nth # sequence[c])
  <2>1. n.by[1] \in Clients /\ n.nth \in Nat
    BY SeenAre
  <2>2. n.nth < sequence[n.by[1]]
    BY DEF NumbersOnce
  <2>3. sequence[n.by[1]] \in Nat /\ sequence'[n.by[1]] \in Nat
        /\ sequence'[n.by[1]] >= sequence[n.by[1]]
    BY <1>3, <1>4, <2>1
  <2> QED BY <2>1, <2>2, <2>3
<1>11. ASSUME NEW n \in Seen' PROVE n.nth < sequence'[n.by[1]]
  <2>1. CASE n \in Seen
    BY <1>10, <2>1
  <2>2. CASE n = m
    BY <1>3, <1>4, <1>5, <2>2
  <2> QED BY <1>9, <2>1, <2>2
<1>12. ASSUME NEW n \in Seen', NEW o \in Seen', n.by[1] = o.by[1], n.nth = o.nth
       PROVE  n = o
  <2>1. CASE n \in Seen /\ o \in Seen
    BY <1>12, <2>1 DEF NumbersOnce
  <2>2. CASE n = m /\ o = m
    BY <2>2
  <2>3. CASE n = m /\ o \in Seen
    BY <1>5, <1>10, <1>12, <2>3
  <2>4. CASE n \in Seen /\ o = m
    BY <1>5, <1>10, <1>12, <2>4
  <2> QED BY <1>9, <2>1, <2>2, <2>3, <2>4
<1>13. NumbersOnce'
  BY <1>11, <1>12 DEF NumbersOnce
<1> QED BY <1>8, <1>13

\* A step after which nothing is seen that was not.
LEMMA SeenShrinks ==
  ASSUME NumbersOnce, UNCHANGED sequence, Seen' \subseteq Seen
  PROVE  NumbersOnce'
BY DEF NumbersOnce

\* One datagram of the message a thread is at, or no more of it.
LEMMA SendKeeps ==
  ASSUME SendInv, NumbersOnce, NEW t \in Threads, Send(t)
  PROVE  SendInv' /\ NumbersOnce'
<1> DEFINE m == job[t].of
           i == job[t].index
<1>1. /\ job[t] # NoJob /\ sequence' = sequence /\ came' = came
      /\ \/ /\ net' = net (+) SetToBag({Datagram(m, i)})
            /\ job' = [job EXCEPT ![t] = IF @.index + 1 = DatagramsOf(@.of) THEN NoJob
                                         ELSE [of |-> @.of, index |-> @.index + 1]]
         \/ job' = [job EXCEPT ![t] = NoJob] /\ net' = net
  BY DEF Send, receiverRest
<1>2. /\ job[t] \in [of : Published, index : Nat]
      /\ m.by = t /\ Sendable(m) /\ i \in Indexes(m) /\ DOMAIN job = Threads
  BY <1>1 DEF SendInv
<1>3. m \in Seen
  BY <1>1 DEF Seen
<1>4. IsABag(net') /\ DOMAIN net' \subseteq DOMAIN net \cup {Datagram(m, i)}
  <2>1. IsABag(net)
    BY DEF SendInv
  <2> HIDE DEF m, i
  <2>2. CASE net' = net (+) SetToBag({Datagram(m, i)})
    BY <2>1, <2>2, BagWith
  <2> QED BY <1>1, <2>1, <2>2
<1>5. /\ DOMAIN job' = Threads
      /\ \A u \in Threads : u # t => job'[u] = job[u]
      /\ job'[t] # NoJob => /\ job'[t] \in [of : Published, index : Nat]
                            /\ job'[t].of = m /\ job'[t].index \in Indexes(m)
  <2>1. CASE job' = [job EXCEPT ![t] = NoJob]
    BY <1>2, <2>1
  <2>2. CASE job' = [job EXCEPT ![t] = IF @.index + 1 = DatagramsOf(@.of) THEN NoJob
                                       ELSE [of |-> @.of, index |-> @.index + 1]]
    <3>1. /\ DOMAIN job' = Threads
          /\ \A u \in Threads : u # t => job'[u] = job[u]
      BY <1>2, <2>2
    <3>2. job'[t] = IF i + 1 = DatagramsOf(m) THEN NoJob ELSE [of |-> m, index |-> i + 1]
      <4>1. PICK next : next = IF job[t].index + 1 = DatagramsOf(job[t].of) THEN NoJob
                               ELSE [of |-> job[t].of, index |-> job[t].index + 1]
        OBVIOUS
      <4>2. job' = [job EXCEPT ![t] = next]
        BY <2>2, <4>1
      <4>3. job'[t] = next
        BY <1>2, <4>2
      <4> QED BY <4>1, <4>3
    <3>3. ASSUME job'[t] # NoJob
          PROVE  /\ job'[t] \in [of : Published, index : Nat]
                 /\ job'[t].of = m /\ job'[t].index \in Indexes(m)
      <4>1. i + 1 # DatagramsOf(m) /\ job'[t] = [of |-> m, index |-> i + 1]
        BY <3>2, <3>3
      <4>2. /\ job'[t].of = m /\ job'[t].index = i + 1
            /\ job'[t] \in [of : Published, index : Nat]
        BY <1>2, <4>1
      <4>3. DatagramsOf(m) \in Nat
        <5>1. CASE Cut(m)
          BY <1>2, <5>1, CutTiles
        <5>2. CASE ~Cut(m)
          BY <5>2 DEF Cut, DatagramsOf, CountOf
        <5> QED BY <5>1, <5>2
      <4>4. i + 1 \in Indexes(m)
        <5>1. i \in 0..DatagramsOf(m) - 1
          BY <1>2 DEF Indexes
        <5> HIDE DEF i, m
        <5> QED BY <4>1, <4>3, <5>1 DEF Indexes
      <4> QED BY <4>2, <4>4
    <3> QED BY <3>1, <3>3
  <2> QED BY <1>1, <2>1, <2>2
<1>6. SendInv'
  <2>1. ASSUME NEW d \in DOMAIN net' PROVE OwnDatagram(d)
    <3>1. CASE d \in DOMAIN net
      BY <3>1 DEF SendInv
    <3>2. CASE d = Datagram(m, i)
      BY <1>2, <3>2 DEF OwnDatagram
    <3> QED BY <1>4, <3>1, <3>2
  <2>2. ASSUME NEW u \in Threads, job'[u] # NoJob
        PROVE  /\ job'[u] \in [of : Published, index : Nat]
               /\ job'[u].of.by = u /\ Sendable(job'[u].of) /\ job'[u].index \in Indexes(job'[u].of)
    <3>1. CASE u = t
      BY <1>2, <1>5, <2>2, <3>1
    <3>2. CASE u # t
      BY <1>5, <2>2, <3>2 DEF SendInv
    <3> QED BY <3>1, <3>2
  <2>3. /\ sequence' \in [Clients -> Nat] /\ IsABag(came')
        /\ \A d \in DOMAIN came' : OwnDatagram(d) \/ d \in Strays
    BY <1>1 DEF SendInv
  <2> QED BY <1>4, <1>5, <2>1, <2>2, <2>3 DEF SendInv
<1>7. Seen' \subseteq Seen
  <2>1. ASSUME NEW d \in DOMAIN net' PROVE d.of \in Seen
    <3>1. CASE d \in DOMAIN net
      BY <3>1 DEF Seen
    <3>2. CASE d = Datagram(m, i)
      BY <1>2, <1>3, <3>2, OwnIs
    <3> QED BY <1>4, <3>1, <3>2
  <2>2. ASSUME NEW u \in Threads, job'[u] # NoJob PROVE job'[u].of \in Seen
    <3>1. CASE u = t
      BY <1>3, <1>5, <2>2, <3>1
    <3>2. CASE u # t
      BY <1>5, <2>2, <3>2 DEF Seen
    <3> QED BY <3>1, <3>2
  <2>3. Came' = Came
    BY <1>1 DEF Came
  <2>4. Came \subseteq Seen
    BY DEF Seen
  <2> QED BY <2>1, <2>2, <2>3, <2>4 DEF Seen
<1> QED BY <1>1, <1>6, <1>7, SeenShrinks

\* A datagram reaches the receiver: from the network, which may keep a copy, or
\* from another program.
Arrives(d) ==
  /\ d \in DOMAIN net \/ d \in Strays
  /\ came' = came (+) SetToBag({d})
  /\ net' = net \/ net' = net (-) SetToBag({d})
  /\ UNCHANGED sendVars

\* An arrival puts nothing new on its way.
LEMMA ArrivesKeeps ==
  ASSUME SendInv, NumbersOnce, NEW d, Arrives(d)
  PROVE  SendInv' /\ NumbersOnce' /\ IsABag(came) /\ DOMAIN came' = DOMAIN came \cup {d}
<1>1. sequence' = sequence /\ job' = job
  BY DEF Arrives, sendVars
<1>2. IsABag(net) /\ IsABag(came)
  BY DEF SendInv
<1>3. IsABag(came') /\ DOMAIN came' = DOMAIN came \cup {d}
  BY <1>2, BagWith DEF Arrives
<1>4. IsABag(net') /\ DOMAIN net' \subseteq DOMAIN net
  <2>1. CASE net' = net
    BY <1>2, <2>1
  <2>2. CASE net' = net (-) SetToBag({d})
    BY <1>2, <2>2, BagWithout
  <2> QED BY <2>1, <2>2 DEF Arrives
<1>5. OwnDatagram(d) \/ d \in Strays
  BY DEF Arrives, SendInv
<1>6. SendInv'
  <2>1. \A e \in DOMAIN net' : OwnDatagram(e)
    BY <1>4 DEF SendInv
  <2>2. \A e \in DOMAIN came' : OwnDatagram(e) \/ e \in Strays
    BY <1>3, <1>5 DEF SendInv
  <2> QED BY <1>1, <1>3, <1>4, <2>1, <2>2 DEF SendInv
<1>7. Seen' \subseteq Seen
  <2>1. ASSUME NEW e \in DOMAIN came', e.from \in Clients PROVE e.of \in Seen
    <3>1. CASE e \in DOMAIN came
      BY <2>1, <3>1 DEF Seen, Came
    <3>2. CASE e = d
      <4>1. d \in DOMAIN net
        BY <2>1, <3>2, StraysAssumption DEF Arrives
      <4> QED BY <3>2, <4>1 DEF Seen
    <3> QED BY <1>3, <3>1, <3>2
  <2>2. Came' \subseteq Seen
    BY <2>1 DEF Came
  <2> QED BY <1>1, <1>4, <2>2 DEF Seen
<1> QED BY <1>1, <1>2, <1>3, <1>6, <1>7, SeenShrinks

\* Each action of the receiver is an arrival.
LEMMA ReceiverArrives ==
  ASSUME NEW d, \/ d \in Strays /\ Stray(d)
                \/ d \in BagToSet(net) /\ (Repeat(d) \/ Receive(d))
  PROVE  Arrives(d) /\ on_datagram(d)
<1>1. on_datagram(d) /\ UNCHANGED sendVars /\ (net' = net \/ net' = net (-) SetToBag({d}))
  BY DEF Stray, Repeat, Receive
<1>2. came' = came (+) SetToBag({d})
  BY <1>1 DEF on_datagram
<1>3. d \in DOMAIN net \/ d \in Strays
  BY DEF BagToSet
<1> QED BY <1>1, <1>2, <1>3 DEF Arrives

\* What is on its way was cut from a message the encoder takes, and each of the
\* messages has a number of its own: the publishers of a client share one counter.
THEOREM SendCorrect == Spec => [](SendInv /\ NumbersOnce)
<1>1. ASSUME SendInv, NumbersOnce, [Next]_vars PROVE SendInv' /\ NumbersOnce'
  <2>1. CASE UNCHANGED vars
    <3>1. sequence' = sequence /\ job' = job /\ net' = net /\ came' = came
      BY <2>1 DEF vars, sendVars
    <3>2. SendInv'
      BY <1>1, <3>1 DEF SendInv
    <3>3. Seen' = Seen
      BY <3>1 DEF Seen, Came
    <3> QED BY <1>1, <3>1, <3>2, <3>3 DEF NumbersOnce
  <2>2. CASE \E t \in Threads : Publish(t)
    BY <1>1, <2>2, PublishKeeps
  <2>3. CASE \E t \in Threads : Send(t)
    BY <1>1, <2>3, SendKeeps
  <2>4. CASE (\E d \in Strays : Stray(d)) \/ (\E d \in BagToSet(net) : Repeat(d) \/ Receive(d))
    <3>1. PICK d : \/ d \in Strays /\ Stray(d)
                   \/ d \in BagToSet(net) /\ (Repeat(d) \/ Receive(d))
      BY <2>4
    <3>2. Arrives(d)
      BY <3>1, ReceiverArrives
    <3> QED BY <1>1, <3>2, ArrivesKeeps
  <2> QED BY <1>1, <2>1, <2>2, <2>3, <2>4 DEF Next
<1> QED BY <1>1, SendInit, PTL DEF Spec

\* Whatever the lengths of the names, the payloads and the datagrams, nothing
\* goes out that is longer than a short message of that length.
THEOREM FitsDatagramHolds == Spec => []FitsDatagram
<1>1. SendInv => FitsDatagram
  <2>1. ASSUME SendInv, NEW d \in DOMAIN net
        PROVE  d.len + (IF d.whole THEN d.of.name
                        ELSE HEADER_GAP + (IF d.named THEN d.of.name ELSE 0)) <= short_max
    <3>1. PICK m : Sendable(m) /\ \E i \in Indexes(m) : d = Datagram(m, i)
      BY <2>1 DEF SendInv, OwnDatagram
    <3>2. PICK i \in Indexes(m) : d = Datagram(m, i)
      BY <3>1
    <3>3. d.of = m
      BY <3>1, <3>2, OwnIs
    <3>4. d.len + (IF d.whole THEN m.name
                   ELSE HEADER_GAP + (IF d.named THEN m.name ELSE 0)) <= short_max
      BY <3>1, <3>2, OwnFits
    <3> QED BY <3>3, <3>4
  <2> QED BY <2>1 DEF FitsDatagram, BagToSet
<1> QED BY <1>1, SendCorrect, PTL

-----------------------------------------------------------------------------
(* What the receiver holds and gave on.                                    *)

\* No client has come round to a number it gave before: 2^32 messages last it.
NumbersLast == \A c \in Clients : sequence[c] <= SEQ_SPAN

\* What is held under every key has the shape of an entry.
IsEntry(p) ==
  DOMAIN p = {"named", "total", "count", "pieces"} /\ IsFiniteSet(DOMAIN p.pieces)
EntriesHold == \A k \in DOMAIN partial : IsEntry(partial[k])

KeyOf(m) == <<m.by[1], m.nth % SEQ_SPAN>>

\* Under a key of ours is one message, with some of its fragments and never all.
OwnEntries ==
  \A k \in DOMAIN partial : k[1] \in Clients =>
    \E m \in Came : \E S \in SUBSET Indexes(m) :
      /\ Cut(m) /\ k = KeyOf(m) /\ S # Indexes(m)
      /\ partial[k] = Collected(m, S)

\* Whatever was given on has no hole, and is a message if it is ours.
OwnGiven ==
  /\ IsABag(delivered)
  /\ \A x \in DOMAIN delivered :
       Stitched(x) /\ (x.from \in Clients => \E m \in Came : x = Given(m))

\* The receiver has fragment i of m and waits for others.
HasPiece(m, i) ==
  Cut(m) /\ KeyOf(m) \in DOMAIN partial /\ i \in DOMAIN partial[KeyOf(m)].pieces

\* Each copy given on, and the one that is put together, took every datagram
\* of the message once.
Counted ==
  \A m \in Came : \A i \in Indexes(m) :
    Copies(Given(m), delivered) + (IF HasPiece(m, i) THEN 1 ELSE 0)
      <= Copies(Datagram(m, i), came)

\* A message that was not evicted is given on, or all that came of it is held.
KeptOrGiven ==
  \A m \in Came :
    \/ KeyOf(m) \in dropped
    \/ Given(m) \in DOMAIN delivered
    \/ \A i \in Indexes(m) : Datagram(m, i) \in DOMAIN came => HasPiece(m, i)

ReceiveInv == EntriesHold /\ OwnEntries /\ OwnGiven /\ Counted /\ KeptOrGiven

\* While the numbers last, a key is one message's.
LEMMA KeyIsOne ==
  ASSUME SendInv, NumbersOnce, NumbersLast, NEW m \in Seen, NEW n \in Seen,
         KeyOf(m) = KeyOf(n)
  PROVE  m = n
<1>1. \A o \in Seen : o.by[1] \in Clients /\ o.nth \in Nat /\ o.nth < SEQ_SPAN
  <2>1. ASSUME NEW o \in Seen PROVE o.by[1] \in Clients /\ o.nth \in Nat /\ o.nth < SEQ_SPAN
    <3>1. o.by[1] \in Clients /\ o.nth \in Nat
      BY SeenAre
    <3>2. o.nth < sequence[o.by[1]]
      BY DEF NumbersOnce
    <3>3. sequence[o.by[1]] \in Nat /\ sequence[o.by[1]] <= SEQ_SPAN
      BY <3>1 DEF NumbersLast, SendInv
    <3> QED BY <3>1, <3>2, <3>3, SizesAssumption
  <2> QED BY <2>1
<1>2. \A a \in Nat : a < SEQ_SPAN => a % SEQ_SPAN = a
  BY SizesAssumption
<1>3. m.by[1] = n.by[1] /\ m.nth % SEQ_SPAN = n.nth % SEQ_SPAN
  BY DEF KeyOf
<1>4. m.nth = n.nth
  BY <1>1, <1>2, <1>3
<1> QED BY <1>3, <1>4 DEF NumbersOnce

\* The table after a fragment under key k: every other key has what it had, or
\* was evicted.
OthersStay(k) ==
  /\ \A j \in DOMAIN partial' : j # k => j \in DOMAIN partial /\ partial'[j] = partial[j]
  /\ \A j \in DOMAIN partial : j # k => j \in DOMAIN partial' \/ j \in dropped'
  /\ dropped \subseteq dropped'

\* A fragment that is let in.
LEMMA UpdateIs ==
  ASSUME NEW f, NEW entry, NEW stays \in BOOLEAN, Update(f, entry, stays)
  PROVE  /\ OthersStay(Key(f))
         /\ stays => Key(f) \in DOMAIN partial' /\ partial'[Key(f)] = entry
         /\ ~stays => Key(f) \notin DOMAIN partial'
<1> DEFINE key == Key(f)
           out == Oldest(MakeSpace(key, f.len), key)
           left == DOMAIN partial \ out
           kept == IF stays THEN left \cup {key} ELSE left \ {key}
<1>1. /\ partial' = [k \in kept |-> IF k = key THEN entry ELSE partial[k]]
      /\ dropped' = dropped \cup out
  BY DEF Update
<1> HIDE DEF key, out
<1>2. DOMAIN partial' = kept
  BY <1>1
<1>3. \A k \in kept : partial'[k] = IF k = key THEN entry ELSE partial[k]
  BY <1>1
<1>4. OthersStay(key)
  BY <1>1, <1>2, <1>3 DEF OthersStay
<1> QED BY <1>2, <1>3, <1>4 DEF key

\* A disagreement.
LEMMA ForgetIs ==
  ASSUME NEW f, Forget(f)
  PROVE  OthersStay(Key(f)) /\ Key(f) \notin DOMAIN partial'
BY DEF Forget, OthersStay

\* A step that leaves the table alone.
LEMMA NothingChanges ==
  ASSUME NEW k, UNCHANGED holdVars
  PROVE  OthersStay(k) /\ partial' = partial /\ dropped' = dropped
BY DEF holdVars, OthersStay

\* The entry a fragment of ours belongs to.
LEMMA OwnEntryIs ==
  ASSUME NEW m, Sendable(m), Cut(m), NEW i \in Indexes(m), NEW S \in SUBSET Indexes(m),
         IF KeyOf(m) \in DOMAIN partial THEN partial[KeyOf(m)] = Collected(m, S) ELSE S = {}
  PROVE  LET f == Fragment(m, i) IN
         /\ Key(f) = KeyOf(m)
         /\ Entry(f).pieces = Collected(m, S).pieces
         /\ Fresh(f) <=> i \notin S
         /\ ~Overflows(f) \/ ~Fresh(f)
         /\ ~Disagrees(f)
         /\ (IF Fresh(f) THEN WithPiece(f) ELSE Entry(f)) = Collected(m, S \cup {i})
<1> DEFINE f == Fragment(m, i)
           k == KeyOf(m)
           g == [j \in S |-> Piece(Fragment(m, j))]
           n == DatagramsOf(m)
<1>1. /\ f.from = m.by[1] /\ f.seq = m.nth % SEQ_SPAN /\ f.total = m.len
      /\ f.index = i /\ f.count = n /\ f.named = (i = 0)
  BY DEF Fragment
<1>2. Key(f) = k
  BY <1>1 DEF Key, KeyOf
<1> HIDE DEF f, k
<1>3. PICK E : E = Entry(f)
  OBVIOUS
<1>4. E = [named |-> 0 \in S \/ i = 0, total |-> m.len, count |-> n, pieces |-> g]
  <2>1. CASE k \in DOMAIN partial
    <3>1. partial[k] = [named |-> 0 \in S, total |-> m.len, count |-> n, pieces |-> g]
      BY <2>1 DEF Collected, k
    <3>2. PICK found : found = partial[k]
      OBVIOUS
    <3>3. E = [found EXCEPT !.named = @ \/ f.named]
      BY <1>2, <1>3, <2>1, <3>2 DEF Entry
    <3> HIDE DEF g, n
    <3>4. found = [named |-> 0 \in S, total |-> m.len, count |-> n, pieces |-> g]
      BY <3>1, <3>2
    <3>5. found.named = (0 \in S)
      BY <3>4
    <3>6. E = [named |-> found.named \/ f.named, total |-> m.len, count |-> n, pieces |-> g]
      BY <3>3, <3>4
    <3>7. (found.named \/ f.named) = (0 \in S \/ i = 0)
      BY <1>1, <3>5
    <3> QED BY <3>6, <3>7
  <2>2. CASE k \notin DOMAIN partial
    <3>1. S = {}
      BY <2>2 DEF k
    <3>2. g = << >>
      BY <3>1
    <3>3. PICK found : found = [named |-> FALSE, total |-> m.len, count |-> n, pieces |-> g]
      OBVIOUS
    <3>4. E = [found EXCEPT !.named = @ \/ f.named]
      BY <1>1, <1>2, <1>3, <2>2, <3>2, <3>3 DEF Entry
    <3> HIDE DEF g, n
    <3>5. E = [named |-> FALSE \/ f.named, total |-> m.len, count |-> n, pieces |-> g]
      BY <3>3, <3>4
    <3>6. (FALSE \/ f.named) = (0 \in S \/ i = 0)
      BY <1>1, <3>1
    <3> QED BY <3>5, <3>6
  <2> QED BY <2>1, <2>2
<1>5. E.pieces = g /\ DOMAIN E.pieces = S /\ E.pieces = Collected(m, S).pieces
  BY <1>4 DEF Collected
<1>6. Fresh(f) <=> i \notin S
  BY <1>1, <1>3, <1>5 DEF Fresh
<1>7. ~Overflows(f) \/ ~Fresh(f)
  <2>1. ASSUME i \notin S PROVE ~Overflows(f)
    <3>2. Arrived(Collected(m, S)) + f.len <= m.len
      BY <2>1, CollectedAll DEF f
    <3> HIDE DEF g, n
    <3>3. IsFiniteSet(S)
      <4>1. IsFiniteSet(Indexes(m))
        <5>1. DatagramsOf(m) \in Nat
          BY CutTiles
        <5>2. DatagramsOf(m) - 1 \in Int /\ 0 \in Int
          BY <5>1
        <5> QED BY <5>2, FS_Interval DEF Indexes
      <4> QED BY <4>1, FS_Subset
    <3>1. Arrived(E) = Arrived(Collected(m, S))
      <4> DEFINE P == Collected(m, S)
      <4>1. E.pieces = P.pieces /\ IsFiniteSet(DOMAIN E.pieces) /\ IsFiniteSet(DOMAIN P.pieces)
        BY <1>5, <3>3
      <4> HIDE DEF P
      <4>2. Arrived(E) = Total([j \in DOMAIN E.pieces |-> E.pieces[j].len], DOMAIN E.pieces)
        BY <4>1, ArrivedIs
      <4>3. Arrived(P) = Total([j \in DOMAIN P.pieces |-> P.pieces[j].len], DOMAIN P.pieces)
        BY <4>1, ArrivedIs
      <4> QED BY <4>1, <4>2, <4>3 DEF P
    <3>4. \A j \in S : Fragment(m, j).len \in Nat
      BY CutTiles
    <3>5. Arrived(Collected(m, S)) \in Nat
      <4> DEFINE p == Collected(m, S)
                 h == [j \in DOMAIN p.pieces |-> p.pieces[j].len]
      <4>1. DOMAIN p.pieces = S /\ \A j \in S : p.pieces[j].len = Fragment(m, j).len
        BY DEF Collected, Piece
      <4>2. \A j \in S : h[j] \in Nat
        BY <3>4, <4>1
      <4> HIDE DEF p
      <4>3. Arrived(p) = Total(h, S)
        BY <3>3, <4>1, ArrivedIs
      <4> HIDE DEF h
      <4>4. Total(h, S) \in Nat
        BY <3>3, <4>2, TotalBoth
      <4> QED BY <4>3, <4>4 DEF p
    <3>6. f.len \in Nat /\ m.len \in Nat
      BY CutTiles DEF f
    <3>7. ~(Arrived(E) + f.len > f.total)
      BY <1>1, <3>1, <3>2, <3>5, <3>6
    <3> QED BY <1>3, <3>7 DEF Overflows
  <2> QED BY <1>6, <2>1
<1>8. ~Disagrees(f)
  <2>1. CASE k \in DOMAIN partial
    <3>1. partial[k] = [named |-> 0 \in S, total |-> m.len, count |-> n, pieces |-> g]
      BY <2>1 DEF Collected, k
    <3>2. partial[k].total = m.len /\ partial[k].count = n
      BY <3>1
    <3> HIDE DEF g, n
    <3> QED BY <1>1, <1>2, <3>2 DEF Disagrees
  <2>2. CASE k \notin DOMAIN partial
    BY <1>2, <2>2 DEF Disagrees
  <2> QED BY <2>1, <2>2
<1>9. CASE i \notin S
  <2>1. Piece(f) = Piece(Fragment(m, i))
    BY DEF f
  <2>2. WithPiece(f) = [E EXCEPT !.pieces = [j \in DOMAIN @ \cup {f.index} |->
                                               IF j = f.index THEN Piece(f) ELSE @[j]]]
    BY <1>3 DEF WithPiece
  <2> DEFINE h == [j \in DOMAIN E.pieces \cup {f.index} |->
                     IF j = f.index THEN Piece(f) ELSE E.pieces[j]]
             G == [j \in S \cup {i} |-> Piece(Fragment(m, j))]
  <2>3. WithPiece(f) = [E EXCEPT !.pieces = h]
    BY <2>2
  <2>4. h = G
    <3>1. h = [j \in S \cup {i} |-> IF j = i THEN Piece(f) ELSE g[j]]
      BY <1>1, <1>5
    <3>2. \A j \in S \cup {i} : (IF j = i THEN Piece(f) ELSE g[j]) = Piece(Fragment(m, j))
      BY <2>1
    <3> HIDE DEF h, g
    <3> QED BY <3>1, <3>2
  <2> HIDE DEF h, G, g, n
  <2>5. WithPiece(f) = [named |-> 0 \in S \/ i = 0, total |-> m.len, count |-> n, pieces |-> G]
    BY <1>4, <2>3, <2>4
  <2>6. (0 \in S \/ i = 0) = (0 \in S \cup {i})
    OBVIOUS
  <2>7. WithPiece(f) = Collected(m, S \cup {i})
    BY <2>5, <2>6 DEF Collected, G, n
  <2> QED BY <1>2, <1>3, <1>5, <1>6, <1>7, <1>8, <1>9, <2>7 DEF f, k
<1>10. CASE i \in S
  <2>1. S \cup {i} = S /\ (0 \in S \/ i = 0) = (0 \in S)
    BY <1>10
  <2>2. E = Collected(m, S)
    BY <1>4, <2>1 DEF Collected
  <2> QED BY <1>2, <1>3, <1>5, <1>6, <1>7, <1>8, <1>10, <2>1, <2>2 DEF f, k
<1> QED BY <1>9, <1>10

-----------------------------------------------------------------------------
(* What one fragment does.                                                 *)

\* What a fragment of ours does, when the fragments in S came of its message: it
\* is never refused, and the last one gives the message on.
LEMMA OwnFeed ==
  ASSUME NEW m, Sendable(m), Cut(m), NEW i \in Indexes(m), NEW S \in SUBSET Indexes(m),
         IF KeyOf(m) \in DOMAIN partial THEN partial[KeyOf(m)] = Collected(m, S) ELSE S = {},
         Feed(Fragment(m, i))
  PROVE  /\ OthersStay(KeyOf(m)) /\ discarded' = discarded
         /\ \/ /\ S \cup {i} # Indexes(m) /\ delivered' = delivered
               /\ KeyOf(m) \in DOMAIN partial'
               /\ partial'[KeyOf(m)] = Collected(m, S \cup {i})
            \/ /\ S \cup {i} = Indexes(m) /\ delivered' = delivered (+) SetToBag({Given(m)})
               /\ KeyOf(m) \notin DOMAIN partial'
<1> DEFINE f == Fragment(m, i)
           k == KeyOf(m)
           T == S \cup {i}
           p == Collected(m, T)
<1>1. /\ Key(f) = k
      /\ ~Overflows(f) \/ ~Fresh(f)
      /\ ~Disagrees(f)
      /\ (IF Fresh(f) THEN WithPiece(f) ELSE Entry(f)) = p
  BY OwnEntryIs
<1>2. ~Malformed(f)
  BY OwnWellFormed
<1>3. T \in SUBSET Indexes(m)
  OBVIOUS
<1>4. Full(p) <=> T = Indexes(m)
  <2>1. DatagramsOf(m) \in Nat /\ Indexes(m) = 0..DatagramsOf(m) - 1
    BY CutTiles DEF Indexes
  <2>2. IsFiniteSet(Indexes(m)) /\ Cardinality(Indexes(m)) = DatagramsOf(m)
    <3>1. 0 \in Int /\ DatagramsOf(m) - 1 \in Int
      BY <2>1
    <3>2. /\ IsFiniteSet(0..DatagramsOf(m) - 1)
          /\ Cardinality(0..DatagramsOf(m) - 1)
               = IF 0 > DatagramsOf(m) - 1 THEN 0 ELSE DatagramsOf(m) - 1 - 0 + 1
      BY <3>1, FS_Interval
    <3> QED BY <2>1, <3>2
  <2>3. Cardinality(Indexes(m)) = Cardinality(T) => Indexes(m) = T
    BY <1>3, <2>2, FS_Subset
  <2>4. DOMAIN p.pieces = T /\ p.count = DatagramsOf(m)
    BY DEF Collected
  <2> HIDE DEF T, p
  <2> QED BY <2>2, <2>3, <2>4 DEF Full
<1> HIDE DEF p, T, f, k
<1>5. \/ ~Full(p) /\ Update(f, p, TRUE) /\ Nothing
      \/ /\ Full(p) /\ Update(f, p, FALSE)
         /\ \E order \in Orders(p) :
              IF Covers(p, order) /\ p.named
              THEN Deliver(Message(f, p, order)) ELSE Discard
  <2>1. Feed(f)
    BY DEF f
  <2> QED BY <1>1, <1>2, <2>1 DEF Feed
<1>6. CASE ~Full(p)
  <2>1. Update(f, p, TRUE) /\ Nothing
    BY <1>5, <1>6
  <2>2. OthersStay(k) /\ k \in DOMAIN partial' /\ partial'[k] = p
    BY <1>1, <2>1, UpdateIs
  <2>3. discarded' = discarded /\ delivered' = delivered
    BY <2>1 DEF Nothing
  <2> QED BY <1>4, <1>6, <2>2, <2>3 DEF p, T, k
<1>7. CASE Full(p)
  <2>1. PICK order \in Orders(p) :
          IF Covers(p, order) /\ p.named THEN Deliver(Message(f, p, order)) ELSE Discard
    BY <1>5, <1>7
  <2>2. Update(f, p, FALSE)
    BY <1>5, <1>7
  <2>3. OthersStay(k) /\ k \notin DOMAIN partial'
    BY <1>1, <2>2, UpdateIs
  <2>4. T = Indexes(m) /\ p = Collected(m, Indexes(m))
    BY <1>4, <1>7 DEF p
  <2>5. Covers(p, order) /\ p.named /\ Message(f, p, order) = Given(m)
    <3>1. order \in Orders(Collected(m, Indexes(m)))
      BY <2>4
    <3>2. LET q == Collected(m, Indexes(m)) IN
          /\ Covers(q, order) /\ q.named
          /\ Message(Fragment(m, i), q, order) = Given(m)
      BY <3>1, OwnWhole
    <3> QED BY <2>4, <3>2 DEF f
  <2>6. Deliver(Given(m))
    BY <2>1, <2>5
  <2>7. delivered' = delivered (+) SetToBag({Given(m)}) /\ discarded' = discarded
    BY <2>6 DEF Deliver
  <2> QED BY <2>3, <2>4, <2>7 DEF T, k
<1> QED BY <1>6, <1>7

\* A message of one part.
LEMMA OnePart ==
  ASSUME NEW x, NEW len, NEW of, x.parts = <<[start |-> 0, len |-> len, of |-> of]>>
  PROVE  Stitched(x)
<1>1. Len(x.parts) = 1 /\ x.parts[1].start = 0
  OBVIOUS
<1>2. PICK k \in Int : k = 0
  OBVIOUS
<1>3. Reach(x.parts, k) = Total([j \in 1..k |-> x.parts[j].len], 1..k)
  BY ReachIs
<1>4. 1..k = {}
  BY <1>2
<1>5. Total([j \in 1..k |-> x.parts[j].len], {}) = 0
  BY TotalNone
<1>6. Reach(x.parts, 0) = 0
  BY <1>2, <1>3, <1>4, <1>5
<1>7. \A i \in 1..Len(x.parts) : x.parts[i].start = Reach(x.parts, i - 1)
  BY <1>1, <1>6
<1> QED BY <1>7 DEF Stitched

\* The shape of an entry stays.
LEMMA EntryShape ==
  ASSUME EntriesHold, NEW f
  PROVE  IsEntry(Entry(f)) /\ IsEntry(WithPiece(f))
<1> DEFINE found == IF Key(f) \in DOMAIN partial THEN partial[Key(f)]
                    ELSE [named |-> FALSE, total |-> f.total, count |-> f.count,
                          pieces |-> << >>]
<1>1. IsEntry(found)
  <2>1. CASE Key(f) \in DOMAIN partial
    BY <2>1 DEF EntriesHold
  <2>2. CASE Key(f) \notin DOMAIN partial
    <3>1. found = [named |-> FALSE, total |-> f.total, count |-> f.count, pieces |-> << >>]
      BY <2>2
    <3>2. DOMAIN found = {"named", "total", "count", "pieces"} /\ DOMAIN found.pieces = {}
      BY <3>1
    <3> HIDE DEF found
    <3> QED BY <3>2, FS_EmptySet DEF IsEntry
  <2> QED BY <2>1, <2>2
<1>2. Entry(f) = [found EXCEPT !.named = @ \/ f.named]
  BY DEF Entry
<1> HIDE DEF found
<1>3. PICK E : E = Entry(f)
  OBVIOUS
<1>4. DOMAIN E = {"named", "total", "count", "pieces"} /\ E.pieces = found.pieces
  BY <1>1, <1>2, <1>3 DEF IsEntry
<1>5. IsFiniteSet(DOMAIN E.pieces)
  BY <1>1, <1>4 DEF IsEntry
<1>6. PICK h : h = [j \in DOMAIN E.pieces \cup {f.index} |->
                      IF j = f.index THEN Piece(f) ELSE E.pieces[j]]
  OBVIOUS
<1>7. WithPiece(f) = [E EXCEPT !.pieces = h]
  BY <1>3, <1>6 DEF WithPiece
<1>8. PICK W : W = [E EXCEPT !.pieces = h]
  OBVIOUS
<1>9. DOMAIN W = {"named", "total", "count", "pieces"} /\ W.pieces = h
  BY <1>4, <1>8
<1>10. IsFiniteSet(DOMAIN h)
  BY <1>5, <1>6, FS_AddElement
<1> QED BY <1>3, <1>4, <1>5, <1>7, <1>8, <1>9, <1>10 DEF IsEntry

\* A message that covers its length is stitched.
LEMMA CoversStitches ==
  ASSUME NEW f, NEW p, IsEntry(p), NEW order \in Orders(p), Covers(p, order)
  PROVE  Stitched(Message(f, p, order)) /\ Message(f, p, order).from = f.from
<1>1. PICK n \in Nat : n = Cardinality(DOMAIN p.pieces)
  BY FS_CardinalityType DEF IsEntry
<1>2. order \in [1..n -> DOMAIN p.pieces]
  BY <1>1 DEF Orders, SetToSeqs
<1>3. Len(order) = n
  <2>1. order \in Seq(DOMAIN p.pieces) /\ DOMAIN order = 1..n
    BY <1>2
  <2> QED BY <2>1, LenIs
<1>4. PICK parts : parts = Parts(p, order)
  OBVIOUS
<1>5. parts = [i \in 1..n |-> p.pieces[order[i]]]
  BY <1>3, <1>4 DEF Parts
<1>6. Len(parts) = n
  <2>1. parts \in Seq({parts[i] : i \in 1..n}) /\ DOMAIN parts = 1..n
    BY <1>5
  <2> QED BY <2>1, LenIs
<1>7. \A i \in 1..n : parts[i].start = Reach(parts, i - 1)
  <2>1. \A i \in 1..n : p.pieces[order[i]].start = Reach(parts, i - 1)
    BY <1>3, <1>4 DEF Covers
  <2> QED BY <1>5, <2>1
<1>8. Message(f, p, order).parts = parts /\ Message(f, p, order).from = f.from
  BY <1>4 DEF Message
<1> QED BY <1>6, <1>7, <1>8 DEF Stitched

\* What any fragment does to the table and to what is given on.
LEMMA FeedIs ==
  ASSUME EntriesHold, NEW f, Feed(f)
  PROVE  /\ OthersStay(Key(f)) /\ EntriesHold'
         /\ \/ delivered' = delivered
            \/ \E x : /\ delivered' = delivered (+) SetToBag({x})
                      /\ Stitched(x) /\ x.from = f.from
<1> DEFINE p == IF Fresh(f) THEN WithPiece(f) ELSE Entry(f)
           k == Key(f)
<1>1. IsEntry(Entry(f)) /\ IsEntry(p)
  BY EntryShape
<1>2. ASSUME OthersStay(k), k \in DOMAIN partial' => IsEntry(partial'[k])
      PROVE  EntriesHold'
  <2> HIDE DEF k
  <2>1. ASSUME NEW j \in DOMAIN partial' PROVE IsEntry(partial'[j])
    BY <1>2 DEF OthersStay, EntriesHold
  <2> QED BY <2>1 DEF EntriesHold
<1> HIDE DEF p, k
<1>3. CASE Malformed(f)
  <2>1. Discard /\ UNCHANGED holdVars
    BY <1>3 DEF Feed
  <2>2. OthersStay(k) /\ partial' = partial
    BY <2>1, NothingChanges
  <2>3. EntriesHold'
    BY <2>2 DEF EntriesHold
  <2> QED BY <2>1, <2>2, <2>3 DEF Discard, k
<1>4. CASE ~Malformed(f) /\ Disagrees(f)
  <2>1. Forget(f) /\ Discard
    BY <1>4 DEF Feed
  <2>2. OthersStay(k) /\ k \notin DOMAIN partial'
    BY <2>1, ForgetIs DEF k
  <2> QED BY <1>2, <2>1, <2>2 DEF Discard, k
<1>5. CASE ~Malformed(f) /\ ~Disagrees(f)
  <2>1. CASE Fresh(f) /\ Overflows(f)
    <3>1. Update(f, Entry(f), TRUE) /\ Discard
      BY <1>5, <2>1 DEF Feed
    <3>2. OthersStay(k) /\ partial'[k] = Entry(f)
      BY <3>1, UpdateIs DEF k
    <3> QED BY <1>1, <1>2, <3>1, <3>2 DEF Discard, k
  <2>2. CASE ~(Fresh(f) /\ Overflows(f))
    <3>1. \/ ~Full(p) /\ Update(f, p, TRUE) /\ Nothing
          \/ /\ Full(p) /\ Update(f, p, FALSE)
             /\ \E order \in Orders(p) :
                  IF Covers(p, order) /\ p.named
                  THEN Deliver(Message(f, p, order)) ELSE Discard
      BY <1>5, <2>2 DEF Feed, p
    <3>2. CASE ~Full(p)
      <4>1. Update(f, p, TRUE) /\ Nothing
        BY <3>1, <3>2
      <4>2. OthersStay(k) /\ partial'[k] = p
        BY <4>1, UpdateIs DEF k
      <4> QED BY <1>1, <1>2, <4>1, <4>2 DEF Nothing, k
    <3>3. CASE Full(p)
      <4>1. Update(f, p, FALSE)
        BY <3>1, <3>3
      <4>2. OthersStay(k) /\ k \notin DOMAIN partial'
        BY <4>1, UpdateIs DEF k
      <4>3. PICK order \in Orders(p) :
              IF Covers(p, order) /\ p.named
              THEN Deliver(Message(f, p, order)) ELSE Discard
        BY <3>1, <3>3
      <4>4. CASE Covers(p, order)
        <5>1. PICK x : x = Message(f, p, order)
          OBVIOUS
        <5>2. Stitched(x) /\ x.from = f.from
          BY <1>1, <4>4, <5>1, CoversStitches
        <5>3. delivered' = delivered (+) SetToBag({x}) \/ delivered' = delivered
          BY <4>3, <5>1 DEF Deliver, Discard
        <5> QED BY <1>2, <4>2, <5>2, <5>3 DEF k
      <4>5. CASE ~Covers(p, order)
        BY <1>2, <4>2, <4>3, <4>5 DEF Discard, k
      <4> QED BY <4>4, <4>5
    <3> QED BY <3>2, <3>3
  <2> QED BY <2>1, <2>2
<1> QED BY <1>3, <1>4, <1>5

-----------------------------------------------------------------------------
(* The steps of the receiver.                                              *)

\* A datagram is of one message, and a fragment is one of its fragments.
LEMMA DatagramsDiffer ==
  ASSUME NEW m, Sendable(m), NEW i \in Indexes(m), NEW n, Sendable(n), NEW j \in Indexes(n),
         Datagram(m, i) = Datagram(n, j)
  PROVE  m = n /\ i = j
<1>1. m = n
  <2>1. Datagram(m, i).of = m
    BY OwnIs
  <2>2. Datagram(n, j).of = n
    BY OwnIs
  <2> QED BY <2>1, <2>2
<1>2. CASE Cut(m)
  <2>1. Datagram(m, i) = Fragment(m, i) /\ Datagram(n, j) = Fragment(m, j)
    BY <1>1, <1>2 DEF Datagram, Cut
  <2>2. Fragment(m, i).index = i /\ Fragment(m, j).index = j
    BY DEF Fragment
  <2> QED BY <1>1, <2>1, <2>2
<1>3. CASE ~Cut(m)
  <2>1. DatagramsOf(m) = 1
    BY <1>3 DEF Cut, DatagramsOf, CountOf
  <2>2. i = 0 /\ j = 0
    BY <1>1, <2>1 DEF Indexes
  <2> QED BY <1>1, <2>2
<1> QED BY <1>2, <1>3

\* A message given on is one message, and ours if it is.
LEMMA GivenDiffer ==
  ASSUME NEW m, Sendable(m), NEW n, Sendable(n), Given(m) = Given(n)
  PROVE  m = n
<1>1. Given(m).parts[1].of = m
  BY GivenAsPublished
<1>2. Given(n).parts[1].of = n
  BY GivenAsPublished
<1> QED BY <1>1, <1>2

\* A message with another key keeps what it has, or is evicted.
LEMMA Untouched ==
  ASSUME NEW k, OthersStay(k), NEW n, KeyOf(n) # k, NEW j
  PROVE  /\ HasPiece(n, j)' => HasPiece(n, j)
         /\ HasPiece(n, j) => HasPiece(n, j)' \/ KeyOf(n) \in dropped'
BY DEF OthersStay, HasPiece

\* What the step leaves alone of one message: nothing of it came or was given on.
LEMMA OthersKeep ==
  ASSUME SendInv, ReceiveInv, NEW d, IsABag(came), came' = came (+) SetToBag({d}),
         NEW k, OthersStay(k), NEW n, n \in Came, Sendable(n), KeyOf(n) # k,
         \A j \in Indexes(n) : Datagram(n, j) # d,
         IsABag(delivered),
         \/ delivered' = delivered
         \/ \E x : delivered' = delivered (+) SetToBag({x}) /\ x # Given(n)
  PROVE  /\ \A j \in Indexes(n) :
              Copies(Given(n), delivered') + (IF HasPiece(n, j)' THEN 1 ELSE 0)
                <= Copies(Datagram(n, j), came')
         /\ \/ KeyOf(n) \in dropped'
            \/ Given(n) \in DOMAIN delivered'
            \/ \A j \in Indexes(n) : Datagram(n, j) \in DOMAIN came' => HasPiece(n, j)'
<1>1. /\ Copies(Given(n), delivered') = Copies(Given(n), delivered)
      /\ DOMAIN delivered \subseteq DOMAIN delivered'
      /\ Copies(Given(n), delivered) \in Nat
  <2>0. Copies(Given(n), delivered) \in Nat
    BY DEF IsABag, Copies, BagIn, BagToSet
  <2>1. CASE delivered' = delivered
    BY <2>0, <2>1
  <2>2. CASE \E x : delivered' = delivered (+) SetToBag({x}) /\ x # Given(n)
    <3>1. PICK x : delivered' = delivered (+) SetToBag({x}) /\ x # Given(n)
      BY <2>2
    <3>2. PICK y : y = Given(n)
      OBVIOUS
    <3>3. /\ DOMAIN delivered' = DOMAIN delivered \cup {x}
          /\ Copies(y, delivered') = Copies(y, delivered) + (IF y = x THEN 1 ELSE 0)
      BY <3>1, BagWith
    <3> QED BY <2>0, <3>1, <3>2, <3>3
  <2> QED BY <2>1, <2>2
<1>2. /\ DOMAIN came' = DOMAIN came \cup {d}
      /\ \A y : Copies(y, came') = Copies(y, came) + (IF y = d THEN 1 ELSE 0)
      /\ \A y : Copies(y, came) \in Nat
  BY BagWith
<1>3. ASSUME NEW j \in Indexes(n)
      PROVE  Copies(Given(n), delivered') + (IF HasPiece(n, j)' THEN 1 ELSE 0)
               <= Copies(Datagram(n, j), came')
  <2>1. Copies(Given(n), delivered) + (IF HasPiece(n, j) THEN 1 ELSE 0)
          <= Copies(Datagram(n, j), came)
    BY DEF ReceiveInv, Counted
  <2>2. HasPiece(n, j)' => HasPiece(n, j)
    BY Untouched
  <2>3. Copies(Datagram(n, j), came') = Copies(Datagram(n, j), came)
        /\ Copies(Datagram(n, j), came) \in Nat
    BY <1>2
  <2>4. PICK a \in Nat, b \in Nat :
          a = Copies(Given(n), delivered) /\ b = Copies(Datagram(n, j), came)
    BY <1>1, <2>3
  <2>5. a = Copies(Given(n), delivered') /\ b = Copies(Datagram(n, j), came')
    BY <1>1, <2>3, <2>4
  <2>6. a + (IF HasPiece(n, j)' THEN 1 ELSE 0) <= b
    <3>1. CASE HasPiece(n, j)'
      BY <2>1, <2>2, <2>4, <3>1
    <3>2. CASE ~HasPiece(n, j)'
      BY <2>1, <2>4, <3>2
    <3> QED BY <3>1, <3>2
  <2> QED BY <2>4, <2>5, <2>6
<1>4. \/ KeyOf(n) \in dropped'
      \/ Given(n) \in DOMAIN delivered'
      \/ \A j \in Indexes(n) : Datagram(n, j) \in DOMAIN came' => HasPiece(n, j)'
  <2>1. CASE KeyOf(n) \in dropped
    BY <2>1 DEF OthersStay
  <2>2. CASE Given(n) \in DOMAIN delivered
    BY <1>1, <2>2
  <2>3. CASE \A j \in Indexes(n) : Datagram(n, j) \in DOMAIN came => HasPiece(n, j)
    <3>1. ASSUME KeyOf(n) \notin dropped', NEW j \in Indexes(n), Datagram(n, j) \in DOMAIN came'
          PROVE  HasPiece(n, j)'
      <4>1. Datagram(n, j) \in DOMAIN came
        BY <1>2, <3>1
      <4>2. HasPiece(n, j)
        BY <2>3, <4>1
      <4> QED BY <3>1, <4>2, Untouched
    <3> QED BY <3>1
  <2> QED BY <2>1, <2>2, <2>3 DEF ReceiveInv, KeptOrGiven
<1> QED BY <1>3, <1>4

\* The datagram of another program.
LEMMA StrayKeeps ==
  ASSUME SendInv, NumbersOnce, ReceiveInv, NEW d \in Strays, Arrives(d), on_datagram(d)
  PROVE  ReceiveInv'
<1>1. /\ IsABag(came) /\ IsABag(delivered) /\ came' = came (+) SetToBag({d})
      /\ DOMAIN came' = DOMAIN came \cup {d} /\ d.from \notin Clients
  BY ArrivesKeeps, StraysAssumption DEF Arrives, ReceiveInv, OwnGiven
<1>2. PICK k : k = Key(d)
  OBVIOUS
<1>3. /\ OthersStay(k) /\ EntriesHold'
      /\ \/ delivered' = delivered
         \/ \E x : /\ delivered' = delivered (+) SetToBag({x})
                   /\ Stitched(x) /\ x.from = d.from
  <2>1. CASE d.whole
    <3>1. /\ UNCHANGED holdVars
          /\ Deliver([from |-> d.from, seq |-> d.seq,
                      parts |-> <<[start |-> 0, len |-> d.len, of |-> d.of]>>])
      BY <2>1 DEF on_datagram
    <3>2. PICK x : x = [from |-> d.from, seq |-> d.seq,
                        parts |-> <<[start |-> 0, len |-> d.len, of |-> d.of]>>]
      OBVIOUS
    <3>3. x.from = d.from /\ x.parts = <<[start |-> 0, len |-> d.len, of |-> d.of]>>
      BY <3>2
    <3>4. Stitched(x)
      BY <3>3, OnePart
    <3>5. delivered' = delivered (+) SetToBag({x})
      BY <3>1, <3>2 DEF Deliver
    <3>6. OthersStay(k) /\ partial' = partial
      BY <3>1, NothingChanges
    <3>7. EntriesHold'
      BY <3>6 DEF EntriesHold, ReceiveInv
    <3> QED BY <3>3, <3>4, <3>5, <3>6, <3>7
  <2>2. CASE ~d.whole
    <3>1. Feed(d) /\ EntriesHold
      BY <2>2 DEF on_datagram, ReceiveInv
    <3> QED BY <1>2, <3>1, FeedIs
  <2> QED BY <2>1, <2>2
<1>4. k[1] \notin Clients
  BY <1>1, <1>2 DEF Key
<1>5. Came' = Came
  BY <1>1 DEF Came
<1>6. ASSUME NEW n \in Came
      PROVE  /\ Sendable(n) /\ KeyOf(n) # k
             /\ \A j \in Indexes(n) : Datagram(n, j) # d
             /\ Given(n).from \in Clients
  <2>1. Sendable(n) /\ n.by[1] \in Clients
    BY SeenAre DEF Seen
  <2>2. KeyOf(n)[1] = n.by[1]
    BY DEF KeyOf
  <2>3. \A j \in Indexes(n) : Datagram(n, j) # d
    BY <2>1, OwnIs
  <2>4. Given(n).from = n.by[1]
    BY DEF Given
  <2> QED BY <1>4, <2>1, <2>2, <2>3, <2>4
<1>7. OwnEntries'
  <2>1. ASSUME NEW j \in DOMAIN partial', j[1] \in Clients
        PROVE  \E m \in Came' : \E S \in SUBSET Indexes(m) :
                 /\ Cut(m) /\ j = KeyOf(m) /\ S # Indexes(m)
                 /\ partial'[j] = Collected(m, S)
    <3>1. j \in DOMAIN partial /\ partial'[j] = partial[j]
      BY <1>3, <1>4, <2>1 DEF OthersStay
    <3> QED BY <1>5, <2>1, <3>1 DEF ReceiveInv, OwnEntries
  <2> QED BY <2>1 DEF OwnEntries
<1>8. OwnGiven'
  <2>1. CASE delivered' = delivered
    BY <1>5, <2>1 DEF ReceiveInv, OwnGiven
  <2>2. CASE \E x : /\ delivered' = delivered (+) SetToBag({x})
                    /\ Stitched(x) /\ x.from = d.from
    <3>1. PICK x : delivered' = delivered (+) SetToBag({x}) /\ Stitched(x) /\ x.from = d.from
      BY <2>2
    <3>2. IsABag(delivered') /\ DOMAIN delivered' = DOMAIN delivered \cup {x}
      BY <1>1, <3>1, BagWith
    <3>3. ASSUME NEW y \in DOMAIN delivered'
          PROVE  Stitched(y) /\ (y.from \in Clients => \E m \in Came' : y = Given(m))
      <4>1. CASE y = x
        BY <1>1, <3>1, <4>1
      <4>2. CASE y \in DOMAIN delivered
        BY <1>5, <4>2 DEF ReceiveInv, OwnGiven
      <4> QED BY <3>2, <4>1, <4>2
    <3> QED BY <3>2, <3>3 DEF OwnGiven
  <2> QED BY <1>3, <2>1, <2>2
<1>9. ASSUME NEW n \in Came
      PROVE  /\ \A j \in Indexes(n) :
                  Copies(Given(n), delivered') + (IF HasPiece(n, j)' THEN 1 ELSE 0)
                    <= Copies(Datagram(n, j), came')
             /\ \/ KeyOf(n) \in dropped'
                \/ Given(n) \in DOMAIN delivered'
                \/ \A j \in Indexes(n) : Datagram(n, j) \in DOMAIN came' => HasPiece(n, j)'
  <2>1. \/ delivered' = delivered
        \/ \E x : delivered' = delivered (+) SetToBag({x}) /\ x # Given(n)
    BY <1>1, <1>3, <1>6
  <2>2. /\ Sendable(n) /\ KeyOf(n) # k /\ \A j \in Indexes(n) : Datagram(n, j) # d
    BY <1>6
  <2> QED BY <1>1, <1>3, <2>1, <2>2, OthersKeep
<1>10. Counted'
  BY <1>5, <1>9 DEF Counted
<1>11. KeptOrGiven'
  BY <1>5, <1>9 DEF KeptOrGiven
<1> QED BY <1>3, <1>7, <1>8, <1>10, <1>11 DEF ReceiveInv

\* What the receiver has of one message of ours, before a datagram of it: the
\* fragments in S, of which each came, as often at least as the message was
\* given on, and once more.
LEMMA BeforeOwn ==
  ASSUME SendInv, NumbersOnce, NumbersLast, ReceiveInv, NEW m \in Seen
  PROVE  \E S \in SUBSET Indexes(m) :
           /\ Cut(m) => IF KeyOf(m) \in DOMAIN partial
                        THEN partial[KeyOf(m)] = Collected(m, S) ELSE S = {}
           /\ ~Cut(m) => S = {}
           /\ \A j \in Indexes(m) :
                Copies(Given(m), delivered) + (IF j \in S THEN 1 ELSE 0)
                  <= Copies(Datagram(m, j), came)
           /\ \/ KeyOf(m) \in dropped
              \/ Given(m) \in DOMAIN delivered
              \/ \A j \in Indexes(m) : Datagram(m, j) \in DOMAIN came => j \in S
<1>1. Sendable(m) /\ m.by[1] \in Clients
  BY SeenAre
<1>2. \A n \in Came : n \in Seen /\ Sendable(n)
  BY SeenAre DEF Seen
<1>3. IsABag(came) /\ IsABag(delivered)
  BY DEF SendInv, ReceiveInv, OwnGiven
<1>4. KeyOf(m)[1] \in Clients
  BY <1>1 DEF KeyOf
<1>5. PICK S \in SUBSET Indexes(m) :
        /\ Cut(m) => IF KeyOf(m) \in DOMAIN partial
                     THEN partial[KeyOf(m)] = Collected(m, S) /\ m \in Came ELSE S = {}
        /\ ~Cut(m) => S = {}
  <2>1. CASE Cut(m) /\ KeyOf(m) \in DOMAIN partial
    <3>1. PICK n \in Came :
            \E S \in SUBSET Indexes(n) :
              KeyOf(m) = KeyOf(n) /\ partial[KeyOf(m)] = Collected(n, S)
      BY <1>4, <2>1 DEF ReceiveInv, OwnEntries
    <3>2. m = n
      BY <1>2, <3>1, KeyIsOne
    <3>3. PICK S \in SUBSET Indexes(m) : partial[KeyOf(m)] = Collected(m, S)
      BY <3>1, <3>2
    <3> QED BY <2>1, <3>1, <3>2, <3>3
  <2>2. CASE ~(Cut(m) /\ KeyOf(m) \in DOMAIN partial)
    <3>1. {} \in SUBSET Indexes(m)
      OBVIOUS
    <3> QED BY <2>2, <3>1
  <2> QED BY <2>1, <2>2
<1>6. ASSUME NEW j PROVE HasPiece(m, j) <=> j \in S
  <2>1. CASE Cut(m) /\ KeyOf(m) \in DOMAIN partial
    <3>1. partial[KeyOf(m)] = Collected(m, S)
      BY <1>5, <2>1
    <3>2. DOMAIN Collected(m, S).pieces = S
      BY DEF Collected
    <3> QED BY <2>1, <3>1, <3>2 DEF HasPiece
  <2>2. CASE ~(Cut(m) /\ KeyOf(m) \in DOMAIN partial)
    BY <1>5, <2>2 DEF HasPiece
  <2> QED BY <2>1, <2>2
<1>7. CASE m \in Came
  <2>1. \A j \in Indexes(m) :
          Copies(Given(m), delivered) + (IF HasPiece(m, j) THEN 1 ELSE 0)
            <= Copies(Datagram(m, j), came)
    BY <1>7 DEF ReceiveInv, Counted
  <2>2. \A j \in Indexes(m) :
          Copies(Given(m), delivered) + (IF j \in S THEN 1 ELSE 0)
            <= Copies(Datagram(m, j), came)
    BY <1>6, <2>1
  <2>3. \/ KeyOf(m) \in dropped
        \/ Given(m) \in DOMAIN delivered
        \/ \A j \in Indexes(m) : Datagram(m, j) \in DOMAIN came => j \in S
    BY <1>6, <1>7 DEF ReceiveInv, KeptOrGiven
  <2> QED BY <1>5, <2>2, <2>3
<1>8. CASE m \notin Came
  <2>1. S = {}
    BY <1>5, <1>8
  <2>2. Given(m) \notin DOMAIN delivered
    <3>1. ASSUME Given(m) \in DOMAIN delivered PROVE FALSE
      <4>1. Given(m).from \in Clients
        BY <1>1 DEF Given
      <4>2. PICK n \in Came : Given(m) = Given(n)
        BY <3>1, <4>1 DEF ReceiveInv, OwnGiven
      <4>3. m = n
        BY <1>1, <1>2, <4>2, GivenDiffer
      <4> QED BY <1>8, <4>2, <4>3
    <3> QED BY <3>1
  <2>3. Copies(Given(m), delivered) = 0
    BY <2>2 DEF Copies, BagIn, BagToSet
  <2>4. \A j \in Indexes(m) : Datagram(m, j) \notin DOMAIN came
    <3>1. ASSUME NEW j \in Indexes(m), Datagram(m, j) \in DOMAIN came PROVE FALSE
      <4>1. Datagram(m, j).of = m /\ Datagram(m, j).from \in Clients
        BY <1>1, OwnIs
      <4>2. m \in Came
        BY <3>1, <4>1 DEF Came
      <4> QED BY <1>8, <4>2
    <3> QED BY <3>1
  <2>5. \A j \in Indexes(m) : Copies(Datagram(m, j), came) \in Nat
    BY <1>3, BagWith
  <2>6. \A j \in Indexes(m) :
          Copies(Given(m), delivered) + (IF j \in S THEN 1 ELSE 0)
            <= Copies(Datagram(m, j), came)
    BY <2>1, <2>3, <2>5
  <2> QED BY <1>5, <2>1, <2>4, <2>6
<1> QED BY <1>7, <1>8

\* And what that datagram does.
LEMMA OwnStep ==
  ASSUME SendInv, NumbersOnce, NumbersLast, ReceiveInv, NEW m \in Seen, NEW i \in Indexes(m),
         NEW d, d = Datagram(m, i), Arrives(d), on_datagram(d)
  PROVE  ReceiveInv' /\ discarded' = discarded
<1> DEFINE k == KeyOf(m)
<1>1. Sendable(m) /\ m.by[1] \in Clients
  BY SeenAre
<1>2. /\ IsABag(came) /\ IsABag(delivered) /\ came' = came (+) SetToBag({d})
      /\ DOMAIN came' = DOMAIN came \cup {d}
  BY ArrivesKeeps DEF Arrives, ReceiveInv, OwnGiven
<1>3. d.of = m /\ d.from \in Clients
  BY <1>1, OwnIs
<1>4. Came' = Came \cup {m}
  BY <1>2, <1>3 DEF Came
<1>5. \A n \in Came : n \in Seen /\ Sendable(n)
  BY SeenAre DEF Seen
<1>6. PICK S \in SUBSET Indexes(m) :
        /\ Cut(m) => IF KeyOf(m) \in DOMAIN partial
                     THEN partial[KeyOf(m)] = Collected(m, S) ELSE S = {}
        /\ ~Cut(m) => S = {}
        /\ \A j \in Indexes(m) :
             Copies(Given(m), delivered) + (IF j \in S THEN 1 ELSE 0)
               <= Copies(Datagram(m, j), came)
        /\ \/ KeyOf(m) \in dropped
           \/ Given(m) \in DOMAIN delivered
           \/ \A j \in Indexes(m) : Datagram(m, j) \in DOMAIN came => j \in S
  BY BeforeOwn
\* Either the message waits for more, or it is given on and none of it stays.
<1>7. /\ OthersStay(k) /\ discarded' = discarded /\ EntriesHold'
      /\ \/ /\ Cut(m) /\ S \cup {i} # Indexes(m) /\ delivered' = delivered
            /\ k \in DOMAIN partial' /\ partial'[k] = Collected(m, S \cup {i})
         \/ /\ S \cup {i} = Indexes(m) /\ delivered' = delivered (+) SetToBag({Given(m)})
            /\ Cut(m) => k \notin DOMAIN partial'
  <2>1. CASE Cut(m)
    <3>1. d = Fragment(m, i) /\ d.whole = FALSE
      BY <2>1 DEF Datagram, Cut, Fragment
    <3>2. Feed(Fragment(m, i))
      BY <3>1 DEF on_datagram
    <3>3. /\ OthersStay(KeyOf(m)) /\ discarded' = discarded
          /\ \/ /\ S \cup {i} # Indexes(m) /\ delivered' = delivered
                /\ KeyOf(m) \in DOMAIN partial'
                /\ partial'[KeyOf(m)] = Collected(m, S \cup {i})
             \/ /\ S \cup {i} = Indexes(m) /\ delivered' = delivered (+) SetToBag({Given(m)})
                /\ KeyOf(m) \notin DOMAIN partial'
      <4>1. IF KeyOf(m) \in DOMAIN partial
            THEN partial[KeyOf(m)] = Collected(m, S) ELSE S = {}
        BY <1>6, <2>1
      <4> QED BY <1>1, <2>1, <3>2, <4>1, OwnFeed
    <3>4. EntriesHold'
      <4>1. EntriesHold
        BY DEF ReceiveInv
      <4> QED BY <3>2, <4>1, FeedIs
    <3> QED BY <2>1, <3>3, <3>4
  <2>2. CASE ~Cut(m)
    <3>1. d = Whole(m)
      BY <2>2 DEF Datagram, Cut
    <3>2. d.whole = TRUE /\ d.from = m.by[1] /\ d.seq = m.nth % SEQ_SPAN /\ d.len = m.len /\ d.of = m
      BY <3>1 DEF Whole
    <3>3. UNCHANGED holdVars /\ Deliver(Given(m))
      BY <2>2, <3>2 DEF on_datagram, Given
    <3>4. OthersStay(k) /\ partial' = partial
      BY <3>3, NothingChanges
    <3>5. EntriesHold'
      BY <3>4 DEF ReceiveInv, EntriesHold
    <3>6. Indexes(m) = {0} /\ S = {}
      <4>1. DatagramsOf(m) = 1
        BY <2>2 DEF Cut, DatagramsOf, CountOf
      <4> QED BY <1>6, <2>2, <4>1 DEF Indexes
    <3>7. S \cup {i} = Indexes(m)
      BY <3>6
    <3> QED BY <2>2, <3>3, <3>4, <3>5, <3>7 DEF Deliver
  <2> QED BY <2>1, <2>2
<1>8. ASSUME NEW n \in Came, n # m
      PROVE  /\ Sendable(n) /\ KeyOf(n) # k /\ Given(n) # Given(m)
             /\ \A j \in Indexes(n) : Datagram(n, j) # d
  <2>1. n \in Seen /\ Sendable(n)
    BY <1>5
  <2>2. KeyOf(n) # k
    BY <1>8, <2>1, KeyIsOne
  <2>3. Given(n) # Given(m)
    BY <1>1, <1>8, <2>1, GivenDiffer
  <2>4. \A j \in Indexes(n) : Datagram(n, j) # d
    BY <1>1, <1>8, <2>1, DatagramsDiffer
  <2> QED BY <2>1, <2>2, <2>3, <2>4
<1>9. OwnEntries'
  <2>1. ASSUME NEW j \in DOMAIN partial', j[1] \in Clients
        PROVE  \E n \in Came' : \E U \in SUBSET Indexes(n) :
                 /\ Cut(n) /\ j = KeyOf(n) /\ U # Indexes(n)
                 /\ partial'[j] = Collected(n, U)
    <3>1. CASE j # k
      <4>1. j \in DOMAIN partial /\ partial'[j] = partial[j]
        BY <1>7, <2>1, <3>1 DEF OthersStay
      <4> QED BY <1>4, <2>1, <4>1 DEF ReceiveInv, OwnEntries
    <3>2. CASE j = k /\ Cut(m)
      <4>1. S \cup {i} # Indexes(m) /\ partial'[j] = Collected(m, S \cup {i})
        BY <1>7, <2>1, <3>2
      <4>2. m \in Came' /\ S \cup {i} \in SUBSET Indexes(m)
        BY <1>4
      <4> QED BY <3>2, <4>1, <4>2
    <3>3. CASE j = k /\ ~Cut(m)
      \* No message of this client but m has the number, and m is not cut.
      <4>1. partial' = partial
        <5>1. d.whole = TRUE
          BY <3>3 DEF Datagram, Cut, Whole
        <5>2. UNCHANGED holdVars
          BY <5>1 DEF on_datagram
        <5> QED BY <5>2 DEF holdVars
      <4>2. PICK n \in Came : Cut(n) /\ j = KeyOf(n)
        BY <2>1, <4>1 DEF ReceiveInv, OwnEntries
      <4>3. n = m
        BY <1>8, <3>3, <4>2
      <4> QED BY <3>3, <4>2, <4>3
    <3> QED BY <3>1, <3>2, <3>3
  <2> QED BY <2>1 DEF OwnEntries
<1>10. OwnGiven'
  <2>1. CASE delivered' = delivered
    BY <1>4, <2>1 DEF ReceiveInv, OwnGiven
  <2>2. CASE delivered' = delivered (+) SetToBag({Given(m)})
    <3>1. PICK x : x = Given(m)
      OBVIOUS
    <3>2. IsABag(delivered') /\ DOMAIN delivered' = DOMAIN delivered \cup {x}
      BY <1>2, <2>2, <3>1, BagWith
    <3>3. Stitched(x)
      BY <1>1, <3>1, GivenAsPublished
    <3>4. ASSUME NEW y \in DOMAIN delivered'
          PROVE  Stitched(y) /\ (y.from \in Clients => \E n \in Came' : y = Given(n))
      <4>1. CASE y = x
        BY <1>4, <3>1, <3>3, <4>1
      <4>2. CASE y \in DOMAIN delivered
        BY <1>4, <4>2 DEF ReceiveInv, OwnGiven
      <4> QED BY <3>2, <4>1, <4>2
    <3> QED BY <3>2, <3>4 DEF OwnGiven
  <2> QED BY <1>7, <2>1, <2>2
<1>11. /\ \A j \in Indexes(m) :
             Copies(Given(m), delivered') + (IF HasPiece(m, j)' THEN 1 ELSE 0)
               <= Copies(Datagram(m, j), came')
       /\ \/ KeyOf(m) \in dropped'
          \/ Given(m) \in DOMAIN delivered'
          \/ \A j \in Indexes(m) : Datagram(m, j) \in DOMAIN came' => HasPiece(m, j)'
  <2>1. ASSUME NEW j \in Indexes(m)
        PROVE  /\ Copies(Datagram(m, j), came) \in Nat
               /\ Copies(Datagram(m, j), came')
                    = Copies(Datagram(m, j), came) + (IF j = i THEN 1 ELSE 0)
    <3>1. PICK y : y = Datagram(m, j)
      OBVIOUS
    <3>2. /\ Copies(y, came') = Copies(y, came) + (IF y = d THEN 1 ELSE 0)
          /\ Copies(y, came) \in Nat
      BY <1>2, BagWith
    <3>3. y = d <=> j = i
      BY <1>1, <3>1, DatagramsDiffer
    <3> QED BY <3>1, <3>2, <3>3
  <2>2. PICK g \in Nat : g = Copies(Given(m), delivered)
    <3>1. Copies(Given(m), delivered) \in Nat
      BY <1>2 DEF IsABag, Copies, BagIn, BagToSet
    <3> QED BY <3>1
  <2>3. CASE /\ Cut(m) /\ S \cup {i} # Indexes(m) /\ delivered' = delivered
             /\ k \in DOMAIN partial' /\ partial'[k] = Collected(m, S \cup {i})
    <3>1. DOMAIN Collected(m, S \cup {i}).pieces = S \cup {i}
      BY DEF Collected
    <3>2. \A j : HasPiece(m, j)' <=> j \in S \cup {i}
      BY <2>3, <3>1 DEF HasPiece
    <3>3. ASSUME NEW j \in Indexes(m)
          PROVE  Copies(Given(m), delivered') + (IF HasPiece(m, j)' THEN 1 ELSE 0)
                   <= Copies(Datagram(m, j), came')
      <4>1. PICK b \in Nat : b = Copies(Datagram(m, j), came)
        BY <2>1
      <4>2. g + (IF j \in S THEN 1 ELSE 0) <= b
        BY <1>6, <2>2, <4>1
      <4>3. Copies(Datagram(m, j), came') = b + (IF j = i THEN 1 ELSE 0)
        BY <2>1, <4>1
      <4>4. Copies(Given(m), delivered') = g
        BY <2>2, <2>3
      <4>5. g + (IF j \in S \cup {i} THEN 1 ELSE 0) <= b + (IF j = i THEN 1 ELSE 0)
        BY <4>2
      <4> QED BY <3>2, <4>3, <4>4, <4>5
    <3>4. \/ KeyOf(m) \in dropped'
          \/ Given(m) \in DOMAIN delivered'
          \/ \A j \in Indexes(m) : Datagram(m, j) \in DOMAIN came' => HasPiece(m, j)'
      <4>1. dropped \subseteq dropped'
        BY <1>7 DEF OthersStay
      <4>2. ASSUME \A j \in Indexes(m) : Datagram(m, j) \in DOMAIN came => j \in S,
                   NEW j \in Indexes(m), Datagram(m, j) \in DOMAIN came'
            PROVE  HasPiece(m, j)'
        <5>1. CASE j = i
          BY <3>2, <5>1
        <5>2. CASE j # i
          <6>1. Datagram(m, j) # d
            BY <1>1, <5>2, DatagramsDiffer
          <6>2. j \in S
            BY <1>2, <4>2, <6>1
          <6> QED BY <3>2, <6>2
        <5> QED BY <5>1, <5>2
      <4> QED BY <1>6, <2>3, <4>1, <4>2
    <3> QED BY <3>3, <3>4
  <2>4. CASE /\ S \cup {i} = Indexes(m) /\ delivered' = delivered (+) SetToBag({Given(m)})
             /\ Cut(m) => k \notin DOMAIN partial'
    <3>1. \A j : ~HasPiece(m, j)'
      BY <2>4 DEF HasPiece
    <3>2. PICK x : x = Given(m)
      OBVIOUS
    <3>3. /\ DOMAIN delivered' = DOMAIN delivered \cup {x}
          /\ Copies(x, delivered') = Copies(x, delivered) + 1
      BY <1>2, <2>4, <3>2, BagWith
    <3>4. ASSUME NEW j \in Indexes(m)
          PROVE  Copies(Given(m), delivered') + (IF HasPiece(m, j)' THEN 1 ELSE 0)
                   <= Copies(Datagram(m, j), came')
      <4>1. PICK b \in Nat : b = Copies(Datagram(m, j), came)
        BY <2>1
      <4>2. g + (IF j \in S THEN 1 ELSE 0) <= b
        BY <1>6, <2>2, <4>1
      <4>3. Copies(Datagram(m, j), came') = b + (IF j = i THEN 1 ELSE 0)
        BY <2>1, <4>1
      <4>4. Copies(Given(m), delivered') = g + 1
        BY <2>2, <3>2, <3>3
      <4>5. j \in S \/ j = i
        BY <2>4
      <4>6. g + 1 <= b + (IF j = i THEN 1 ELSE 0)
        BY <4>2, <4>5
      <4> QED BY <3>1, <4>3, <4>4, <4>6
    <3> QED BY <3>2, <3>3, <3>4
  <2> QED BY <1>7, <2>3, <2>4
<1>12. ASSUME NEW n \in Came, n # m
       PROVE  /\ \A j \in Indexes(n) :
                   Copies(Given(n), delivered') + (IF HasPiece(n, j)' THEN 1 ELSE 0)
                     <= Copies(Datagram(n, j), came')
              /\ \/ KeyOf(n) \in dropped'
                 \/ Given(n) \in DOMAIN delivered'
                 \/ \A j \in Indexes(n) : Datagram(n, j) \in DOMAIN came' => HasPiece(n, j)'
  <2>1. \/ delivered' = delivered
        \/ \E x : delivered' = delivered (+) SetToBag({x}) /\ x # Given(n)
    BY <1>7, <1>8, <1>12
  <2>2. Sendable(n) /\ KeyOf(n) # k /\ \A j \in Indexes(n) : Datagram(n, j) # d
    BY <1>8, <1>12
  <2>3. OthersStay(k)
    BY <1>7
  <2> HIDE DEF k
  <2> QED BY <1>2, <2>1, <2>2, <2>3, OthersKeep
<1>13. Counted'
  BY <1>4, <1>11, <1>12 DEF Counted
<1>14. KeptOrGiven'
  BY <1>4, <1>11, <1>12 DEF KeptOrGiven
<1> QED BY <1>7, <1>9, <1>10, <1>13, <1>14 DEF ReceiveInv

\* Each step of the receiver, for a datagram of ours or of another program.
LEMMA OnDatagramKeeps ==
  ASSUME SendInv, NumbersOnce, NumbersLast, ReceiveInv, NEW d, Arrives(d), on_datagram(d)
  PROVE  ReceiveInv' /\ (d \in Strays \/ discarded' = discarded)
<1>1. CASE d \in Strays
  BY <1>1, StrayKeeps
<1>2. CASE d \notin Strays
  <2>1. d \in DOMAIN net /\ OwnDatagram(d)
    BY <1>2 DEF Arrives, SendInv
  <2>2. PICK m : Sendable(m) /\ \E i \in Indexes(m) : d = Datagram(m, i)
    BY <2>1 DEF OwnDatagram
  <2>3. PICK i \in Indexes(m) : d = Datagram(m, i)
    BY <2>2
  <2>4. d.of = m
    BY <2>2, <2>3, OwnIs
  <2>5. m \in Seen
    BY <2>1, <2>4 DEF Seen
  <2> QED BY <2>3, <2>5, OwnStep
<1> QED BY <1>1, <1>2

\* The receiver starts with nothing.
LEMMA ReceiveInit == Init => ReceiveInv
<1> SUFFICES ASSUME Init PROVE ReceiveInv
  OBVIOUS
<1>1. DOMAIN partial = {}
  BY DEF Init
<1>2. DOMAIN delivered = {} /\ DOMAIN came = {} /\ IsABag(delivered)
  BY DEF Init, EmptyBag, SetToBag, IsABag
<1>3. Came = {}
  BY <1>2 DEF Came
<1> QED BY <1>1, <1>2, <1>3
        DEF ReceiveInv, EntriesHold, OwnEntries, OwnGiven, Counted, KeptOrGiven

\* What the receiver reads, and what a publisher leaves alone.
LEMMA PublishersKeep ==
  ASSUME ReceiveInv, UNCHANGED <<partial, dropped, delivered, came>>
  PROVE  ReceiveInv'
<1>1. Came' = Came
  BY DEF Came
<1>2. EntriesHold' /\ OwnGiven'
  BY <1>1 DEF ReceiveInv, EntriesHold, OwnGiven
<1>3. OwnEntries'
  BY <1>1 DEF ReceiveInv, OwnEntries
<1>4. \A m, i : HasPiece(m, i)' <=> HasPiece(m, i)
  BY DEF HasPiece
<1>5. Counted'
  BY <1>1, <1>4 DEF ReceiveInv, Counted
<1>6. KeptOrGiven'
  BY <1>1, <1>4 DEF ReceiveInv, KeptOrGiven
<1> QED BY <1>2, <1>3, <1>5, <1>6 DEF ReceiveInv

-----------------------------------------------------------------------------
(* The receiver.                                                           *)

\* The inductive invariant of the receiver, while the numbers last.
THEOREM ReceiveCorrect == Spec /\ []NumbersLast => []ReceiveInv
<1>1. ASSUME SendInv, NumbersOnce, NumbersLast, ReceiveInv, [Next]_vars
      PROVE  ReceiveInv'
  <2>1. CASE \/ UNCHANGED vars
             \/ \E t \in Threads : Publish(t) \/ Send(t)
    <3>1. UNCHANGED <<partial, dropped, delivered, came>>
      BY <2>1 DEF vars, holdVars, Publish, Send, receiverRest
    <3> QED BY <1>1, <3>1, PublishersKeep
  <2>2. CASE (\E d \in Strays : Stray(d)) \/ (\E d \in BagToSet(net) : Repeat(d) \/ Receive(d))
    <3>1. PICK d : \/ d \in Strays /\ Stray(d)
                   \/ d \in BagToSet(net) /\ (Repeat(d) \/ Receive(d))
      BY <2>2
    <3>2. Arrives(d) /\ on_datagram(d)
      BY <3>1, ReceiverArrives
    <3> QED BY <1>1, <3>2, OnDatagramKeeps
  <2> QED BY <1>1, <2>1, <2>2 DEF Next
<1> QED BY <1>1, ReceiveInit, SendCorrect, PTL DEF Spec

\* Every message that was given on has no hole and no overlap, and one of this
\* crate's own senders is one message as it was published, whatever the network
\* and the other programs did.
THEOREM MessagesWholeHolds == Spec /\ []NumbersLast => []MessagesWhole
<1>1. SendInv /\ ReceiveInv => MessagesWhole
  <2>1. ASSUME SendInv, ReceiveInv, NEW x \in DOMAIN delivered
        PROVE  Stitched(x) /\ (x.from \in Clients => AsPublished(x))
    <3>1. ASSUME x.from \in Clients PROVE AsPublished(x)
      <4>1. PICK n \in Came : x = Given(n)
        BY <2>1, <3>1 DEF ReceiveInv, OwnGiven
      <4>2. Sendable(n)
        BY <2>1, SeenAre DEF Seen
      <4> QED BY <4>1, <4>2, GivenAsPublished
    <3> QED BY <2>1, <3>1 DEF ReceiveInv, OwnGiven
  <2> QED BY <2>1 DEF MessagesWhole, BagToSet
<1> QED BY <1>1, SendCorrect, ReceiveCorrect, PTL

\* A message is given on no more often than each of its datagrams came.
THEOREM NoMoreThanCameHolds == Spec /\ []NumbersLast => []NoMoreThanCame
<1>1. SendInv /\ ReceiveInv => NoMoreThanCame
  <2>1. ASSUME SendInv, ReceiveInv, NEW x \in DOMAIN delivered, x.from \in Clients,
               NEW i \in 0..(DatagramsOf(x.parts[1].of) - 1)
        PROVE  Copies(x, delivered) <= Copies(Datagram(x.parts[1].of, i), came)
    <3>1. PICK n \in Came : x = Given(n)
      BY <2>1 DEF ReceiveInv, OwnGiven
    <3>2. Sendable(n)
      BY <2>1, SeenAre DEF Seen
    <3>3. x.parts[1].of = n
      BY <3>1, <3>2, GivenAsPublished
    <3>4. i \in Indexes(n)
      BY <3>3 DEF Indexes
    <3>5. Copies(x, delivered) + (IF HasPiece(n, i) THEN 1 ELSE 0) <= Copies(Datagram(n, i), came)
      BY <2>1, <3>1, <3>4 DEF ReceiveInv, Counted
    <3>6. Copies(x, delivered) \in Nat /\ Copies(Datagram(n, i), came) \in Nat
      BY <2>1 DEF ReceiveInv, OwnGiven, SendInv, IsABag, Copies, BagIn, BagToSet
    <3> QED BY <3>3, <3>5, <3>6
  <2> QED BY <2>1 DEF NoMoreThanCame, BagToSet
<1> QED BY <1>1, SendCorrect, ReceiveCorrect, PTL

\* A message whose datagrams all came is given on, in whatever order and however
\* often they came, unless it was evicted on the way.
THEOREM AllCameIsGivenHolds == Spec /\ []NumbersLast => []AllCameIsGiven
<1>1. SendInv /\ NumbersOnce /\ NumbersLast /\ ReceiveInv => AllCameIsGiven
  <2>1. ASSUME SendInv, NumbersOnce, NumbersLast, ReceiveInv,
               NEW d \in DOMAIN came, d.from \in Clients, <<d.from, d.seq>> \notin dropped,
               \A i \in 0..(DatagramsOf(d.of) - 1) : Datagram(d.of, i) \in DOMAIN came
        PROVE  \E x \in DOMAIN delivered : x.parts[1].of = d.of
    <3>1. PICK m : Sendable(m) /\ \E i \in Indexes(m) : d = Datagram(m, i)
      BY <2>1, StraysAssumption DEF SendInv, OwnDatagram
    <3>2. d.of = m /\ KeyOf(m) = <<d.from, d.seq>> /\ KeyOf(m)[1] \in Clients
      BY <3>1, OwnIs DEF KeyOf
    <3>3. m \in Came
      BY <2>1, <3>2 DEF Came
    <3>4. ~ \A i \in Indexes(m) : HasPiece(m, i)
      <4>1. ASSUME \A i \in Indexes(m) : HasPiece(m, i) PROVE FALSE
        <5>1. Cut(m) /\ KeyOf(m) \in DOMAIN partial
          BY <3>1, <4>1 DEF HasPiece
        <5>2. PICK n \in Came : \E S \in SUBSET Indexes(n) :
                /\ KeyOf(m) = KeyOf(n) /\ S # Indexes(n)
                /\ partial[KeyOf(m)] = Collected(n, S)
          BY <2>1, <3>2, <5>1 DEF ReceiveInv, OwnEntries
        <5>3. m = n
          BY <2>1, <3>3, <5>2, KeyIsOne DEF Seen
        <5>4. PICK S \in SUBSET Indexes(m) :
                S # Indexes(m) /\ partial[KeyOf(m)] = Collected(m, S)
          BY <5>2, <5>3
        <5>5. DOMAIN partial[KeyOf(m)].pieces = S
          BY <5>4 DEF Collected
        <5>6. Indexes(m) \subseteq S
          BY <4>1, <5>5 DEF HasPiece
        <5> QED BY <5>4, <5>6
      <4> QED BY <4>1
    <3>5. Given(m) \in DOMAIN delivered
      BY <2>1, <3>2, <3>3, <3>4 DEF ReceiveInv, KeptOrGiven, Indexes
    <3>6. Given(m).parts[1].of = m
      BY <3>1, GivenAsPublished
    <3> QED BY <3>2, <3>5, <3>6
  <2> QED BY <2>1 DEF AllCameIsGiven, BagIn, BagToSet
<1> QED BY <1>1, SendCorrect, ReceiveCorrect, PTL

\* The counter of discarded datagrams counts.
DiscardedIsCount == discarded \in Nat

\* No step puts anything but a number in it.
LEMMA DiscardedCounts == Spec => []DiscardedIsCount
<1>1. ASSUME DiscardedIsCount, [Next]_vars PROVE DiscardedIsCount'
  <2>1. discarded' = discarded \/ discarded' = discarded + 1
    <3>1. ASSUME NEW d, on_datagram(d) PROVE discarded' = discarded \/ discarded' = discarded + 1
      BY <3>1 DEF on_datagram, Feed, Deliver, Discard, Nothing
    <3> QED BY <1>1, <3>1 DEF Next, vars, Publish, Send, receiverRest, Stray, Repeat, Receive
  <2> QED BY <1>1, <2>1 DEF DiscardedIsCount
<1>2. Init => DiscardedIsCount
  BY DEF Init, DiscardedIsCount
<1> QED BY <1>1, <1>2, PTL DEF Spec

\* No datagram of this crate's own encoder is refused: a step that counts one
\* as discarded took in the datagram of another program.
THEOREM OwnNeverRefusedHolds == Spec /\ []NumbersLast => OwnNeverRefused
<1> DEFINE Another == \E d \in Strays : Copies(d, came') > Copies(d, came)
<1>1. ASSUME SendInv, NumbersOnce, NumbersLast, ReceiveInv, DiscardedIsCount, [Next]_vars,
               discarded' > discarded
      PROVE  Another
  <2>1. CASE discarded' = discarded
    BY <1>1, <2>1 DEF DiscardedIsCount
  <2>2. CASE discarded' # discarded
    <3>1. PICK d : \/ d \in Strays /\ Stray(d)
                   \/ d \in BagToSet(net) /\ (Repeat(d) \/ Receive(d))
      BY <1>1, <2>2 DEF Next, vars, Publish, Send, receiverRest
    <3>2. Arrives(d) /\ on_datagram(d)
      BY <3>1, ReceiverArrives
    <3>3. d \in Strays
      BY <1>1, <2>2, <3>2, OnDatagramKeeps
    <3>4. /\ Copies(d, came') = Copies(d, came) + 1
          /\ Copies(d, came) \in Nat
      BY <1>1, <3>2, BagWith DEF SendInv, Arrives
    <3> QED BY <3>3, <3>4
  <2> QED BY <2>1, <2>2
<1>2. SendInv /\ NumbersOnce /\ NumbersLast /\ ReceiveInv /\ DiscardedIsCount /\ [Next]_vars
        => [discarded' > discarded => Another]_vars
  BY <1>1
<1> QED BY <1>2, SendCorrect, ReceiveCorrect, DiscardedCounts, PTL DEF Spec, OwnNeverRefused

-----------------------------------------------------------------------------
(* Numbers.                                                                *)

\* What saturates at zero.
LEMMA NoLess ==
  ASSUME NEW a \in Int
  PROVE  Max({a, 0}) = IF a >= 0 THEN a ELSE 0
<1>1. \E x \in {a, 0} : \A y \in {a, 0} : x >= y
  BY SMT
<1>2. Max({a, 0}) \in {a, 0} /\ \A y \in {a, 0} : Max({a, 0}) >= y
  BY <1>1 DEF Max
<1> QED BY <1>2

-----------------------------------------------------------------------------
(* What is charged.                                                        *)

\* What the messages under some keys take, as a sum.
LEMMA WeightOfIs ==
  ASSUME NEW table, NEW D, IsFiniteSet(D)
  PROVE  WeightOf(table, D) = Total([k \in D |-> Weight(table[k])], D)
<1> DEFINE g == [k \in D |-> Weight(table[k])]
           A(f) == [s \in SUBSET D |-> IF s = {} THEN 0
                      ELSE Weight(table[AnyOf(s)]) + f[s \ {AnyOf(s)}]]
           c == CHOOSE f : f = A(f)
<1>1. WeightOf(table, D) = c[D]
  BY DEF WeightOf, MapThenSumSet, MapThenFoldSet, AnyOf
<1>2. PICK f : Sums(g, D, f)
  BY SumsExist
<1>3. ASSUME NEW e PROVE Sums(g, D, e) <=> e = A(e)
  <2>1. ASSUME NEW s \in SUBSET D, s # {} PROVE g[AnyOf(s)] = Weight(table[AnyOf(s)])
    <3>1. AnyOf(s) \in s
      BY <2>1 DEF AnyOf
    <3> QED BY <3>1
  <2> DEFINE B == [s \in SUBSET D |-> IF s = {} THEN 0
                      ELSE g[AnyOf(s)] + e[s \ {AnyOf(s)}]]
  <2>2. B = A(e)
    <3> HIDE DEF g
    <3> QED BY <2>1
  <2> QED BY <2>2 DEF Sums
<1>4. f = A(f)
  BY <1>2, <1>3
<1>5. c = A(c)
  <2> HIDE DEF A
  <2> QED BY <1>4
<1>6. Sums(g, D, c)
  BY <1>3, <1>5
<1> HIDE DEF c, g
<1>7. Total(g, D) = c[D]
  BY <1>6, TotalIs
<1> QED BY <1>1, <1>7 DEF g

\* An entry whose pieces have lengths.
IsMeasured(p) == IsEntry(p) /\ \A i \in DOMAIN p.pieces : p.pieces[i].len \in Nat

\* An entry takes a number of bytes.
LEMMA WeightType ==
  ASSUME NEW p, IsMeasured(p)
  PROVE  Weight(p) \in Nat /\ Arrived(p) \in Nat
<1>1. Arrived(p) = Total([i \in DOMAIN p.pieces |-> p.pieces[i].len], DOMAIN p.pieces)
  BY ArrivedIs DEF IsMeasured, IsEntry
<1> DEFINE g == [i \in DOMAIN p.pieces |-> p.pieces[i].len]
<1>2. \A i \in DOMAIN p.pieces : g[i] \in Nat
  BY DEF IsMeasured
<1>3. IsFiniteSet(DOMAIN p.pieces)
  BY DEF IsMeasured, IsEntry
<1>4. Arrived(p) \in Nat
  <2> HIDE DEF g
  <2>1. Total(g, DOMAIN p.pieces) \in Nat
    BY <1>2, <1>3, TotalBoth
  <2> QED BY <1>1, <2>1 DEF g
<1>5. Cardinality(DOMAIN p.pieces) \in Nat /\ PIECE_COST \in Nat
  BY <1>3, FS_CardinalityType, SizesAssumption
<1> QED BY <1>4, <1>5 DEF Weight

\* What an entry takes goes by its pieces.
LEMMA WeightSame ==
  ASSUME NEW p, NEW q, IsMeasured(p), IsMeasured(q), p.pieces = q.pieces
  PROVE  Weight(p) = Weight(q)
<1>1. Arrived(p) = Total([i \in DOMAIN p.pieces |-> p.pieces[i].len], DOMAIN p.pieces)
  BY ArrivedIs DEF IsMeasured, IsEntry
<1>2. Arrived(q) = Total([i \in DOMAIN q.pieces |-> q.pieces[i].len], DOMAIN q.pieces)
  BY ArrivedIs DEF IsMeasured, IsEntry
<1> QED BY <1>1, <1>2 DEF Weight

-----------------------------------------------------------------------------
(* The accounts of what is held.                                           *)

\* The accounts of the receiver: every length that is held is a number, and each
\* message has one place in the line of ages.
MeasuredHold == \A k \in DOMAIN partial : IsMeasured(partial[k])
Aged == by_age \in Seq(DOMAIN partial) /\ Once(by_age) /\ ToSet(by_age) = DOMAIN partial
HeldInv == MeasuredHold /\ Aged /\ HeldBudget

\* What the message of a fragment takes before it.
Before(f) == IF Key(f) \in DOMAIN partial THEN Weight(partial[Key(f)]) ELSE 0

\* What one fragment adds to its message.
LEMMA PieceWeighs ==
  ASSUME MeasuredHold, NEW f, f.len \in Nat
  PROVE  /\ IsMeasured(Entry(f)) /\ Weight(Entry(f)) = Before(f) /\ Before(f) \in Nat
         /\ IsMeasured(WithPiece(f))
         /\ Fresh(f) => Weight(WithPiece(f)) = Before(f) + f.len + PIECE_COST
<1>0. EntriesHold
  BY DEF EntriesHold, MeasuredHold, IsMeasured
<1>1. PICK found : found = IF Key(f) \in DOMAIN partial THEN partial[Key(f)]
                           ELSE [named |-> FALSE, total |-> f.total, count |-> f.count,
                                 pieces |-> << >>]
  OBVIOUS
<1>2. IsMeasured(found) /\ Weight(found) = Before(f) /\ Before(f) \in Nat
  <2>1. CASE Key(f) \in DOMAIN partial
    <3>1. IsMeasured(found) /\ Weight(found) = Before(f)
      BY <1>1, <2>1 DEF MeasuredHold, Before
    <3> QED BY <3>1, WeightType
  <2>2. CASE Key(f) \notin DOMAIN partial
    <3>1. found = [named |-> FALSE, total |-> f.total, count |-> f.count, pieces |-> << >>]
      BY <1>1, <2>2
    <3>2. DOMAIN found = {"named", "total", "count", "pieces"} /\ DOMAIN found.pieces = {}
      BY <3>1
    <3>3. IsMeasured(found)
      BY <3>2, FS_EmptySet DEF IsMeasured, IsEntry
    <3>4. Arrived(found) = 0
      <4>1. Arrived(found) = Total([i \in DOMAIN found.pieces |-> found.pieces[i].len], DOMAIN found.pieces)
        BY <3>3, ArrivedIs DEF IsMeasured, IsEntry
      <4> DEFINE g == [i \in DOMAIN found.pieces |-> found.pieces[i].len]
      <4>2. Arrived(found) = Total(g, {})
        BY <3>2, <4>1
      <4> HIDE DEF g
      <4> QED BY <4>2, TotalNone
    <3>5. Cardinality(DOMAIN found.pieces) = 0
      BY <3>2, FS_EmptySet
    <3>6. Weight(found) = 0
      BY <3>4, <3>5, SizesAssumption DEF Weight
    <3> QED BY <2>2, <3>3, <3>6 DEF Before
  <2> QED BY <2>1, <2>2
<1>3. PICK E : E = Entry(f)
  OBVIOUS
<1>4. E = [found EXCEPT !.named = @ \/ f.named]
  BY <1>1, <1>3 DEF Entry
<1>5. E.pieces = found.pieces
  BY <1>2, <1>4 DEF IsMeasured, IsEntry
<1>6. IsMeasured(E)
  <2>1. IsEntry(E)
    BY <1>0, <1>3, EntryShape
  <2> QED BY <1>2, <1>5, <2>1 DEF IsMeasured
<1>7. Weight(E) = Before(f)
  BY <1>2, <1>5, <1>6, WeightSame
<1>8. PICK h : h = [j \in DOMAIN E.pieces \cup {f.index} |->
                      IF j = f.index THEN Piece(f) ELSE E.pieces[j]]
  OBVIOUS
<1>9. PICK W : W = WithPiece(f)
  OBVIOUS
<1>10. W = [E EXCEPT !.pieces = h]
  BY <1>3, <1>8, <1>9 DEF WithPiece
<1>11. W.pieces = h
  BY <1>6, <1>10 DEF IsMeasured, IsEntry
<1>12. DOMAIN h = DOMAIN E.pieces \cup {f.index}
       /\ h[f.index].len = f.len
       /\ \A j \in DOMAIN E.pieces : j # f.index => h[j] = E.pieces[j]
  BY <1>8 DEF Piece
<1>13. IsMeasured(W)
  <2>1. IsEntry(W)
    BY <1>0, <1>9, EntryShape
  <2>2. \A j \in DOMAIN h : h[j].len \in Nat
    BY <1>6, <1>12 DEF IsMeasured
  <2> QED BY <1>11, <2>1, <2>2 DEF IsMeasured
<1>14. ASSUME Fresh(f) PROVE Weight(W) = Weight(E) + f.len + PIECE_COST
  <2> DEFINE D == DOMAIN E.pieces
             g == [j \in D |-> E.pieces[j].len]
             l == [j \in D \cup {f.index} |-> h[j].len]
  <2>1. f.index \notin D /\ IsFiniteSet(D) /\ IsFiniteSet(D \cup {f.index})
    BY <1>3, <1>6, <1>14, FS_AddElement DEF Fresh, IsMeasured, IsEntry
  <2>2. Arrived(E) = Total(g, D)
    BY <1>6, ArrivedIs DEF IsMeasured, IsEntry
  <2>3. Arrived(W) = Total(l, D \cup {f.index})
    BY <1>11, <1>12, <1>13, ArrivedIs DEF IsMeasured, IsEntry
  <2>4. /\ \A j \in D \cup {f.index} : l[j] \in Nat
        /\ \A j \in D : l[j] = g[j]
        /\ l[f.index] = f.len
    BY <1>11, <1>12, <1>13, <2>1 DEF IsMeasured
  <2> HIDE DEF g, l
  <2>5. Total(l, D \cup {f.index}) = Total(l, D) + l[f.index]
    <3> HIDE DEF D
    <3>1. PICK y : y = f.index
      OBVIOUS
    <3>2. y \notin D /\ IsFiniteSet(D) /\ \A j \in D \cup {y} : l[j] \in Nat
      BY <2>1, <2>4, <3>1
    <3>3. Total(l, D \cup {y}) = Total(l, D) + l[y]
      BY <3>2, TotalMore
    <3> QED BY <3>1, <3>3
  <2>6. Total(l, D) = Total(g, D)
    <3> HIDE DEF D
    <3> QED BY <2>1, <2>4, TotalAgree
  <2>7. Arrived(W) = Arrived(E) + f.len
    BY <2>2, <2>3, <2>4, <2>5, <2>6
  <2>8. Cardinality(D \cup {f.index}) = Cardinality(D) + 1 /\ Cardinality(D) \in Nat
    BY <2>1, FS_AddElement, FS_CardinalityType
  <2>9. PICK a \in Nat, c \in Nat, z \in Nat : a = Arrived(E) /\ c = Cardinality(D) /\ z = PIECE_COST
    BY <1>6, <2>8, WeightType, SizesAssumption
  <2>10. Weight(E) = a + c * z
    BY <2>9 DEF Weight
  <2>11. Weight(W) = (a + f.len) + (c + 1) * z
    BY <1>11, <1>12, <2>7, <2>8, <2>9 DEF Weight
  <2>12. (c + 1) * z = c * z + z /\ c * z \in Nat
    BY SMT
  <2>13. PICK y \in Nat : y = c * z
    BY <2>12
  <2> QED BY <2>9, <2>10, <2>11, <2>12, <2>13
<1> QED BY <1>2, <1>3, <1>6, <1>7, <1>9, <1>13, <1>14

\* The line without a key.
LEMMA OthersIs ==
  ASSUME Aged, NEW key
  PROVE  /\ Others(key) \in Seq(DOMAIN partial) /\ Once(Others(key))
         /\ ToSet(Others(key)) = DOMAIN partial \ {key}
<1>1. by_age \in Seq(DOMAIN partial) /\ Once(by_age) /\ DOMAIN by_age = 1..Len(by_age)
  BY LenProperties DEF Aged
<1>2. CASE \E i \in DOMAIN by_age : by_age[i] = key
  <2>1. PICK i : i = CHOOSE j \in DOMAIN by_age : by_age[j] = key
    OBVIOUS
  <2>2. i \in 1..Len(by_age) /\ by_age[i] = key
    BY <1>1, <1>2, <2>1
  <2>3. Others(key) = RemoveAt(by_age, i)
    BY <1>2, <2>1 DEF Others
  <2> QED BY <1>1, <2>2, <2>3, OnceRemove DEF Aged
<1>3. CASE ~ \E i \in DOMAIN by_age : by_age[i] = key
  <2>1. Others(key) = by_age
    BY <1>3 DEF Others
  <2>2. key \notin ToSet(by_age)
    BY <1>3 DEF ToSet
  <2> QED BY <1>1, <2>1, <2>2 DEF Aged
<1> QED BY <1>2, <1>3

\* A fragment that is let in keeps the accounts: the loop of make_space leaves
\* room for it, or nothing but its message.
LEMMA UpdateHeld ==
  ASSUME HeldInv, NEW f, f.len \in Nat, NEW entry, IsMeasured(entry),
         Before(f) <= Weight(entry), Weight(entry) <= Before(f) + f.len + PIECE_COST,
         NEW stays \in BOOLEAN, Update(f, entry, stays)
  PROVE  HeldInv'
<1> DEFINE key == Key(f)
           D == DOMAIN partial
           w == Others(key)
           n == MakeSpace(key, f.len)
           out == Oldest(n, key)
           rest == SubSeq(w, n + 1, Len(w))
           left == D \ out
           kept == IF stays THEN left \cup {key} ELSE left \ {key}
           g == [k \in D |-> Weight(partial[k])]
<1>1. /\ partial' = [k \in kept |-> IF k = key THEN entry ELSE partial[k]]
      /\ by_age' = IF stays THEN Append(rest, key) ELSE rest
      /\ held' = LET spared == GiveBack(WeightOf(partial, out)) + Weight(entry) - Before(f)
                 IN IF stays THEN spared ELSE Max({spared - Weight(entry), 0})
  BY DEF Update, Before
<1>2. PICK W \in Nat, B \in Nat, l \in Nat, z \in Nat :
        W = Weight(entry) /\ B = Before(f) /\ l = f.len /\ z = PIECE_COST
  BY WeightType, PieceWeighs, SizesAssumption DEF HeldInv
<1>3. /\ IsFiniteSet(D) /\ \A k \in D : g[k] \in Nat
      /\ held = Total(g, D) /\ held \in Nat
  <2>1. IsFiniteSet(D)
    BY OnceCounts DEF HeldInv, Aged
  <2>2. \A k \in D : g[k] \in Nat
    BY WeightType DEF HeldInv, MeasuredHold
  <2>3. held = Total(g, D)
    BY <2>1, WeightOfIs DEF HeldInv, HeldBudget
  <2> HIDE DEF g, D
  <2> QED BY <2>1, <2>2, <2>3, TotalBoth
<1>4. w \in Seq(D) /\ Once(w) /\ ToSet(w) = D \ {key} /\ Len(w) \in Nat
  <2>1. w \in Seq(D) /\ Once(w) /\ ToSet(w) = D \ {key}
    BY OthersIs DEF HeldInv
  <2> QED BY <2>1, LenProperties
<1>5. /\ n \in 0..Len(w)
      /\ n = Len(w) \/ ~Over(left, GiveBack(WeightOf(partial, out)), f.len)
  <2> DEFINE enough == {c \in 0..Len(w) :
                          \/ c = Len(w)
                          \/ ~Over(DOMAIN partial \ Oldest(c, key),
                                   GiveBack(WeightOf(partial, Oldest(c, key))), f.len)}
  <2>1. n = Min(enough)
    BY DEF MakeSpace
  <2>2. enough \subseteq Nat /\ Len(w) \in enough
    BY <1>4
  <2>3. Min(enough) \in enough
    <3> HIDE DEF enough
    <3> QED BY <2>2, LeastIs
  <2> QED BY <2>1, <2>3
<1> HIDE DEF key, n
<1>6. /\ rest \in Seq(D) /\ Once(rest) /\ Len(rest) = Len(w) - n
      /\ ToSet(rest) = ToSet(w) \ out /\ out \subseteq ToSet(w)
  <2>1. LET a == SubSeq(w, 1, n)
            b == SubSeq(w, n + 1, Len(w))
        IN  /\ b \in Seq(D) /\ Once(b) /\ Len(b) = Len(w) - n
            /\ ToSet(b) = ToSet(w) \ ToSet(a) /\ ToSet(a) \subseteq ToSet(w)
    <3> HIDE DEF w, D
    <3> QED BY <1>4, <1>5, OnceParts
  <2> QED BY <2>1 DEF Oldest
<1> HIDE DEF w, out, rest
<1>7. /\ left \ {key} = ToSet(rest) /\ out \subseteq D /\ key \notin out
      /\ left \subseteq D /\ IsFiniteSet(left) /\ IsFiniteSet(left \ {key})
      /\ (key \in left <=> key \in D)
  <2>1. left \ {key} = ToSet(rest) /\ out \subseteq D /\ key \notin out
    BY <1>4, <1>6
  <2>2. left \subseteq D /\ left \ {key} \subseteq D
    OBVIOUS
  <2>3. IsFiniteSet(left) /\ IsFiniteSet(left \ {key})
    <3> HIDE DEF left, D
    <3> QED BY <1>3, <2>2, FS_Subset
  <2> QED BY <2>1, <2>2, <2>3
<1>8. PICK R \in Nat : R = Total(g, left \ {key})
  <2>1. \A k \in left \ {key} : g[k] \in Nat
    BY <1>3, <1>7
  <2> HIDE DEF g, left
  <2>2. Total(g, left \ {key}) \in Nat
    BY <1>7, <2>1, TotalBoth
  <2> QED BY <2>2
<1>9. GiveBack(WeightOf(partial, out)) = B + R
  <2>1. IsFiniteSet(out) /\ out \in SUBSET D
    <3> HIDE DEF D
    <3> QED BY <1>3, <1>7, FS_Subset
  <2>2. WeightOf(partial, out) = Total(g, out)
    <3> DEFINE h == [k \in out |-> Weight(partial[k])]
    <3>1. WeightOf(partial, out) = Total(h, out)
      BY <2>1, WeightOfIs
    <3>2. \A k \in out : h[k] = g[k]
      BY <2>1
    <3> HIDE DEF g, h
    <3>3. Total(h, out) = Total(g, out)
      BY <2>1, <3>2, TotalAgree
    <3> QED BY <3>1, <3>3
  <2>3. Total(g, D) = Total(g, out) + Total(g, left) /\ Total(g, out) \in Nat /\ Total(g, left) \in Nat
    <3> HIDE DEF g, D
    <3> QED BY <1>3, <2>1, TotalSplit
  <2>4. GiveBack(WeightOf(partial, out)) = Total(g, left)
    <3>1. PICK a \in Nat, b \in Nat : a = Total(g, out) /\ b = Total(g, left)
      BY <2>3
    <3>2. GiveBack(WeightOf(partial, out)) = Max({held - a, 0})
      BY <2>2, <3>1 DEF GiveBack
    <3>3. held - a = b
      BY <1>3, <2>3, <3>1
    <3>4. Max({b, 0}) = b
      BY NoLess
    <3> QED BY <3>1, <3>2, <3>3, <3>4
  <2>5. Total(g, left) = B + R
    <3>1. CASE key \in D
      <4>1. key \in left /\ g[key] = B
        BY <1>2, <1>7, <3>1 DEF Before, key
      <4>2. \A k \in left : g[k] \in Nat
        BY <1>3, <1>7
      <4> HIDE DEF g, left
      <4>3. Total(g, left) = g[key] + Total(g, left \ {key})
        BY <1>7, <4>1, <4>2, TotalBoth
      <4> QED BY <1>8, <4>1, <4>3
    <3>2. CASE key \notin D
      <4>1. left \ {key} = left /\ B = 0
        BY <1>2, <1>7, <3>2 DEF Before, key
      <4> QED BY <1>8, <4>1
    <3> QED BY <3>1, <3>2
  <2> QED BY <2>4, <2>5
<1>10. held' = IF stays THEN R + W ELSE R
  <2>1. GiveBack(WeightOf(partial, out)) + Weight(entry) - Before(f) = R + W
    BY <1>2, <1>8, <1>9
  <2>2. CASE stays
    BY <1>1, <2>1, <2>2
  <2>3. CASE ~stays
    <3>1. held' = Max({(R + W) - W, 0})
      BY <1>1, <1>2, <2>1, <2>3
    <3>2. (R + W) - W = R /\ Max({R, 0}) = R
      BY NoLess
    <3> QED BY <2>3, <3>1, <3>2
  <2> QED BY <2>2, <2>3
<1>11. /\ DOMAIN partial' = kept
       /\ \A k \in kept : partial'[k] = IF k = key THEN entry ELSE partial[k]
  BY <1>1
<1>12. MeasuredHold'
  BY <1>7, <1>11 DEF HeldInv, MeasuredHold
<1>13. Aged'
  <2>1. rest \in Seq(kept) /\ Once(rest) /\ ToSet(rest) = kept \ {key} /\ key \notin ToSet(rest)
    <3>1. ToSet(rest) = kept \ {key} /\ key \notin ToSet(rest) /\ ToSet(rest) \subseteq kept
      BY <1>7
    <3>2. Len(rest) \in Nat /\ DOMAIN rest = 1..Len(rest) /\ rest = [i \in 1..Len(rest) |-> rest[i]]
      BY <1>6, LenProperties
    <3>3. \A i \in 1..Len(rest) : rest[i] \in kept
      BY <3>1, <3>2 DEF ToSet
    <3>4. rest \in Seq(kept)
      <4> HIDE DEF kept
      <4>1. rest \in [1..Len(rest) -> kept]
        BY <3>2, <3>3
      <4> QED BY <3>2, <4>1
    <3> QED BY <1>6, <3>1, <3>4
  <2>2. CASE stays
    <3>1. key \in kept /\ kept = (kept \ {key}) \cup {key}
      BY <2>2
    <3> HIDE DEF kept
    <3>2. by_age' = Append(rest, key)
      BY <1>1, <2>2
    <3>3. Once(Append(rest, key)) /\ ToSet(Append(rest, key)) = kept
          /\ Append(rest, key) \in Seq(kept)
      <4>1. PICK K : K = kept
        OBVIOUS
      <4>2. rest \in Seq(K) /\ Once(rest) /\ key \in K /\ key \notin ToSet(rest)
        BY <2>1, <3>1, <4>1
      <4>3. /\ Append(rest, key) \in Seq(K) /\ Once(Append(rest, key))
            /\ ToSet(Append(rest, key)) = ToSet(rest) \cup {key}
        BY <4>2, OnceMore
      <4>4. ToSet(rest) \cup {key} = K
        BY <2>1, <3>1, <4>1
      <4> QED BY <4>1, <4>3, <4>4
    <3> QED BY <1>11, <3>2, <3>3 DEF Aged
  <2>3. CASE ~stays
    <3>1. kept \ {key} = kept
      BY <2>3
    <3>2. by_age' = rest
      BY <1>1, <2>3
    <3> HIDE DEF kept
    <3> QED BY <1>11, <2>1, <3>1, <3>2 DEF Aged
  <2> QED BY <2>2, <2>3
<1>14. IsFiniteSet(kept) /\ Cardinality(kept) = Len(by_age') /\ ToSet(by_age') = kept
  BY <1>11, <1>13, OnceCounts DEF Aged
<1>15. held' = WeightOf(partial', kept)
  <2> DEFINE h == [k \in kept |-> Weight(partial'[k])]
  <2>1. WeightOf(partial', kept) = Total(h, kept)
    BY <1>14, WeightOfIs
  <2>2. \A k \in left \ {key} : h[k] = g[k] /\ g[k] \in Nat
    BY <1>3, <1>7, <1>11
  <2>3. Total(h, left \ {key}) = R
    <3> HIDE DEF h, g, left
    <3> QED BY <1>7, <1>8, <2>2, TotalAgree
  <2>4. CASE stays
    <3>1. kept = (left \ {key}) \cup {key}
      BY <2>4
    <3>2. h[key] = W /\ \A k \in (left \ {key}) \cup {key} : h[k] \in Nat
      BY <1>2, <1>11, <2>2, <3>1
    <3> HIDE DEF h, g, left, kept
    <3>3. PICK S : S = left \ {key}
      OBVIOUS
    <3>4. key \notin S /\ IsFiniteSet(S) /\ \A k \in S \cup {key} : h[k] \in Nat
      BY <1>7, <3>2, <3>3
    <3>5. Total(h, S \cup {key}) = Total(h, S) + h[key]
      BY <3>4, TotalMore
    <3> QED BY <1>10, <2>1, <2>3, <2>4, <3>1, <3>2, <3>3, <3>5
  <2>5. CASE ~stays
    <3>1. kept = left \ {key}
      BY <2>5
    <3> QED BY <1>10, <2>1, <2>3, <2>5, <3>1
  <2> QED BY <2>4, <2>5
<1>16. PICK most \in Nat, many \in Nat \ {0} : most = MAX_FRAGMENT_BYTES /\ many = MAX_FRAGMENT_BUFFERS
  BY SizesAssumption
<1>17. PICK c \in Nat : c = Cardinality(left \ {key})
  BY <1>7, FS_CardinalityType
<1>18. Cardinality(kept) = IF stays THEN c + 1 ELSE c
  <2>1. CASE stays
    <3>1. kept = (left \ {key}) \cup {key} /\ key \notin left \ {key}
      BY <2>1
    <3> HIDE DEF kept, left
    <3> QED BY <1>7, <1>17, <2>1, <3>1, FS_AddElement
  <2>2. CASE ~stays
    BY <1>17, <2>2
  <2> QED BY <2>1, <2>2
<1>19. /\ held' <= most + z \/ Cardinality(kept) = 1
       /\ Cardinality(kept) <= many
  <2>1. CASE n = Len(w)
    <3>1. ToSet(rest) = {} /\ c = 0
      <4>1. Len(rest) = 0
        BY <1>4, <1>6, <2>1
      <4>2. rest = <<>>
        BY <1>6, <4>1, EmptySeq
      <4>3. ToSet(rest) = {}
        BY <4>2 DEF ToSet
      <4>4. Cardinality(left \ {key}) = 0
        BY <1>7, <4>3, FS_EmptySet
      <4> QED BY <1>17, <4>3, <4>4
    <3>2. R = 0
      BY <1>7, <1>8, <3>1, TotalNone
    <3> QED BY <1>10, <1>16, <1>18, <3>1, <3>2
  <2>2. CASE ~Over(left, GiveBack(WeightOf(partial, out)), f.len)
    <3>1. /\ ~(Cardinality(left) >= many)
          /\ ~(B + R + l > most /\ left # {})
      BY <1>2, <1>9, <1>16, <2>2 DEF Over
    <3>2. Cardinality(left) = IF key \in left THEN c + 1 ELSE c
      <4>1. CASE key \in left
        <5>1. left = (left \ {key}) \cup {key} /\ key \notin left \ {key}
          BY <4>1
        <5> HIDE DEF left
        <5> QED BY <1>7, <1>17, <4>1, <5>1, FS_AddElement
      <4>2. CASE key \notin left
        <5>1. left \ {key} = left
          BY <4>2
        <5> QED BY <1>17, <4>2, <5>1
      <4> QED BY <4>1, <4>2
    <3>3. Cardinality(kept) <= many
      BY <1>16, <1>17, <1>18, <3>1, <3>2
    <3>4. CASE left = {}
      <4>1. left \ {key} = {}
        BY <3>4
      <4>2. R = 0
        BY <1>8, <4>1, TotalNone
      <4>3. c = 0
        BY <1>17, <4>1, FS_EmptySet
      <4> QED BY <1>10, <1>16, <1>18, <3>3, <4>2, <4>3
    <3>5. CASE left # {}
      <4>1. B + R + l <= most
        BY <1>2, <1>8, <1>16, <3>1, <3>5
      <4>2. W <= B + l + z
        BY <1>2
      <4>3. held' <= most + z
        BY <1>2, <1>8, <1>10, <1>16, <4>1, <4>2
      <4> QED BY <3>3, <4>3
    <3> QED BY <3>4, <3>5
  <2> QED BY <1>5, <2>1, <2>2
<1>20. HeldBudget'
  BY <1>2, <1>11, <1>14, <1>15, <1>16, <1>19 DEF HeldBudget
<1> QED BY <1>12, <1>13, <1>20 DEF HeldInv

\* A message that is thrown away takes its bytes and its place with it.
LEMMA ForgetHeld ==
  ASSUME HeldInv, NEW f, Disagrees(f), Forget(f)
  PROVE  HeldInv'
<1> DEFINE key == Key(f)
           D == DOMAIN partial
           w == Others(key)
           kept == D \ {key}
           g == [k \in D |-> Weight(partial[k])]
           h == [k \in kept |-> Weight(partial'[k])]
<1>1. /\ partial' = [k \in kept |-> partial[k]]
      /\ by_age' = w
      /\ held' = GiveBack(Weight(partial[key]))
  BY DEF Forget
<1>2. DOMAIN partial' = kept /\ \A k \in kept : partial'[k] = partial[k]
  BY <1>1
<1>3. /\ IsFiniteSet(D) /\ IsFiniteSet(kept) /\ \A k \in D : g[k] \in Nat
      /\ held = Total(g, D)
  <2>1. IsFiniteSet(D)
    BY OnceCounts DEF HeldInv, Aged
  <2>2. IsFiniteSet(kept)
    BY <2>1, FS_Subset
  <2>3. \A k \in D : g[k] \in Nat
    BY WeightType DEF HeldInv, MeasuredHold
  <2>4. held = Total(g, D)
    BY <2>1, WeightOfIs DEF HeldInv, HeldBudget
  <2> QED BY <2>1, <2>2, <2>3, <2>4
<1>4. key \in D
  BY DEF Disagrees
<1>5. MeasuredHold'
  BY <1>2 DEF HeldInv, MeasuredHold
<1>6. Aged'
  <2>1. w \in Seq(D) /\ Once(w) /\ ToSet(w) = kept
    BY OthersIs DEF HeldInv
  <2> HIDE DEF w
  <2>2. Len(w) \in Nat /\ DOMAIN w = 1..Len(w) /\ w = [i \in 1..Len(w) |-> w[i]]
    BY <2>1, LenProperties
  <2> HIDE DEF kept
  <2>3. \A i \in 1..Len(w) : w[i] \in kept
    BY <2>1, <2>2 DEF ToSet
  <2>4. w \in [1..Len(w) -> kept]
    BY <2>2, <2>3
  <2>5. w \in Seq(kept)
    BY <2>2, <2>4
  <2> QED BY <1>1, <1>2, <2>1, <2>5 DEF Aged
<1>7. PICK R \in Nat, a \in Nat : R = Total(g, kept) /\ a = g[key] /\ held = R + a
  <2> HIDE DEF g, D
  <2>1. Total(g, D) = g[key] + Total(g, D \ {key}) /\ Total(g, D \ {key}) \in Nat
    <3>1. \A k \in D \ {key} : g[k] \in Nat
      BY <1>3
    <3> QED BY <1>3, <1>4, <3>1, TotalBoth
  <2> QED BY <1>3, <1>4, <2>1
<1>8. held' = R
  <2>1. held' = Max({held - a, 0})
    BY <1>1, <1>4, <1>7 DEF GiveBack
  <2>2. held - a = R /\ Max({R, 0}) = R
    BY <1>7, NoLess
  <2> QED BY <2>1, <2>2
<1>9. held' = WeightOf(partial', kept)
  <2>1. WeightOf(partial', kept) = Total(h, kept)
    BY <1>3, WeightOfIs
  <2>2. \A k \in kept : h[k] = g[k]
    BY <1>2
  <2> HIDE DEF h, g, kept
  <2>3. Total(h, kept) = Total(g, kept)
    BY <1>3, <2>2, TotalAgree
  <2> QED BY <1>7, <1>8, <2>1, <2>3
<1>10. Len(by_age') = Cardinality(kept) /\ ToSet(by_age') = kept
  BY <1>2, <1>6, OnceCounts DEF Aged
<1>11. PICK c \in Nat : Cardinality(kept) = c /\ Cardinality(D) = c + 1
  <2>1. Cardinality(kept) = Cardinality(D) - 1 /\ Cardinality(kept) \in Nat /\ Cardinality(D) \in Nat
    BY <1>3, <1>4, FS_RemoveElement, FS_CardinalityType
  <2> QED BY <2>1
<1>12. PICK most \in Nat, many \in Nat \ {0}, z \in Nat :
         most = MAX_FRAGMENT_BYTES /\ many = MAX_FRAGMENT_BUFFERS /\ z = PIECE_COST
  BY SizesAssumption
<1>13. (held <= most + z \/ c + 1 = 1) /\ c + 1 <= many
  BY <1>11, <1>12 DEF HeldInv, HeldBudget
<1>14. held' <= most + z /\ c <= many
  <2>1. CASE held <= most + z
    BY <1>7, <1>8, <1>12, <1>13, <2>1
  <2>2. CASE c = 0
    <3>1. kept = {}
      BY <1>3, <1>11, <2>2, NoMembers
    <3>2. R = 0
      BY <1>7, <3>1, TotalNone
    <3> QED BY <1>8, <1>12, <2>2, <3>2
  <2> QED BY <1>13, <2>1, <2>2
<1>15. HeldBudget'
  BY <1>2, <1>9, <1>10, <1>11, <1>12, <1>14 DEF HeldBudget
<1> QED BY <1>5, <1>6, <1>15 DEF HeldInv

\* A step that leaves the table and its accounts alone.
LEMMA HeldSame ==
  ASSUME HeldInv, UNCHANGED <<partial, by_age, held>>
  PROVE  HeldInv'
BY DEF HeldInv, MeasuredHold, Aged, HeldBudget

\* A fragment, whatever it says of itself beside its length.
LEMMA FeedHeld ==
  ASSUME HeldInv, NEW f, f.len \in Nat, Feed(f)
  PROVE  HeldInv'
<1>1. CASE Malformed(f)
  <2>1. UNCHANGED holdVars
    BY <1>1 DEF Feed
  <2>2. UNCHANGED <<partial, by_age, held>>
    BY <2>1 DEF holdVars
  <2> QED BY <2>2, HeldSame
<1>2. CASE ~Malformed(f) /\ Disagrees(f)
  BY <1>2, ForgetHeld DEF Feed
<1>3. CASE ~Malformed(f) /\ ~Disagrees(f)
  <2>1. /\ IsMeasured(Entry(f)) /\ Weight(Entry(f)) = Before(f) /\ Before(f) \in Nat
        /\ IsMeasured(WithPiece(f))
        /\ Fresh(f) => Weight(WithPiece(f)) = Before(f) + f.len + PIECE_COST
    BY PieceWeighs DEF HeldInv
  <2>2. PIECE_COST \in Nat
    BY SizesAssumption
  <2>3. CASE Fresh(f) /\ Overflows(f)
    <3>1. Update(f, Entry(f), TRUE)
      BY <1>3, <2>3 DEF Feed
    <3>2. PICK p : p = Entry(f)
      OBVIOUS
    <3>3. Update(f, p, TRUE) /\ IsMeasured(p) /\ Weight(p) = Before(f)
      BY <2>1, <3>1, <3>2
    <3>4. Before(f) <= Weight(p) /\ Weight(p) <= Before(f) + f.len + PIECE_COST
      BY <2>1, <2>2, <3>3
    <3>5. TRUE \in BOOLEAN
      OBVIOUS
    <3> QED BY <3>3, <3>4, <3>5, UpdateHeld
  <2>4. CASE ~(Fresh(f) /\ Overflows(f))
    <3>1. PICK p : p = IF Fresh(f) THEN WithPiece(f) ELSE Entry(f)
      OBVIOUS
    <3>2. \E stays \in BOOLEAN : Update(f, p, stays)
      BY <1>3, <2>4, <3>1 DEF Feed
    <3>3. IsMeasured(p) /\ Before(f) <= Weight(p)
          /\ Weight(p) <= Before(f) + f.len + PIECE_COST
      <4>1. CASE Fresh(f)
        BY <2>1, <2>2, <3>1, <4>1
      <4>2. CASE ~Fresh(f)
        BY <2>1, <2>2, <3>1, <4>2
      <4> QED BY <4>1, <4>2
    <3> QED BY <3>2, <3>3, UpdateHeld
  <2> QED BY <2>3, <2>4
<1> QED BY <1>1, <1>2, <1>3

\* What arrives has a length.
LEMMA ArrivesMeasured ==
  ASSUME SendInv, NEW d, d \in Strays \/ d \in DOMAIN net
  PROVE  d.len \in Nat
<1>1. CASE d \in Strays
  BY <1>1, StraysAssumption
<1>2. CASE d \in DOMAIN net
  <2>1. PICK m : Sendable(m) /\ \E i \in Indexes(m) : d = Datagram(m, i)
    BY <1>2 DEF SendInv, OwnDatagram
  <2>2. PICK i \in Indexes(m) : d = Datagram(m, i)
    BY <2>1
  <2>3. CASE Cut(m)
    <3>1. d = Fragment(m, i)
      BY <2>2, <2>3 DEF Datagram, Cut
    <3> QED BY <2>1, <2>2, <2>3, <3>1, CutTiles
  <2>4. CASE ~Cut(m)
    <3>1. d = Whole(m)
      BY <2>2, <2>4 DEF Datagram, Cut
    <3>2. m.len \in Nat
      BY <2>1, PublishedLengths DEF Sendable, Lengths
    <3> QED BY <3>1, <3>2 DEF Whole
  <2> QED BY <2>3, <2>4
<1> QED BY <1>1, <1>2

\* The empty table.
LEMMA HeldInit == Init => HeldInv
<1> SUFFICES ASSUME Init PROVE HeldInv
  OBVIOUS
<1>1. partial = << >> /\ by_age = <<>> /\ held = 0
  BY DEF Init
<1>2. DOMAIN partial = {}
  BY <1>1
<1>3. MeasuredHold
  BY <1>2 DEF MeasuredHold
<1>4. ToSet(by_age) = {} /\ Len(by_age) = 0
  BY <1>1 DEF ToSet
<1>5. Aged
  <2>1. by_age \in Seq(DOMAIN partial)
    BY <1>1
  <2>2. Once(by_age)
    BY <1>1 DEF Once
  <2> QED BY <1>2, <1>4, <2>1, <2>2 DEF Aged
<1>6. Cardinality(DOMAIN partial) = 0 /\ IsFiniteSet(DOMAIN partial)
  BY <1>2, FS_EmptySet
<1>7. WeightOf(partial, DOMAIN partial) = 0
  <2> DEFINE g == [k \in DOMAIN partial |-> Weight(partial[k])]
  <2>1. WeightOf(partial, DOMAIN partial) = Total(g, {})
    BY <1>2, <1>6, WeightOfIs
  <2> HIDE DEF g
  <2> QED BY <2>1, TotalNone
<1>8. HeldBudget
  BY <1>1, <1>2, <1>4, <1>6, <1>7, SizesAssumption DEF HeldBudget
<1> QED BY <1>3, <1>5, <1>8 DEF HeldInv

\* The accounts of the receiver agree in every state: each message it holds has
\* one place in the line of ages, and the bytes it charges are the bytes it has.
THEOREM HeldCorrect == Spec => []HeldInv
<1>1. ASSUME HeldInv, SendInv, [Next]_vars PROVE HeldInv'
  <2>1. ASSUME UNCHANGED <<partial, by_age, held>> PROVE HeldInv'
    BY <1>1, <2>1, HeldSame
  <2>2. ASSUME NEW d, d \in Strays \/ d \in DOMAIN net, on_datagram(d) PROVE HeldInv'
    <3>1. CASE d.whole
      BY <2>1, <2>2, <3>1 DEF on_datagram, holdVars
    <3>2. CASE ~d.whole
      <4>1. Feed(d)
        BY <2>2, <3>2 DEF on_datagram
      <4> QED BY <1>1, <2>2, <4>1, ArrivesMeasured, FeedHeld
    <3> QED BY <3>1, <3>2
  <2>3. CASE UNCHANGED vars
    BY <2>1, <2>3 DEF vars, holdVars
  <2>4. ASSUME NEW t \in Threads, Publish(t) \/ Send(t) PROVE HeldInv'
    BY <2>1, <2>4 DEF Publish, Send, receiverRest, holdVars
  <2>5. ASSUME NEW d \in Strays, Stray(d) PROVE HeldInv'
    BY <2>2, <2>5 DEF Stray
  <2>6. ASSUME NEW d \in BagToSet(net), Repeat(d) \/ Receive(d) PROVE HeldInv'
    BY <2>2, <2>6 DEF Repeat, Receive, BagToSet
  <2> QED BY <1>1, <2>3, <2>4, <2>5, <2>6 DEF Next
<1> QED BY <1>1, HeldInit, SendCorrect, PTL DEF Spec

\* The receiver never holds more than its budget and one datagram's cost, or
\* one message alone, nor more messages than it has places for.
THEOREM HeldBudgetHolds == Spec => []HeldBudget
<1>1. HeldInv => HeldBudget
  BY DEF HeldInv
<1> QED BY <1>1, HeldCorrect, PTL

=============================================================================
