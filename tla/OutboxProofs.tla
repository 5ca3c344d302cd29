---------------------------- MODULE OutboxProofs ----------------------------
(***************************************************************************)
(* Proofs about Outbox, for any number of threads, any limits and any       *)
(* lengths of frames.                                                       *)
(*                                                                         *)
(* The types and the line of tickets are inductive together: a publisher    *)
(* that sleeps is in the line, so the line it leaves is not empty.  The      *)
(* counts need more (CountInv): which frame the writer holds at each of its  *)
(* steps, and whether the kernel has all of it.  On these two rest the       *)
(* order on the stream, the wake-ups, the implementation of FrameLine and    *)
(* the budget of bytes.                                                      *)
(***************************************************************************)
EXTENDS Outbox, SequenceLemmas, SequenceTheorems, TLAPS

-----------------------------------------------------------------------------
(* Sequences.                                                              *)

\* Taking the element at place i out of a sequence, as LeaveLine does.
LEMMA RemoveSeq ==
  ASSUME NEW S, NEW s \in Seq(S), NEW i \in 1..Len(s)
  PROVE  LET r == [j \in 1..Len(s) - 1 |-> s[IF j < i THEN j ELSE j + 1]]
         IN /\ r \in Seq(S)
            /\ Len(r) = Len(s) - 1
<1> DEFINE n == Len(s) - 1
           r == [j \in 1..n |-> s[IF j < i THEN j ELSE j + 1]]
<1>1. Len(s) \in Nat /\ n \in Nat
  OBVIOUS
<1>2. r \in [1..n -> S]
  <2>1. ASSUME NEW j \in 1..n PROVE s[IF j < i THEN j ELSE j + 1] \in S
    BY <1>1
  <2> QED BY <2>1
<1> HIDE DEF n, r
<1>3. r \in Seq(S)
  BY <1>1, <1>2, SeqDef
<1>4. Len(r) = n
  BY <1>1, <1>2, <1>3
<1> QED BY <1>3, <1>4 DEF n, r

\* A line that holds exactly the threads of W, each once.
Holds(s, W) ==
  /\ \A i, j \in 1..Len(s) : s[i] = s[j] => i = j
  /\ \A t \in Publishers : (t \in W) <=> (\E i \in 1..Len(s) : s[i] = t)

\* A new element at the back of a line.
LEMMA HoldsAppend ==
  ASSUME NEW s \in Seq(Publishers), NEW W, Holds(s, W),
         NEW t \in Publishers, t \notin W
  PROVE  /\ Append(s, t) \in Seq(Publishers)
         /\ Holds(Append(s, t), W \cup {t})
<1>1. /\ Append(s, t) \in Seq(Publishers)
      /\ Len(Append(s, t)) = Len(s) + 1
      /\ \A i \in 1..Len(s) : Append(s, t)[i] = s[i]
      /\ Append(s, t)[Len(s) + 1] = t
      /\ Len(s) \in Nat
  OBVIOUS
<1>2. \A i \in 1..Len(s) : s[i] # t
  BY DEF Holds
<1>3. ASSUME NEW i \in 1..Len(Append(s, t)), NEW j \in 1..Len(Append(s, t)),
             Append(s, t)[i] = Append(s, t)[j]
      PROVE  i = j
  BY <1>1, <1>2, <1>3 DEF Holds
<1>4. ASSUME NEW u \in Publishers
      PROVE  (u \in W \cup {t}) <=>
             (\E i \in 1..Len(Append(s, t)) : Append(s, t)[i] = u)
  <2>1. CASE u = t
    BY <2>1, <1>1
  <2>2. CASE u # t
    BY <2>2, <1>1 DEF Holds
  <2> QED BY <2>1, <2>2
<1> QED BY <1>1, <1>3, <1>4 DEF Holds

\* The front of a line leaves it.
LEMMA HoldsTail ==
  ASSUME NEW s \in Seq(Publishers), NEW W, Holds(s, W),
         NEW t \in Publishers, t \in W, Head(s) = t
  PROVE  /\ Tail(s) \in Seq(Publishers)
         /\ Holds(Tail(s), W \ {t})
<1>1. s # <<>>
  BY DEF Holds
<1>2. /\ Tail(s) \in Seq(Publishers)
      /\ Len(Tail(s)) = Len(s) - 1
      /\ \A i \in 1..Len(s) - 1 : Tail(s)[i] = s[i + 1]
      /\ Len(s) \in Nat
      /\ s[1] = t
  BY <1>1
<1>3. ASSUME NEW i \in 1..Len(Tail(s)), NEW j \in 1..Len(Tail(s)),
             Tail(s)[i] = Tail(s)[j]
      PROVE  i = j
  <2>1. s[i + 1] = s[j + 1] /\ i + 1 \in 1..Len(s) /\ j + 1 \in 1..Len(s)
    BY <1>2, <1>3
  <2>2. i + 1 = j + 1
    BY <2>1 DEF Holds
  <2> QED BY <2>2, <1>2
<1>4. ASSUME NEW u \in Publishers
      PROVE  (u \in W \ {t}) <=> (\E i \in 1..Len(Tail(s)) : Tail(s)[i] = u)
  <2>1. ASSUME u \in W \ {t} PROVE \E i \in 1..Len(Tail(s)) : Tail(s)[i] = u
    <3>1. PICK i \in 1..Len(s) : s[i] = u
      BY <2>1 DEF Holds
    <3>2. i # 1
      BY <3>1, <2>1, <1>2
    <3>3. i - 1 \in 1..Len(Tail(s)) /\ Tail(s)[i - 1] = u
      BY <3>1, <3>2, <1>2
    <3> QED BY <3>3
  <2>2. ASSUME NEW i \in 1..Len(Tail(s)), Tail(s)[i] = u PROVE u \in W \ {t}
    <3>1. i + 1 \in 1..Len(s) /\ s[i + 1] = u /\ i + 1 # 1 /\ 1 \in 1..Len(s)
      BY <2>2, <1>2
    <3>2. u # t
      BY <3>1, <1>2 DEF Holds
    <3> QED BY <3>1, <3>2 DEF Holds
  <2> QED BY <2>1, <2>2
<1> QED BY <1>2, <1>3, <1>4 DEF Holds

\* One element leaves a line, from wherever it is.
LEMMA HoldsRemove ==
  ASSUME NEW s \in Seq(Publishers), NEW W, Holds(s, W),
         NEW t \in Publishers, NEW i \in 1..Len(s), s[i] = t,
         NEW r, r = [j \in 1..Len(s) - 1 |-> s[IF j < i THEN j ELSE j + 1]]
  PROVE  /\ r \in Seq(Publishers)
         /\ Holds(r, W \ {t})
<1>1. /\ r \in Seq(Publishers)
      /\ Len(r) = Len(s) - 1
      /\ Len(s) \in Nat
  BY RemoveSeq
<1>2. \A j \in 1..Len(s) - 1 : r[j] = s[IF j < i THEN j ELSE j + 1]
  OBVIOUS
<1>3. ASSUME NEW j \in 1..Len(r), NEW k \in 1..Len(r), r[j] = r[k]
      PROVE  j = k
  <2> DEFINE a == IF j < i THEN j ELSE j + 1
             b == IF k < i THEN k ELSE k + 1
  <2>1. a \in 1..Len(s) /\ b \in 1..Len(s)
    BY <1>1
  <2>2. s[a] = s[b]
    BY <1>1, <1>2, <1>3
  <2>3. a = b
    BY <2>1, <2>2 DEF Holds
  <2> QED BY <2>3, <1>1
<1>4. ASSUME NEW u \in Publishers
      PROVE  (u \in W \ {t}) <=> (\E j \in 1..Len(r) : r[j] = u)
  <2>1. ASSUME u \in W \ {t} PROVE \E j \in 1..Len(r) : r[j] = u
    <3>1. PICK k \in 1..Len(s) : s[k] = u
      BY <2>1 DEF Holds
    <3>2. k # i
      BY <3>1, <2>1
    <3> DEFINE j == IF k < i THEN k ELSE k - 1
    <3>3. j \in 1..Len(r) /\ (IF j < i THEN j ELSE j + 1) = k
      BY <3>2, <1>1
    <3>4. r[j] = u
      BY <3>1, <3>3, <1>1, <1>2
    <3> QED BY <3>3, <3>4
  <2>2. ASSUME NEW j \in 1..Len(r), r[j] = u PROVE u \in W \ {t}
    <3> DEFINE k == IF j < i THEN j ELSE j + 1
    <3>1. k \in 1..Len(s) /\ s[k] = u /\ k # i
      BY <2>2, <1>1, <1>2
    <3>2. u # t
      BY <3>1 DEF Holds
    <3>3. u \in W
      BY <3>1 DEF Holds
    <3> QED BY <3>2, <3>3
  <2> QED BY <2>1, <2>2
<1> QED BY <1>1, <1>3, <1>4 DEF Holds


-----------------------------------------------------------------------------
(* The types and the line of tickets.                                      *)

TypeInv == TypeOK /\ LineIsTheWaiters

Asleep == {t \in Publishers : pc[t] = "asleep"}

\* The line of tickets as a line that holds a set.
LEMMA LineHolds == LineIsTheWaiters <=> Holds(line, Asleep)
BY DEF LineIsTheWaiters, Holds, Asleep

\* And after a step.
LEMMA LineHoldsPrime == LineIsTheWaiters' <=> Holds(line', Asleep')
BY DEF LineIsTheWaiters, Holds, Asleep

\* An action that leaves the variables of a part alone leaves the part true.
LEMMA SameQueue == ASSUME QueueType, UNCHANGED queueVars PROVE QueueType'
BY DEF QueueType, queueVars

\* A step that leaves the counts alone leaves their types.
LEMMA SameSent ==
  ASSUME SentType, UNCHANGED <<taken, wrote, lost, wire>> PROVE SentType'
BY DEF SentType

\* A step that leaves the callers alone leaves their types.
LEMMA SameCaller ==
  ASSUME CallerType, UNCHANGED callerVars, room' \in SUBSET Callers
  PROVE  CallerType'
BY DEF CallerType, callerVars

\* A step that leaves the line and the places of the callers alone.
LEMMA SameLine ==
  ASSUME LineIsTheWaiters, UNCHANGED <<line, pc>> PROVE LineIsTheWaiters'
BY DEF LineIsTheWaiters

\* Only a publisher's pc matters to the line.
LEMMA OtherLine ==
  ASSUME LineIsTheWaiters, UNCHANGED line, CallerType,
         NEW t \in Callers, NEW w,
         pc' = [pc EXCEPT ![t] = w],
         t \in Publishers => pc[t] # "asleep" /\ w # "asleep"
  PROVE  LineIsTheWaiters'
<1>1. \A u \in Publishers : (pc'[u] = "asleep") <=> (pc[u] = "asleep")
  BY DEF CallerType, Callers
<1> QED BY <1>1 DEF LineIsTheWaiters

\* The limits of both lanes are numbers.
LEMMA LaneLimit == \A lane \in Lane : Limit[lane] \in Nat
BY SizesAssumption DEF Limit

\* What a call that gives back does to its own variables.
LEMMA ReturnType ==
  ASSUME CallerType, NEW t \in Callers, NEW what \in Returned,
         Return(t, what), UNCHANGED calls,
         wanted' \in [Callers -> [Lane -> Nat]], room' \in SUBSET Callers
  PROVE  CallerType'
<1>1. pc' \in [Callers -> Returned \cup {"called", "asleep"}]
  BY DEF CallerType, Return
<1>2. /\ len' \in [Callers -> Lens \cup {0}]
      /\ late' \in [Callers -> BOOLEAN]
      /\ calls' \in [Callers -> Nat]
  BY DEF CallerType, Return
<1>3. ASSUME NEW u \in Publishers \cup Subscribers, pc'[u] \in {"called", "asleep"}
      PROVE  len'[u] \in Lens
  <2>1. u \in Callers
    BY DEF Callers
  <2>2. u # t
    BY <1>3, <2>1 DEF CallerType, Return, Returned, Refused
  <2> QED BY <2>1, <2>2, <1>3 DEF CallerType, Return
<1> QED BY <1>1, <1>2, <1>3 DEF CallerType

\* What a frame that goes in does to the queue and to the counts.
LEMMA EnterType ==
  ASSUME QueueType, SentType, CallerType, NEW t \in Callers, NEW lane \in Lane,
         len[t] \in Lens, Enter(t, lane),
         UNCHANGED <<open, in_hand, wrote, lost, wire>>,
         line' \in Seq(Publishers)
  PROVE  QueueType' /\ SentType'
<1>1. len[t] \in Nat /\ FRAME_COST \in Nat
  BY SizesAssumption
<1>2. waiting' \in [Lane -> Int]
  <2>1. waiting \in [Lane -> Int] /\ waiting[lane] + len[t] + FRAME_COST \in Int
    BY <1>1 DEF QueueType
  <2> QED BY <2>1 DEF Enter
<1>3. taken \in [Lane -> Nat] /\ taken' \in [Lane -> Nat]
  BY DEF SentType, Enter
<1>4. NewFrame(t, lane) \in Frame
  BY <1>3 DEF Frame, NewFrame
<1>5. frames' \in [Lane -> Seq(Frame)]
  BY <1>4 DEF QueueType, Enter
<1> QED BY <1>2, <1>3, <1>5 DEF QueueType, SentType

\* A put that waits keeps the types.
LEMMA SleepType ==
  ASSUME CallerType, NEW t \in Callers, Sleep(t), Awake(t), UNCHANGED calls,
         wanted' \in [Callers -> [Lane -> Nat]]
  PROVE  CallerType'
<1>1. pc' \in [Callers -> Returned \cup {"called", "asleep"}]
  BY DEF CallerType, Sleep
<1>2. ASSUME NEW u \in Publishers \cup Subscribers, pc'[u] \in {"called", "asleep"}
      PROVE  len'[u] \in Lens
  <2>1. u \in Callers
    BY DEF Callers
  <2>2. pc[u] \in {"called", "asleep"}
    BY <1>2, <2>1 DEF CallerType, Sleep, Awake
  <2> QED BY <2>2 DEF CallerType, Sleep
<1>3. room' \in SUBSET Callers
  BY DEF CallerType, Sleep
<1> QED BY <1>1, <1>2, <1>3 DEF CallerType, Sleep

\* A caller that is awake has a frame of a length it may publish.
LEMMA AwakeLen ==
  ASSUME CallerType, NEW t \in Publishers \cup Subscribers, Awake(t)
  PROVE  len[t] \in Lens
BY DEF CallerType, Awake

\* The line as put_message sees it holds the sleepers and the caller.
LEMMA LineOfHolds ==
  ASSUME QueueType, CallerType, LineIsTheWaiters, NEW t \in Publishers, Awake(t)
  PROVE  /\ LineOf(t) \in Seq(Publishers)
         /\ Holds(LineOf(t), Asleep \cup {t})
<1>1. line \in Seq(Publishers) /\ Holds(line, Asleep)
  BY LineHolds DEF QueueType
<1>2. CASE pc[t] = "called"
  <2>1. t \notin Asleep
    BY <1>2 DEF Asleep
  <2> QED BY <1>1, <1>2, <2>1, HoldsAppend DEF LineOf
<1>3. CASE pc[t] # "called"
  <2>1. pc[t] = "asleep"
    BY <1>3 DEF Awake
  <2>2. Asleep \cup {t} = Asleep
    BY <2>1 DEF Asleep
  <2> QED BY <1>1, <1>3, <2>2 DEF LineOf
<1> QED BY <1>2, <1>3

\* put_message keeps the types and the line.
LEMMA PutMessageType ==
  ASSUME TypeInv, NEW t \in Publishers, PutMessage(t)
  PROVE  TypeInv'
<1>0. /\ QueueType /\ SentType /\ CallerType /\ WriterType
      /\ LineIsTheWaiters /\ Awake(t) /\ t \in Callers
  BY DEF TypeInv, TypeOK, PutMessage, Callers
<1>1. /\ UNCHANGED <<open, in_hand, wrote, lost, wire, calls, wanted>>
      /\ UNCHANGED <<writer, hand, rest, running, writable>>
  BY DEF PutMessage, callerRest, writerVars, flagVars
<1>2. /\ LineOf(t) \in Seq(Publishers)
      /\ Holds(LineOf(t), Asleep \cup {t})
  BY <1>0, LineOfHolds
<1>3. wanted' \in [Callers -> [Lane -> Nat]]
  BY <1>0, <1>1 DEF CallerType
<1>4. CASE /\ open /\ MayEnter(t)
           /\ Enter(t, "message")
           /\ LeaveFront(t)
  <2>1. /\ line' \in Seq(Publishers)
        /\ Holds(line', (Asleep \cup {t}) \ {t})
    BY <1>2, <1>4, HoldsTail DEF LeaveFront, MayEnter
  <2>2. QueueType' /\ SentType'
    BY <1>0, <1>1, <1>4, <2>1, AwakeLen, EnterType DEF Lane
  <2>3. Return(t, "Ok") /\ filled' = FALSE
    BY <1>4 DEF Enter
  <2>4. CallerType'
    <3>1. room' \in SUBSET Callers /\ "Ok" \in Returned
      BY <1>4 DEF LeaveFront, Returned
    <3> QED BY <3>1, <1>0, <1>1, <1>3, <2>3, ReturnType
  <2>5. Asleep' = (Asleep \cup {t}) \ {t}
    BY <1>0, <2>3 DEF Asleep, Return, CallerType, Callers
  <2>6. LineIsTheWaiters'
    BY <2>1, <2>5, LineHoldsPrime
  <2>7. WriterType'
    BY <1>0, <1>1, <2>3 DEF WriterType
  <2> QED BY <2>2, <2>4, <2>6, <2>7 DEF TypeInv, TypeOK
<1>5. CASE Sleep(t) /\ line' = LineOf(t)
  <2>1. QueueType' /\ SentType'
    BY <1>0, <1>1, <1>2, <1>5 DEF QueueType, SentType, Sleep
  <2>2. CallerType'
    BY <1>0, <1>1, <1>3, <1>5, SleepType
  <2>3. Asleep' = Asleep \cup {t}
    BY <1>0, <1>5 DEF Asleep, Sleep, CallerType, Callers
  <2>4. LineIsTheWaiters'
    BY <1>2, <1>5, <2>3, LineHoldsPrime
  <2>5. WriterType'
    BY <1>0, <1>1, <1>5 DEF WriterType, Sleep
  <2> QED BY <2>1, <2>2, <2>4, <2>5 DEF TypeInv, TypeOK
<1>6. ASSUME NEW why \in {"Gone", "TooSlow"}, Refuse(t, why), LeaveLine(t)
      PROVE  TypeInv'
  <2>1. PICK i \in 1..Len(LineOf(t)) :
          /\ LineOf(t)[i] = t
          /\ line' = [j \in 1..Len(LineOf(t)) - 1 |->
                        LineOf(t)[IF j < i THEN j ELSE j + 1]]
    BY <1>6 DEF LeaveLine
  <2>2. /\ line' \in Seq(Publishers)
        /\ Holds(line', (Asleep \cup {t}) \ {t})
    BY <1>2, <2>1, HoldsRemove
  <2>3. Return(t, why) /\ UNCHANGED <<frames, waiting, taken, filled>>
    BY <1>6 DEF Refuse
  <2>4. QueueType' /\ SentType'
    BY <1>0, <1>1, <2>2, <2>3 DEF QueueType, SentType
  <2>5. CallerType'
    <3>1. room' \in SUBSET Callers /\ why \in Returned
      BY <1>6 DEF LeaveLine, Returned, Refused
    <3> QED BY <3>1, <1>0, <1>1, <1>3, <2>3, ReturnType
  <2>6. Asleep' = (Asleep \cup {t}) \ {t}
    BY <1>0, <1>6, <2>3 DEF Asleep, Return, CallerType, Callers
  <2>7. LineIsTheWaiters'
    BY <2>2, <2>6, LineHoldsPrime
  <2>8. WriterType'
    BY <1>0, <1>1, <2>3 DEF WriterType
  <2> QED BY <2>4, <2>5, <2>7, <2>8 DEF TypeInv, TypeOK
<1> QED BY <1>4, <1>5, <1>6 DEF PutMessage


\* put_control keeps the types and the line.
LEMMA PutControlType ==
  ASSUME TypeInv, NEW t \in Subscribers, PutControl(t)
  PROVE  TypeInv'
<1>0. /\ QueueType /\ SentType /\ CallerType /\ WriterType
      /\ LineIsTheWaiters /\ Awake(t) /\ t \in Callers /\ t \notin Publishers
  BY ThreadsAssumption DEF TypeInv, TypeOK, PutControl, Callers
<1>1. /\ UNCHANGED <<open, in_hand, wrote, lost, wire, calls, wanted, line>>
      /\ UNCHANGED <<writer, hand, rest, running, writable>>
  BY DEF PutControl, callerRest, writerVars, flagVars
<1>2. wanted' \in [Callers -> [Lane -> Nat]] /\ line' \in Seq(Publishers)
  BY <1>0, <1>1 DEF CallerType, QueueType
<1>3. CASE Enter(t, "control") /\ UNCHANGED room
  <2>1. QueueType' /\ SentType'
    BY <1>0, <1>1, <1>2, <1>3, AwakeLen, EnterType DEF Lane
  <2>2. Return(t, "Ok") /\ filled' = FALSE
    BY <1>3 DEF Enter
  <2>3. CallerType'
    <3>1. room' \in SUBSET Callers /\ "Ok" \in Returned
      BY <1>0, <1>3 DEF CallerType, Returned
    <3> QED BY <3>1, <1>0, <1>1, <1>2, <2>2, ReturnType
  <2>4. LineIsTheWaiters'
    BY <1>0, <1>1, <2>2, OtherLine DEF Return
  <2>5. WriterType'
    BY <1>0, <1>1, <2>2 DEF WriterType
  <2> QED BY <2>1, <2>3, <2>4, <2>5 DEF TypeInv, TypeOK
<1>4. CASE Sleep(t)
  <2>1. QueueType' /\ SentType'
    BY <1>0, <1>1, <1>2, <1>4 DEF QueueType, SentType, Sleep
  <2>2. CallerType'
    BY <1>0, <1>1, <1>2, <1>4, SleepType
  <2>3. LineIsTheWaiters'
    BY <1>0, <1>1, <1>4, OtherLine DEF Sleep
  <2>4. WriterType'
    BY <1>0, <1>1, <1>4 DEF WriterType, Sleep
  <2> QED BY <2>1, <2>2, <2>3, <2>4 DEF TypeInv, TypeOK
<1>5. ASSUME NEW why \in {"Gone", "TooSlow"}, Refuse(t, why), UNCHANGED room
      PROVE  TypeInv'
  <2>1. Return(t, why) /\ UNCHANGED <<frames, waiting, taken, filled>>
    BY <1>5 DEF Refuse
  <2>2. QueueType' /\ SentType'
    BY <1>0, <1>1, <1>2, <2>1 DEF QueueType, SentType
  <2>3. CallerType'
    <3>1. room' \in SUBSET Callers /\ why \in Returned
      BY <1>0, <1>5 DEF CallerType, Returned, Refused
    <3> QED BY <3>1, <1>0, <1>1, <1>2, <2>1, ReturnType
  <2>4. LineIsTheWaiters'
    BY <1>0, <1>1, <2>1, OtherLine DEF Return
  <2>5. WriterType'
    BY <1>0, <1>1, <2>1 DEF WriterType
  <2> QED BY <2>2, <2>3, <2>4, <2>5 DEF TypeInv, TypeOK
<1> QED BY <1>3, <1>4, <1>5 DEF PutControl

\* flushed keeps the types and the line.
LEMMA FlushedType ==
  ASSUME TypeInv, NEW t \in Flushers, Flushed(t)
  PROVE  TypeInv'
<1>0. /\ QueueType /\ SentType /\ CallerType /\ WriterType
      /\ LineIsTheWaiters /\ Awake(t) /\ t \in Callers /\ t \notin Publishers
  BY ThreadsAssumption DEF TypeInv, TypeOK, Flushed, Callers
<1>1. /\ UNCHANGED <<open, in_hand, wrote, lost, wire, calls, line>>
      /\ UNCHANGED <<writer, hand, rest, running, writable>>
  BY DEF Flushed, callerRest, writerVars, flagVars
<1>2. wanted' \in [Callers -> [Lane -> Nat]]
  <2>1. WantedBy(t) \in [Lane -> Nat]
    BY <1>0 DEF WantedBy, CallerType, SentType
  <2> QED BY <1>0, <2>1 DEF Flushed, CallerType
<1>3. CASE Sleep(t)
  <2>1. QueueType' /\ SentType'
    BY <1>0, <1>1, <1>3 DEF QueueType, SentType, Sleep
  <2>2. CallerType'
    BY <1>0, <1>1, <1>2, <1>3, SleepType
  <2>3. LineIsTheWaiters'
    BY <1>0, <1>1, <1>3, OtherLine DEF Sleep
  <2>4. WriterType'
    BY <1>0, <1>1, <1>3 DEF WriterType, Sleep
  <2> QED BY <2>1, <2>2, <2>3, <2>4 DEF TypeInv, TypeOK
<1>4. ASSUME NEW why \in {"Ok", "Gone", "TooSlow"}, Refuse(t, why), UNCHANGED room
      PROVE  TypeInv'
  <2>1. Return(t, why) /\ UNCHANGED <<frames, waiting, taken, filled>>
    BY <1>4 DEF Refuse
  <2>2. QueueType' /\ SentType'
    BY <1>0, <1>1, <2>1 DEF QueueType, SentType
  <2>3. CallerType'
    <3>1. room' \in SUBSET Callers /\ why \in Returned
      BY <1>0, <1>4 DEF CallerType, Returned, Refused
    <3> QED BY <3>1, <1>0, <1>1, <1>2, <2>1, ReturnType
  <2>4. LineIsTheWaiters'
    BY <1>0, <1>1, <2>1, OtherLine DEF Return
  <2>5. WriterType'
    BY <1>0, <1>1, <2>1 DEF WriterType
  <2> QED BY <2>2, <2>3, <2>4, <2>5 DEF TypeInv, TypeOK
<1> QED BY <1>3, <1>4 DEF Flushed

\* The start of a call keeps the types and the line.
LEMMA CallType ==
  ASSUME TypeInv, NEW t \in Callers, Call(t)
  PROVE  TypeInv'
<1>0. /\ QueueType /\ SentType /\ CallerType /\ WriterType
      /\ LineIsTheWaiters
  BY DEF TypeInv, TypeOK
<1>1. QueueType' /\ SentType' /\ WriterType'
  BY <1>0 DEF Call, queueVars, sentVars, writerVars, flagVars, QueueType,
              SentType, WriterType
<1>2. PICK w \in {"called", "Closed"} :
        /\ pc' = [pc EXCEPT ![t] = w]
        /\ w = "called" /\ t \notin Flushers => len'[t] \in Lens
        /\ len' \in [Callers -> Lens \cup {0}]
        /\ \A u \in Callers : u # t => len'[u] = len[u]
  <2>1. CASE t \in Flushers
    BY <1>0, <2>1 DEF Call, CallerType
  <2>2. CASE t \notin Flushers /\ writable
    <3>1. PICK l \in Lens : len' = [len EXCEPT ![t] = l]
      BY <2>2 DEF Call
    <3> QED BY <1>0, <2>2, <3>1 DEF Call, CallerType
  <2>3. CASE t \notin Flushers /\ ~writable
    BY <1>0, <2>3 DEF Call, CallerType
  <2> QED BY <2>1, <2>2, <2>3
<1>3. CallerType'
  <2>1. pc' \in [Callers -> Returned \cup {"called", "asleep"}]
    BY <1>0, <1>2 DEF CallerType, Returned
  <2>2. /\ room' \in SUBSET Callers
        /\ late' \in [Callers -> BOOLEAN]
        /\ wanted' \in [Callers -> [Lane -> Nat]]
        /\ calls' \in [Callers -> Nat]
    BY <1>0 DEF CallerType, Call
  <2>3. ASSUME NEW u \in Publishers \cup Subscribers, pc'[u] \in {"called", "asleep"}
        PROVE  len'[u] \in Lens
    <3>1. u \in Callers /\ u \notin Flushers
      BY ThreadsAssumption DEF Callers
    <3>2. CASE u = t
      BY <1>0, <1>2, <2>3, <3>1, <3>2 DEF CallerType
    <3>3. CASE u # t
      BY <1>0, <1>2, <2>3, <3>1, <3>3 DEF CallerType
    <3> QED BY <3>2, <3>3
  <2> QED BY <1>2, <2>1, <2>2, <2>3 DEF CallerType
<1>4. LineIsTheWaiters'
  <2>1. pc[t] # "asleep"
    BY DEF Call, Returned, Refused
  <2>2. UNCHANGED line
    BY DEF Call, queueVars
  <2> QED BY <1>0, <1>2, <2>1, <2>2, OtherLine
<1> QED BY <1>1, <1>3, <1>4 DEF TypeInv, TypeOK

\* A deadline or a spurious wake-up keeps the types and the line.
LEMMA WakeType ==
  ASSUME TypeInv, NEW t \in Callers, Deadline(t) \/ Spurious(t)
  PROVE  TypeInv'
<1>0. /\ QueueType /\ SentType /\ CallerType /\ WriterType
      /\ LineIsTheWaiters
  BY DEF TypeInv, TypeOK
<1>1. QueueType' /\ SentType' /\ WriterType'
  BY <1>0 DEF Deadline, Spurious, queueVars, sentVars, writerVars, flagVars,
              QueueType, SentType, WriterType
<1>2. UNCHANGED <<line, pc, len, wanted, calls>>
  BY DEF Deadline, Spurious, queueVars, callerVars
<1>3. late' \in [Callers -> BOOLEAN] /\ room' \in SUBSET Callers
  BY <1>0 DEF Deadline, Spurious, callerVars, CallerType
<1>4. CallerType'
  BY <1>0, <1>2, <1>3 DEF CallerType
<1>5. LineIsTheWaiters'
  BY <1>0, <1>2, SameLine
<1> QED BY <1>1, <1>4, <1>5 DEF TypeInv, TypeOK

\* A step of the writer leaves the calls alone, but for those it wakes.
LEMMA WriterLeavesCalls ==
  ASSUME TypeInv, WriterStep \/ StopRunning \/ StopWritable \/ CloseShut
  PROVE  CallerType' /\ LineIsTheWaiters' /\ UNCHANGED <<line, taken, pc, wanted>>
<1>1. UNCHANGED <<line, taken, callerVars>>
  BY DEF WriterStep, Top, Take, Patience, Check, Send, Poll, SendFails, DoneWrote,
         DoneLost, Done, Tear, Panic, ExitShut, Shut, Abandon, StopRunning,
         StopWritable, CloseShut, queueVars, sentVars, takeRest
<1>2. room' = {} \/ UNCHANGED room
  BY DEF WriterStep, Top, Take, Patience, Check, Send, Poll, SendFails, DoneWrote,
         DoneLost, Done, Tear, Panic, ExitShut, Shut, WakeAll, Abandon, StopRunning,
         StopWritable, CloseShut
<1>3. CallerType'
  BY <1>1, <1>2, SameCaller DEF TypeInv, TypeOK, CallerType
<1>4. LineIsTheWaiters'
  BY <1>1, SameLine DEF TypeInv, callerVars
<1> QED BY <1>1, <1>3, <1>4 DEF callerVars


\* take keeps the types of the queue and the writer.
LEMMA TakeType ==
  ASSUME TypeInv, Take
  PROVE  QueueType' /\ SentType' /\ WriterType'
<1>0. QueueType /\ SentType /\ WriterType
  BY DEF TypeInv, TypeOK
<1>1. SentType' /\ UNCHANGED <<open, line, running, writable>>
  BY <1>0 DEF Take, takeRest, sentVars, flagVars, SentType
<1>2. NextLane \in Lane /\ frames[NextLane] \in Seq(Frame)
  BY <1>0 DEF NextLane, Lane, QueueType
<1>3. CASE frames[NextLane] # <<>> /\ writer' = "check"
  <2> DEFINE frame == Head(frames[NextLane])
  <2>1. /\ frames' = [frames EXCEPT ![NextLane] = Tail(@)]
        /\ waiting' = [waiting EXCEPT ![NextLane] = @ - Cost(frame)]
        /\ in_hand' = NextLane
        /\ hand' = frame
        /\ rest' = frame.len
        /\ UNCHANGED filled
    BY <1>0, <1>3 DEF Take, WriterType
  <2>2. frame \in Frame /\ Tail(frames[NextLane]) \in Seq(Frame)
    BY <1>2, <1>3
  <2>3. frame.len \in Nat /\ Cost(frame) \in Int
    <3>1. frame.len \in Lens
      BY <2>2 DEF Frame
    <3>2. frame.len \in Nat /\ FRAME_COST \in Nat
      BY <3>1, SizesAssumption
    <3> QED BY <3>2 DEF Cost
  <2> HIDE DEF frame
  <2>4. QueueType'
    BY <1>0, <1>1, <1>2, <2>1, <2>2, <2>3 DEF QueueType
  <2>5. WriterType'
    BY <1>0, <1>1, <1>3, <2>1, <2>2, <2>3 DEF WriterType
  <2> QED BY <1>1, <2>4, <2>5
<1>4. CASE frames[NextLane] = <<>>
  <2>1. /\ UNCHANGED <<frames, waiting, in_hand, hand, rest>>
        /\ writer' \in {"top", "take"} /\ filled' \in BOOLEAN
    BY <1>0, <1>4 DEF Take, WriterType
  <2> QED BY <1>0, <1>1, <2>1 DEF QueueType, WriterType
<1> QED BY <1>3, <1>4 DEF Take

\* done keeps the types.
LEMMA DoneType ==
  ASSUME QueueType, SentType, NEW went \in BOOLEAN, Done(went)
  PROVE  QueueType' /\ SentType'
<1>1. QueueType'
  BY DEF QueueType, Done, NoLane
<1>2. UNCHANGED <<taken, wire>>
  BY DEF Done
<1>3. wrote' \in [Lane -> Nat] /\ lost' \in [Lane -> Nat]
  <2>1. wrote \in [Lane -> Nat] /\ lost \in [Lane -> Nat]
    BY DEF SentType
  <2>2. CASE in_hand = NoLane
    BY <2>1, <2>2 DEF Done
  <2>3. CASE in_hand # NoLane
    <3>1. in_hand \in Lane /\ wrote[in_hand] + 1 \in Nat /\ lost[in_hand] + 1 \in Nat
      BY <2>1, <2>3 DEF QueueType
    <3>2. CASE went
      BY <2>1, <2>3, <3>1, <3>2 DEF Done
    <3>3. CASE ~went
      BY <2>1, <2>3, <3>1, <3>3 DEF Done
    <3> QED BY <3>2, <3>3
  <2> QED BY <2>2, <2>3
<1> QED BY <1>1, <1>2, <1>3 DEF SentType

\* shut keeps the types.
LEMMA ShutType ==
  ASSUME QueueType, SentType, Shut
  PROVE  QueueType' /\ SentType'
<1>1. \A lane \in Lane : Len(frames[lane]) \in Nat
  BY DEF QueueType
<1>2. lost' \in [Lane -> Nat]
  BY <1>1 DEF Shut, LostInLine, SentType
<1>3. frames' \in [Lane -> Seq(Frame)] /\ waiting' \in [Lane -> Int]
  BY DEF Shut
<1> QED BY <1>2, <1>3 DEF Shut, QueueType, SentType

\* Every step of the writer thread and of `close` keeps the types.
LEMMA WriterKeepsType ==
  ASSUME TypeInv, WriterStep \/ StopRunning \/ StopWritable \/ CloseShut
  PROVE  TypeInv'
<1>0. QueueType /\ SentType /\ WriterType
  BY DEF TypeInv, TypeOK
<1>1. CallerType' /\ LineIsTheWaiters'
  BY WriterLeavesCalls
<1>2. SUFFICES QueueType' /\ SentType' /\ WriterType'
  BY <1>1 DEF TypeInv, TypeOK
<1>3. CASE Top \/ Check \/ Poll \/ SendFails \/ Patience \/ Tear \/ Panic
           \/ StopRunning \/ StopWritable
  <2>1. UNCHANGED <<queueVars, hand, rest, wire>>
    BY <1>3 DEF Top, Check, Poll, SendFails, Patience, Tear, Panic, StopRunning,
                StopWritable, writerVars
  <2>2. QueueType' /\ SentType'
    BY <1>0, <2>1, SameQueue, SameSent DEF queueVars, sentVars
  <2>3. WriterType'
    BY <1>0, <1>3, <2>1
       DEF WriterType, Top, Check, Poll, SendFails, Patience, Tear, Panic,
           StopRunning, StopWritable, writerVars, flagVars
  <2> QED BY <2>2, <2>3
<1>4. CASE Take
  BY <1>4, TakeType
<1>5. CASE Send
  <2>1. PICK bytes \in 1..rest :
          /\ rest' = rest - bytes
          /\ wire' = IF bytes = rest
                     THEN [wire EXCEPT ![hand.lane] = Append(@, hand)] ELSE wire
    BY <1>5 DEF Send
  <2>2. QueueType'
    BY <1>0, <1>5, SameQueue DEF Send
  <2>3. WriterType'
    BY <1>0, <1>5, <2>1 DEF WriterType, Send, flagVars
  <2>4. wire' \in [Lane -> Seq(Frame)]
    <3>1. wire \in [Lane -> Seq(Frame)]
      BY <1>0 DEF SentType
    <3>2. CASE hand \in Frame
      <4>1. hand.lane \in Lane
        BY <3>2 DEF Frame
      <4>2. Append(wire[hand.lane], hand) \in Seq(Frame)
        BY <3>1, <3>2, <4>1
      <4> QED BY <2>1, <3>1, <4>1, <4>2
    <3>3. CASE hand = NoFrame
      <4>1. hand.lane \notin Lane
        BY <3>3 DEF NoFrame, NoLane, Lane
      <4> QED BY <2>1, <3>1, <4>1
    <3> QED BY <1>0, <3>2, <3>3 DEF WriterType
  <2>5. SentType'
    BY <1>0, <1>5, <2>4 DEF SentType, Send, queueVars, sentVars
  <2> QED BY <2>2, <2>3, <2>5
<1>6. CASE DoneWrote \/ DoneLost
  <2>1. QueueType' /\ SentType'
    BY <1>0, <1>6, DoneType DEF DoneWrote, DoneLost
  <2>2. WriterType'
    BY <1>0, <1>6 DEF WriterType, DoneWrote, DoneLost, Done, flagVars
  <2> QED BY <2>1, <2>2
<1>7. CASE ExitShut \/ CloseShut
  <2>1. QueueType' /\ SentType'
    BY <1>0, <1>7, ShutType DEF ExitShut, CloseShut
  <2>2. WriterType'
    BY <1>0, <1>7 DEF WriterType, ExitShut, CloseShut, Shut, WakeAll, flagVars
  <2> QED BY <2>1, <2>2
<1>8. CASE Abandon
  <2>1. QueueType' /\ WriterType'
    BY <1>0, <1>8 DEF QueueType, WriterType, Abandon, flagVars, NoLane
  <2>2. lost' \in [Lane -> Nat]
    BY <1>0, <1>8 DEF QueueType, SentType, Abandon
  <2>3. SentType'
    BY <1>0, <1>8, <2>2 DEF SentType, Abandon
  <2> QED BY <2>1, <2>3
<1> QED BY <1>3, <1>4, <1>5, <1>6, <1>7, <1>8 DEF WriterStep

\* The types hold, and the line of tickets is the publishers that wait, each
\* once, in every interleaving of put_message with the rest.
THEOREM TypeCorrect == Spec => []TypeInv
<1>1. Init => TypeInv
  <2> SUFFICES ASSUME Init PROVE TypeInv
    OBVIOUS
  <2>1. QueueType /\ SentType
    BY DEF Init, Zero, QueueType, SentType
  <2>2. CallerType
    BY DEF Init, Zero, CallerType, Returned, Callers
  <2>3. WriterType
    BY DEF Init, WriterType
  <2>4. LineIsTheWaiters
    BY DEF Init, LineIsTheWaiters, Callers
  <2> QED BY <2>1, <2>2, <2>3, <2>4 DEF TypeInv, TypeOK
<1>2. TypeInv /\ [Next]_vars => TypeInv'
  <2> SUFFICES ASSUME TypeInv, [Next]_vars PROVE TypeInv'
    OBVIOUS
  <2>1. ASSUME NEW t \in Callers, Call(t) PROVE TypeInv'
    BY <2>1, CallType
  <2>2. ASSUME NEW t \in Callers, Deadline(t) \/ Spurious(t) PROVE TypeInv'
    BY <2>2, WakeType
  <2>3. ASSUME NEW t \in Callers, CallerStep(t) PROVE TypeInv'
    BY <2>3, PutMessageType, PutControlType, FlushedType DEF CallerStep
  <2>4. CASE WriterStep \/ StopRunning \/ StopWritable \/ CloseShut
    BY <2>4, WriterKeepsType
  <2>5. CASE UNCHANGED vars
    BY <2>5 DEF TypeInv, TypeOK, QueueType, SentType, CallerType, WriterType,
                LineIsTheWaiters, vars, queueVars, sentVars, callerVars,
                writerVars, flagVars
  <2> QED BY <2>1, <2>2, <2>3, <2>4, <2>5 DEF Next, Terminated
<1> QED BY <1>1, <1>2, PTL DEF Spec


-----------------------------------------------------------------------------
(* The counts.                                                             *)

countVars == <<open, frames, in_hand, taken, wrote, lost, writer, hand, rest, wire>>

\* A step that leaves the counts and the queue alone keeps CountInv.
LEMMA SameCount ==
  ASSUME CountedOnce, HandInv, Arrived, UNCHANGED countVars
  PROVE  CountedOnce' /\ HandInv' /\ Arrived'
BY DEF CountedOnce, InHand, HandInv, Arrived, countVars

\* A flush keeps its promise while the counts of what was written only grow.
LEMMA FlushKept ==
  ASSUME TypeInv, TypeInv', FlushCounted, UNCHANGED <<pc, wanted>>,
         \A lane \in Lane : wrote'[lane] >= wrote[lane]
  PROVE  FlushCounted'
<1> SUFFICES ASSUME NEW t \in Flushers, pc[t] = "Ok", NEW lane \in Lane
             PROVE  wanted[t][lane] <= wrote'[lane]
  BY DEF FlushCounted
<1>1. wanted[t][lane] <= wrote[lane]
  BY DEF FlushCounted
<1>2. wanted[t][lane] \in Nat /\ wrote[lane] \in Nat /\ wrote'[lane] \in Nat
  BY DEF TypeInv, TypeOK, CallerType, SentType, Callers
<1> QED BY <1>1, <1>2

\* A step of another caller leaves what a flush was promised.
LEMMA FlushOther ==
  ASSUME TypeInv, FlushCounted, UNCHANGED <<wrote, wanted>>,
         NEW t \in Callers, NEW w, pc' = [pc EXCEPT ![t] = w],
         t \in Flushers => w # "Ok"
  PROVE  FlushCounted'
<1>1. ASSUME NEW u \in Flushers, pc'[u] = "Ok" PROVE pc[u] = "Ok"
  BY <1>1 DEF TypeInv, TypeOK, CallerType, Callers
<1> QED BY <1>1 DEF FlushCounted

\* A frame that goes into a lane is counted as taken.
LEMMA EnterCount ==
  ASSUME TypeInv, CountInv, NEW t \in Callers, NEW lane \in Lane, open,
         Enter(t, lane),
         UNCHANGED <<open, in_hand, wrote, lost, writer, hand, rest, wire>>
  PROVE  CountedOnce' /\ HandInv' /\ Arrived'
<1>1. /\ \A l \in Lane : /\ frames[l] \in Seq(Frame)
                         /\ taken[l] \in Nat /\ wrote[l] \in Nat /\ lost[l] \in Nat
      /\ frames \in [Lane -> Seq(Frame)] /\ taken \in [Lane -> Nat]
  BY DEF TypeInv, TypeOK, QueueType, SentType
<1>2. /\ taken' = [taken EXCEPT ![lane] = @ + 1]
      /\ frames' = [frames EXCEPT ![lane] = Append(@, NewFrame(t, lane))]
  BY DEF Enter
<1>3. Len(Append(frames[lane], NewFrame(t, lane))) = Len(frames[lane]) + 1
      /\ Len(frames[lane]) \in Nat
  BY <1>1
<1>4. CountedOnce'
  <2> SUFFICES ASSUME NEW l \in Lane
               PROVE  taken'[l] = wrote[l] + lost[l] + Len(frames'[l]) + InHand(l)
    BY DEF CountedOnce, InHand
  <2>1. /\ taken[l] = wrote[l] + lost[l] + Len(frames[l]) + InHand(l)
        /\ Len(frames[l]) \in Nat /\ InHand(l) \in Nat
        /\ taken[l] \in Nat /\ wrote[l] \in Nat /\ lost[l] \in Nat
    BY <1>1 DEF CountInv, CountedOnce, InHand
  <2>2. CASE l = lane
    <3>1. taken'[l] = taken[l] + 1
      BY <1>1, <1>2, <2>2
    <3>2. frames'[l] = Append(frames[l], NewFrame(t, lane))
      BY <1>1, <1>2, <2>2
    <3>3. Len(frames'[l]) = Len(frames[l]) + 1
      BY <1>3, <2>2, <3>2
    <3> QED BY <2>1, <3>1, <3>3
  <2>3. CASE l # lane
    <3>1. taken'[l] = taken[l] /\ frames'[l] = frames[l]
      BY <1>1, <1>2, <2>3
    <3> QED BY <2>1, <3>1
  <2> QED BY <2>2, <2>3
<1>5. ASSUME NEW l \in Lane, NEW i \in 1..Len(frames'[l])
      PROVE  frames'[l][i].lane = l
  <2>1. CASE l = lane
    <3>1. frames'[l] = Append(frames[l], NewFrame(t, lane)) /\ frames[l] \in Seq(Frame)
      BY <1>1, <1>2, <2>1
    <3>2. CASE i \in 1..Len(frames[l])
      <4>1. frames'[l][i] = frames[l][i]
        BY <3>1, <3>2
      <4> QED BY <3>2, <4>1 DEF CountInv, HandInv
    <3>3. CASE i = Len(frames[l]) + 1
      <4>1. frames'[l][i] = NewFrame(t, lane)
        BY <3>1, <3>3
      <4> QED BY <2>1, <4>1 DEF NewFrame
    <3>4. i \in 1..Len(frames[l]) \/ i = Len(frames[l]) + 1
      BY <1>3, <2>1, <3>1
    <3> QED BY <3>2, <3>3, <3>4
  <2>2. CASE l # lane
    <3>1. frames'[l] = frames[l]
      BY <1>1, <1>2, <2>2
    <3> QED BY <3>1 DEF CountInv, HandInv
  <2> QED BY <2>1, <2>2
<1>6. HandInv' /\ Arrived'
  BY <1>5 DEF CountInv, HandInv, Arrived
<1> QED BY <1>4, <1>6

\* put_message and put_control keep CountInv.
LEMMA PutCount ==
  ASSUME TypeInv, CountInv, NEW t \in Publishers \cup Subscribers,
         \/ t \in Publishers /\ PutMessage(t)
         \/ t \in Subscribers /\ PutControl(t)
  PROVE  CountInv'
<1>1. /\ UNCHANGED <<open, in_hand, wrote, lost, writer, hand, rest, wire, wanted>>
      /\ t \in Callers /\ t \notin Flushers
  BY ThreadsAssumption DEF PutMessage, PutControl, callerRest, writerVars, Callers
<1>2. CASE open /\ (Enter(t, "message") \/ Enter(t, "control"))
  <2>1. CountedOnce' /\ HandInv' /\ Arrived'
    BY <1>1, <1>2, EnterCount DEF Lane
  <2>2. FlushCounted'
    BY <1>1, <1>2, FlushOther DEF Enter, Return, CountInv
  <2> QED BY <2>1, <2>2 DEF CountInv
<1>3. CASE Sleep(t) \/ Refuse(t, "Gone") \/ Refuse(t, "TooSlow")
  <2>1. UNCHANGED countVars
    BY <1>1, <1>3 DEF Sleep, Refuse, countVars
  <2>2. FlushCounted'
    BY <1>1, <1>3, FlushOther DEF Sleep, Refuse, Return, CountInv
  <2> QED BY <2>1, <2>2, SameCount DEF CountInv
<1> QED BY <1>2, <1>3 DEF PutMessage, PutControl

\* flushed keeps CountInv, and its Ok is honest.
LEMMA FlushedCount ==
  ASSUME TypeInv, CountInv, NEW t \in Flushers, Flushed(t)
  PROVE  CountInv'
<1>1. UNCHANGED countVars /\ t \in Callers
  BY DEF Flushed, callerRest, writerVars, countVars, Sleep, Refuse, Callers
<1>2. FlushCounted'
  <2> SUFFICES ASSUME NEW u \in Flushers, pc'[u] = "Ok", NEW lane \in Lane
               PROVE  wanted'[u][lane] <= wrote'[lane]
    BY DEF FlushCounted
  <2>1. /\ wanted' = [wanted EXCEPT ![t] = WantedBy(t)]
        /\ wanted \in [Callers -> [Lane -> Nat]] /\ u \in Callers
        /\ pc \in [Callers -> Returned \cup {"called", "asleep"}]
        /\ wrote' = wrote
    BY <1>1 DEF Flushed, TypeInv, TypeOK, CallerType, Callers, countVars
  <2>2. CASE u # t
    <3>1. pc[u] = "Ok"
      BY <2>1, <2>2 DEF Flushed, Sleep, Refuse, Return
    <3> QED BY <2>1, <2>2, <3>1 DEF CountInv, FlushCounted
  <2>3. CASE u = t
    <3>1. Reached(t)
      BY <1>1, <2>1, <2>3 DEF Flushed, Sleep, Refuse, Return
    <3>2. wrote[lane] >= WantedBy(t)[lane]
      BY <3>1 DEF Reached
    <3>3. wrote[lane] \in Nat /\ WantedBy(t)[lane] \in Nat
      BY <2>1, <2>3 DEF TypeInv, TypeOK, SentType, WantedBy
    <3> QED BY <1>1, <2>1, <2>3, <3>2, <3>3
  <2> QED BY <2>2, <2>3
<1> QED BY <1>1, <1>2, SameCount DEF CountInv


\* take moves one frame from the lane to the hand.
LEMMA TakeCount ==
  ASSUME TypeInv, CountInv, Take
  PROVE  CountedOnce' /\ HandInv' /\ Arrived'
<1>0. /\ frames \in [Lane -> Seq(Frame)]
      /\ \A l \in Lane : taken[l] \in Nat /\ wrote[l] \in Nat /\ lost[l] \in Nat
      /\ in_hand = NoLane /\ writer = "take"
  BY DEF TypeInv, TypeOK, QueueType, SentType, CountInv, HandInv, Take
<1>1. UNCHANGED <<open, taken, wrote, lost, wire>>
  BY DEF Take, takeRest, sentVars
<1>2. NextLane \in Lane /\ NextLane # NoLane
  BY DEF NextLane, Lane, NoLane
<1>3. CASE frames[NextLane] # <<>>
  <2> DEFINE frame == Head(frames[NextLane])
  <2>1. /\ frames' = [frames EXCEPT ![NextLane] = Tail(@)]
        /\ in_hand' = NextLane /\ hand' = frame /\ rest' = frame.len
        /\ writer' = "check"
    BY <1>3 DEF Take
  <2>2. /\ frame \in Frame
        /\ Len(Tail(frames[NextLane])) = Len(frames[NextLane]) - 1
    BY <1>0, <1>2, <1>3
  <2>3. frame.lane = NextLane /\ frame.len \in Nat \ {0} /\ open
    <3>1. frame = frames[NextLane][1] /\ 1 \in 1..Len(frames[NextLane])
      BY <1>0, <1>2, <1>3
    <3>2. frame.lane = NextLane
      BY <1>2, <3>1 DEF CountInv, HandInv
    <3>3. frame.len \in Lens
      BY <2>2 DEF Frame
    <3>4. open
      BY <1>2, <1>3 DEF CountInv, HandInv
    <3> QED BY <3>2, <3>3, <3>4, SizesAssumption
  <2>4. CountedOnce'
    <3> SUFFICES ASSUME NEW l \in Lane
                 PROVE  taken[l] = wrote[l] + lost[l] + Len(frames'[l])
                                   + (IF NextLane = l THEN 1 ELSE 0)
      BY <1>1, <2>1 DEF CountedOnce, InHand
    <3>0. /\ taken[l] = wrote[l] + lost[l] + Len(frames[l]) + InHand(l)
          /\ wrote[l] \in Nat /\ lost[l] \in Nat /\ Len(frames[l]) \in Nat
          /\ InHand(l) = 0
      BY <1>0 DEF CountInv, CountedOnce, InHand, Lane, NoLane
    <3>1. taken[l] = wrote[l] + lost[l] + Len(frames[l]) /\ Len(frames[l]) \in Nat
      BY <3>0
    <3>2. CASE l = NextLane
      <4>1. Len(frames'[l]) = Len(frames[l]) - 1
        BY <1>0, <2>1, <2>2, <3>2
      <4> QED BY <1>0, <3>1, <3>2, <4>1
    <3>3. CASE l # NextLane
      <4>1. frames'[l] = frames[l]
        BY <1>0, <2>1, <3>3
      <4> QED BY <1>0, <3>1, <3>3, <4>1
    <3> QED BY <3>2, <3>3
  <2>5. ASSUME NEW l \in Lane, NEW i \in 1..Len(frames'[l])
        PROVE  frames'[l][i].lane = l
    <3>1. CASE l = NextLane
      <4>1. /\ frames'[l] = Tail(frames[l]) /\ frames[l] \in Seq(Frame)
            /\ frames[l] # <<>>
        BY <1>0, <1>3, <2>1, <3>1
      <4>2. frames'[l][i] = frames[l][i + 1] /\ i + 1 \in 1..Len(frames[l])
        BY <4>1
      <4> QED BY <4>2 DEF CountInv, HandInv
    <3>2. CASE l # NextLane
      <4>1. frames'[l] = frames[l]
        BY <1>0, <2>1, <3>2
      <4> QED BY <4>1 DEF CountInv, HandInv
    <3> QED BY <3>1, <3>2
  <2>6. HandInv'
    BY <1>1, <2>1, <2>2, <2>3, <2>5 DEF CountInv, HandInv
  <2>7. Arrived'
    BY <1>0, <1>1, <2>1, <2>3 DEF CountInv, Arrived, Lane, NoLane
  <2> QED BY <2>4, <2>6, <2>7
<1>4. CASE frames[NextLane] = <<>>
  <2>1. /\ UNCHANGED <<frames, in_hand, hand, rest>>
        /\ writer' \in {"top", "take"}
    BY <1>0, <1>4 DEF Take
  <2>2. CountedOnce' /\ Arrived'
    BY <1>1, <2>1 DEF CountInv, CountedOnce, Arrived, InHand
  <2>3. HandInv'
    BY <1>0, <1>1, <2>1 DEF CountInv, HandInv
  <2> QED BY <2>2, <2>3
<1> QED BY <1>3, <1>4


\* A write moves bytes of the frame in the hand to the wire.
LEMMA SendCount ==
  ASSUME TypeInv, CountInv, Send
  PROVE  CountedOnce' /\ HandInv' /\ Arrived'
<1>0. /\ writer = "send" /\ hand \in Frame /\ in_hand = hand.lane /\ rest > 0
      /\ rest \in Nat /\ wire \in [Lane -> Seq(Frame)]
      /\ \A l \in Lane : wrote[l] \in Nat
  BY DEF Send, CountInv, HandInv, TypeInv, TypeOK, WriterType, SentType
<1>1. UNCHANGED <<open, frames, in_hand, taken, wrote, lost, hand>> /\ writer' = "check"
  BY DEF Send, queueVars, sentVars
<1>2. PICK bytes \in 1..rest :
        /\ rest' = rest - bytes
        /\ wire' = IF bytes = rest
                   THEN [wire EXCEPT ![hand.lane] = Append(@, hand)] ELSE wire
  BY DEF Send
<1>3. CountedOnce' /\ HandInv'
  BY <1>0, <1>1 DEF CountInv, CountedOnce, InHand, HandInv
<1>4. ASSUME NEW l \in Lane
      PROVE  Len(wire'[l]) =
               wrote[l] + (IF in_hand = l /\ rest' = 0 THEN 1 ELSE 0)
  <2>1. Len(wire[l]) = wrote[l] /\ wire[l] \in Seq(Frame)
    BY <1>0 DEF CountInv, Arrived
  <2>2. CASE bytes = rest /\ in_hand = l
    <3>1. wire'[l] = Append(wire[l], hand)
      BY <1>0, <1>2, <2>2
    <3>2. Len(wire'[l]) = Len(wire[l]) + 1
      BY <2>1, <3>1
    <3> QED BY <1>0, <1>2, <2>1, <2>2, <3>2
  <2>3. CASE bytes = rest /\ in_hand # l
    <3>1. wire'[l] = wire[l]
      BY <1>0, <1>2, <2>3
    <3> QED BY <1>0, <2>1, <2>3, <3>1
  <2>4. CASE bytes # rest
    <3>1. wire'[l] = wire[l] /\ rest' # 0
      BY <1>0, <1>2, <2>4
    <3> QED BY <1>0, <2>1, <3>1
  <2> QED BY <2>2, <2>3, <2>4
<1>5. Arrived'
  BY <1>1, <1>4 DEF Arrived
<1> QED BY <1>3, <1>5

\* done counts the frame in the hand as written or lost, once.
LEMMA DoneCount ==
  ASSUME TypeInv, CountInv, NEW went \in BOOLEAN, Done(went),
         in_hand \in Lane, went <=> rest = 0,
         writer' = IF went THEN "top" ELSE "torn",
         ~open => frames = [lane \in Lane |-> <<>>]
  PROVE  CountInv'
<1>0. /\ wrote \in [Lane -> Nat] /\ lost \in [Lane -> Nat] /\ taken \in [Lane -> Nat]
      /\ \A l \in Lane : Len(frames[l]) \in Nat
      /\ in_hand # NoLane
  BY DEF TypeInv, TypeOK, SentType, QueueType, Lane, NoLane
<1>1. /\ UNCHANGED <<open, frames, taken, hand, rest, wire, pc, wanted>>
      /\ in_hand' = NoLane
  BY DEF Done, callerVars
<1>2. /\ wrote' = IF went THEN [wrote EXCEPT ![in_hand] = @ + 1] ELSE wrote
      /\ lost' = IF went THEN lost ELSE [lost EXCEPT ![in_hand] = @ + 1]
  BY <1>0 DEF Done
<1>3. ASSUME NEW l \in Lane
      PROVE  /\ wrote'[l] = wrote[l] + (IF went /\ in_hand = l THEN 1 ELSE 0)
             /\ lost'[l] = lost[l] + (IF ~went /\ in_hand = l THEN 1 ELSE 0)
  <2>1. CASE went
    BY <1>0, <1>2, <2>1
  <2>2. CASE ~went
    BY <1>0, <1>2, <2>2
  <2> QED BY <2>1, <2>2
<1>4. CountedOnce'
  <2> SUFFICES ASSUME NEW l \in Lane
               PROVE  taken[l] = wrote'[l] + lost'[l] + Len(frames[l]) + 0
    BY <1>1 DEF CountedOnce, InHand, Lane, NoLane
  <2>1. /\ taken[l] = wrote[l] + lost[l] + Len(frames[l])
                      + (IF in_hand = l THEN 1 ELSE 0)
        /\ wrote[l] \in Nat /\ lost[l] \in Nat /\ Len(frames[l]) \in Nat
    BY <1>0 DEF CountInv, CountedOnce, InHand
  <2>2. CASE in_hand = l /\ went
    <3>1. wrote'[l] = wrote[l] + 1 /\ lost'[l] = lost[l] + 0
      BY <1>3, <2>2
    <3> QED BY <2>1, <2>2, <3>1
  <2>3. CASE in_hand = l /\ ~went
    <3>1. wrote'[l] = wrote[l] + 0 /\ lost'[l] = lost[l] + 1
      BY <1>3, <2>3
    <3> QED BY <2>1, <2>3, <3>1
  <2>4. CASE in_hand # l
    <3>1. wrote'[l] = wrote[l] + 0 /\ lost'[l] = lost[l] + 0
      BY <1>3, <2>4
    <3> QED BY <2>1, <2>4, <3>1
  <2> QED BY <2>2, <2>3, <2>4
<1>5. Arrived'
  <2> SUFFICES ASSUME NEW l \in Lane PROVE Len(wire[l]) = wrote'[l] + 0
    BY <1>1 DEF Arrived, Lane, NoLane
  <2>1. Len(wire[l]) = wrote[l] + (IF in_hand = l /\ rest = 0 THEN 1 ELSE 0)
    BY DEF CountInv, Arrived
  <2> QED BY <1>3, <2>1, <1>0
<1>6. HandInv'
  BY <1>1 DEF CountInv, HandInv
<1>7. FlushCounted'
  <2> SUFFICES ASSUME NEW t \in Flushers, pc[t] = "Ok", NEW l \in Lane
               PROVE  wanted[t][l] <= wrote'[l]
    BY <1>1 DEF FlushCounted
  <2>0. wrote[l] \in Nat /\ (wrote'[l] = wrote[l] \/ wrote'[l] = wrote[l] + 1)
    BY <1>0, <1>3
  <2>1. wrote'[l] >= wrote[l] /\ wrote'[l] \in Nat /\ wrote[l] \in Nat
    BY <2>0
  <2>2. wanted[t][l] <= wrote[l] /\ wanted[t][l] \in Nat
    BY DEF CountInv, FlushCounted, TypeInv, TypeOK, CallerType, Callers
  <2> QED BY <2>1, <2>2
<1> QED BY <1>4, <1>5, <1>6, <1>7 DEF CountInv

\* shut counts what is in the lanes as lost, once.
LEMMA ShutCount ==
  ASSUME TypeInv, CountInv, Shut,
         writer' = writer \/ (writer = "exit" /\ writer' = "abandon")
  PROVE  CountInv'
<1>1. /\ UNCHANGED <<in_hand, taken, wrote, hand, rest, wire, pc, wanted>>
      /\ ~open' /\ frames' = [lane \in Lane |-> <<>>]
      /\ lost' = [lane \in Lane |-> lost[lane] + Len(frames[lane])]
  BY DEF Shut, LostInLine, callerVars
<1>2. CountedOnce'
  <2> SUFFICES ASSUME NEW l \in Lane
               PROVE  taken[l] = wrote[l] + (lost[l] + Len(frames[l])) + 0 + InHand(l)
    BY <1>1 DEF CountedOnce, InHand
  <2>1. /\ taken[l] = wrote[l] + lost[l] + Len(frames[l]) + InHand(l)
        /\ wrote[l] \in Nat /\ lost[l] \in Nat /\ Len(frames[l]) \in Nat
        /\ InHand(l) \in Nat
    BY DEF CountInv, CountedOnce, InHand, TypeInv, TypeOK, QueueType, SentType
  <2> QED BY <2>1
<1>3. HandInv' /\ Arrived' /\ FlushCounted'
  BY <1>1 DEF CountInv, HandInv, Arrived, FlushCounted
<1> QED BY <1>2, <1>3 DEF CountInv

\* abandon counts the frame in the hand as lost, once.
LEMMA AbandonCount ==
  ASSUME TypeInv, CountInv, Abandon
  PROVE  CountInv'
<1>0. lost \in [Lane -> Nat] /\ in_hand \in Lane \cup {NoLane}
  BY DEF TypeInv, TypeOK, SentType, QueueType
<1>1. /\ UNCHANGED <<open, frames, taken, wrote, hand, rest, wire, pc, wanted>>
      /\ in_hand' = NoLane /\ writer = "abandon" /\ writer' = "gone"
  BY DEF Abandon, callerVars
<1>2. ASSUME NEW l \in Lane
      PROVE  lost'[l] = lost[l] + (IF in_hand = l THEN 1 ELSE 0)
  <2>1. CASE in_hand = NoLane
    BY <1>0, <2>1 DEF Abandon, Lane, NoLane
  <2>2. CASE in_hand # NoLane
    BY <1>0, <2>2 DEF Abandon
  <2> QED BY <2>1, <2>2
<1>3. CountedOnce'
  <2> SUFFICES ASSUME NEW l \in Lane
               PROVE  taken[l] = wrote[l] + lost'[l] + Len(frames[l]) + 0
    BY <1>1 DEF CountedOnce, InHand, Lane, NoLane
  <2>1. /\ taken[l] = wrote[l] + lost[l] + Len(frames[l])
                      + (IF in_hand = l THEN 1 ELSE 0)
        /\ wrote[l] \in Nat /\ lost[l] \in Nat /\ Len(frames[l]) \in Nat
    BY DEF CountInv, CountedOnce, InHand, TypeInv, TypeOK, QueueType, SentType
  <2> QED BY <1>2, <2>1
<1>4. in_hand # NoLane => rest # 0
  BY <1>1 DEF CountInv, HandInv
<1>5. Arrived'
  <2> SUFFICES ASSUME NEW l \in Lane PROVE Len(wire[l]) = wrote[l] + 0
    BY <1>1 DEF Arrived, Lane, NoLane
  <2>1. ~(in_hand = l /\ rest = 0)
    BY <1>4 DEF Lane, NoLane
  <2> QED BY <2>1 DEF CountInv, Arrived
<1>6. HandInv' /\ FlushCounted'
  BY <1>1 DEF CountInv, HandInv, FlushCounted
<1> QED BY <1>3, <1>5, <1>6 DEF CountInv

\* Every step of the writer thread and of `close` keeps CountInv.
LEMMA WriterKeepsCount ==
  ASSUME TypeInv, TypeInv', CountInv,
         WriterStep \/ StopRunning \/ StopWritable \/ CloseShut
  PROVE  CountInv'
<1>0. UNCHANGED <<pc, wanted>>
  BY WriterLeavesCalls
<1>1. CASE Top \/ Check \/ Poll \/ SendFails \/ Patience \/ Tear \/ Panic
           \/ StopRunning \/ StopWritable
  <2>1. UNCHANGED <<open, frames, in_hand, taken, wrote, lost, hand, rest, wire>>
    BY <1>1 DEF Top, Check, Poll, SendFails, Patience, Tear, Panic, StopRunning,
                StopWritable, writerVars, queueVars, sentVars
  <2>2. CountedOnce' /\ Arrived'
    BY <2>1 DEF CountInv, CountedOnce, InHand, Arrived
  <2>3. FlushCounted'
    BY <1>0, <2>1 DEF CountInv, FlushCounted
  <2>4. HandInv'
    <3>1. rest \in Nat
      BY DEF TypeInv, TypeOK, WriterType
    <3> QED BY <1>1, <2>1, <3>1
               DEF CountInv, HandInv, Top, Check, Poll, SendFails, Patience, Tear,
                   Panic, StopRunning, StopWritable, writerVars
  <2> QED BY <2>2, <2>3, <2>4 DEF CountInv
<1>2. CASE Take
  <2>1. UNCHANGED wrote
    BY <1>2 DEF Take, takeRest, sentVars
  <2>2. FlushCounted'
    BY <1>0, <2>1 DEF CountInv, FlushCounted
  <2> QED BY <1>2, <2>2, TakeCount DEF CountInv
<1>3. CASE Send
  <2>1. UNCHANGED wrote
    BY <1>3 DEF Send, queueVars, sentVars
  <2>2. FlushCounted'
    BY <1>0, <2>1 DEF CountInv, FlushCounted
  <2> QED BY <1>3, <2>2, SendCount DEF CountInv
<1>4. CASE DoneWrote
  <2>1. in_hand \in Lane /\ rest = 0
    BY <1>4 DEF DoneWrote, CountInv, HandInv, Frame
  <2> QED BY <1>4, <2>1, DoneCount DEF DoneWrote, CountInv, HandInv
<1>5. CASE DoneLost
  <2>1. in_hand \in Lane /\ rest # 0
    BY <1>5 DEF DoneLost, CountInv, HandInv, Frame
  <2> QED BY <1>5, <2>1, DoneCount DEF DoneLost, CountInv, HandInv
<1>6. CASE ExitShut
  <2>1. Shut /\ writer = "exit" /\ writer' = "abandon"
    BY <1>6 DEF ExitShut
  <2> QED BY <2>1, ShutCount
<1>8. CASE CloseShut
  <2>1. Shut /\ writer' = writer
    BY <1>8 DEF CloseShut
  <2> QED BY <2>1, ShutCount
<1>7. CASE Abandon
  BY <1>7, AbandonCount
<1> QED BY <1>1, <1>2, <1>3, <1>4, <1>5, <1>6, <1>7, <1>8 DEF WriterStep

\* The counts are right in every state: the inductive invariant behind
\* CountedOnce, UnsentExact and FlushHonest.
THEOREM CountsCorrect == Spec => []CountInv
<1>1. Init => CountInv
  BY DEF Init, CountInv, CountedOnce, InHand, HandInv, Arrived, FlushCounted, Zero,
         Lane, NoLane, Callers
<1>2. TypeInv /\ TypeInv' /\ CountInv /\ [Next]_vars => CountInv'
  <2> SUFFICES ASSUME TypeInv, TypeInv', CountInv, [Next]_vars PROVE CountInv'
    OBVIOUS
  <2>1. ASSUME NEW t \in Callers, Call(t) PROVE CountInv'
    <3>1. UNCHANGED countVars /\ UNCHANGED wanted
      BY <2>1 DEF Call, countVars, queueVars, sentVars, writerVars
    <3>2. pc' = [pc EXCEPT ![t] = "called"] \/ pc' = [pc EXCEPT ![t] = "Closed"]
      BY <2>1 DEF Call
    <3>3. FlushCounted'
      BY <3>1, <3>2, FlushOther DEF CountInv, countVars
    <3> QED BY <3>1, <3>3, SameCount DEF CountInv
  <2>2. ASSUME NEW t \in Callers, Deadline(t) \/ Spurious(t) PROVE CountInv'
    <3>1. UNCHANGED countVars /\ UNCHANGED <<pc, wanted>>
      BY <2>2 DEF Deadline, Spurious, countVars, queueVars, sentVars, writerVars,
                  callerVars
    <3>2. FlushCounted'
      BY <3>1 DEF CountInv, FlushCounted, countVars
    <3> QED BY <3>1, <3>2, SameCount DEF CountInv
  <2>3. ASSUME NEW t \in Callers, CallerStep(t) PROVE CountInv'
    <3>1. CASE t \in Publishers /\ PutMessage(t)
      BY <3>1, PutCount
    <3>2. CASE t \in Subscribers /\ PutControl(t)
      BY <3>2, PutCount
    <3>3. CASE t \in Flushers /\ Flushed(t)
      BY <3>3, FlushedCount
    <3> QED BY <2>3, <3>1, <3>2, <3>3 DEF CallerStep
  <2>4. CASE WriterStep \/ StopRunning \/ StopWritable \/ CloseShut
    BY <2>4, WriterKeepsCount
  <2>5. CASE UNCHANGED vars
    BY <2>5 DEF CountInv, CountedOnce, InHand, HandInv, Arrived, FlushCounted,
                vars, queueVars, sentVars, callerVars, writerVars
  <2> QED BY <2>1, <2>2, <2>3, <2>4, <2>5 DEF Next, Terminated
<1> QED BY <1>1, <1>2, TypeCorrect, PTL DEF Spec

\* Every frame let in is in exactly one place, whatever `shut`, `done` and
\* `abandon` do to each other.
THEOREM CountedOnceHolds == Spec => []CountedOnce
<1>1. CountInv => CountedOnce
  BY DEF CountInv
<1> QED BY <1>1, CountsCorrect, PTL

\* Stats::unsent never counts a frame the wire has, and is exact once the
\* writer thread is gone.
THEOREM UnsentExactHolds == Spec => []UnsentExact
<1>1. TypeInv /\ CountInv => UnsentExact
  <2> SUFFICES ASSUME TypeInv, CountInv, NEW lane \in Lane
               PROVE  /\ wrote[lane] <= Len(wire[lane])
                      /\ lost[lane] + Len(wire[lane]) <= taken[lane]
                      /\ writer = "gone" =>
                           lost[lane] + Len(wire[lane]) = taken[lane]
    BY DEF UnsentExact
  <2>1. /\ taken[lane] \in Nat /\ wrote[lane] \in Nat /\ lost[lane] \in Nat
        /\ Len(frames[lane]) \in Nat
    BY DEF TypeInv, TypeOK, QueueType, SentType
  <2>2. taken[lane] = wrote[lane] + lost[lane] + Len(frames[lane]) + InHand(lane)
    BY DEF CountInv, CountedOnce
  <2>3. CASE in_hand = lane
    <3>1. InHand(lane) = 1 /\ writer # "gone"
      BY <2>3 DEF InHand, CountInv, HandInv, Lane, NoLane
    <3>2. Len(wire[lane]) = wrote[lane] + 1 \/ Len(wire[lane]) = wrote[lane] + 0
      BY <2>3 DEF CountInv, Arrived
    <3> QED BY <2>1, <2>2, <3>1, <3>2
  <2>4. CASE in_hand # lane
    <3>1. InHand(lane) = 0 /\ Len(wire[lane]) = wrote[lane] + 0
      BY <2>4 DEF InHand, CountInv, Arrived
    <3>2. writer = "gone" => Len(frames[lane]) = 0
      BY DEF CountInv, HandInv, Lane
    <3> QED BY <2>1, <2>2, <3>1, <3>2
  <2> QED BY <2>3, <2>4
<1> QED BY <1>1, TypeCorrect, CountsCorrect, PTL

\* A flush that gives back Ok has on the wire every frame that either line had
\* let in when it was called.
THEOREM FlushHonestHolds == Spec => []FlushHonest
<1>1. TypeInv /\ CountInv => FlushHonest
  <2> SUFFICES ASSUME TypeInv, CountInv, NEW t \in Flushers, pc[t] = "Ok",
                      NEW lane \in Lane
               PROVE  wanted[t][lane] <= Len(wire[lane])
    BY DEF FlushHonest
  <2>1. wanted[t][lane] <= wrote[lane]
    BY DEF CountInv, FlushCounted
  <2>2. Len(wire[lane]) = wrote[lane] + (IF in_hand = lane /\ rest = 0 THEN 1 ELSE 0)
    BY DEF CountInv, Arrived
  <2>3. wrote[lane] \in Nat /\ wanted[t][lane] \in Nat
    BY DEF TypeInv, TypeOK, SentType, CallerType, Callers
  <2> QED BY <2>1, <2>2, <2>3
<1> QED BY <1>1, TypeCorrect, CountsCorrect, PTL

\* The line of tickets is the publishers that wait, each once: no ticket
\* outlives its call.
THEOREM LineHoldsAlways == Spec => []LineIsTheWaiters
<1>1. TypeInv => LineIsTheWaiters
  BY DEF TypeInv
<1> QED BY <1>1, TypeCorrect, PTL

\* Every field of the queue, the tickets and both threads keeps its type.
THEOREM TypeOKHolds == Spec => []TypeOK
<1>1. TypeInv => TypeOK
  BY DEF TypeInv
<1> QED BY <1>1, TypeCorrect, PTL

-----------------------------------------------------------------------------
(* One frame after another.                                                *)

\* At the head of its loop the writer has no part of a frame left to send, and
\* what `in_hand` names is a frame.
RestInv ==
  /\ writer \in {"top", "take"} => rest = 0
  /\ in_hand # NoLane => hand \in Frame

\* The inductive invariant behind the order on the wire.
THEOREM RestCorrect == Spec => []RestInv
<1>1. Init => RestInv
  BY DEF Init, RestInv
<1>2. TypeInv /\ CountInv /\ RestInv /\ [Next]_vars => RestInv'
  <2> SUFFICES ASSUME TypeInv, CountInv, RestInv, [Next]_vars PROVE RestInv'
    OBVIOUS
  <2>1. ASSUME NEW t \in Callers,
               Call(t) \/ Deadline(t) \/ Spurious(t) \/ CallerStep(t)
        PROVE  RestInv'
    <3>1. UNCHANGED <<writer, rest, hand, in_hand>>
      BY <2>1 DEF Call, Deadline, Spurious, CallerStep, PutMessage, PutControl, Flushed,
                  callerRest, writerVars, queueVars
    <3> QED BY <3>1 DEF RestInv
  <2>2. CASE Take
    <3>1. CASE frames[NextLane] # <<>>
      <4>1. NextLane \in Lane /\ frames \in [Lane -> Seq(Frame)]
        BY DEF NextLane, Lane, TypeInv, TypeOK, QueueType
      <4>2. hand' \in Frame /\ writer' = "check"
        BY <2>2, <3>1, <4>1 DEF Take
      <4> QED BY <4>2 DEF RestInv
    <3>2. CASE frames[NextLane] = <<>>
      BY <2>2, <3>2 DEF Take, RestInv
    <3> QED BY <3>1, <3>2
  <2>3. CASE WriterStep /\ ~Take
    BY <2>3 DEF WriterStep, Top, Patience, Check, Send, Poll, SendFails, DoneWrote,
                DoneLost, Done, Tear, Panic, ExitShut, Shut, Abandon, RestInv, CountInv, HandInv,
                queueVars
  <2>4. CASE StopRunning \/ StopWritable \/ CloseShut \/ UNCHANGED vars
    BY <2>4 DEF StopRunning, StopWritable, CloseShut, Shut, vars, queueVars, writerVars,
                RestInv
  <2> QED BY <2>1, <2>2, <2>3, <2>4 DEF Next, Terminated
<1> QED BY <1>1, <1>2, TypeCorrect, CountsCorrect, PTL DEF Spec

\* No byte of a frame goes on the stream behind part of another: the writer
\* takes a new frame only when the kernel has all of the last one.
THEOREM NoFrameInsideAnotherHolds == Spec => NoFrameInsideAnother
<1>1. RestInv /\ [Next]_vars => [hand' # hand => rest = 0]_vars
  <2> SUFFICES ASSUME RestInv, Next, hand' # hand PROVE rest = 0
    OBVIOUS
  <2>1. ASSUME NEW t \in Callers,
               Call(t) \/ Deadline(t) \/ Spurious(t) \/ CallerStep(t)
        PROVE  hand' = hand
    BY <2>1 DEF Call, Deadline, Spurious, CallerStep, PutMessage, PutControl, Flushed,
                callerRest, writerVars
  <2>2. Take
    BY <2>1 DEF Next, WriterStep, Top, Patience, Check, Send, Poll, SendFails, DoneWrote,
                DoneLost, Done, Tear, Panic, ExitShut, Shut, Abandon, StopRunning,
                StopWritable, CloseShut, Terminated, vars, writerVars
  <2> QED BY <2>2 DEF Take, RestInv
<1> QED BY <1>1, RestCorrect, PTL DEF Spec, NoFrameInsideAnother

-----------------------------------------------------------------------------
(* Sleepers and wake-ups.                                                  *)

\* What makes the wake-ups inductive: a thread on `room` is inside its call.
WakeInv == NoLostWakeup /\ \A t \in room : pc[t] = "asleep"

\* A step that wakes every caller needs only mind the writer.
LEMMA AllWoken ==
  ASSUME room' = {}, filled' => open' /\ \A lane \in Lane : frames'[lane] = <<>>
  PROVE  WakeInv'
BY DEF WakeInv, NoLostWakeup

\* A step that adds no sleeper and leaves alone what the sleepers wait for.
LEMMA NoneSleeps ==
  ASSUME WakeInv, room' \subseteq room, filled' => filled,
         UNCHANGED <<open, frames, waiting, line, wrote, lost>>,
         \A u \in room' : pc'[u] = pc[u] /\ wanted'[u] = wanted[u]
  PROVE  WakeInv'
<1>1. ASSUME NEW u \in room', u \in Flushers PROVE ~Reached(u)' /\ ~NeverWill'
  <2>1. ~Reached(u) /\ ~NeverWill
    BY <1>1 DEF WakeInv, NoLostWakeup
  <2> QED BY <1>1, <2>1 DEF Reached, NeverWill, WantedBy, WakeInv
<1>2. ASSUME NEW u \in room'
      PROVE  /\ pc'[u] = "asleep" /\ open'
             /\ u \in Publishers => ~(HasRoom("message")' /\ Head(line') = u)
             /\ u \in Subscribers => ~HasRoom("control")'
  BY <1>2 DEF WakeInv, NoLostWakeup, HasRoom
<1> QED BY <1>1, <1>2 DEF WakeInv, NoLostWakeup

\* A caller that runs is not on `room`.
LEMMA RunnerNotInRoom ==
  ASSUME WakeInv, NEW t \in Callers, Awake(t) PROVE t \notin room
BY DEF WakeInv, Awake

\* A caller that goes to sleep for a reason, the other sleepers not disturbed.
LEMMA OneSleeps ==
  ASSUME WakeInv, TypeInv, NEW t \in Callers, Awake(t), Sleep(t), open,
         UNCHANGED <<open, wrote, lost>>,
         \A u \in room : wanted'[u] = wanted[u],
         \A u \in room : u \in Publishers => Head(line') = Head(line),
         t \in Publishers => ~(HasRoom("message") /\ Head(line') = t),
         t \in Subscribers => ~HasRoom("control"),
         t \in Flushers => ~Reached(t) /\ ~NeverWill /\ wanted'[t] = WantedBy(t)
  PROVE  WakeInv'
<1>0. t \notin room
  BY RunnerNotInRoom
<1>1. /\ UNCHANGED <<frames, waiting, taken, filled>>
      /\ room' = room \cup {t}
      /\ pc \in [Callers -> Returned \cup {"called", "asleep"}]
      /\ pc' = [pc EXCEPT ![t] = "asleep"]
      /\ room \subseteq Callers
  BY DEF Sleep, TypeInv, TypeOK, CallerType
<1>2. \A u \in room' : pc'[u] = "asleep"
  BY <1>1 DEF WakeInv
<1>3. ASSUME NEW u \in room', u \in Flushers PROVE ~Reached(u)' /\ ~NeverWill'
  <2>0. ~Reached(u) /\ ~NeverWill
    BY <1>1, <1>3 DEF WakeInv, NoLostWakeup
  <2>1. wanted'[u] = WantedBy(u)
    BY <1>1, <1>3 DEF WantedBy, WakeInv
  <2>2. WantedBy(u)' = wanted'[u]
    BY <1>2, <1>3 DEF WantedBy
  <2>3. Reached(u)' <=> Reached(u)
    BY <2>1, <2>2 DEF Reached
  <2> QED BY <2>0, <2>3 DEF NeverWill
<1>4. ASSUME NEW u \in room'
      PROVE  /\ u \in Publishers => ~(HasRoom("message")' /\ Head(line') = u)
             /\ u \in Subscribers => ~HasRoom("control")'
  BY <1>1, <1>4 DEF WakeInv, NoLostWakeup, HasRoom
<1> QED BY <1>1, <1>2, <1>3, <1>4 DEF WakeInv, NoLostWakeup

\* put_message leaves no thread asleep that could go on.
LEMMA PutMessageWakes ==
  ASSUME TypeInv, WakeInv, NEW t \in Publishers, PutMessage(t) PROVE WakeInv'
<1>0. /\ t \in Callers /\ t \notin Subscribers /\ t \notin Flushers
      /\ UNCHANGED <<open, wrote, lost, wanted>> /\ Awake(t)
      /\ line \in Seq(Publishers)
  BY ThreadsAssumption DEF Callers, PutMessage, callerRest, TypeInv, TypeOK, QueueType
<1>1. CASE Enter(t, "message") /\ LeaveFront(t)
  BY <1>1, AllWoken DEF Enter, LeaveFront
<1>2. CASE open /\ ~MayEnter(t) /\ Sleep(t) /\ line' = LineOf(t)
  <2>1. ASSUME NEW u \in room, u \in Publishers PROVE Head(line') = Head(line)
    <3>1. pc[u] = "asleep"
      BY <2>1 DEF WakeInv
    <3>2. line # <<>>
      BY <2>1, <3>1 DEF TypeInv, LineIsTheWaiters
    <3> QED BY <1>0, <1>2, <3>2 DEF LineOf
  <2> QED BY <1>0, <1>2, <2>1, OneSleeps DEF MayEnter
<1>3. ASSUME NEW why, Refuse(t, why), LeaveLine(t) PROVE WakeInv'
  BY <1>0, <1>3, AllWoken DEF Refuse, LeaveLine, WakeInv, NoLostWakeup
<1> QED BY <1>1, <1>2, <1>3 DEF PutMessage

\* put_control leaves no thread asleep that could go on.
LEMMA PutControlWakes ==
  ASSUME TypeInv, WakeInv, NEW t \in Subscribers, PutControl(t) PROVE WakeInv'
<1>0. /\ t \in Callers /\ t \notin Publishers /\ t \notin Flushers
      /\ UNCHANGED <<open, wrote, lost, wanted, line>> /\ Awake(t)
      /\ pc \in [Callers -> Returned \cup {"called", "asleep"}]
      /\ len[t] \in Nat /\ FRAME_COST \in Nat
      /\ waiting \in [Lane -> Int]
      /\ room \subseteq Callers
  <2>1. t \in Callers /\ t \notin Publishers /\ t \notin Flushers
    BY ThreadsAssumption DEF Callers
  <2>2. Awake(t) /\ CallerType /\ QueueType
    BY DEF PutControl, TypeInv, TypeOK
  <2>3. len[t] \in Nat /\ FRAME_COST \in Nat
    BY <2>2, AwakeLen, SizesAssumption
  <2> QED BY <2>1, <2>2, <2>3 DEF PutControl, callerRest, CallerType, QueueType
<1>1. t \notin room
  BY <1>0, RunnerNotInRoom
<1>2. CASE Enter(t, "control") /\ UNCHANGED room
  <2>1. /\ waiting'["message"] = waiting["message"]
        /\ waiting'["control"] = waiting["control"] + len[t] + FRAME_COST
        /\ ~filled'
        /\ pc' = [pc EXCEPT ![t] = "Ok"]
    BY <1>0, <1>2 DEF Enter, Return, Lane
  <2>2. ~HasRoom("control") => ~HasRoom("control")'
    <3>1. Limit["control"] \in Nat /\ waiting["control"] \in Int
      BY <1>0, LaneLimit DEF Lane
    <3> QED BY <1>0, <2>1, <3>1 DEF HasRoom
  <2>3. HasRoom("message")' <=> HasRoom("message")
    BY <2>1 DEF HasRoom
  <2>4. ASSUME NEW u \in room' PROVE pc'[u] = "asleep"
    BY <1>0, <1>1, <1>2, <2>1, <2>4 DEF WakeInv
  <2>5. ASSUME NEW u \in room', u \in Flushers PROVE ~Reached(u)' /\ ~NeverWill'
    <3>1. ~Reached(u) /\ ~NeverWill /\ pc[u] = "asleep"
      BY <1>2, <2>5 DEF WakeInv, NoLostWakeup
    <3>2. WantedBy(u)' = WantedBy(u)
      BY <1>0, <2>4, <2>5, <3>1 DEF WantedBy
    <3> QED BY <1>0, <3>1, <3>2 DEF Reached, NeverWill
  <2> QED BY <1>0, <1>2, <2>1, <2>2, <2>3, <2>4, <2>5 DEF WakeInv, NoLostWakeup
<1>3. CASE open /\ ~HasRoom("control") /\ Sleep(t)
  BY <1>0, <1>3, OneSleeps
<1>4. ASSUME NEW why, Refuse(t, why), UNCHANGED room PROVE WakeInv'
  <2>1. \A u \in room' : pc'[u] = pc[u]
    BY <1>0, <1>1, <1>4 DEF Refuse, Return
  <2> QED BY <1>0, <1>4, <2>1, NoneSleeps DEF Refuse
<1> QED BY <1>2, <1>3, <1>4 DEF PutControl

\* flushed leaves no thread asleep that could go on.
LEMMA FlushedWakes ==
  ASSUME TypeInv, WakeInv, NEW t \in Flushers, Flushed(t) PROVE WakeInv'
<1>0. /\ t \in Callers /\ t \notin Publishers /\ t \notin Subscribers
      /\ UNCHANGED <<open, wrote, lost, line>> /\ Awake(t)
      /\ pc \in [Callers -> Returned \cup {"called", "asleep"}]
      /\ wanted \in [Callers -> [Lane -> Nat]]
      /\ wanted' = [wanted EXCEPT ![t] = WantedBy(t)]
      /\ room \subseteq Callers
  BY ThreadsAssumption DEF Callers, Flushed, callerRest, TypeInv, TypeOK, CallerType
<1>1. t \notin room
  BY <1>0, RunnerNotInRoom
<1>2. \A u \in room : wanted'[u] = wanted[u]
  BY <1>0, <1>1
<1>3. CASE ~Reached(t) /\ ~NeverWill /\ Sleep(t)
  <2>1. open
    BY <1>3 DEF NeverWill
  <2>2. wanted'[t] = WantedBy(t)
    BY <1>0
  <2> QED BY <1>0, <1>2, <1>3, <2>1, <2>2, OneSleeps
<1>4. ASSUME NEW why, Refuse(t, why), UNCHANGED room PROVE WakeInv'
  <2>1. \A u \in room' : pc'[u] = pc[u]
    BY <1>0, <1>1, <1>4 DEF Refuse, Return
  <2> QED BY <1>0, <1>2, <1>4, <2>1, NoneSleeps DEF Refuse
<1> QED BY <1>3, <1>4 DEF Flushed

\* The writer's steps leave no thread asleep that could go on.
LEMMA WriterWakes ==
  ASSUME TypeInv, WakeInv, WriterStep PROVE WakeInv'
<1>1. CASE Top \/ Patience \/ Check \/ Send \/ Poll \/ SendFails \/ Tear \/ Panic
  <2>1. /\ UNCHANGED <<open, frames, waiting, line, wrote, lost, room, pc, wanted>>
        /\ filled' => filled
    BY <1>1 DEF Top, Patience, Check, Send, Poll, SendFails, Tear, Panic, queueVars,
                sentVars, callerVars
  <2> QED BY <2>1, NoneSleeps
<1>2. CASE Take
  <2>1. CASE frames[NextLane] # <<>>
    BY <1>2, <2>1, AllWoken DEF Take
  <2>2. CASE frames[NextLane] = <<>>
    <3>1. /\ UNCHANGED <<open, frames, waiting, line, wrote, lost, room, pc, wanted>>
          /\ filled' => open
      BY <1>2, <2>2 DEF Take, takeRest, sentVars, callerVars
    <3>2. \A lane \in Lane : frames[lane] = <<>>
      BY <2>2 DEF NextLane, Lane
    <3> QED BY <3>1, <3>2 DEF WakeInv, NoLostWakeup, HasRoom, Reached, NeverWill, WantedBy
  <2> QED BY <2>1, <2>2
<1>3. ASSUME NEW went, Done(went) PROVE WakeInv'
  <2>0. UNCHANGED <<open, frames, waiting, line, filled, pc, wanted>>
    BY <1>3 DEF Done, callerVars
  <2>1. CASE in_hand = NoLane
    BY <1>3, <2>0, <2>1, NoneSleeps DEF Done
  <2>2. CASE in_hand # NoLane
    BY <1>3, <2>0, <2>2, AllWoken DEF Done, WakeInv, NoLostWakeup
  <2> QED BY <2>1, <2>2
<1>4. CASE ExitShut
  BY <1>4, AllWoken DEF ExitShut, Shut, WakeAll
<1>5. CASE Abandon
  BY <1>5, AllWoken DEF Abandon, WakeInv, NoLostWakeup
<1> QED BY <1>1, <1>2, <1>3, <1>4, <1>5 DEF WriterStep, DoneWrote, DoneLost

\* No thread sleeps through what it waits for, whatever order the threads run
\* in and however many there are: every change that could let a thread go on
\* (put_message's frame, LeaveLine, take, done, shut, abandon) wakes `room`.
THEOREM NoLostWakeupHolds == Spec => []NoLostWakeup
<1>1. Init => WakeInv
  BY DEF Init, WakeInv, NoLostWakeup
<1>2. TypeInv /\ WakeInv /\ [Next]_vars => WakeInv'
  <2> SUFFICES ASSUME TypeInv, WakeInv, [Next]_vars PROVE WakeInv'
    OBVIOUS
  <2>1. ASSUME NEW t \in Callers, Call(t) \/ Deadline(t) \/ Spurious(t)
        PROVE  WakeInv'
    <3>1. /\ UNCHANGED <<open, frames, waiting, line, wrote, lost, wanted, filled>>
          /\ room' \subseteq room
      BY <2>1 DEF Call, Deadline, Spurious, queueVars, sentVars, callerVars
    <3>2. ASSUME NEW u \in room' PROVE pc'[u] = pc[u]
      <4>1. pc[u] = "asleep" /\ u \in Callers /\ pc \in [Callers -> Returned \cup {"called", "asleep"}]
        BY <3>1, <3>2 DEF WakeInv, TypeInv, TypeOK, CallerType
      <4>2. CASE Call(t)
        <5>1. u # t
          BY <4>1, <4>2 DEF Call, Returned, Refused
        <5> QED BY <4>1, <4>2, <5>1 DEF Call
      <4>3. CASE Deadline(t) \/ Spurious(t)
        BY <4>3 DEF Deadline, Spurious, callerVars
      <4> QED BY <2>1, <4>2, <4>3
    <3> QED BY <3>1, <3>2, NoneSleeps
  <2>2. ASSUME NEW t \in Callers, CallerStep(t) PROVE WakeInv'
    BY <2>2, PutMessageWakes, PutControlWakes, FlushedWakes DEF CallerStep
  <2>3. CASE WriterStep
    BY <2>3, WriterWakes
  <2>4. CASE StopRunning \/ StopWritable \/ UNCHANGED vars
    <3>1. UNCHANGED <<open, frames, waiting, line, wrote, lost, room, pc, wanted, filled>>
      BY <2>4 DEF StopRunning, StopWritable, vars, queueVars, sentVars, callerVars
    <3> QED BY <3>1, NoneSleeps
  <2>5. CASE CloseShut
    BY <2>5, AllWoken DEF CloseShut, Shut, WakeAll
  <2> QED BY <2>1, <2>2, <2>3, <2>4, <2>5 DEF Next, Terminated
<1>3. WakeInv => NoLostWakeup
  BY DEF WakeInv
<1> QED BY <1>1, <1>2, <1>3, TypeCorrect, PTL DEF Spec

-----------------------------------------------------------------------------
(* Sequences with one element in front, or one more behind.                *)

\* Appending to the second of two sequences.
LEMMA ConcatAppend ==
  ASSUME NEW S, NEW s \in Seq(S), NEW t \in Seq(S), NEW x \in S
  PROVE  s \o Append(t, x) = Append(s \o t, x)
<1>1. /\ s \o Append(t, x) \in Seq(S) /\ Append(s \o t, x) \in Seq(S)
      /\ Len(s \o Append(t, x)) = Len(s) + Len(t) + 1
      /\ Len(Append(s \o t, x)) = Len(s) + Len(t) + 1
      /\ s \o t \in Seq(S) /\ Len(s) \in Nat /\ Len(t) \in Nat
      /\ Append(t, x) \in Seq(S)
  BY ConcatProperties, AppendProperties
<1>2. ASSUME NEW i \in 1..Len(s) + Len(t) + 1
      PROVE  (s \o Append(t, x))[i] = Append(s \o t, x)[i]
  BY <1>1, ConcatProperties, AppendProperties
<1> QED BY <1>1, <1>2, SeqEqual

\* One element before a sequence.
LEMMA ConcatOne ==
  ASSUME NEW S, NEW s \in Seq(S), NEW x \in S
  PROVE  /\ <<x>> \o s \in Seq(S) /\ <<x>> \o s # <<>>
         /\ Len(<<x>> \o s) = Len(s) + 1
         /\ Head(<<x>> \o s) = x
         /\ Tail(<<x>> \o s) = s
         /\ SubSeq(<<x>> \o s, 1, 1) = <<x>>
<1>0. <<x>> \in Seq(S) /\ Len(<<x>>) = 1 /\ <<x>>[1] = x /\ Len(s) \in Nat
  OBVIOUS
<1> DEFINE c == <<x>> \o s
<1>1. /\ c \in Seq(S) /\ Len(c) = Len(s) + 1
      /\ \A i \in 1..Len(s) + 1 : c[i] = IF i <= 1 THEN x ELSE s[i - 1]
  BY <1>0, ConcatProperties
<1> HIDE DEF c
<1>2. c # <<>> /\ Head(c) = x
  BY <1>0, <1>1
<1>3. Tail(c) = s
  <2>1. /\ Tail(c) \in Seq(S) /\ Len(Tail(c)) = Len(s)
        /\ \A i \in 1..Len(s) : Tail(c)[i] = c[i + 1]
    BY <1>0, <1>1, <1>2, HeadTailProperties
  <2>2. ASSUME NEW i \in 1..Len(s) PROVE Tail(c)[i] = s[i]
    BY <1>0, <1>1, <2>1
  <2> QED BY <2>1, <2>2, SeqEqual
<1>4. SubSeq(c, 1, 1) = <<x>>
  <2>1. \A i \in 1..1 : c[i] \in S /\ c[i] = x
    BY <1>0, <1>1
  <2>2. /\ SubSeq(c, 1, 1) \in Seq(S) /\ Len(SubSeq(c, 1, 1)) = 1
        /\ SubSeq(c, 1, 1)[1] = x
    BY <2>1, SubSeqProperties
  <2>3. \A i \in 1..1 : SubSeq(c, 1, 1)[i] = <<x>>[i]
    BY <1>0, <2>2
  <2> QED BY <1>0, <2>2, <2>3, SeqEqual
<1> QED BY <1>1, <1>2, <1>3, <1>4 DEF c

\* A sequence is its head and its tail.
LEMMA HeadThenTail ==
  ASSUME NEW S, NEW s \in Seq(S), s # <<>>
  PROVE  <<Head(s)>> \o Tail(s) = s
<1>1. /\ Head(s) \in S /\ Head(s) = s[1] /\ Tail(s) \in Seq(S)
      /\ Len(Tail(s)) = Len(s) - 1 /\ Len(s) \in Nat \ {0}
      /\ \A i \in 1..Len(s) - 1 : Tail(s)[i] = s[i + 1]
  BY HeadTailProperties, EmptySeq
<1>2. /\ <<Head(s)>> \in Seq(S) /\ Len(<<Head(s)>>) = 1 /\ <<Head(s)>>[1] = s[1]
  BY <1>1
<1>3. /\ <<Head(s)>> \o Tail(s) \in Seq(S)
      /\ Len(<<Head(s)>> \o Tail(s)) = Len(s)
      /\ \A i \in 1..Len(s) : (<<Head(s)>> \o Tail(s))[i] =
           IF i <= 1 THEN s[1] ELSE Tail(s)[i - 1]
  BY <1>1, <1>2, ConcatProperties
<1>4. ASSUME NEW i \in 1..Len(s) PROVE (<<Head(s)>> \o Tail(s))[i] = s[i]
  BY <1>1, <1>3
<1> QED BY <1>3, <1>4, SeqEqual

-----------------------------------------------------------------------------
(* The outbox implements FrameLine.                                         *)

\* What the two invariants say of the frame in the writer's hand.
HandOK == /\ TypeInv /\ HandInv /\ RestInv

\* What is held is a sequence of frames, and what its first part is.
LEMMA HeldFacts ==
  ASSUME HandOK, NEW lane \in Lane
  PROVE  /\ frames[lane] \in Seq(Frame)
         /\ Begun(lane) \in Seq(Frame)
         /\ Held[lane] = Begun(lane) \o frames[lane]
         /\ in_hand = lane /\ rest > 0 => hand \in Frame /\ Begun(lane) = <<hand>>
         /\ ~(in_hand = lane /\ rest > 0) =>
              Begun(lane) = <<>> /\ Held[lane] = frames[lane]
<1>1. frames[lane] \in Seq(Frame)
  BY DEF HandOK, TypeInv, TypeOK, QueueType
<1>2. Held[lane] = Begun(lane) \o frames[lane]
  BY DEF Held
<1>3. CASE in_hand = lane /\ rest > 0
  <2>1. hand \in Frame /\ Begun(lane) = <<hand>>
    BY <1>3 DEF HandOK, RestInv, Begun, Lane, NoLane
  <2> QED BY <1>1, <1>2, <1>3, <2>1
<1>4. CASE ~(in_hand = lane /\ rest > 0)
  <2>1. Begun(lane) = <<>>
    BY <1>4 DEF Begun
  <2> QED BY <1>1, <1>2, <1>4, <2>1, ConcatEmptySeq, EmptySeq
<1> QED BY <1>3, <1>4

\* A step that leaves alone what the refinement mapping looks at.
LEMMA Stutters ==
  ASSUME UNCHANGED <<in_hand, rest, hand, frames, wire, lost, open>>,
         Broken' = Broken
  PROVE  UNCHANGED Promise!vars
BY DEF Promise!vars, Held, Begun

\* What is held differs in one lane.
LEMMA HeldExcept ==
  ASSUME NEW lane \in Lane, NEW v, Held'[lane] = v,
         \A l \in Lane \ {lane} : Held'[l] = Held[l]
  PROVE  Held' = [Held EXCEPT ![lane] = v]
<1>1. /\ Held = [l \in Lane |-> Held[l]]
      /\ Held' = [l \in Lane |-> Held'[l]]
  BY DEF Held
<1> QED BY <1>1

\* A put that succeeds lets one frame in.
LEMMA EnterIsLetIn ==
  ASSUME HandOK, NEW t \in Callers, NEW lane \in Lane, open, len[t] \in Lens,
         Enter(t, lane), UNCHANGED <<in_hand, rest, hand, wire, lost, open, writer>>
  PROVE  Promise!LetIn(lane)
<1> DEFINE f == NewFrame(t, lane)
<1>1. f \in Frame
  BY DEF NewFrame, Frame, HandOK, TypeInv, TypeOK, SentType
<1>2. frames' = [frames EXCEPT ![lane] = Append(@, f)] /\ frames \in [Lane -> Seq(Frame)]
  BY DEF Enter, HandOK, TypeInv, TypeOK, QueueType
<1> HIDE DEF f
<1>3. \A l \in Lane : Held'[l] = Begun(l) \o frames'[l]
  BY DEF Held, Begun
<1>4. Held'[lane] = Append(Held[lane], f)
  <2>1. frames'[lane] = Append(frames[lane], f)
    BY <1>2
  <2>2. Begun(lane) \in Seq(Frame) /\ frames[lane] \in Seq(Frame)
    BY HeldFacts
  <2>3. Begun(lane) \o Append(frames[lane], f) = Append(Begun(lane) \o frames[lane], f)
    BY <1>1, <2>2, ConcatAppend
  <2> QED BY <1>3, <2>1, <2>3, HeldFacts
<1>5. Held[lane] \in Seq(Frame)
  BY HeldFacts, ConcatProperties
<1>6. Held'[lane] # <<>> /\ Last(Held'[lane]) = f
  BY <1>1, <1>4, <1>5, AppendProperties DEF Last
<1>7. Held' = [Held EXCEPT ![lane] = Append(@, f)]
  <2>1. \A l \in Lane \ {lane} : Held'[l] = Held[l]
    BY <1>2, <1>3 DEF Held
  <2> QED BY <1>4, <2>1, HeldExcept
<1> QED BY <1>6, <1>7 DEF Promise!LetIn, Promise!Last, Last, Broken

\* A frame in hand that has bytes left is the first that is held.
LEMMA HeldByHand ==
  ASSUME HandOK, NEW lane \in Lane, in_hand = lane, rest > 0
  PROVE  /\ Held[lane] = <<hand>> \o frames[lane]
         /\ Held[lane] # <<>>
         /\ Head(Held[lane]) = hand
         /\ Tail(Held[lane]) = frames[lane]
         /\ Len(Held[lane]) = Len(frames[lane]) + 1
<1>1. /\ frames[lane] \in Seq(Frame) /\ hand \in Frame
      /\ Held[lane] = <<hand>> \o frames[lane]
  BY HeldFacts
<1> QED BY <1>1, ConcatOne

\* What is held after a step that leaves the hand empty, or its frame whole.
LEMMA HeldPrime ==
  ASSUME NEW lane \in Lane, frames'[lane] \in Seq(Frame),
         ~(in_hand' = lane /\ rest' > 0)
  PROVE  Held'[lane] = frames'[lane]
<1>1. Held'[lane] = <<>> \o frames'[lane]
  BY DEF Held, Begun
<1> QED BY <1>1, ConcatEmptySeq

\* Where nothing of a lane changes, neither does what it holds.
LEMMA HeldSame ==
  ASSUME NEW lane \in Lane, frames'[lane] = frames[lane],
         (in_hand' = lane /\ rest' > 0) <=> (in_hand = lane /\ rest > 0),
         in_hand = lane /\ rest > 0 => hand' = hand
  PROVE  Held'[lane] = Held[lane]
<1>1. Begun(lane)' = Begun(lane)
  BY DEF Begun
<1> QED BY <1>1 DEF Held

\* Where no lane changes, what is held does not.
LEMMA HeldSameAll ==
  ASSUME \A lane \in Lane : Held'[lane] = Held[lane] PROVE Held' = Held
BY DEF Held

\* A take moves a frame from its line into the hand, and both are held.
LEMMA TakeStutters ==
  ASSUME HandOK, Take PROVE UNCHANGED Promise!vars
<1>1. UNCHANGED <<wire, lost, open>> /\ writer = "take" /\ Broken' = Broken
  BY DEF Take, takeRest, sentVars, Broken
<1>2. in_hand = NoLane
  BY <1>1 DEF HandOK, HandInv
<1>3. CASE frames[NextLane] # <<>>
  <2> DEFINE lane == NextLane
  <2>1. lane \in Lane /\ frames \in [Lane -> Seq(Frame)]
    BY DEF NextLane, Lane, HandOK, TypeInv, TypeOK, QueueType
  <2>2. /\ frames' = [frames EXCEPT ![lane] = Tail(@)]
        /\ in_hand' = lane /\ hand' = Head(frames[lane])
        /\ rest' = Head(frames[lane]).len
    BY <1>3 DEF Take
  <2> HIDE DEF lane
  <2>3. Head(frames[lane]) \in Frame
    BY <1>3, <2>1 DEF lane
  <2>4. rest' \in Nat /\ rest' > 0
    <3>1. rest' \in Lens
      BY <2>2, <2>3 DEF Frame
    <3> QED BY <3>1, SizesAssumption
  <2>5. Held'[lane] = Held[lane]
    <3>1. Held'[lane] = <<Head(frames[lane])>> \o Tail(frames[lane])
      BY <2>1, <2>2, <2>4 DEF Held, Begun
    <3>2. Held[lane] = frames[lane]
      BY <1>2, <2>1, HeldFacts DEF NoLane, Lane
    <3> QED BY <1>3, <2>1, <3>1, <3>2, HeadThenTail DEF lane
  <2>6. ASSUME NEW l \in Lane, l # lane PROVE Held'[l] = Held[l]
    <3>1. frames'[l] = frames[l] /\ in_hand' # l /\ in_hand # l
      BY <1>2, <2>1, <2>2, <2>6 DEF NoLane, Lane
    <3> QED BY <3>1, HeldSame
  <2>7. Held' = Held
    BY <2>5, <2>6, HeldSameAll
  <2> QED BY <1>1, <2>7 DEF Promise!vars
<1>4. CASE frames[NextLane] = <<>>
  <2>1. UNCHANGED <<frames, in_hand, hand, rest>>
    BY <1>4 DEF Take
  <2> QED BY <1>1, <2>1, Stutters
<1> QED BY <1>3, <1>4

\* A write that moves bytes sends the frame with its last one.
LEMMA SendIsSend ==
  ASSUME HandOK, Send
  PROVE  (\E lane \in Lane : Promise!Send(lane)) \/ UNCHANGED Promise!vars
<1>1. /\ UNCHANGED <<frames, in_hand, hand, lost, open>> /\ writer = "send"
      /\ ~Broken /\ Broken' = Broken
  BY DEF Send, queueVars, sentVars, Broken
<1>2. hand \in Frame /\ in_hand = hand.lane /\ rest > 0 /\ rest \in Nat
  BY <1>1 DEF HandOK, HandInv, TypeInv, TypeOK, WriterType
<1>3. PICK bytes \in 1..rest :
        /\ rest' = rest - bytes
        /\ wire' = IF bytes = rest
                   THEN [wire EXCEPT ![hand.lane] = Append(@, hand)] ELSE wire
  BY DEF Send
<1>4. in_hand \in Lane /\ frames \in [Lane -> Seq(Frame)]
  BY <1>2 DEF Frame, HandOK, TypeInv, TypeOK, QueueType
<1>5. CASE bytes = rest
  <2>1. rest' = 0
    BY <1>2, <1>3, <1>5
  <2>2. Held'[in_hand] = Tail(Held[in_hand])
    <3>1. frames'[in_hand] \in Seq(Frame) /\ ~(rest' > 0)
      BY <1>1, <1>4, <2>1
    <3>2. Held'[in_hand] = frames'[in_hand]
      BY <3>1, <1>1, <1>4, HeldPrime
    <3> QED BY <3>2, <1>1, <1>2, <1>4, HeldByHand
  <2>3. ASSUME NEW l \in Lane, l # in_hand PROVE Held'[l] = Held[l]
    BY <1>1, <2>3, HeldSame
  <2>4. Held' = [Held EXCEPT ![in_hand] = Tail(@)]
    BY <1>4, <2>2, <2>3, HeldExcept
  <2>5. Held[in_hand] # <<>> /\ Head(Held[in_hand]) = hand
    BY <1>2, <1>4, HeldByHand
  <2>6. wire' = [wire EXCEPT ![in_hand] = Append(@, Head(Held[in_hand]))]
    BY <1>2, <1>3, <1>5, <2>5
  <2>7. Promise!Send(in_hand)
    BY <1>1, <2>4, <2>5, <2>6 DEF Promise!Send
  <2> QED BY <1>4, <2>7
<1>6. CASE bytes # rest
  <2>1. rest' > 0
    BY <1>2, <1>3, <1>6
  <2>2. Held' = Held
    BY <1>1, <1>2, <2>1, HeldSame, HeldSameAll
  <2> QED BY <1>1, <1>3, <1>6, <2>2 DEF Promise!vars
<1> QED BY <1>5, <1>6

\* A frame begun and counted as lost is given up.
LEMMA LostIsGiveUp ==
  ASSUME HandOK, in_hand \in Lane, rest > 0, in_hand' = NoLane,
         lost' = [lost EXCEPT ![in_hand] = @ + 1],
         UNCHANGED <<frames, wire, open>>, Broken'
  PROVE  \E lane \in Lane : Promise!GiveUp(lane)
<1>0. frames \in [Lane -> Seq(Frame)] /\ \A l \in Lane : in_hand' # l
  BY DEF HandOK, TypeInv, TypeOK, QueueType, NoLane, Lane
<1>1. Held'[in_hand] = Tail(Held[in_hand])
  <2>1. Held'[in_hand] = frames'[in_hand]
    BY <1>0, HeldPrime
  <2> QED BY <2>1, HeldByHand
<1>2. ASSUME NEW l \in Lane, l # in_hand PROVE Held'[l] = Held[l]
  BY <1>0, <1>2, HeldSame
<1>3. Held' = [Held EXCEPT ![in_hand] = Tail(@)]
  BY <1>1, <1>2, HeldExcept
<1>4. Held[in_hand] # <<>>
  BY HeldByHand
<1>5. Promise!GiveUp(in_hand)
  BY <1>3, <1>4 DEF Promise!GiveUp
<1> QED BY <1>5

\* `shut` loses all but the frame being sent.
LEMMA ShutIsShut ==
  ASSUME HandOK, Shut, Broken' = Broken PROVE Promise!Shut
<1> DEFINE kept == [lane \in Lane |-> IF in_hand = lane /\ rest > 0 THEN 1 ELSE 0]
<1>1. /\ kept \in [Lane -> {0, 1}]
      /\ \A a, b \in Lane : kept[a] = 1 /\ kept[b] = 1 => a = b
      /\ \A lane \in Lane : kept[lane] = IF in_hand = lane /\ rest > 0 THEN 1 ELSE 0
  OBVIOUS
<1> HIDE DEF kept
<1>2. /\ open' = FALSE
      /\ frames' = [lane \in Lane |-> <<>>]
      /\ lost' = [lane \in Lane |-> lost[lane] + Len(frames[lane])]
      /\ UNCHANGED <<in_hand, hand, rest, wire>>
  BY DEF Shut, LostInLine
<1>3. ASSUME NEW lane \in Lane
      PROVE  /\ kept[lane] <= Len(Held[lane])
             /\ Held'[lane] = SubSeq(Held[lane], 1, kept[lane])
             /\ lost'[lane] = lost[lane] + Len(Held[lane]) - kept[lane]
  <2>0. frames[lane] \in Seq(Frame) /\ lost[lane] \in Nat /\ Len(frames[lane]) \in Nat
    BY DEF HandOK, TypeInv, TypeOK, QueueType, SentType
  <2>1. CASE in_hand = lane /\ rest > 0
    <3>1. /\ hand \in Frame /\ Held[lane] = <<hand>> \o frames[lane]
          /\ Len(Held[lane]) = Len(frames[lane]) + 1
      BY <2>1, HeldByHand, HeldFacts
    <3>2. Held'[lane] = <<hand>> \o <<>>
      BY <1>2, <2>1 DEF Held, Begun
    <3>3. Held'[lane] = <<hand>> /\ SubSeq(Held[lane], 1, 1) = <<hand>>
      BY <2>0, <3>1, <3>2, ConcatOne, ConcatEmptySeq
    <3>4. kept[lane] = 1
      BY <1>1, <2>1
    <3> QED BY <1>2, <2>0, <3>1, <3>3, <3>4
  <2>2. CASE ~(in_hand = lane /\ rest > 0)
    <3>1. Held[lane] = frames[lane] /\ kept[lane] = 0
      BY <1>1, <2>2, HeldFacts
    <3>2. Held'[lane] = <<>>
      BY <1>2, <2>2, HeldPrime, EmptySeq
    <3>3. SubSeq(Held[lane], 1, 0) = <<>>
      BY SubSeqEmpty
    <3> QED BY <1>2, <2>0, <3>1, <3>2, <3>3
  <2> QED BY <2>1, <2>2
<1>4. Held' = [lane \in Lane |-> SubSeq(Held[lane], 1, kept[lane])]
  BY <1>3 DEF Held
<1>5. lost' = [lane \in Lane |-> lost[lane] + Len(Held[lane]) - kept[lane]]
  BY <1>2, <1>3
<1> QED BY <1>1, <1>2, <1>3, <1>4, <1>5 DEF Promise!Shut

\* The callers' steps are a frame let in, or nothing.
LEMMA CallerKeepsPromise ==
  ASSUME HandOK, NEW t \in Callers,
         Call(t) \/ Deadline(t) \/ Spurious(t) \/ CallerStep(t)
  PROVE  (\E lane \in Lane : Promise!LetIn(lane)) \/ UNCHANGED Promise!vars
<1>1. CASE Call(t) \/ Deadline(t) \/ Spurious(t) \/ Flushed(t)
  <2>1. UNCHANGED <<in_hand, rest, hand, frames, wire, lost, open, writer>>
    BY <1>1 DEF Call, Deadline, Spurious, Flushed, Refuse, Sleep, queueVars, sentVars,
                writerVars, callerRest
  <2> QED BY <2>1, Stutters DEF Broken
<1>2. ASSUME NEW lane \in Lane, t \in Publishers \cup Subscribers,
             \/ PutMessage(t) /\ lane = "message"
             \/ PutControl(t) /\ lane = "control"
      PROVE  Promise!LetIn(lane) \/ UNCHANGED Promise!vars
  <2>1. UNCHANGED <<in_hand, rest, hand, wire, lost, open, writer>> /\ Awake(t)
    BY <1>2 DEF PutMessage, PutControl, callerRest, writerVars
  <2>2. CASE open /\ Enter(t, lane)
    <3>1. len[t] \in Lens
      BY <1>2, <2>1, AwakeLen DEF HandOK, TypeInv, TypeOK
    <3> QED BY <2>1, <2>2, <3>1, EnterIsLetIn
  <2>3. CASE UNCHANGED frames
    BY <2>1, <2>3, Stutters DEF Broken
  <2> QED BY <1>2, <2>2, <2>3 DEF PutMessage, PutControl, Sleep, Refuse
<1> QED BY <1>1, <1>2 DEF CallerStep, Lane

\* The writer's steps send a frame, give it up, stop, shut the lines, or
\* change nothing that is promised.
LEMMA WriterKeepsPromise ==
  ASSUME HandOK, WriterStep
  PROVE  Promise!Next \/ UNCHANGED Promise!vars
<1>1. CASE Patience \/ Check \/ Poll \/ SendFails \/ Tear
  <2>1. UNCHANGED <<in_hand, rest, hand, frames, wire, lost, open>>
    BY <1>1 DEF Patience, Check, Poll, SendFails, Tear, queueVars, sentVars
  <2>2. Broken' = Broken
    BY <1>1 DEF Patience, Check, Poll, SendFails, Tear, Broken
  <2> QED BY <2>1, <2>2, Stutters
<1>2. CASE Top \/ Panic
  <2>1. UNCHANGED <<in_hand, rest, hand, frames, wire, lost, open>>
    BY <1>2 DEF Top, Panic, queueVars, sentVars
  <2>2. ~Broken
    BY <1>2 DEF Top, Panic, Broken
  <2>3. CASE writer' = "exit"
    <3>1. Broken' = TRUE /\ Held' = Held
      BY <2>1, <2>3 DEF Broken, Held, Begun
    <3> QED BY <2>1, <2>2, <3>1 DEF Promise!Next, Promise!Stop
  <2>4. CASE writer' # "exit"
    <3>1. Broken' = Broken
      BY <1>2, <2>4 DEF Top, Panic, Broken
    <3> QED BY <2>1, <3>1, Stutters
  <2> QED BY <2>3, <2>4
<1>3. CASE Take
  BY <1>3, TakeStutters
<1>4. CASE Send
  BY <1>4, SendIsSend DEF Promise!Next
<1>5. CASE DoneWrote
  <2>1. /\ UNCHANGED <<frames, wire, open, lost, rest>>
        /\ in_hand' = NoLane /\ rest = 0 /\ Broken' = Broken
    BY <1>5 DEF DoneWrote, Done, Broken, HandOK, HandInv
  <2>2. Held' = Held
    BY <2>1, HeldSame, HeldSameAll
  <2> QED BY <2>1, <2>2 DEF Promise!vars
<1>6. CASE DoneLost
  <2>1. in_hand \in Lane /\ rest > 0
    BY <1>6 DEF DoneLost, HandOK, HandInv, Frame
  <2>2. /\ UNCHANGED <<frames, wire, open>> /\ in_hand' = NoLane
        /\ lost' = [lost EXCEPT ![in_hand] = @ + 1] /\ Broken'
    BY <1>6, <2>1 DEF DoneLost, Done, Broken, NoLane, Lane
  <2> QED BY <2>1, <2>2, LostIsGiveUp DEF Promise!Next
<1>7. CASE ExitShut
  <2>1. Shut /\ Broken' = Broken
    BY <1>7 DEF ExitShut, Broken
  <2> QED BY <2>1, ShutIsShut DEF Promise!Next
<1>8. CASE Abandon
  <2>1. /\ UNCHANGED <<frames, wire, open, hand, rest>> /\ in_hand' = NoLane
        /\ Broken' /\ Broken' = Broken
    BY <1>8 DEF Abandon, Broken
  <2>2. CASE in_hand = NoLane
    BY <1>8, <2>1, <2>2, Stutters DEF Abandon
  <2>3. CASE in_hand # NoLane
    <3>1. in_hand \in Lane /\ rest > 0
      BY <1>8, <2>3 DEF Abandon, HandOK, HandInv, TypeInv, TypeOK, QueueType
    <3>2. lost' = [lost EXCEPT ![in_hand] = @ + 1]
      BY <1>8, <2>3 DEF Abandon
    <3> QED BY <2>1, <3>1, <3>2, LostIsGiveUp DEF Promise!Next
  <2> QED BY <2>2, <2>3
<1> QED BY <1>1, <1>2, <1>3, <1>4, <1>5, <1>6, <1>7, <1>8 DEF WriterStep

\* The outbox implements FrameLine: whatever the two condition variables, the
\* deadlines, `shut`, `done` and `abandon` do to each other, each line is sent
\* in its order with none left out in the middle, and nothing after a frame
\* that was given up.
THEOREM KeepsPromiseHolds == Spec => KeepsPromise
<1>1. Init => Promise!Init
  <2> SUFFICES ASSUME Init PROVE Promise!Init
    OBVIOUS
  <2>1. \A lane \in Lane : Begun(lane) \o frames[lane] = <<>>
    BY ConcatEmptySeq, EmptySeq DEF Init, Begun
  <2>2. Held = [lane \in Lane |-> <<>>]
    BY <2>1 DEF Held
  <2> QED BY <2>2 DEF Init, Promise!Init, Zero, Broken
<1>2. HandOK /\ [Next]_vars => [Promise!Next]_(Promise!vars)
  <2> SUFFICES ASSUME HandOK, [Next]_vars
               PROVE  Promise!Next \/ UNCHANGED Promise!vars
    OBVIOUS
  <2>1. ASSUME NEW t \in Callers,
               Call(t) \/ Deadline(t) \/ Spurious(t) \/ CallerStep(t)
        PROVE  Promise!Next \/ UNCHANGED Promise!vars
    BY <2>1, CallerKeepsPromise DEF Promise!Next
  <2>2. CASE WriterStep
    BY <2>2, WriterKeepsPromise
  <2>3. CASE StopRunning \/ StopWritable \/ UNCHANGED vars
    <3>1. UNCHANGED <<in_hand, rest, hand, frames, wire, lost, open, writer>>
      BY <2>3 DEF StopRunning, StopWritable, vars, queueVars, sentVars, writerVars
    <3> QED BY <3>1, Stutters DEF Broken
  <2>4. CASE CloseShut
    <3>1. Shut /\ Broken' = Broken
      BY <2>4 DEF CloseShut, Broken
    <3> QED BY <3>1, ShutIsShut DEF Promise!Next
  <2> QED BY <2>1, <2>2, <2>3, <2>4 DEF Next, Terminated
<1>3. TypeInv /\ CountInv /\ RestInv => HandOK
  BY DEF HandOK, CountInv
<1> QED BY <1>1, <1>2, <1>3, TypeCorrect, CountsCorrect, RestCorrect, PTL
        DEF Spec, KeepsPromise, Promise!Spec

-----------------------------------------------------------------------------
(* What a line holds.                                                       *)

\* s adds up the costs of the first n frames of q, place by place.
Sums(q, n, s) ==
  s = [i \in 0..n |-> IF i = 0 THEN 0 ELSE s[i - 1] + q[i].len + FRAME_COST]

\* Such a sum exists.
LEMMA SumsExist ==
  ASSUME NEW q \in Seq(Frame) PROVE \E s : Sums(q, Len(q), s)
<1> DEFINE S == {n \in Nat : \E s : Sums(q, n, s)}
<1>1. 0 \in S
  <2>1. Sums(q, 0, [i \in 0..0 |-> 0])
    BY DEF Sums
  <2> QED BY <2>1
<1>2. ASSUME NEW n \in Nat, n \in S PROVE n + 1 \in S
  <2>1. PICK s : Sums(q, n, s)
    BY <1>2
  <2> DEFINE r == [i \in 0..n + 1 |->
                     IF i = n + 1 THEN s[n] + q[n + 1].len + FRAME_COST ELSE s[i]]
  <2>2. ASSUME NEW i \in 0..n + 1
        PROVE  r[i] = IF i = 0 THEN 0 ELSE r[i - 1] + q[i].len + FRAME_COST
    <3>1. CASE i = n + 1
      <4>1. r[i] = s[n] + q[n + 1].len + FRAME_COST /\ r[i - 1] = s[n]
        BY <3>1
      <4> QED BY <3>1, <4>1
    <3>2. CASE i \in 0..n
      <4>1. r[i] = s[i] /\ (i # 0 => r[i - 1] = s[i - 1])
        BY <3>2
      <4>2. s[i] = IF i = 0 THEN 0 ELSE s[i - 1] + q[i].len + FRAME_COST
        BY <2>1, <3>2 DEF Sums
      <4> QED BY <4>1, <4>2
    <3> QED BY <3>1, <3>2
  <2>3. r = [i \in 0..n + 1 |-> r[i]]
    OBVIOUS
  <2> HIDE DEF r
  <2>4. Sums(q, n + 1, r)
    BY <2>2, <2>3 DEF Sums
  <2> QED BY <2>4
<1> HIDE DEF S
<1>3. \A n \in Nat : n \in S
  BY <1>1, <1>2, NatSetInduction
<1> QED BY <1>3, LenProperties DEF S

\* A frame's length is a number.
LEMMA FrameLen == \A f \in Frame : f.len \in Lens /\ f.len \in Nat
BY SizesAssumption DEF Frame

\* Such a sum is of natural numbers.
LEMMA SumsType ==
  ASSUME NEW q \in Seq(Frame), NEW s, Sums(q, Len(q), s)
  PROVE  \A i \in 0..Len(q) : s[i] \in Nat
<1> DEFINE S == {n \in Nat : n <= Len(q) => s[n] \in Nat}
<1>0. Len(q) \in Nat
  BY LenProperties
<1>1. 0 \in S
  BY <1>0 DEF Sums
<1>2. ASSUME NEW n \in Nat, n \in S PROVE n + 1 \in S
  <2>1. SUFFICES ASSUME n + 1 <= Len(q) PROVE s[n + 1] \in Nat
    OBVIOUS
  <2>2. s[n] \in Nat
    BY <1>0, <1>2, <2>1
  <2>3. n + 1 \in 0..Len(q) /\ n + 1 # 0 /\ n + 1 - 1 = n
    BY <1>0, <2>1
  <2>4. s[n + 1] = s[n] + q[n + 1].len + FRAME_COST
    BY <2>3 DEF Sums
  <2>5. q[n + 1] \in Frame
    BY <1>0, <2>1, ElementOfSeq
  <2> QED BY <2>2, <2>4, <2>5, FrameLen, SizesAssumption
<1> HIDE DEF S
<1>3. \A n \in Nat : n \in S
  BY <1>1, <1>2, NatSetInduction
<1> QED BY <1>0, <1>3 DEF S

\* There is one.
LEMMA SumsUnique ==
  ASSUME NEW q \in Seq(Frame), NEW s, Sums(q, Len(q), s), NEW r, Sums(q, Len(q), r)
  PROVE  s[Len(q)] = r[Len(q)]
<1> DEFINE S == {n \in Nat : n <= Len(q) => s[n] = r[n]}
<1>0. Len(q) \in Nat
  BY LenProperties
<1>1. 0 \in S
  BY <1>0 DEF Sums
<1>2. ASSUME NEW n \in Nat, n \in S PROVE n + 1 \in S
  <2>1. SUFFICES ASSUME n + 1 <= Len(q) PROVE s[n + 1] = r[n + 1]
    OBVIOUS
  <2>2. s[n] = r[n]
    BY <1>0, <1>2, <2>1
  <2>3. n + 1 \in 0..Len(q) /\ n + 1 # 0 /\ n + 1 - 1 = n
    BY <1>0, <2>1
  <2>4. /\ s[n + 1] = s[n] + q[n + 1].len + FRAME_COST
        /\ r[n + 1] = r[n] + q[n + 1].len + FRAME_COST
    BY <2>3 DEF Sums
  <2> QED BY <2>2, <2>4
<1> HIDE DEF S
<1>3. \A n \in Nat : n \in S
  BY <1>1, <1>2, NatSetInduction
<1> QED BY <1>0, <1>3 DEF S

\* The bytes of a line are the end of any such sum.
LEMMA BytesAre ==
  ASSUME NEW q \in Seq(Frame), NEW s, Sums(q, Len(q), s)
  PROVE  Bytes(q) = s[Len(q)] /\ Bytes(q) \in Nat
<1> DEFINE c == CHOOSE r : Sums(q, Len(q), r)
<1>1. Bytes(q) = c[Len(q)]
  BY DEF Bytes, Sums
<1>2. Sums(q, Len(q), c)
  OBVIOUS
<1> HIDE DEF c
<1>3. c[Len(q)] = s[Len(q)]
  BY <1>2, SumsUnique
<1>4. s[Len(q)] \in Nat
  BY SumsType, LenProperties
<1> QED BY <1>1, <1>3, <1>4

\* An empty line holds nothing.
LEMMA BytesEmpty == Bytes(<<>>) = 0
<1>1. <<>> \in Seq(Frame) /\ Len(<<>>) = 0
  BY EmptySeq
<1>2. Sums(<<>>, 0, [i \in 0..0 |-> 0])
  BY DEF Sums
<1> QED BY <1>1, <1>2, BytesAre

\* A frame that comes adds its cost.
LEMMA BytesAppend ==
  ASSUME NEW q \in Seq(Frame), NEW f \in Frame
  PROVE  Bytes(Append(q, f)) = Bytes(q) + f.len + FRAME_COST /\ Bytes(q) \in Nat
<1> DEFINE n == Len(q)
           a == Append(q, f)
<1>1. n \in Nat /\ a \in Seq(Frame) /\ Len(a) = n + 1 /\ a[n + 1] = f
      /\ \A i \in 1..n : a[i] = q[i]
  BY LenProperties, AppendProperties
<1>2. PICK s : Sums(q, n, s)
  BY SumsExist
<1>3. Bytes(q) = s[n] /\ Bytes(q) \in Nat
  BY <1>2, BytesAre
<1> DEFINE r == [i \in 0..n + 1 |-> IF i = n + 1 THEN s[n] + f.len + FRAME_COST ELSE s[i]]
<1> HIDE DEF a, n
<1>4. ASSUME NEW i \in 0..n + 1
      PROVE  r[i] = IF i = 0 THEN 0 ELSE r[i - 1] + a[i].len + FRAME_COST
  <2>1. CASE i = n + 1
    <3>1. r[i] = s[n] + f.len + FRAME_COST /\ r[i - 1] = s[n]
      BY <1>1, <2>1
    <3> QED BY <1>1, <2>1, <3>1
  <2>2. CASE i \in 0..n
    <3>1. r[i] = s[i] /\ (i # 0 => r[i - 1] = s[i - 1] /\ a[i] = q[i])
      BY <1>1, <2>2
    <3>2. s[i] = IF i = 0 THEN 0 ELSE s[i - 1] + q[i].len + FRAME_COST
      BY <1>2, <2>2 DEF Sums
    <3> QED BY <3>1, <3>2
  <2> QED BY <1>1, <2>1, <2>2
<1>5. r = [i \in 0..n + 1 |-> r[i]] /\ r[n + 1] = s[n] + f.len + FRAME_COST
  BY <1>1
<1> HIDE DEF r
<1>6. Sums(a, n + 1, r)
  BY <1>4, <1>5 DEF Sums
<1>7. Bytes(a) = r[n + 1]
  BY <1>1, <1>6, BytesAre
<1> QED BY <1>3, <1>5, <1>7 DEF a

\* A frame that is taken gives back its cost.
LEMMA BytesTail ==
  ASSUME NEW q \in Seq(Frame), q # <<>>
  PROVE  /\ Bytes(Tail(q)) = Bytes(q) - Cost(Head(q))
         /\ Bytes(Tail(q)) \in Nat
<1> DEFINE n == Len(q) - 1
           t == Tail(q)
<1>1. n \in Nat /\ Len(q) = n + 1 /\ t \in Seq(Frame) /\ Len(t) = n
      /\ (\A i \in 1..n : t[i] = q[i + 1]) /\ Head(q) = q[1]
  BY EmptySeq, HeadTailProperties
<1> HIDE DEF t, n
<1>2. PICK s : Sums(q, n + 1, s)
  BY <1>1, SumsExist
<1>3. Bytes(q) = s[n + 1] /\ \A i \in 0..n + 1 : s[i] \in Nat
  BY <1>1, <1>2, BytesAre, SumsType
<1> DEFINE r == [i \in 0..n |-> s[i + 1] - s[1]]
<1>4. ASSUME NEW i \in 0..n
      PROVE  r[i] = IF i = 0 THEN 0 ELSE r[i - 1] + t[i].len + FRAME_COST
  <2>0. s[1] \in Nat
    BY <1>1, <1>3
  <2>1. CASE i = 0
    <3>1. r[i] = s[1] - s[1]
      BY <1>1, <2>1
    <3> QED BY <2>0, <2>1, <3>1
  <2>2. CASE i # 0
    <3>1. /\ r[i] = s[i + 1] - s[1] /\ r[i - 1] = s[i] - s[1]
          /\ t[i] = q[i + 1] /\ i + 1 \in 0..n + 1 /\ i + 1 # 0 /\ i + 1 - 1 = i
          /\ i \in 0..n + 1
      BY <1>1, <2>2
    <3>2. s[i + 1] = s[i] + q[i + 1].len + FRAME_COST
      BY <1>2, <3>1 DEF Sums
    <3>3. q[i + 1] \in Frame
      BY <1>1, <2>2, ElementOfSeq
    <3>4. s[i] \in Nat /\ q[i + 1].len \in Nat /\ FRAME_COST \in Nat
      BY <1>3, <3>1, <3>3, FrameLen, SizesAssumption
    <3> QED BY <2>0, <2>2, <3>1, <3>2, <3>4
  <2> QED BY <2>1, <2>2
<1>5. r = [i \in 0..n |-> r[i]] /\ r[n] = s[n + 1] - s[1]
  BY <1>1
<1> HIDE DEF r
<1>6. Sums(t, n, r)
  BY <1>4, <1>5 DEF Sums
<1>7. Bytes(t) = r[n] /\ Bytes(t) \in Nat
  BY <1>1, <1>6, BytesAre
<1>8. s[1] = Cost(Head(q))
  <2>1. 1 \in 0..n + 1 /\ 1 - 1 = 0 /\ 0 \in 0..n + 1
    BY <1>1
  <2>2. s[1] = s[0] + q[1].len + FRAME_COST /\ s[0] = 0
    BY <1>2, <2>1 DEF Sums
  <2>3. q[1] \in Frame
    BY <1>1, ElementOfSeq
  <2> QED BY <1>1, <2>2, <2>3, FrameLen, SizesAssumption DEF Cost
<1> QED BY <1>3, <1>5, <1>7, <1>8 DEF t

\* No frame is longer than the longest.
LEMMA Longest ==
  /\ Max(Lens) \in Nat
  /\ \A l \in Lens : l <= Max(Lens)
<1>1. PICK longest \in Lens : \A l \in Lens : l <= longest
  BY SizesAssumption
<1>2. \E x \in Lens : \A y \in Lens : x >= y
  BY <1>1, SizesAssumption
<1>3. Max(Lens) \in Lens /\ \A y \in Lens : Max(Lens) >= y
  BY <1>2 DEF Max
<1> QED BY <1>3, SizesAssumption

\* What makes the budget inductive: the charge is what the line holds, and
\* only the frame let in last can have passed the limit.
BudgetInv ==
  \A lane \in Lane :
    /\ waiting[lane] = Bytes(frames[lane])
    /\ waiting[lane] <= Limit[lane] + Max(Lens) + FRAME_COST

\* A step that leaves the lines and their charges alone.
LEMMA SameBudget ==
  ASSUME BudgetInv, UNCHANGED <<frames, waiting>> PROVE BudgetInv'
BY DEF BudgetInv

\* A put charges the line what it lets in, and only below the limit.
LEMMA EnterBudget ==
  ASSUME TypeInv, BudgetInv, NEW t \in Callers, NEW lane \in Lane, HasRoom(lane),
         len[t] \in Lens, Enter(t, lane)
  PROVE  BudgetInv'
<1> DEFINE f == NewFrame(t, lane)
<1>1. f \in Frame /\ f.len = len[t]
  BY DEF NewFrame, Frame, TypeInv, TypeOK, SentType
<1>2. /\ frames \in [Lane -> Seq(Frame)] /\ waiting \in [Lane -> Int]
      /\ frames' = [frames EXCEPT ![lane] = Append(@, f)]
      /\ waiting' = [waiting EXCEPT ![lane] = @ + len[t] + FRAME_COST]
  BY DEF Enter, TypeInv, TypeOK, QueueType
<1> HIDE DEF f
<1>3. /\ waiting'[lane] = waiting[lane] + len[t] + FRAME_COST
      /\ frames'[lane] = Append(frames[lane], f)
      /\ frames[lane] \in Seq(Frame) /\ waiting[lane] \in Int
  BY <1>2
<1>4. waiting'[lane] = Bytes(frames'[lane])
  BY <1>1, <1>3, BytesAppend DEF BudgetInv
<1>5. waiting'[lane] <= Limit[lane] + Max(Lens) + FRAME_COST
  <2>1. len[t] \in Nat /\ len[t] <= Max(Lens) /\ FRAME_COST \in Nat /\ Max(Lens) \in Nat
    BY Longest, SizesAssumption
  <2>2. waiting[lane] <= Limit[lane] /\ Limit[lane] \in Nat
    BY LaneLimit DEF HasRoom
  <2> QED BY <1>3, <2>1, <2>2
<1>6. ASSUME NEW l \in Lane, l # lane
      PROVE  frames'[l] = frames[l] /\ waiting'[l] = waiting[l]
  BY <1>2, <1>6
<1> QED BY <1>4, <1>5, <1>6 DEF BudgetInv

\* A take gives back what the put charged.
LEMMA TakeBudget ==
  ASSUME TypeInv, BudgetInv, Take PROVE BudgetInv'
<1>1. CASE frames[NextLane] # <<>>
  <2> DEFINE lane == NextLane
  <2>1. lane \in Lane /\ frames \in [Lane -> Seq(Frame)] /\ waiting \in [Lane -> Int]
    BY DEF NextLane, Lane, TypeInv, TypeOK, QueueType
  <2>2. /\ frames' = [frames EXCEPT ![lane] = Tail(@)]
        /\ waiting' = [waiting EXCEPT ![lane] = @ - Cost(Head(frames[lane]))]
        /\ frames[lane] # <<>>
    BY <1>1 DEF Take
  <2> HIDE DEF lane
  <2>3. /\ frames'[lane] = Tail(frames[lane])
        /\ waiting'[lane] = waiting[lane] - Cost(Head(frames[lane]))
        /\ frames[lane] \in Seq(Frame) /\ waiting[lane] \in Int
    BY <2>1, <2>2
  <2>4. waiting'[lane] = Bytes(frames'[lane])
    BY <2>1, <2>2, <2>3, BytesTail DEF BudgetInv
  <2>5. waiting'[lane] <= Limit[lane] + Max(Lens) + FRAME_COST
    <3>1. Cost(Head(frames[lane])) \in Nat
      <4>1. Head(frames[lane]) \in Frame
        BY <2>2, <2>3, HeadTailProperties
      <4> QED BY <4>1, FrameLen, SizesAssumption DEF Cost
    <3>2. Limit[lane] \in Nat /\ FRAME_COST \in Nat /\ Max(Lens) \in Nat
      BY <2>1, LaneLimit, Longest, SizesAssumption
    <3>3. waiting[lane] <= Limit[lane] + Max(Lens) + FRAME_COST
      BY <2>1 DEF BudgetInv
    <3> QED BY <2>3, <3>1, <3>2, <3>3
  <2>6. ASSUME NEW l \in Lane, l # lane
        PROVE  frames'[l] = frames[l] /\ waiting'[l] = waiting[l]
    BY <2>1, <2>2, <2>6
  <2> QED BY <2>4, <2>5, <2>6 DEF BudgetInv
<1>2. CASE frames[NextLane] = <<>>
  BY <1>2, SameBudget DEF Take
<1> QED BY <1>1, <1>2

\* Empty lines are within the budget.
LEMMA EmptyBudget ==
  ASSUME NEW w, NEW q, w = [lane \in Lane |-> 0], q = [lane \in Lane |-> <<>>]
  PROVE  \A lane \in Lane :
           /\ w[lane] = Bytes(q[lane])
           /\ w[lane] <= Limit[lane] + Max(Lens) + FRAME_COST
<1> SUFFICES ASSUME NEW lane \in Lane
             PROVE  /\ w[lane] = Bytes(q[lane])
                    /\ w[lane] <= Limit[lane] + Max(Lens) + FRAME_COST
  OBVIOUS
<1>1. w[lane] = 0 /\ q[lane] = <<>>
  OBVIOUS
<1>2. Limit[lane] \in Nat /\ FRAME_COST \in Nat /\ Max(Lens) \in Nat
  BY LaneLimit, Longest, SizesAssumption
<1> QED BY <1>1, <1>2, BytesEmpty

\* The charge of a line is what it holds, and stays within its limit and one
\* frame.
THEOREM BudgetCorrect == Spec => []BudgetInv
<1>1. Init => BudgetInv
  BY EmptyBudget DEF Init, Zero, BudgetInv
<1>2. TypeInv /\ BudgetInv /\ [Next]_vars => BudgetInv'
  <2> SUFFICES ASSUME TypeInv, BudgetInv, [Next]_vars PROVE BudgetInv'
    OBVIOUS
  <2>1. ASSUME NEW t \in Callers, CallerStep(t) PROVE BudgetInv'
    <3>1. CASE UNCHANGED <<frames, waiting>>
      BY <3>1, SameBudget
    <3>2. ASSUME NEW lane \in Lane, t \in Publishers \cup Subscribers, Awake(t),
                 HasRoom(lane), Enter(t, lane)
          PROVE  BudgetInv'
      <4>1. len[t] \in Lens
        BY <3>2, AwakeLen DEF TypeInv, TypeOK
      <4> QED BY <3>2, <4>1, EnterBudget
    <3> QED BY <2>1, <3>1, <3>2 DEF CallerStep, PutMessage, PutControl, Flushed, MayEnter,
                                    Sleep, Refuse, Lane
  <2>2. CASE Take
    BY <2>2, TakeBudget
  <2>3. CASE ExitShut \/ CloseShut
    <3>1. waiting' = [lane \in Lane |-> 0] /\ frames' = [lane \in Lane |-> <<>>]
      BY <2>3 DEF ExitShut, CloseShut, Shut
    <3> QED BY <3>1, EmptyBudget DEF BudgetInv
  <2>4. ASSUME NEW t \in Callers, Call(t) \/ Deadline(t) \/ Spurious(t) PROVE BudgetInv'
    BY <2>4, SameBudget DEF Call, Deadline, Spurious, queueVars
  <2>5. CASE \/ Top \/ Patience \/ Check \/ Send \/ Poll \/ SendFails \/ DoneWrote
             \/ DoneLost \/ Tear \/ Panic \/ Abandon
    BY <2>5, SameBudget DEF Top, Patience, Check, Send, Poll, SendFails, DoneWrote,
                            DoneLost, Done, Tear, Panic, Abandon, queueVars
  <2>6. CASE StopRunning \/ StopWritable \/ UNCHANGED vars
    BY <2>6, SameBudget DEF StopRunning, StopWritable, vars, queueVars
  <2> QED BY <2>1, <2>2, <2>3, <2>4, <2>5, <2>6 DEF Next, WriterStep, Terminated
<1> QED BY <1>1, <1>2, TypeCorrect, PTL DEF Spec

\* The subtraction in `take` never wraps, and an outbox holds no more than its
\* limit, the frame let in at the limit and the one in the writer's hand.
THEOREM ByteBudgetHolds == Spec => []ByteBudget
<1>1. TypeInv /\ RestInv /\ BudgetInv => ByteBudget
  <2> SUFFICES ASSUME TypeInv, RestInv, BudgetInv, NEW lane \in Lane
               PROVE  waiting[lane] + (IF in_hand = lane THEN Cost(hand) ELSE 0)
                        <= Limit[lane] + 2 * (Max(Lens) + FRAME_COST)
    BY DEF ByteBudget, BudgetInv
  <2>1. /\ Limit[lane] \in Nat /\ FRAME_COST \in Nat /\ Max(Lens) \in Nat
        /\ waiting[lane] \in Int
    BY LaneLimit, Longest, SizesAssumption DEF TypeInv, TypeOK, QueueType
  <2>2. waiting[lane] <= Limit[lane] + Max(Lens) + FRAME_COST
    BY DEF BudgetInv
  <2>3. CASE in_hand = lane
    <3>1. hand \in Frame
      BY <2>3 DEF RestInv, Lane, NoLane
    <3>2. Cost(hand) \in Nat /\ Cost(hand) <= Max(Lens) + FRAME_COST
      BY <2>1, <3>1, FrameLen, Longest DEF Cost
    <3> QED BY <2>1, <2>2, <2>3, <3>2
  <2> QED BY <2>1, <2>2, <2>3
<1> QED BY <1>1, TypeCorrect, RestCorrect, BudgetCorrect, PTL

=============================================================================
