------------------------------ MODULE FrameLine ------------------------------
(***************************************************************************)
(* What an outbox promises, whatever its locks, waits and threads: each of  *)
(* its lines is sent in the order it was let in, with none left out in the  *)
(* middle; a line that is shut loses all but the one frame being sent; and  *)
(* once a frame is given up, nothing is sent behind it.  Module Outbox      *)
(* implements this, and Subscriptions relies on it.                         *)
(***************************************************************************)
EXTENDS Integers, Sequences, SequencesExt

CONSTANT Lane  \* the lines, each with an order of its own

VARIABLES
  held,    \* by lane: the frames let in and not sent, in order
  sent,    \* by lane: the frames sent, in order
  lost,    \* by lane: how many frames will never be sent
  open,    \* frames are let in
  broken   \* no frame is sent any more

vars == <<held, sent, lost, open, broken>>

Init ==
  /\ held = [lane \in Lane |-> <<>>]
  /\ sent = [lane \in Lane |-> <<>>]
  /\ lost = [lane \in Lane |-> 0]
  /\ open = TRUE /\ broken = FALSE

\* A frame goes to the end of its line.
LetIn(lane) ==
  /\ open
  /\ held'[lane] # <<>>
  /\ held' = [held EXCEPT ![lane] = Append(@, Last(held'[lane]))]
  /\ UNCHANGED <<sent, lost, open, broken>>

\* The first frame of a line is sent.
Send(lane) ==
  /\ ~broken /\ held[lane] # <<>>
  /\ sent' = [sent EXCEPT ![lane] = Append(@, Head(held[lane]))]
  /\ held' = [held EXCEPT ![lane] = Tail(@)]
  /\ UNCHANGED <<lost, open, broken>>

\* The lines are shut.  Of all of them one frame may be left, the one that is
\* being sent, and it is the first of its line.
Shut ==
  /\ open' = FALSE
  /\ \E kept \in [Lane -> {0, 1}] :
       /\ \A a, b \in Lane : kept[a] = 1 /\ kept[b] = 1 => a = b
       /\ \A lane \in Lane : kept[lane] <= Len(held[lane])
       /\ held' = [lane \in Lane |-> SubSeq(held[lane], 1, kept[lane])]
       /\ lost' = [lane \in Lane |-> lost[lane] + Len(held[lane]) - kept[lane]]
  /\ UNCHANGED <<sent, broken>>

\* The first frame of a line is given up, and nothing is sent behind it.
GiveUp(lane) ==
  /\ held[lane] # <<>>
  /\ held' = [held EXCEPT ![lane] = Tail(@)]
  /\ lost' = [lost EXCEPT ![lane] = @ + 1]
  /\ broken' = TRUE
  /\ UNCHANGED <<sent, open>>

\* The sender ends.
Stop == ~broken /\ broken' = TRUE /\ UNCHANGED <<held, sent, lost, open>>

Next ==
  \/ \E lane \in Lane : LetIn(lane) \/ Send(lane) \/ GiveUp(lane)
  \/ Shut \/ Stop

Spec == Init /\ [][Next]_vars

=============================================================================
