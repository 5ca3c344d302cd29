--------------------------- MODULE Subscriptions ---------------------------
(***************************************************************************)
(* The subscriptions of a tcpq client (bus::Subscriptions under             *)
(* Client::subscribe_name, subscribe and unsubscribe) and what the relay    *)
(* makes of the frames that tell it of them (serve::peer_reader).           *)
(*                                                                         *)
(* A change tells the relay first and the set after, under the lock         *)
(* `changing`, so that the two agree whichever threads change them.  The    *)
(* outbox is the promise of module FrameLine for its line of subscriptions: *)
(* a bounded queue that is written in order, until the connection ends.     *)
(***************************************************************************)
EXTENDS Integers, Sequences, FiniteSets, SequencesExt

CONSTANTS
  Threads,       \* the threads that change subscriptions, a handler's included
  Names,         \* the names they subscribe to
  Patterns,      \* the patterns they subscribe to
  Escape,        \* bus::escaped, of each name
  BadPatterns,   \* the patterns that do not compile here
  RelayRefuses,  \* the patterns that do not compile at the relay
  TooLong,       \* the texts above CHANNEL_READ_MAX
  Opening,       \* the rules the client was opened with
  Room,          \* frames the line of subscriptions takes
  MaxCalls,      \* bound: calls made by one thread
  NoThread       \* the value of `changing` when it is free

Rule == [kind : {"name"}, text : Names] \cup [kind : {"pattern"}, text : Patterns]

\* Escaping keeps two names apart.  It may give what another caller uses as a
\* pattern, and the name itself where nothing in it is special.
ASSUME SubscriptionsAssumption ==
  /\ Names \subseteq DOMAIN Escape
  /\ \A a, b \in Names : Escape[a] = Escape[b] => a = b
  /\ BadPatterns \subseteq Patterns
  /\ NoThread \notin Threads
  /\ Opening \in Seq(Rule)
  /\ Room \in Nat \ {0} /\ MaxCalls \in Nat

\* Rule::for_a_relay: what a relay is given for a rule.
for_a_relay(rule) == IF rule.kind = "name" THEN Escape[rule.text] ELSE rule.text

VARIABLES
  rules,     \* Subscriptions::rules of the client
  changing,  \* the thread that holds Client::changing
  open,      \* the connection takes frames: `writable`, and the outbox is open
  lane,      \* the frames in the outbox's line of subscriptions
  wire,      \* the frames on the wire, still to be read by the relay
  relay,     \* the rules the relay holds for this peer
  pc,        \* where each thread is
  call,      \* the call it makes
  told,      \* what it tells the relay
  calls      \* how many calls it made

conn == <<open, lane, wire, relay>>
locals == <<pc, call, told, calls>>
vars == <<rules, changing, conn, locals>>

Frame(op, text) == [op |-> op, text |-> text]
NoCall == Frame("none", NoThread)

\* open_tcpq tells the relay of each rule before it starts the two threads.
Init ==
  /\ rules = Opening
  /\ changing = NoThread
  /\ open = TRUE
  /\ lane = <<>>
  /\ wire = [i \in DOMAIN Opening |-> Frame("subscribe", for_a_relay(Opening[i]))]
  /\ relay = <<>>
  /\ pc = [t \in Threads |-> "idle"]
  /\ call = [t \in Threads |-> NoCall]
  /\ told = [t \in Threads |-> NoThread]
  /\ calls = [t \in Threads |-> 0]

-----------------------------------------------------------------------------
(* The calls.                                                              *)

\* What a caller may ask for.
Asked == [op : {"name"}, text : Names] \cup [op : {"subscribe"}, text : Patterns]
           \cup [op : {"unsubscribe"}, text : Names \cup Patterns]

\* The rule a subscribe adds.
RuleOf(c) == [kind |-> IF c.op = "name" THEN "name" ELSE "pattern", text |-> c.text]

\* The frame that tells of a call.
Telling(c) == IF c.op = "unsubscribe" THEN "unsubscribe" ELSE "subscribe"

\* A call starts.  One whose rule does not compile gives back at once, before
\* the lock and the relay.
Begin(t) ==
  /\ pc[t] = "idle" /\ calls[t] < MaxCalls
  /\ calls' = [calls EXCEPT ![t] = @ + 1]
  /\ \E c \in Asked :
       IF c.op = "subscribe" /\ c.text \in BadPatterns
       THEN UNCHANGED <<pc, call>>
       ELSE /\ call' = [call EXCEPT ![t] = c]
            /\ pc' = [pc EXCEPT ![t] = "lock"]
  /\ UNCHANGED <<rules, changing, conn, told>>

\* Subscriptions::find: the first rule with this text.
Held(text) == SelectInSeq(rules, LAMBDA rule : rule.text = text)

\* The call gives back, and the lock with it.
Finish(t) ==
  /\ changing' = NoThread
  /\ pc' = [pc EXCEPT ![t] = "idle"]
  /\ call' = [call EXCEPT ![t] = NoCall]
  /\ told' = [told EXCEPT ![t] = NoThread]

\* Mutant of Free: the lock lets everybody in.
FreeAlways == TRUE

\* Nobody is in the middle of a change.
Free == changing = NoThread

\* The lock, and for an unsubscribe the rule it finds, or none to tell of.
Lock(t) ==
  /\ pc[t] = "lock" /\ Free
  /\ LET c == call[t] IN
     IF c.op = "unsubscribe" /\ Held(c.text) = 0
     THEN Finish(t)
     ELSE /\ changing' = t
          /\ pc' = [pc EXCEPT ![t] = "tell"]
          /\ told' = [told EXCEPT ![t] =
               for_a_relay(IF c.op = "unsubscribe" THEN rules[Held(c.text)]
                           ELSE RuleOf(c))]
          /\ UNCHANGED call
  /\ UNCHANGED <<rules, conn, calls>>

\* tell_relay: the frame goes into the line.
Tell(t) ==
  /\ pc[t] = "tell" /\ open /\ Len(lane) < Room
  /\ lane' = Append(lane, Frame(Telling(call[t]), told[t]))
  /\ pc' = [pc EXCEPT ![t] = "take"]
  /\ UNCHANGED <<rules, changing, open, wire, relay, call, told, calls>>

\* Mutant of GiveUp: a line that stays full is waited for without an end.
WaitOn(t) ==
  /\ pc[t] = "tell" /\ ~open
  /\ Finish(t)
  /\ UNCHANGED <<rules, conn, calls>>

\* tell_relay: the connection is gone, or LONGEST_CONTROL_WAIT passed with no
\* room.  The call gives back an error.
GiveUp(t) ==
  /\ pc[t] = "tell" /\ (~open \/ Len(lane) >= Room)
  /\ Finish(t)
  /\ UNCHANGED <<rules, conn, calls>>

\* Mutant of Change: the rule goes by what the relay was told.
ChangeByTold(t) ==
  IF call[t].op = "unsubscribe"
  THEN SelectSeq(rules, LAMBDA rule : for_a_relay(rule) # told[t])
  ELSE Append(rules, RuleOf(call[t]))

\* What the set is after the call: push, or remove of the first rule with the
\* text.
Change(t) ==
  IF call[t].op = "unsubscribe"
  THEN RemoveFirstMatch(rules, LAMBDA rule : rule.text = call[t].text)
  ELSE Append(rules, RuleOf(call[t]))

Take(t) ==
  /\ pc[t] = "take"
  /\ rules' = Change(t)
  /\ Finish(t)
  /\ UNCHANGED <<conn, calls>>

-----------------------------------------------------------------------------
(* The writer thread, the relay, and the end of the connection.            *)

Write ==
  /\ open /\ lane # <<>>
  /\ wire' = Append(wire, Head(lane))
  /\ lane' = Tail(lane)
  /\ UNCHANGED <<rules, changing, open, relay, locals>>

\* What one frame makes of the relay's rules: add where it compiles, or remove
\* of the first equal one.
Apply(held, frame) ==
  IF frame.op = "unsubscribe" THEN RemoveFirst(held, frame.text)
  ELSE IF frame.text \in RelayRefuses THEN held
  ELSE Append(held, frame.text)

Ends == open' = FALSE /\ lane' = <<>> /\ wire' = <<>> /\ relay' = <<>>

\* decode_request and peer_reader: a text too long to read ends the connection.
RelayReads ==
  /\ open /\ wire # <<>>
  /\ IF Head(wire).text \in TooLong
     THEN Ends
     ELSE /\ relay' = Apply(relay, Head(wire))
          /\ wire' = Tail(wire)
          /\ UNCHANGED <<open, lane>>
  /\ UNCHANGED <<rules, changing, locals>>

\* close, a torn write, or a relay that goes.
ConnectionEnds == open /\ Ends /\ UNCHANGED <<rules, changing, locals>>

Next ==
  \/ \E t \in Threads : Begin(t) \/ Lock(t) \/ Tell(t) \/ GiveUp(t) \/ Take(t)
  \/ Write \/ RelayReads \/ ConnectionEnds

Spec == Init /\ [][Next]_vars

\* A thread in a call runs on, one that waits for the lock gets it after the
\* calls in front of it, which are finitely many, and the deadline of a full
\* line passes.  The writer, the relay and the connection promise nothing.
FairSpec ==
  /\ Spec
  /\ \A t \in Threads : WF_vars(Lock(t)) /\ WF_vars(Tell(t) \/ GiveUp(t) \/ Take(t))

-----------------------------------------------------------------------------
(* Properties.                                                             *)

\* What the relay holds once it has read some frames, none of which is too long.
Reads(held, frames) ==
  LET after[i \in 0..Len(frames)] ==
        IF i = 0 THEN held ELSE Apply(after[i - 1], frames[i])
  IN after[Len(frames)]

\* What a relay was told of some rules, and how often it was told a text.
ToldOf(held) == [i \in DOMAIN held |-> for_a_relay(held[i])]
HowOften(texts, text) == Cardinality({i \in DOMAIN texts : texts[i] = text})

\* A frame under way will end the connection when the relay reads it.
Doomed == \E frame \in ToSet(wire \o lane) : frame.text \in TooLong

\* The relay will hold what the client holds: when no change is half made, the
\* relay's rules after the frames under way are the client's, each as often,
\* whatever subscribes and unsubscribes met, and whether or not they gave up.
\* It says nothing of a connection that a name too long for the relay will end.
RelayAgrees ==
  open /\ ~Doomed /\ (\A t \in Threads : pc[t] # "take") =>
    LET will == Reads(relay, wire \o lane)
    IN \A text \in ToSet(will) \cup ToSet(ToldOf(rules)) :
         HowOften(will, text) = IF text \in RelayRefuses THEN 0
                                ELSE HowOften(ToldOf(rules), text)

\* A subscribe or unsubscribe gives back, though the relay reads nothing: the
\* thread of a handler is not lost to it.
CallsReturn == \A t \in Threads : pc[t] # "idle" ~> pc[t] = "idle"

=============================================================================
