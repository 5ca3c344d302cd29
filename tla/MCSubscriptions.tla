--------------------------- MODULE MCSubscriptions ---------------------------
(* A small set of names and patterns for TLC.                              *)
EXTENDS Subscriptions, TLC

\* A name and its escaped form, and a name that is too long once it is escaped.
MCEscape == "a.b" :> "escaped a.b" @@ "a...b" :> "escaped a...b"

\* The client was opened with a name and with the same text as a pattern.
MCOpening == << [kind |-> "name", text |-> "a.b"], [kind |-> "pattern", text |-> "a.b"] >>

=============================================================================
