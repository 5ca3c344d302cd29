---------------------------- MODULE MCTcpqStream ----------------------------
(* The frames that TLC puts into a stream.                                 *)
EXTENDS TcpqStream

\* A text byte, and bytes that look like the head of a frame.
Letter == 7

Publish(name, payload) == [kind |-> PUBLISH, name |-> name, payload |-> payload]
Pattern(kind, name) == [kind |-> kind, name |-> name, payload |-> <<>>]

\* Messages with no payload and with a payload that reads as a frame; names that
\* are empty, too long for an encoder, too long for a decoder, not text and
\* with a NUL; a payload over the limit; patterns, text and not; and a frame
\* of a type that nobody knows.
MCFrames ==
  { Publish(<<Letter>>, <<>>),
    Publish(<<Letter>>, <<SUBSCRIBE, 0>>),
    Publish(<<>>, <<PUBLISH>>),
    Publish(<<Letter, Letter>>, <<PUBLISH>>),
    Publish(<<Letter, Letter, Letter>>, <<>>),
    Publish(<<NotText>>, <<PUBLISH, 1>>),
    Publish(<<NUL>>, <<>>),
    Publish(<<Letter>>, <<SUBSCRIBE, 0, 0>>),
    Pattern(SUBSCRIBE, <<Letter, Letter>>),
    Pattern(SUBSCRIBE, <<NotText>>),
    Pattern(UNSUBSCRIBE, <<NUL>>),
    Pattern(4, <<Letter>>) }

=============================================================================
