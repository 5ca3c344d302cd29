----------------------------- MODULE MCLogReplay -----------------------------
(* Small logs for TLC.                                                     *)
EXTENDS LogReplay

\* No payload, one that starts as an event does, and one too long.
MCPayloads == { <<>>, <<S1, S2>>, <<0, 0, 0>> }

MCTimes == {0}
MCStarts == {NoTime, 1}

=============================================================================
