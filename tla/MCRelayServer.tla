---------------------------- MODULE MCRelayServer ----------------------------
(* Small relays for TLC.                                                   *)
EXTENDS RelayServer, TLC

\* The connections are alike, and so are the local threads of one kind.
Symmetry ==
  Permutations(Conns) \cup Permutations(Publishers) \cup Permutations(Closers)

=============================================================================
