---------------------------- MODULE MCReadModel ----------------------------
(* ReadModel on a small instance. *)
EXTENDS ReadModel, TLC

CONSTANTS w1, w2, u1

TwoWatchdogs == {w1, w2}
OneWatchdog == {w1}
OneUser == {u1}
Symmetry == Permutations(TwoWatchdogs)
=============================================================================
