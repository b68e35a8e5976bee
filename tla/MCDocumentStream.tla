-------------------------- MODULE MCDocumentStream --------------------------
(* DocumentStream on small instances. *)
EXTENDS DocumentStream, TLC

CONSTANTS w1, w2

TwoWriters == {w1, w2}

\* Writers are interchangeable; used only where no liveness is checked.
WriterSymmetry == Permutations(Writers)
=============================================================================
