---------------------------- MODULE MCGraphJobs ----------------------------
(* GraphJobs on small instances. *)
EXTENDS GraphJobs, TLC

CONSTANTS c1, c2

OneConsumer == {c1}
TwoConsumers == {c1, c2}

\* Workers are interchangeable; used only where no liveness is checked.
ConsumerSymmetry == Permutations(Consumers)
=============================================================================
