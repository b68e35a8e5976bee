-------------------------- MODULE MCKnowledgeBases --------------------------
(* KnowledgeBases on a small instance. *)
EXTENDS KnowledgeBases, TLC

CONSTANTS c1, c2, c3, k1, t1, t2, t3, d1, s1

ThreeCallers == {c1, c2, c3}
ThreeTemplates == {t1, t2, t3}

\* One name, in two versions; t3 is what t1 was, created again.
Law(t) == "law"
Edition(t) == IF t = t2 THEN 2 ELSE 1

Symmetry == Permutations(ThreeCallers)
=============================================================================
