----------------------------- MODULE MCOcrPages -----------------------------
(* OcrPages on a small instance. *)
EXTENDS OcrPages

Coroutines == (1..MaxPasses) \X (0..Slots)
\* A section with a subsection.
Documents == {<<"##", "###">>}
=============================================================================
