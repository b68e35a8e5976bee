--------------------------- MODULE ScatterGather ---------------------------
(***************************************************************************)
(* What the graph workers, the stream and the barrier promise together: a  *)
(* job is split into parts, the parts are finished in any order, and when  *)
(* the last one is the results are merged, once.  Parts are handed out     *)
(* once and as a whole; when that fails, or a part is handed out again,    *)
(* the job is disturbed and nothing is promised any more.                  *)
(***************************************************************************)
CONSTANT Parents

VARIABLES
    started,  \* the parts have been handed out
    finished, \* the parts whose result exists
    merged,   \* the results have been merged
    disturbed

vars == <<started, finished, merged, disturbed>>

Init == started = FALSE /\ finished = {} /\ merged = FALSE /\ disturbed = FALSE

Calm == ~disturbed /\ disturbed' = FALSE

Start == Calm /\ ~started /\ started' = TRUE /\ UNCHANGED <<finished, merged>>

Finish(p) ==
    /\ Calm /\ started /\ p \notin finished
    /\ finished' = finished \cup {p}
    /\ UNCHANGED <<started, merged>>

Merge ==
    /\ Calm /\ finished = Parents /\ ~merged
    /\ merged' = TRUE
    /\ UNCHANGED <<started, finished>>

\* The rest of the state may become anything.
Disturb == disturbed' = TRUE

Next == Start \/ (\E p \in Parents : Finish(p)) \/ Merge \/ Disturb

Spec == Init /\ [][Next]_vars

\* Once started, every part is finished and the results are merged, unless the job
\* is disturbed.
FairSpec ==
    /\ Spec
    /\ \A p \in Parents : WF_vars(Finish(p))
    /\ WF_vars(Merge)
=============================================================================
