----------------------------- MODULE GraphJobs -----------------------------
(***************************************************************************)
(* Scatter-gather extraction of one document's graph.                      *)
(*                                                                         *)
(* The saga initialises a counter in Redis (the barrier) and publishes one *)
(* message per parent chunk to a Redis stream.  GraphJobWorkers read the   *)
(* messages in batches, extract each parent's graph into a checkpoint      *)
(* file, count it on the barrier, and whoever counts the last one reads    *)
(* all checkpoints and indexes the document.  A message stays pending      *)
(* until it is acknowledged; one that stays pending for 60 seconds may be  *)
(* claimed by any idle worker, whether its first worker died, failed or is *)
(* merely slow.                                                            *)
(***************************************************************************)
EXTENDS Naturals, Sequences, FiniteSets

CONSTANTS
    Consumers,     \* GraphJobWorkers of the consumer group
    Total,         \* parent chunks of the document that are not blank
    BatchSize,     \* messages a worker takes at once (count)
    MaxDispatches, \* bound on the DocumentChunked events, reprocessing included
    MaxFaults,     \* bound on the exceptions raised by a call and the processes
                   \* killed, together
    MaxSlow        \* bound on the messages claimed from a worker still at work

ASSUME TotalAssumption == Total \in Nat
ASSUME BatchAssumption == BatchSize \in Nat \ {0}
ASSUME BoundsAssumption ==
    {MaxDispatches, MaxFaults, MaxSlow} \subseteq Nat

Parents == 1..Total
Dispatches == 1..MaxDispatches
Messages == [run : Dispatches, parent : Parents]

VARIABLES
    dispatches, \* DocumentChunked events handled so far
    sending,    \* those whose handler is still publishing
    sent,       \* messages each of them has published
    failed,     \* a handler recorded a failure of the document
    stream,     \* messages not yet delivered
    pending,    \* the group's PEL: delivered and not acknowledged
    completed,  \* field "completed" of the barrier
    total,      \* field "total" of the barrier
    checkpoint, \* the checkpoint file of each parent
    work,       \* per worker, the state of each message of its batch
    wins,       \* increments that were told they are the last
    indexed,    \* the parents each consolidation found, in order
    redelivered,\* a message was delivered a second time
    faults, slow \* how much of each bound is used

saga == <<dispatches, sending, sent, failed>>
queue == <<stream, pending>>
barrier == <<completed, total>>
results == <<wins, indexed>>
history == <<redelivered, faults, slow>>
vars == <<saga, queue, barrier, checkpoint, work, results, history>>

Places == {"check", "extract", "write", "increment", "total", "heartbeat",
           "gather", "store", "ack"}

\* A process_task coroutine: the value HINCRBY returned, what it was told by the
\* barrier, and the parents whose graphs it has merged.
Task(at) == [at |-> at, seen |-> 0, last |-> FALSE, parts |-> {}]
Batch(batch) == [m \in batch |-> Task("check")]

\* A call fails (Redis, storage, LLM, database or event handler), or a process.
Fault == faults < MaxFaults /\ faults' = faults + 1
-----------------------------------------------------------------------------
(* handle_document_chunked, its last part. *)

\* Mutant: the blank parents, which get no message, are counted too.
Announced_Blank == Total + 1
\* total_parents = len(valid_parents).
Announced == Total

\* HSET total N completed 0, whether or not older messages are still around.
InitBarrier ==
    /\ dispatches < MaxDispatches
    /\ dispatches' = dispatches + 1
    /\ sending' = sending \cup {dispatches'}
    /\ completed' = 0 /\ total' = Announced
    /\ UNCHANGED <<sent, failed, queue, checkpoint, work, results, history>>

\* XADD of the next parent's message.
PublishTask(d) ==
    /\ d \in sending /\ sent[d] < Total
    /\ sent' = [sent EXCEPT ![d] = @ + 1]
    /\ stream' = Append(stream, [run |-> d, parent |-> sent'[d]])
    /\ UNCHANGED <<dispatches, sending, failed, pending, barrier, checkpoint, work,
                   results, history>>

\* The handler publishes its progress event and returns.
EndDispatch(d) ==
    /\ d \in sending /\ sent[d] = Total
    /\ sending' = sending \ {d}
    /\ UNCHANGED <<dispatches, sent, failed, queue, barrier, checkpoint, work,
                   results, history>>

\* XADD or the progress event raises: the saga records the failure.
DispatchRaises(d) ==
    /\ d \in sending /\ Fault
    /\ sending' = sending \ {d} /\ failed' = TRUE
    /\ UNCHANGED <<dispatches, sent, queue, barrier, checkpoint, work, results,
                   redelivered, slow>>
-----------------------------------------------------------------------------
(* run_once: the next batch is taken when the last one is gathered. *)

IsIdle(c) == DOMAIN work[c] = {}
Take(c, batch) == work' = [work EXCEPT ![c] = Batch(batch)]

\* Mutant: a group that reads with NOACK keeps no list of pending messages.
Pend_NoAck(batch) == pending
\* XREADGROUP enters what it delivers in the PEL.
Pend(batch) == pending \cup batch

Read(c) ==
    LET n == IF Len(stream) < BatchSize THEN Len(stream) ELSE BatchSize
        batch == {stream[i] : i \in 1..n} IN
    /\ IsIdle(c) /\ stream # <<>>
    /\ stream' = SubSeq(stream, n + 1, Len(stream))
    /\ pending' = Pend(batch)
    /\ Take(c, batch)
    /\ UNCHANGED <<saga, barrier, checkpoint, results, history>>

BusyWith(m) == \E c \in Consumers : m \in DOMAIN work[c]

\* Mutant: nothing ever becomes stale.
Stale_Never == {}
\* The clock is left out: any pending message may have been idle for 60 seconds,
\* also one whose worker is slow.
Stale == pending

\* XAUTOCLAIM, tried when a read found nothing new.  The two calls are one step:
\* a message added between them is read next, so adding it commutes with the claim.
Claim(c) ==
    /\ IsIdle(c) /\ stream = <<>>
    /\ \E batch \in (SUBSET Stale) \ {{}} :
          /\ Cardinality(batch) <= BatchSize
          /\ slow' = slow + Cardinality({m \in batch : BusyWith(m)})
          /\ slow' \in slow..MaxSlow
          /\ Take(c, batch)
    /\ redelivered' = TRUE
    /\ UNCHANGED <<saga, queue, barrier, checkpoint, results, faults>>
-----------------------------------------------------------------------------
(* process_task, from one await to the next. *)

At(c, m, place) == m \in DOMAIN work[c] /\ work[c][m].at = place
Goto(c, m, place) == work' = [work EXCEPT ![c][m].at = place]
\* The coroutine returns; the batch is gathered when its last one has.
Finish(c, m) ==
    work' = [work EXCEPT ![c] = [x \in DOMAIN @ \ {m} |-> @[x]]]

\* has_parent asks whether the file exists.
HasParent(c, m) ==
    /\ At(c, m, "check")
    /\ Goto(c, m, IF checkpoint[m.parent] = "absent" THEN "extract" ELSE "increment")
    /\ UNCHANGED <<saga, queue, barrier, checkpoint, results, history>>

\* The LLM has answered; opening the file for writing truncates it.
OpenCheckpoint(c, m) ==
    /\ At(c, m, "extract")
    /\ checkpoint' = [checkpoint EXCEPT ![m.parent] = "torn"]
    /\ Goto(c, m, "write")
    /\ UNCHANGED <<saga, queue, barrier, results, history>>

\* The bytes are written from offset 0.  If the file is no longer as this task
\* opened it, another task wrote a graph of another length, and its tail may stay.
WriteCheckpoint(c, m) ==
    /\ At(c, m, "write")
    /\ \E s \in IF checkpoint[m.parent] = "whole" THEN {"whole", "torn"} ELSE {"whole"} :
          checkpoint' = [checkpoint EXCEPT ![m.parent] = s]
    /\ Goto(c, m, "increment")
    /\ UNCHANGED <<saga, queue, barrier, results, history>>

\* HINCRBY.
Increment(c, m) ==
    /\ At(c, m, "increment")
    /\ completed' = completed + 1
    /\ work' = [work EXCEPT ![c][m].at = "total", ![c][m].seen = completed']
    /\ UNCHANGED <<saga, queue, total, checkpoint, results, history>>

\* Mutants: the counter is read again instead of using HINCRBY's answer; the
\* comparison is off by one.
IsLast_Reread(n) == completed = total
IsLast_Early(n) == n + 1 = total
IsLast(n) == n = total

\* HGET total, a call of its own.
CheckLast(c, m) ==
    LET last == IsLast(work[c][m].seen) IN
    /\ At(c, m, "total")
    /\ work' = [work EXCEPT ![c][m] = [Task("heartbeat") EXCEPT !.last = last]]
    /\ wins' = IF last THEN wins + 1 ELSE wins
    /\ UNCHANGED <<saga, queue, barrier, checkpoint, indexed, history>>

\* The UPDATE of the progress columns.
Heartbeat(c, m) ==
    /\ At(c, m, "heartbeat")
    /\ Goto(c, m, IF work[c][m].last THEN "gather" ELSE "ack")
    /\ UNCHANGED <<saga, queue, barrier, checkpoint, results, history>>

\* The winner reads the checkpoints: an absent one is skipped, a torn one is no
\* JSON and raises.
Gather(c, m) ==
    /\ At(c, m, "gather")
    /\ IF \E p \in Parents : checkpoint[p] = "torn"
         THEN Finish(c, m)
         ELSE work' = [work EXCEPT
                ![c][m] = [Task("store") EXCEPT
                              !.parts = {p \in Parents : checkpoint[p] = "whole"}]]
    /\ UNCHANGED <<saga, queue, barrier, checkpoint, results, history>>

\* store_graph, the subgraph file, the aggregate and the read model.
Store(c, m) ==
    /\ At(c, m, "store")
    /\ indexed' = Append(indexed, work[c][m].parts)
    /\ work' = [work EXCEPT ![c][m] = Task("ack")]
    /\ UNCHANGED <<saga, queue, barrier, checkpoint, wins, history>>

\* XACK.
Ack(c, m) ==
    /\ At(c, m, "ack")
    /\ pending' = pending \ {m}
    /\ Finish(c, m)
    /\ UNCHANGED <<saga, stream, barrier, checkpoint, results, history>>

\* Any call of process_task raises: it is logged and the message not acknowledged.
TaskRaises(c, m) ==
    /\ m \in DOMAIN work[c] /\ Fault
    /\ Finish(c, m)
    /\ UNCHANGED <<saga, queue, barrier, checkpoint, results, redelivered, slow>>

\* A process is killed, with its worker and the dispatches it was running.
Crash(c) ==
    /\ Fault
    /\ Take(c, {})
    /\ \E lost \in SUBSET sending : sending' = sending \ lost
    /\ UNCHANGED <<dispatches, sent, failed, queue, barrier, checkpoint, results,
                   redelivered, slow>>
-----------------------------------------------------------------------------
Init ==
    /\ dispatches = 0 /\ sending = {} /\ sent = [d \in Dispatches |-> 0]
    /\ failed = FALSE
    /\ stream = <<>> /\ pending = {}
    /\ completed = 0 /\ total = 0
    /\ checkpoint = [p \in Parents |-> "absent"]
    /\ work = [c \in Consumers |-> Batch({})]
    /\ wins = 0 /\ indexed = <<>>
    /\ redelivered = FALSE /\ faults = 0 /\ slow = 0

Send(d) == PublishTask(d) \/ EndDispatch(d)

Process(c, m) ==
    \/ HasParent(c, m) \/ OpenCheckpoint(c, m) \/ WriteCheckpoint(c, m)
    \/ Increment(c, m) \/ CheckLast(c, m) \/ Heartbeat(c, m)
    \/ Gather(c, m) \/ Store(c, m) \/ Ack(c, m)

Next ==
    \/ InitBarrier
    \/ \E d \in Dispatches : Send(d) \/ DispatchRaises(d)
    \/ \E c \in Consumers :
          \/ Read(c) \/ Claim(c) \/ Crash(c)
          \/ \E m \in DOMAIN work[c] : Process(c, m) \/ TaskRaises(c, m)

Spec == Init /\ [][Next]_vars

\* The worker loop polls forever and its coroutines run: a message is read, a
\* message nobody works on is claimed in the end, and a started call returns.
Fairness ==
    /\ \A d \in Dispatches : WF_vars(Send(d))
    /\ \A c \in Consumers :
          /\ WF_vars(Read(c))
          /\ WF_vars(Claim(c) /\ UNCHANGED slow)
          /\ WF_vars(\E m \in DOMAIN work[c] : Process(c, m))
FairSpec == Spec /\ Fairness
-----------------------------------------------------------------------------
(* Properties. *)

Tasks == [at : Places, seen : Nat, last : BOOLEAN, parts : SUBSET Parents]

TypeOK ==
    /\ dispatches \in 0..MaxDispatches /\ sending \subseteq 1..dispatches
    /\ sent \in [Dispatches -> 0..Total] /\ failed \in BOOLEAN
    /\ stream \in Seq(Messages) /\ pending \subseteq Messages
    /\ completed \in Nat /\ total \in {0, Total}
    /\ checkpoint \in [Parents -> {"absent", "torn", "whole"}]
    /\ \A c \in Consumers :
          DOMAIN work[c] \subseteq Messages /\ work[c] \in [DOMAIN work[c] -> Tasks]
    /\ wins \in Nat /\ indexed \in Seq(SUBSET Parents)
    /\ redelivered \in BOOLEAN
    /\ faults \in 0..MaxFaults /\ slow \in 0..MaxSlow

\* At-least-once delivery: a published message is on the stream or pending until
\* its parent has a checkpoint file, whatever crashes, raises or is claimed.
Published == {m \in Messages : m.parent <= sent[m.run]}
OnStream == {stream[i] : i \in DOMAIN stream}
NothingLost ==
    \A m \in Published :
        m \in OnStream \cup pending \/ checkpoint[m.parent] # "absent"

\* The barrier has at most one winner each time it is initialised, although the
\* increment and the comparison are two calls, messages are counted again when
\* they are redelivered, and a reprocess resets the counter under way.
OneWinnerPerBarrier == wins <= dispatches

\* While no message is delivered twice and the barrier is initialised once, the
\* document is indexed from the graphs of all its parents.
Disturbed == redelivered \/ dispatches > 1
CompleteUnlessDisturbed ==
    Disturbed \/ \A i \in DOMAIN indexed : indexed[i] = Parents

\* Every published message is acknowledged in the end: failures and crashes delay
\* it, and the worker that claims it does not hand it on for ever.
AllAcknowledged ==
    \A m \in Messages :
        m \in OnStream \cup pending ~> m \notin OnStream \cup pending

\* A dispatch was killed or raised before it had published all messages.
CutShort == \E d \in 1..dispatches : d \notin sending /\ sent[d] < Total

\* A document whose messages have all been published is indexed or recorded as failed.
Concludes == (dispatches > 0) ~> (indexed # <<>> \/ failed \/ CutShort)

\* All of the above is an abstract scatter-gather, which is disturbed when a message
\* is delivered twice, the document dispatched anew or its dispatch cut short.
Abstract == INSTANCE ScatterGather WITH
    started <- dispatches > 0,
    finished <- {p \in Parents : checkpoint[p] = "whole"},
    merged <- indexed # <<>>,
    disturbed <- Disturbed \/ CutShort

\* The workers, the stream, the barrier and the files implement that: until one of
\* those three things happens the results are merged once, after the last part, and
\* always; an exception or a killed worker leads to one of them, or does no harm.
ImplementsScatterGather == Abstract!FairSpec
=============================================================================
