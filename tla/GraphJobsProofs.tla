-------------------------- MODULE GraphJobsProofs --------------------------
(***************************************************************************)
(* What TLAPS proves about GraphJobs, for any number of workers, parents,  *)
(* dispatches and faults: the variables have their types and no published  *)
(* message is lost before its parent has a checkpoint file; the barrier    *)
(* has one winner each time it is initialised; and while nothing is        *)
(* delivered or dispatched again, whoever is told to be the last finds the *)
(* graphs of all parents.                                                  *)
(***************************************************************************)
EXTENDS GraphJobs, FiniteSetTheorems, TLAPS

\* The strengthening: a task that is past the extraction has a file.
FileExists ==
    \A c \in Consumers : \A m \in DOMAIN work[c] :
        work[c][m].at \notin {"check", "extract"} => checkpoint[m.parent] # "absent"

\* The batches, as functions on sets of messages.
Batches == UNION {[batch -> Tasks] : batch \in SUBSET Messages}
WorkTyped == work \in [Consumers -> Batches]

IInv == TypeOK /\ WorkTyped /\ NothingLost /\ FileExists

-----------------------------------------------------------------------------
(* Batches are functions on sets of messages. *)

LEMMA BatchIntro ==
    ASSUME NEW S \in SUBSET Messages, NEW f \in [S -> Tasks]
    PROVE  f \in Batches
  BY DEF Batches

LEMMA BatchElim ==
    ASSUME NEW f \in Batches
    PROVE  DOMAIN f \in SUBSET Messages /\ f \in [DOMAIN f -> Tasks]
  <1>1. PICK S \in SUBSET Messages : f \in [S -> Tasks]
    BY DEF Batches
  <1>2. DOMAIN f = S
    BY <1>1
  <1> QED BY <1>1, <1>2

\* One task of a batch moves on.
LEMMA TaskMoves ==
    ASSUME WorkTyped, NEW c \in Consumers, NEW m \in DOMAIN work[c], NEW t \in Tasks,
           work' = [work EXCEPT ![c] = [work[c] EXCEPT ![m] = t]]
    PROVE  /\ work' \in [Consumers -> Batches]
           /\ \A d \in Consumers : DOMAIN work'[d] = DOMAIN work[d]
           /\ work'[c][m] = t
           /\ \A d \in Consumers : \A x \in DOMAIN work[d] :
                 (d # c \/ x # m) => work'[d][x] = work[d][x]
  <1>1. work \in [Consumers -> Batches]
    BY DEF WorkTyped
  <1>2. DOMAIN work[c] \in SUBSET Messages /\ work[c] \in [DOMAIN work[c] -> Tasks]
    BY <1>1, BatchElim
  <1> DEFINE f == [work[c] EXCEPT ![m] = t]
  <1>3. f \in [DOMAIN work[c] -> Tasks]
    BY <1>2
  <1>4. f \in Batches
    BY <1>2, <1>3, BatchIntro
  <1>5. f[m] = t /\ \A x \in DOMAIN work[c] : x # m => f[x] = work[c][x]
    BY <1>2
  <1> HIDE DEF f
  <1>6. work' = [work EXCEPT ![c] = f]
    BY DEF f
  <1> QED BY <1>1, <1>2, <1>3, <1>4, <1>5, <1>6

\* A worker's batch shrinks, is dropped or is replaced by a fresh one.
LEMMA BatchChanges ==
    ASSUME WorkTyped, NEW c \in Consumers, NEW f \in Batches,
           work' = [work EXCEPT ![c] = f]
    PROVE  /\ work' \in [Consumers -> Batches]
           /\ work'[c] = f
           /\ \A d \in Consumers : d # c => work'[d] = work[d]
  BY DEF WorkTyped

LEMMA FinishBatch ==
    ASSUME WorkTyped, NEW c \in Consumers, NEW m \in DOMAIN work[c], Finish(c, m)
    PROVE  /\ work' \in [Consumers -> Batches]
           /\ \A d \in Consumers : DOMAIN work'[d] \subseteq DOMAIN work[d]
           /\ \A d \in Consumers : \A x \in DOMAIN work'[d] : work'[d][x] = work[d][x]
  <1> DEFINE f == [x \in DOMAIN work[c] \ {m} |-> work[c][x]]
  <1>1. work[c] \in Batches
    BY DEF WorkTyped
  <1>2. DOMAIN work[c] \in SUBSET Messages /\ work[c] \in [DOMAIN work[c] -> Tasks]
    BY <1>1, BatchElim
  <1>3. f \in [DOMAIN work[c] \ {m} -> Tasks] /\ DOMAIN work[c] \ {m} \in SUBSET Messages
    BY <1>2
  <1>4. f \in Batches
    BY <1>3, BatchIntro
  <1>5. work' = [work EXCEPT ![c] = f]
    BY DEF Finish
  <1>6. DOMAIN f \subseteq DOMAIN work[c] /\ \A x \in DOMAIN f : f[x] = work[c][x]
    OBVIOUS
  <1> HIDE DEF f
  <1>7. /\ work' \in [Consumers -> Batches] /\ work'[c] = f
        /\ \A d \in Consumers : d # c => work'[d] = work[d]
    BY <1>4, <1>5, BatchChanges
  <1> QED BY <1>6, <1>7

LEMMA TaskTyped ==
    ASSUME NEW at \in Places
    PROVE  Task(at) \in Tasks /\ Task(at).at = at
  BY DEF Task, Tasks

LEMMA TakeBatch ==
    ASSUME WorkTyped, NEW c \in Consumers, NEW batch \in SUBSET Messages, Take(c, batch)
    PROVE  /\ work' \in [Consumers -> Batches]
           /\ \A m \in DOMAIN work'[c] : work'[c][m].at = "check"
           /\ \A d \in Consumers : d # c => work'[d] = work[d]
  <1> DEFINE f == [m \in batch |-> Task("check")]
  <1>1. Task("check") \in Tasks /\ Task("check").at = "check"
    BY TaskTyped DEF Places
  <1>2. f \in [batch -> Tasks]
    BY <1>1
  <1>3. f \in Batches
    BY <1>2, BatchIntro
  <1>4. work' = [work EXCEPT ![c] = f]
    BY DEF Take, Batch
  <1>5. \A m \in DOMAIN f : f[m].at = "check"
    BY <1>1
  <1> HIDE DEF f
  <1> QED BY <1>3, <1>4, <1>5, BatchChanges

-----------------------------------------------------------------------------
(* What every step keeps. *)

\* The types of the variables other than work.
Rest ==
    /\ dispatches \in 0..MaxDispatches /\ sending \subseteq 1..dispatches
    /\ sent \in [Dispatches -> 0..Total] /\ failed \in BOOLEAN
    /\ stream \in Seq(Messages) /\ pending \subseteq Messages
    /\ completed \in Nat /\ total \in {0, Total}
    /\ checkpoint \in [Parents -> {"absent", "torn", "whole"}]
    /\ wins \in Nat /\ indexed \in Seq(SUBSET Parents)
    /\ redelivered \in BOOLEAN
    /\ faults \in 0..MaxFaults /\ slow \in 0..MaxSlow

LEMMA TypeSplit == WorkTyped => (TypeOK <=> Rest)
  <1> SUFFICES ASSUME WorkTyped PROVE TypeOK <=> Rest
    OBVIOUS
  <1>1. \A c \in Consumers :
           DOMAIN work[c] \subseteq Messages /\ work[c] \in [DOMAIN work[c] -> Tasks]
    BY BatchElim DEF WorkTyped
  <1> QED BY <1>1 DEF TypeOK, Rest

\* No message disappears from the queue, and no file from the disk.
Keeps ==
    /\ \A m \in Messages : m \in OnStream \cup pending => m \in (OnStream \cup pending)'
    /\ \A p \in Parents : checkpoint[p] # "absent" => checkpoint'[p] # "absent"

LEMMA KeepsNothingLost ==
    ASSUME IInv, Keeps, sent' = sent
    PROVE  NothingLost'
  <1>1. Published' = Published /\ Published \subseteq Messages
    BY DEF Published
  <1>2. \A m \in Published : m.parent \in Parents
    BY DEF Published, Messages
  <1> QED BY <1>1, <1>2 DEF IInv, NothingLost, Keeps

\* The queue is untouched and no task enters a new place.
Quiet ==
    /\ \A d \in Consumers : DOMAIN work'[d] \subseteq DOMAIN work[d]
    /\ \A d \in Consumers : \A x \in DOMAIN work'[d] : work'[d][x] = work[d][x]

LEMMA QuietFiles ==
    ASSUME FileExists, Quiet, checkpoint' = checkpoint
    PROVE  FileExists'
  BY DEF FileExists, Quiet

LEMMA QuietStep ==
    ASSUME IInv, WorkTyped', Quiet, Rest', sent' = sent, checkpoint' = checkpoint,
           stream' = stream, pending' = pending
    PROVE  IInv'
  <1>1. Keeps
    BY DEF Keeps, OnStream
  <1>2. NothingLost' /\ FileExists' /\ TypeOK'
    BY <1>1, KeepsNothingLost, QuietFiles, TypeSplit, PTL DEF IInv
  <1> QED BY <1>2 DEF IInv

\* A task moves to t, and if it leaves the extraction its file is there.
LEMMA MoveStep ==
    ASSUME IInv, NEW c \in Consumers, NEW m \in DOMAIN work[c], NEW t \in Tasks,
           work' = [work EXCEPT ![c] = [work[c] EXCEPT ![m] = t]],
           t.at \notin {"check", "extract"} => checkpoint'[m.parent] # "absent",
           Rest', Keeps, sent' = sent
    PROVE  IInv'
  <1>1. /\ work' \in [Consumers -> Batches]
        /\ \A d \in Consumers : DOMAIN work'[d] = DOMAIN work[d]
        /\ work'[c][m] = t
        /\ \A d \in Consumers : \A x \in DOMAIN work[d] :
              (d # c \/ x # m) => work'[d][x] = work[d][x]
    BY TaskMoves DEF IInv
  <1>2. \A d \in Consumers : \A x \in DOMAIN work[d] : x.parent \in Parents
    BY DEF IInv, TypeOK, Messages
  <1>3. FileExists'
    BY <1>1, <1>2 DEF IInv, FileExists, Keeps
  <1>4. WorkTyped'
    BY <1>1 DEF WorkTyped
  <1>5. NothingLost'
    BY KeepsNothingLost
  <1>6. TypeOK'
    BY <1>4, TypeSplit, PTL
  <1> QED BY <1>3, <1>4, <1>5, <1>6 DEF IInv

\* The task that moves, its message and its present state.
LEMMA TaskAt ==
    ASSUME IInv, NEW c \in Consumers, NEW m \in DOMAIN work[c]
    PROVE  /\ m \in Messages /\ m.parent \in Parents /\ work[c][m] \in Tasks
           /\ Rest
           /\ work[c][m].at \notin {"check", "extract"} =>
                 checkpoint[m.parent] # "absent"
  <1>1. m \in Messages /\ work[c][m] \in Tasks
    BY DEF IInv, TypeOK
  <1>2. Rest
    BY TypeSplit DEF IInv
  <1> QED BY <1>1, <1>2 DEF IInv, FileExists, Messages

LEMMA GotoMoves ==
    ASSUME IInv, NEW c \in Consumers, NEW m \in DOMAIN work[c],
           NEW place \in Places, Goto(c, m, place)
    PROVE  \E t \in Tasks :
              t.at = place /\ work' = [work EXCEPT ![c] = [work[c] EXCEPT ![m] = t]]
  <1> DEFINE t == [work[c][m] EXCEPT !.at = place]
  <1>1. work[c][m] \in Tasks
    BY TaskAt
  <1>2. t \in Tasks /\ t.at = place
    BY <1>1 DEF Tasks
  <1>3. work' = [work EXCEPT ![c] = [work[c] EXCEPT ![m] = t]]
    BY DEF Goto
  <1> QED BY <1>2, <1>3

\* A step that leaves the store, the queue and the files alone.
LEMMA KeepsAll ==
    ASSUME stream' = stream, pending' = pending, checkpoint' = checkpoint
    PROVE  Keeps
  BY DEF Keeps, OnStream

-----------------------------------------------------------------------------
(* The steps of the saga. *)

LEMMA SagaStep ==
    ASSUME IInv,
           \/ InitBarrier
           \/ \E d \in Dispatches : EndDispatch(d) \/ DispatchRaises(d)
    PROVE  IInv'
  <1> USE DEF saga, queue, barrier, results, history
  <1>1. Rest
    BY TypeSplit DEF IInv
  <1>2. /\ work' = work /\ checkpoint' = checkpoint /\ sent' = sent
        /\ stream' = stream /\ pending' = pending
    BY DEF InitBarrier, EndDispatch, DispatchRaises
  <1>3. WorkTyped' /\ Quiet
    BY <1>2 DEF IInv, WorkTyped, Quiet
  <1>4. Rest'
    <2>1. CASE InitBarrier
      BY <1>1, <2>1, TotalAssumption, BoundsAssumption DEF Rest, InitBarrier, Announced
    <2>2. ASSUME NEW d \in Dispatches, EndDispatch(d) PROVE Rest'
      BY <1>1, <2>2 DEF Rest, EndDispatch
    <2>3. ASSUME NEW d \in Dispatches, DispatchRaises(d) PROVE Rest'
      <3>1. faults' \in 0..MaxFaults
        BY <1>1, <2>3, BoundsAssumption DEF Rest, DispatchRaises, Fault
      <3> QED BY <1>1, <2>3, <3>1 DEF Rest, DispatchRaises
    <2> QED BY <2>1, <2>2, <2>3
  <1> QED BY <1>2, <1>3, <1>4, QuietStep

LEMMA PublishStep ==
    ASSUME IInv, NEW d \in Dispatches, PublishTask(d)
    PROVE  IInv'
  <1> USE DEF saga, queue, barrier, results, history, PublishTask
  <1> DEFINE new == [run |-> d, parent |-> sent[d] + 1]
  <1>1. Rest
    BY TypeSplit DEF IInv
  <1>2. /\ new \in Messages
        /\ sent' = [sent EXCEPT ![d] = sent[d] + 1] /\ sent[d] \in 0..Total
        /\ sent[d] < Total /\ stream' = Append(stream, new)
    BY <1>1, TotalAssumption DEF Rest, Messages, Parents
  <1> HIDE DEF new
  <1>3. Rest'
    <2>1. sent' \in [Dispatches -> 0..Total]
      BY <1>1, <1>2, TotalAssumption DEF Rest
    <2>2. stream' \in Seq(Messages)
      BY <1>1, <1>2 DEF Rest
    <2> QED BY <1>1, <2>1, <2>2 DEF Rest
  <1>4. WorkTyped' /\ FileExists'
    BY DEF IInv, WorkTyped, FileExists
  <1>5. OnStream' = OnStream \cup {new}
    <2>1. stream \in Seq(Messages)
      BY <1>1 DEF Rest
    <2>2. /\ DOMAIN stream' = DOMAIN stream \cup {Len(stream) + 1}
          /\ \A i \in DOMAIN stream : stream'[i] = stream[i]
          /\ stream'[Len(stream) + 1] = new
      BY <1>2, <2>1
    <2> QED BY <2>2 DEF OnStream
  <1>6. NothingLost'
    <2> SUFFICES ASSUME NEW m \in Messages, m.parent <= sent'[m.run]
                 PROVE  m \in OnStream' \cup pending \/ checkpoint[m.parent] # "absent"
      BY DEF NothingLost, Published
    <2>1. CASE m.parent <= sent[m.run]
      BY <1>5, <2>1 DEF IInv, NothingLost, Published
    <2>2. CASE ~ (m.parent <= sent[m.run])
      <3>1. m.run = d /\ m.parent = sent[d] + 1
        BY <1>1, <1>2, <2>2, TotalAssumption DEF Rest, Messages, Parents
      <3>2. m = new
        BY <3>1 DEF new, Messages
      <3> QED BY <1>5, <3>2
    <2> QED BY <2>1, <2>2
  <1>7. TypeOK'
    BY <1>3, <1>4, TypeSplit, PTL
  <1> QED BY <1>4, <1>6, <1>7 DEF IInv

-----------------------------------------------------------------------------
(* The steps of a worker that change its batch. *)

LEMMA ReadStep ==
    ASSUME IInv, NEW c \in Consumers, Read(c)
    PROVE  IInv'
  <1> USE DEF saga, queue, barrier, results, history
  <1> DEFINE n == IF Len(stream) < BatchSize THEN Len(stream) ELSE BatchSize
             batch == {stream[i] : i \in 1..n}
  <1>1. Rest /\ stream \in Seq(Messages) /\ n \in 1..Len(stream)
    BY TypeSplit, BatchAssumption DEF IInv, Rest, Read
  <1>2. /\ stream' = SubSeq(stream, n + 1, Len(stream))
        /\ pending' = pending \cup batch /\ Take(c, batch)
        /\ UNCHANGED <<saga, barrier, checkpoint, results, history>>
    BY DEF Read, Pend
  <1> HIDE DEF n
  <1>3. batch \in SUBSET Messages
    BY <1>1
  <1>4. /\ stream' \in Seq(Messages)
        /\ OnStream \subseteq OnStream' \cup batch
    <2>1. /\ stream' \in Seq(Messages) /\ Len(stream') = Len(stream) - n
          /\ \A i \in (n + 1)..Len(stream) :
                i - n \in DOMAIN stream' /\ stream'[i - n] = stream[i]
      BY <1>1, <1>2
    <2>2. ASSUME NEW i \in DOMAIN stream PROVE stream[i] \in OnStream' \cup batch
      <3>1. CASE i <= n
        BY <1>1, <3>1
      <3>2. CASE i > n
        BY <1>1, <2>1, <3>2 DEF OnStream
      <3> QED BY <1>1, <3>1, <3>2
    <2> QED BY <2>1, <2>2 DEF OnStream
  <1>5. Rest'
    BY <1>1, <1>2, <1>3, <1>4 DEF Rest
  <1>6. Keeps /\ sent' = sent
    BY <1>2, <1>4 DEF Keeps
  <1>7. /\ work' \in [Consumers -> Batches]
        /\ \A m \in DOMAIN work'[c] : work'[c][m].at = "check"
        /\ \A d \in Consumers : d # c => work'[d] = work[d]
    BY <1>2, <1>3, TakeBatch DEF IInv
  <1>8. FileExists'
    BY <1>2, <1>7 DEF IInv, FileExists
  <1>9. WorkTyped'
    BY <1>7 DEF WorkTyped
  <1>10. TypeOK'
    BY <1>5, <1>9, TypeSplit, PTL
  <1>11. NothingLost'
    BY <1>6, KeepsNothingLost
  <1> QED BY <1>8, <1>9, <1>10, <1>11 DEF IInv

LEMMA ClaimStep ==
    ASSUME IInv, NEW c \in Consumers, Claim(c)
    PROVE  IInv'
  <1> USE DEF saga, queue, barrier, results
  <1>1. PICK batch \in (SUBSET Stale) \ {{}} :
           Take(c, batch) /\ slow' \in slow..MaxSlow
    BY DEF Claim
  <1>2. UNCHANGED <<saga, queue, barrier, checkpoint, results, faults>>
        /\ redelivered' = TRUE
    BY DEF Claim
  <1>3. Rest
    BY TypeSplit DEF IInv
  <1>4. batch \in SUBSET Messages
    BY <1>3 DEF Rest, Stale
  <1>5. Rest'
    BY <1>1, <1>2, <1>3, BoundsAssumption DEF Rest
  <1>6. Keeps /\ sent' = sent
    BY <1>2, KeepsAll
  <1>7. /\ work' \in [Consumers -> Batches]
        /\ \A m \in DOMAIN work'[c] : work'[c][m].at = "check"
        /\ \A d \in Consumers : d # c => work'[d] = work[d]
    BY <1>1, <1>4, TakeBatch DEF IInv
  <1>8. FileExists'
    BY <1>2, <1>7 DEF IInv, FileExists
  <1>9. WorkTyped'
    BY <1>7 DEF WorkTyped
  <1>10. TypeOK'
    BY <1>5, <1>9, TypeSplit, PTL
  <1>11. NothingLost'
    BY <1>6, KeepsNothingLost
  <1> QED BY <1>8, <1>9, <1>10, <1>11 DEF IInv

\* The process is killed: its batch is forgotten, its messages stay pending.
LEMMA CrashStep ==
    ASSUME IInv, NEW c \in Consumers, Crash(c)
    PROVE  IInv'
  <1> USE DEF queue, barrier, results
  <1>1. Rest
    BY TypeSplit DEF IInv
  <1>2. /\ UNCHANGED <<dispatches, sent, failed, queue, barrier, checkpoint, results,
                      redelivered, slow>>
        /\ sending' \subseteq sending /\ faults < MaxFaults /\ faults' = faults + 1
        /\ Take(c, {})
    BY DEF Crash, Fault
  <1>3. Rest'
    BY <1>1, <1>2, BoundsAssumption DEF Rest
  <1>4. /\ work' \in [Consumers -> Batches]
        /\ \A d \in Consumers : d # c => work'[d] = work[d]
    <2>1. {} \in SUBSET Messages /\ WorkTyped
      BY DEF IInv
    <2> QED BY <1>2, <2>1, TakeBatch
  <1>5. DOMAIN work'[c] = {}
    <2>1. work' = [work EXCEPT ![c] = Batch({})]
      BY <1>2 DEF Take
    <2>2. work'[c] = Batch({})
      BY <2>1 DEF IInv, WorkTyped
    <2>3. DOMAIN Batch({}) = {}
      BY DEF Batch
    <2> QED BY <2>2, <2>3
  <1>6. WorkTyped'
    BY <1>4 DEF WorkTyped
  <1>7. Quiet
    BY <1>4, <1>5 DEF Quiet
  <1> QED BY <1>2, <1>3, <1>6, <1>7, QuietStep

\* A task ends without acknowledging: an exception, or a torn checkpoint.
LEMMA GiveUpStep ==
    ASSUME IInv, NEW c \in Consumers, NEW m \in DOMAIN work[c], Finish(c, m), Rest',
           sent' = sent, checkpoint' = checkpoint, stream' = stream, pending' = pending
    PROVE  IInv'
  <1>1. /\ work' \in [Consumers -> Batches]
        /\ \A d \in Consumers : DOMAIN work'[d] \subseteq DOMAIN work[d]
        /\ \A d \in Consumers : \A x \in DOMAIN work'[d] : work'[d][x] = work[d][x]
    BY FinishBatch DEF IInv
  <1>2. WorkTyped' /\ Quiet
    BY <1>1 DEF WorkTyped, Quiet
  <1> QED BY <1>2, QuietStep

LEMMA RaiseStep ==
    ASSUME IInv, NEW c \in Consumers, NEW m \in DOMAIN work[c], TaskRaises(c, m)
    PROVE  IInv'
  <1> USE DEF saga, queue, barrier, results, TaskRaises
  <1>1. Rest
    BY TypeSplit DEF IInv
  <1>2. Rest'
    BY <1>1, BoundsAssumption DEF Rest, Fault
  <1> QED BY <1>2, GiveUpStep

\* Only a message whose parent has a file is acknowledged.
LEMMA AckStep ==
    ASSUME IInv, NEW c \in Consumers, NEW m \in DOMAIN work[c], Ack(c, m)
    PROVE  IInv'
  <1> USE DEF saga, queue, barrier, results, history
  <1>1. /\ UNCHANGED <<saga, stream, barrier, checkpoint, results, history>>
        /\ pending' = pending \ {m} /\ Finish(c, m) /\ work[c][m].at = "ack"
    BY DEF Ack, At
  <1>2. m.parent \in Parents /\ Rest /\ checkpoint[m.parent] # "absent"
    BY <1>1, TaskAt
  <1>3. /\ work' \in [Consumers -> Batches]
        /\ \A d \in Consumers : DOMAIN work'[d] \subseteq DOMAIN work[d]
        /\ \A d \in Consumers : \A x \in DOMAIN work'[d] : work'[d][x] = work[d][x]
    BY <1>1, FinishBatch DEF IInv
  <1>4. WorkTyped' /\ Quiet
    BY <1>3 DEF WorkTyped, Quiet
  <1>5. Rest'
    BY <1>1, <1>2 DEF Rest
  <1>6. FileExists'
    BY <1>1, <1>4, QuietFiles DEF IInv
  <1>7. TypeOK'
    BY <1>4, <1>5, TypeSplit, PTL
  <1>8. NothingLost'
    BY <1>1, <1>2 DEF IInv, NothingLost, Published, OnStream
  <1> QED BY <1>4, <1>6, <1>7, <1>8 DEF IInv

-----------------------------------------------------------------------------
(* The steps of a task. *)

LEMMA HasParentStep ==
    ASSUME IInv, NEW c \in Consumers, NEW m \in DOMAIN work[c], HasParent(c, m)
    PROVE  IInv'
  <1> USE DEF saga, queue, barrier, results, history
  <1> DEFINE place == IF checkpoint[m.parent] = "absent" THEN "extract" ELSE "increment"
  <1>1. /\ UNCHANGED <<saga, queue, barrier, checkpoint, results, history>>
        /\ Goto(c, m, place)
    BY DEF HasParent
  <1>2. place \in Places
    BY DEF Places
  <1>3. PICK t \in Tasks :
           t.at = place /\ work' = [work EXCEPT ![c] = [work[c] EXCEPT ![m] = t]]
    BY <1>1, <1>2, GotoMoves
  <1>4. Keeps /\ sent' = sent
    BY <1>1, KeepsAll
  <1>5. Rest'
    BY <1>1, TaskAt DEF Rest
  <1>6. t.at \notin {"check", "extract"} => checkpoint'[m.parent] # "absent"
    BY <1>1, <1>3
  <1> QED BY <1>3, <1>4, <1>5, <1>6, MoveStep

LEMMA FileStep ==
    ASSUME IInv, NEW c \in Consumers, NEW m \in DOMAIN work[c],
           OpenCheckpoint(c, m) \/ WriteCheckpoint(c, m)
    PROVE  IInv'
  <1> USE DEF saga, queue, barrier, results, history
  <1>1. UNCHANGED <<saga, queue, barrier, results, history>>
    BY DEF OpenCheckpoint, WriteCheckpoint
  <1>2. \E s \in {"torn", "whole"} : checkpoint' = [checkpoint EXCEPT ![m.parent] = s]
    BY DEF OpenCheckpoint, WriteCheckpoint
  <1>3. \E place \in {"write", "increment"} : Goto(c, m, place)
    BY DEF OpenCheckpoint, WriteCheckpoint
  <1>4. PICK t \in Tasks : work' = [work EXCEPT ![c] = [work[c] EXCEPT ![m] = t]]
    BY <1>3, GotoMoves DEF Places
  <1>5. Rest /\ m.parent \in Parents
    BY TaskAt
  <1>6. Rest' /\ checkpoint'[m.parent] # "absent"
    BY <1>1, <1>2, <1>5 DEF Rest
  <1>7. Keeps /\ sent' = sent
    BY <1>1, <1>2, <1>5 DEF Keeps, OnStream, Rest
  <1> QED BY <1>4, <1>6, <1>7, MoveStep

\* The steps on the barrier and after it, of a task whose file exists.
LEMMA BarrierStep ==
    ASSUME IInv, NEW c \in Consumers, NEW m \in DOMAIN work[c],
           Increment(c, m) \/ CheckLast(c, m) \/ Heartbeat(c, m) \/ Store(c, m)
    PROVE  IInv'
  <1> USE DEF saga, queue, barrier, results, history
  <1>1. /\ checkpoint' = checkpoint /\ sent' = sent
        /\ stream' = stream /\ pending' = pending
        /\ work[c][m].at \notin {"check", "extract"}
    BY DEF Increment, CheckLast, Heartbeat, Store, At
  <1>2. /\ Rest /\ work[c][m] \in Tasks /\ m.parent \in Parents
        /\ checkpoint[m.parent] # "absent"
    BY <1>1, TaskAt
  <1>3. Rest'
    <2>1. CASE Increment(c, m)
      BY <1>2, <2>1 DEF Rest, Increment
    <2>2. CASE CheckLast(c, m)
      BY <1>2, <2>2 DEF Rest, CheckLast
    <2>3. CASE Heartbeat(c, m)
      BY <1>2, <2>3 DEF Rest, Heartbeat
    <2>4. CASE Store(c, m)
      BY <1>2, <2>4 DEF Rest, Store, Tasks
    <2> QED BY <2>1, <2>2, <2>3, <2>4
  <1>4. \E t \in Tasks : work' = [work EXCEPT ![c] = [work[c] EXCEPT ![m] = t]]
    <2>1. CASE Increment(c, m)
      <3> DEFINE t == [work[c][m] EXCEPT !.at = "total", !.seen = completed + 1]
      <3>1. t \in Tasks
        <4>1. completed + 1 \in Nat /\ "total" \in Places
          BY <1>2 DEF Rest, Places
        <4> QED BY <1>2, <4>1 DEF Tasks
      <3>2. work' = [work EXCEPT ![c] = [work[c] EXCEPT ![m] = t]]
        BY <2>1 DEF Increment
      <3> QED BY <3>1, <3>2
    <2>2. CASE CheckLast(c, m)
      <3> DEFINE t == [Task("heartbeat") EXCEPT !.last = IsLast(work[c][m].seen)]
      <3>1. t \in Tasks
        BY DEF Tasks, Task, Places, IsLast
      <3>2. work' = [work EXCEPT ![c] = [work[c] EXCEPT ![m] = t]]
        BY <2>2 DEF CheckLast
      <3> QED BY <3>1, <3>2
    <2>3. CASE Heartbeat(c, m)
      BY <2>3, GotoMoves DEF Heartbeat, Places
    <2>4. CASE Store(c, m)
      <3>1. Task("ack") \in Tasks
        BY TaskTyped DEF Places
      <3> QED BY <2>4, <3>1 DEF Store
    <2> QED BY <2>1, <2>2, <2>3, <2>4
  <1>5. Keeps
    BY <1>1, KeepsAll
  <1> QED BY <1>1, <1>2, <1>3, <1>4, <1>5, MoveStep

LEMMA GatherStep ==
    ASSUME IInv, NEW c \in Consumers, NEW m \in DOMAIN work[c], Gather(c, m)
    PROVE  IInv'
  <1> USE DEF saga, queue, barrier, results, history
  <1>1. /\ UNCHANGED <<saga, queue, barrier, checkpoint, results, history>>
        /\ work[c][m].at \notin {"check", "extract"}
    BY DEF Gather, At
  <1>2. Rest /\ checkpoint[m.parent] # "absent"
    BY <1>1, TaskAt
  <1>3. Rest'
    BY <1>1, <1>2 DEF Rest
  <1>4. CASE Finish(c, m)
    BY <1>1, <1>3, <1>4, GiveUpStep
  <1>5. CASE ~ Finish(c, m)
    <2> DEFINE t == [Task("store") EXCEPT
                        !.parts = {p \in Parents : checkpoint[p] = "whole"}]
    <2>1. t \in Tasks
      BY DEF Tasks, Task, Places
    <2>2. work' = [work EXCEPT ![c] = [work[c] EXCEPT ![m] = t]]
      BY <1>5 DEF Gather
    <2>3. Keeps
      BY <1>1, KeepsAll
    <2> QED BY <1>1, <1>2, <1>3, <2>1, <2>2, <2>3, MoveStep
  <1> QED BY <1>4, <1>5

-----------------------------------------------------------------------------
(* The theorems. *)

LEMMA InitIInv == Init => IInv
  <1> SUFFICES ASSUME Init PROVE IInv
    OBVIOUS
  <1> USE DEF Init
  <1>0. Batch({}) \in [{} -> Tasks] /\ DOMAIN Batch({}) = {}
    BY DEF Batch
  <1>1. Batch({}) \in Batches
    BY <1>0, BatchIntro
  <1>2. WorkTyped /\ FileExists
    BY <1>0, <1>1 DEF WorkTyped, FileExists
  <1>3. Rest
    <2>1. <<>> \in Seq(Messages) /\ <<>> \in Seq(SUBSET Parents)
      OBVIOUS
    <2>2. /\ sent \in [Dispatches -> 0..Total]
          /\ checkpoint \in [Parents -> {"absent", "torn", "whole"}]
          /\ 0 \in 0..MaxDispatches /\ 0 \in 0..MaxFaults /\ 0 \in 0..MaxSlow
      BY TotalAssumption, BoundsAssumption
    <2> QED BY <2>1, <2>2 DEF Rest
  <1>4. TypeOK
    BY <1>2, <1>3, TypeSplit
  <1>5. NothingLost
    BY TotalAssumption DEF NothingLost, Published, Messages, Parents
  <1> QED BY <1>2, <1>4, <1>5 DEF IInv

LEMMA NextIInv == IInv /\ [Next]_vars => IInv'
  <1> SUFFICES ASSUME IInv, [Next]_vars PROVE IInv'
    OBVIOUS
  <1>1. CASE UNCHANGED vars
    <2> USE <1>1 DEF vars, saga, queue, barrier, results, history
    <2>1. Rest' /\ WorkTyped' /\ Quiet
      BY TypeSplit DEF IInv, Rest, WorkTyped, Quiet
    <2> QED BY <2>1, QuietStep
  <1>2. ASSUME NEW c \in Consumers, NEW m \in DOMAIN work[c], Process(c, m)
        PROVE  IInv'
    BY <1>2, HasParentStep, FileStep, BarrierStep, GatherStep, AckStep DEF Process
  <1>3. ASSUME NEW d \in Dispatches, Send(d) PROVE IInv'
    BY <1>3, PublishStep, SagaStep DEF Send
  <1> QED BY <1>1, <1>2, <1>3, SagaStep, ReadStep, ClaimStep, CrashStep, RaiseStep
          DEF Next

\* The strengthening holds in every reachable state.
THEOREM Inductive == Spec => []IInv
  BY InitIInv, NextIInv, PTL DEF Spec

\* The variables have their types.
THEOREM TypeCorrect == Spec => []TypeOK
  <1>1. IInv => TypeOK
    BY DEF IInv
  <1> QED BY <1>1, Inductive, PTL

\* At-least-once delivery (RedisStreamJobQueue and process_task): until its
\* parent has a checkpoint file, a published message is on the stream or pending,
\* for any number of workers, crashes, exceptions and claims.
THEOREM AtLeastOnce == Spec => []NothingLost
  <1>1. IInv => NothingLost
    BY DEF IInv
  <1> QED BY <1>1, Inductive, PTL

-----------------------------------------------------------------------------
(* The barrier: one winner each time it is initialised. *)

\* The tasks that will be told they are the last: they drew the last number.
Drawn(c, m) == work[c][m].at = "total" /\ work[c][m].seen = Total
Due == {p \in Consumers \X Messages : p[2] \in DOMAIN work[p[1]] /\ Drawn(p[1], p[2])}

\* The last number of this barrier has not been drawn yet.
Chance == IF dispatches > 0 /\ completed < Total THEN 1 ELSE 0

\* Nothing is published before the first dispatch.
Quiescent ==
    /\ dispatches = 0 => /\ stream = <<>> /\ pending = {}
                         /\ \A c \in Consumers : DOMAIN work[c] = {}
    /\ dispatches > 0 => total = Total

WinInv ==
    /\ Quiescent
    /\ IsFiniteSet(Due)
    /\ wins + Cardinality(Due) + Chance <= dispatches

-----------------------------------------------------------------------------
(* What a task's move does to the others. *)

Moves(c, m, t) == work' = [work EXCEPT ![c] = [work[c] EXCEPT ![m] = t]]

\* A step after which no task draws the last number that had not.
NoneDrawn ==
    \A d \in Consumers : \A x \in DOMAIN work'[d] :
        Drawn(d, x)' => x \in DOMAIN work[d] /\ Drawn(d, x)

LEMMA DueShrinks ==
    ASSUME NoneDrawn
    PROVE  Due' \subseteq Due
  <1> SUFFICES ASSUME NEW c \in Consumers, NEW m \in Messages,
                      m \in DOMAIN work'[c], Drawn(c, m)'
               PROVE  m \in DOMAIN work[c] /\ Drawn(c, m)
    BY DEF Due
  <1> QED BY DEF NoneDrawn

LEMMA MoveDraws ==
    ASSUME IInv, NEW c \in Consumers, NEW m \in DOMAIN work[c], NEW t \in Tasks,
           Moves(c, m, t), t.at # "total"
    PROVE  NoneDrawn /\ \A d \in Consumers : DOMAIN work'[d] = DOMAIN work[d]
  <1>1. /\ \A d \in Consumers : DOMAIN work'[d] = DOMAIN work[d]
        /\ work'[c][m] = t
        /\ \A d \in Consumers : \A x \in DOMAIN work[d] :
              (d # c \/ x # m) => work'[d][x] = work[d][x]
    BY TaskMoves DEF IInv, Moves
  <1>2. ~Drawn(c, m)'
    BY <1>1 DEF Drawn
  <1>3. \A d \in Consumers : \A x \in DOMAIN work[d] :
           (d # c \/ x # m) => (Drawn(d, x)' <=> Drawn(d, x))
    BY <1>1 DEF Drawn
  <1> QED BY <1>1, <1>2, <1>3 DEF NoneDrawn

\* A batch that shrinks, or starts from the beginning.
LEMMA FreshDraws ==
    ASSUME \A d \in Consumers : \A x \in DOMAIN work'[d] :
              \/ x \in DOMAIN work[d] /\ work'[d][x] = work[d][x]
              \/ work'[d][x].at = "check"
    PROVE  NoneDrawn
  BY DEF NoneDrawn, Drawn

-----------------------------------------------------------------------------
(* The steps that leave the barrier alone. *)

LEMMA WinKept ==
    ASSUME IInv, WinInv, NoneDrawn, UNCHANGED <<dispatches, wins, completed, total>>,
           Quiescent'
    PROVE  WinInv'
  <1>1. Due' \subseteq Due
    BY DueShrinks
  <1>2. IsFiniteSet(Due') /\ Cardinality(Due') <= Cardinality(Due)
    BY <1>1, FS_Subset DEF WinInv
  <1>3. Cardinality(Due) \in Nat /\ Cardinality(Due') \in Nat
    BY <1>2, FS_CardinalityType DEF WinInv
  <1>4. wins \in Nat /\ dispatches \in Nat /\ completed \in Nat /\ Chance \in Nat
    BY BoundsAssumption DEF IInv, TypeOK, Chance
  <1>5. Chance' = Chance
    BY DEF Chance
  <1>6. wins' + Cardinality(Due') + Chance' <= dispatches'
    BY <1>2, <1>3, <1>4, <1>5 DEF WinInv
  <1> QED BY <1>2, <1>6 DEF WinInv

\* With a task there has been a dispatch.
LEMMA Dispatched ==
    ASSUME IInv, WinInv, NEW c \in Consumers, NEW m \in DOMAIN work[c]
    PROVE  dispatches > 0 /\ total = Total
  BY BoundsAssumption DEF WinInv, Quiescent, IInv, TypeOK

LEMMA WinInit ==
    ASSUME IInv, WinInv, InitBarrier
    PROVE  WinInv'
  <1>1. /\ dispatches' = dispatches + 1 /\ completed' = 0 /\ total' = Total
        /\ work' = work /\ wins' = wins
    BY DEF InitBarrier, Announced, results
  <1>2. Due' = Due
    BY <1>1 DEF Due, Drawn
  <1>3. /\ wins \in Nat /\ dispatches \in Nat /\ Chance \in {0, 1} /\ Chance' \in {0, 1}
        /\ Cardinality(Due) \in Nat
    BY BoundsAssumption, FS_CardinalityType DEF WinInv, IInv, TypeOK, Chance
  <1>4. Quiescent'
    BY <1>1, <1>3 DEF Quiescent
  <1>5. wins' + Cardinality(Due') + Chance' <= dispatches'
    BY <1>1, <1>2, <1>3 DEF WinInv
  <1> QED BY <1>2, <1>4, <1>5 DEF WinInv

\* The other steps of the saga and of the queue.
LEMMA WinQueue ==
    ASSUME IInv, WinInv,
           \/ \E d \in Dispatches : Send(d) \/ DispatchRaises(d)
           \/ \E c \in Consumers : Read(c) \/ Claim(c) \/ Crash(c)
           \/ UNCHANGED vars
    PROVE  WinInv'
  <1>1. UNCHANGED <<dispatches, wins, completed, total>>
    BY DEF Send, PublishTask, EndDispatch, DispatchRaises, Read, Claim, Crash, saga, barrier,
           results, vars
  <1>2. ASSUME NEW c \in Consumers, NEW batch \in SUBSET Messages, Take(c, batch)
        PROVE  \A d \in Consumers : \A x \in DOMAIN work'[d] :
                  \/ x \in DOMAIN work[d] /\ work'[d][x] = work[d][x]
                  \/ work'[d][x].at = "check"
    <2>1. /\ \A m \in DOMAIN work'[c] : work'[c][m].at = "check"
          /\ \A d \in Consumers : d # c => work'[d] = work[d]
      BY <1>2, TakeBatch DEF IInv
    <2> QED BY <2>1
  <1>3. dispatches = 0 => stream = <<>> /\ pending = {} /\ sending = {}
    BY DEF WinInv, Quiescent, IInv, TypeOK
  <1>4. CASE \E d \in Dispatches : Send(d) \/ DispatchRaises(d)
    <2>1. work' = work /\ pending' = pending
      BY <1>4 DEF Send, PublishTask, EndDispatch, DispatchRaises, queue
    <2>2. dispatches = 0 => FALSE
      BY <1>3, <1>4 DEF Send, PublishTask, EndDispatch, DispatchRaises
    <2>3. NoneDrawn /\ Quiescent'
      BY <1>1, <2>1, <2>2 DEF NoneDrawn, Drawn, WinInv, Quiescent
    <2> QED BY <1>1, <2>3, WinKept
  <1>5. ASSUME NEW c \in Consumers, Read(c) PROVE WinInv'
    <2>1. PICK batch : Take(c, batch) /\ batch = {stream[i] :
                  i \in 1..(IF Len(stream) < BatchSize THEN Len(stream) ELSE BatchSize)}
      BY <1>5 DEF Read
    <2>2. batch \subseteq Messages /\ stream # <<>>
      BY <1>5, <2>1, BatchAssumption DEF IInv, TypeOK, Read
    <2>3. NoneDrawn
      BY <1>2, <2>1, <2>2, FreshDraws
    <2>4. Quiescent'
      BY <1>1, <1>3, <2>2 DEF WinInv, Quiescent
    <2> QED BY <1>1, <2>3, <2>4, WinKept
  <1>6. ASSUME NEW c \in Consumers, Claim(c) PROVE WinInv'
    <2>1. PICK batch \in SUBSET Stale : batch # {} /\ Take(c, batch)
      BY <1>6, Zenon DEF Claim
    <2>2. batch \in SUBSET Messages /\ pending # {}
      <3>1. pending \subseteq Messages
        BY DEF IInv, TypeOK
      <3>2. batch \subseteq pending
        BY DEF Stale
      <3> QED BY <2>1, <3>1, <3>2
    <2>3. NoneDrawn
      BY <1>2, <2>1, <2>2, FreshDraws
    <2>4. Quiescent'
      BY <1>1, <1>3, <2>2 DEF WinInv, Quiescent
    <2> QED BY <1>1, <2>3, <2>4, WinKept
  <1>7. ASSUME NEW c \in Consumers, Crash(c) PROVE WinInv'
    <2>1. Take(c, {}) /\ UNCHANGED <<stream, pending>>
      BY <1>7 DEF Crash, queue
    <2>2. NoneDrawn
      BY <1>2, <2>1, FreshDraws
    <2>3. DOMAIN work'[c] = {} /\ \A d \in Consumers : d # c => work'[d] = work[d]
      <3>1. work' = [work EXCEPT ![c] = Batch({})] /\ DOMAIN Batch({}) = {}
        BY <2>1 DEF Take, Batch
      <3> QED BY <3>1 DEF IInv, WorkTyped
    <2>4. Quiescent'
      BY <1>1, <2>1, <2>3 DEF WinInv, Quiescent
    <2> QED BY <1>1, <2>2, <2>4, WinKept
  <1>8. CASE UNCHANGED vars
    <2>1. NoneDrawn /\ Quiescent'
      BY <1>8 DEF NoneDrawn, Drawn, WinInv, Quiescent, vars, queue, barrier, saga
    <2> QED BY <1>1, <2>1, WinKept
  <1> QED BY <1>4, <1>5, <1>6, <1>7, <1>8

\* A task that ends.
LEMMA WinFinish ==
    ASSUME IInv, WinInv, NEW c \in Consumers, NEW m \in DOMAIN work[c], Finish(c, m),
           UNCHANGED <<dispatches, wins, completed, total>>
    PROVE  WinInv'
  <1>1. /\ \A d \in Consumers : DOMAIN work'[d] \subseteq DOMAIN work[d]
        /\ \A d \in Consumers : \A x \in DOMAIN work'[d] : work'[d][x] = work[d][x]
    BY FinishBatch DEF IInv
  <1>2. NoneDrawn
    BY <1>1, FreshDraws
  <1>3. Quiescent'
    BY Dispatched DEF Quiescent
  <1> QED BY <1>2, <1>3, WinKept

\* A task that moves, but not on the barrier.
LEMMA WinMove ==
    ASSUME IInv, WinInv, NEW c \in Consumers, NEW m \in DOMAIN work[c], NEW t \in Tasks,
           Moves(c, m, t), t.at # "total", UNCHANGED <<dispatches, wins, completed, total>>
    PROVE  WinInv'
  <1>1. NoneDrawn
    BY MoveDraws
  <1>2. Quiescent'
    BY Dispatched DEF Quiescent
  <1> QED BY <1>1, <1>2, WinKept

-----------------------------------------------------------------------------
(* The steps on the barrier. *)

\* HINCRBY hands out the last number once.
LEMMA WinIncrement ==
    ASSUME IInv, WinInv, NEW c \in Consumers, NEW m \in DOMAIN work[c], Increment(c, m)
    PROVE  WinInv'
  <1> DEFINE t == [work[c][m] EXCEPT !.at = "total", !.seen = completed + 1]
  <1>1. /\ completed \in Nat /\ wins \in Nat /\ dispatches \in Nat
        /\ work[c][m] \in Tasks /\ m \in Messages
    BY TaskAt, BoundsAssumption DEF IInv, TypeOK
  <1>2. t \in Tasks /\ t.at = "total" /\ t.seen = completed + 1
    <2>1. completed + 1 \in Nat /\ "total" \in Places
      BY <1>1 DEF Places
    <2> QED BY <1>1, <2>1 DEF Tasks
  <1>3. /\ completed' = completed + 1 /\ UNCHANGED <<dispatches, wins, total>>
        /\ Moves(c, m, t)
    BY DEF Increment, saga, results, Moves
  <1> HIDE DEF t
  <1>4. /\ \A d \in Consumers : DOMAIN work'[d] = DOMAIN work[d]
        /\ work'[c][m] = t
        /\ \A d \in Consumers : \A x \in DOMAIN work[d] :
              (d # c \/ x # m) => work'[d][x] = work[d][x]
    BY <1>2, <1>3, TaskMoves DEF IInv, Moves
  <1>5. Quiescent'
    BY <1>3, Dispatched DEF Quiescent
  <1>6. Drawn(c, m)' <=> completed + 1 = Total
    BY <1>2, <1>4 DEF Drawn
  <1>7. \A d \in Consumers : \A x \in DOMAIN work[d] :
           (d # c \/ x # m) => (Drawn(d, x)' <=> Drawn(d, x))
    BY <1>4 DEF Drawn
  <1>8. Due' \subseteq Due \cup {<<c, m>>} /\ (completed + 1 # Total => Due' \subseteq Due)
    <2> SUFFICES ASSUME NEW d \in Consumers, NEW x \in Messages,
                        x \in DOMAIN work'[d], Drawn(d, x)'
                 PROVE  \/ d = c /\ x = m /\ completed + 1 = Total
                        \/ x \in DOMAIN work[d] /\ Drawn(d, x)
      BY DEF Due
    <2> QED BY <1>4, <1>6, <1>7
  <1>9. IsFiniteSet(Due) /\ Cardinality(Due) \in Nat
    BY FS_CardinalityType DEF WinInv
  <1>10. Chance \in Nat /\ Chance' \in Nat /\ dispatches > 0
    BY Dispatched DEF Chance
  <1>11. CASE completed + 1 = Total
    <2>1. /\ IsFiniteSet(Due \cup {<<c, m>>})
          /\ Cardinality(Due \cup {<<c, m>>}) \in Nat
          /\ Cardinality(Due \cup {<<c, m>>}) <= Cardinality(Due) + 1
      <3>1. PICK x : x = <<c, m>>
        OBVIOUS
      <3>2. /\ IsFiniteSet(Due \cup {x})
            /\ Cardinality(Due \cup {x}) = IF x \in Due THEN Cardinality(Due) ELSE Cardinality(Due) + 1
        BY <1>9, FS_AddElement
      <3> QED BY <1>9, <3>1, <3>2, FS_CardinalityType
    <2>2. /\ IsFiniteSet(Due') /\ Cardinality(Due') <= Cardinality(Due) + 1
          /\ Cardinality(Due') \in Nat
      <3>1. IsFiniteSet(Due') /\ Cardinality(Due') <= Cardinality(Due \cup {<<c, m>>})
        BY <1>8, <2>1, FS_Subset
      <3> QED BY <1>9, <2>1, <3>1, FS_CardinalityType
    <2>3. Chance = 1 /\ Chance' = 0
      BY <1>1, <1>3, <1>10, <1>11 DEF Chance
    <2>4. wins' + Cardinality(Due') + Chance' <= dispatches'
      BY <1>1, <1>3, <1>9, <2>2, <2>3 DEF WinInv
    <2> QED BY <1>5, <2>2, <2>4 DEF WinInv
  <1>12. CASE completed + 1 # Total
    <2>1. Due' \subseteq Due
      BY <1>8, <1>12
    <2>2. IsFiniteSet(Due') /\ Cardinality(Due') <= Cardinality(Due) /\ Cardinality(Due') \in Nat
      BY <1>9, <2>1, FS_Subset, FS_CardinalityType
    <2>3. Chance' <= Chance
      BY <1>1, <1>3, TotalAssumption DEF Chance
    <2>4. wins' + Cardinality(Due') + Chance' <= dispatches'
      BY <1>1, <1>3, <1>9, <1>10, <2>2, <2>3 DEF WinInv
    <2> QED BY <1>5, <2>2, <2>4 DEF WinInv
  <1> QED BY <1>11, <1>12

\* Who drew it is told so once.
LEMMA WinCheckLast ==
    ASSUME IInv, WinInv, NEW c \in Consumers, NEW m \in DOMAIN work[c], CheckLast(c, m)
    PROVE  WinInv'
  <1> DEFINE t == [Task("heartbeat") EXCEPT !.last = IsLast(work[c][m].seen)]
  <1>1. /\ wins \in Nat /\ dispatches \in Nat /\ completed \in Nat
        /\ work[c][m] \in Tasks /\ m \in Messages
    BY TaskAt, BoundsAssumption DEF IInv, TypeOK
  <1>2. t \in Tasks /\ t.at = "heartbeat"
    BY DEF Tasks, Task, Places, IsLast
  <1>3. /\ work[c][m].at = "total" /\ UNCHANGED <<dispatches, completed, total>>
        /\ wins' = IF IsLast(work[c][m].seen) THEN wins + 1 ELSE wins
        /\ Moves(c, m, t)
    BY DEF CheckLast, At, saga, barrier, Moves
  <1> HIDE DEF t
  <1>4. CASE ~IsLast(work[c][m].seen)
    BY <1>2, <1>3, <1>4, WinMove
  <1>5. CASE IsLast(work[c][m].seen)
    <2>1. Drawn(c, m) /\ Quiescent'
      BY <1>3, <1>5, Dispatched DEF IsLast, Drawn, Quiescent
    <2>2. NoneDrawn /\ <<c, m>> \notin Due'
      <3>1. NoneDrawn
        BY <1>2, <1>3, MoveDraws
      <3>2. work'[c][m] = t
        BY <1>2, <1>3, TaskMoves DEF IInv, Moves
      <3> QED BY <1>2, <3>1, <3>2 DEF Due, Drawn
    <2>3. Due' \subseteq Due \ {<<c, m>>}
      BY <2>2, DueShrinks
    <2>4. <<c, m>> \in Due
      BY <1>1, <2>1 DEF Due
    <2>5. IsFiniteSet(Due) /\ Cardinality(Due) \in Nat
      BY FS_CardinalityType DEF WinInv
    <2>6. /\ IsFiniteSet(Due \ {<<c, m>>})
          /\ Cardinality(Due \ {<<c, m>>}) = Cardinality(Due) - 1
      BY <2>4, <2>5, FS_RemoveElement
    <2>7. IsFiniteSet(Due') /\ Cardinality(Due') <= Cardinality(Due) - 1
      BY <2>3, <2>6, FS_Subset
    <2>8. Cardinality(Due') \in Nat
      BY <2>7, FS_CardinalityType
    <2>9. Chance' = Chance /\ Chance \in Nat
      BY <1>3 DEF Chance
    <2>10. wins' + Cardinality(Due') + Chance' <= dispatches'
      BY <1>1, <1>3, <1>5, <2>5, <2>7, <2>8, <2>9 DEF WinInv
    <2> QED BY <2>1, <2>7, <2>10 DEF WinInv
  <1> QED BY <1>4, <1>5

-----------------------------------------------------------------------------
(* The first theorem. *)

LEMMA WinProcess ==
    ASSUME IInv, WinInv, NEW c \in Consumers, NEW m \in DOMAIN work[c],
           Process(c, m) \/ TaskRaises(c, m)
    PROVE  WinInv'
  <1>1. CASE Increment(c, m)
    BY <1>1, WinIncrement
  <1>2. CASE CheckLast(c, m)
    BY <1>2, WinCheckLast
  <1>3. CASE TaskRaises(c, m) \/ Ack(c, m)
    <2>1. Finish(c, m) /\ UNCHANGED <<dispatches, wins, completed, total>>
      BY <1>3 DEF TaskRaises, Ack, saga, barrier, results
    <2> QED BY <2>1, WinFinish
  <1>4. CASE HasParent(c, m) \/ OpenCheckpoint(c, m) \/ WriteCheckpoint(c, m) \/ Heartbeat(c, m)
    <2>1. /\ UNCHANGED <<dispatches, wins, completed, total>>
          /\ \E place \in Places \ {"total"} : Goto(c, m, place)
      BY <1>4 DEF HasParent, OpenCheckpoint, WriteCheckpoint, Heartbeat, saga, barrier, results,
                 Places
    <2>2. PICK t \in Tasks : t.at # "total" /\ Moves(c, m, t)
      BY <2>1, GotoMoves DEF Moves
    <2> QED BY <2>1, <2>2, WinMove
  <1>5. CASE Store(c, m)
    <2>1. Task("ack") \in Tasks /\ Task("ack").at # "total"
      BY TaskTyped DEF Places
    <2>2. Moves(c, m, Task("ack")) /\ UNCHANGED <<dispatches, wins, completed, total>>
      BY <1>5 DEF Store, Moves, saga, barrier
    <2> QED BY <2>1, <2>2, WinMove
  <1>6. CASE Gather(c, m)
    <2> DEFINE t == [Task("store") EXCEPT !.parts = {p \in Parents : checkpoint[p] = "whole"}]
    <2>1. t \in Tasks /\ t.at # "total"
      BY DEF Tasks, Task, Places
    <2>2. UNCHANGED <<dispatches, wins, completed, total>>
      BY <1>6 DEF Gather, saga, barrier, results
    <2>3. Finish(c, m) \/ Moves(c, m, t)
      BY <1>6 DEF Gather, Moves
    <2> HIDE DEF t
    <2> QED BY <2>1, <2>2, <2>3, WinFinish, WinMove
  <1> QED BY <1>1, <1>2, <1>3, <1>4, <1>5, <1>6 DEF Process

LEMMA InitWinInv == Init => WinInv
  <1> SUFFICES ASSUME Init PROVE WinInv
    OBVIOUS
  <1>1. \A c \in Consumers : DOMAIN work[c] = {}
    BY DEF Init, Batch
  <1>2. Due = {}
    BY <1>1 DEF Due
  <1>3. IsFiniteSet(Due) /\ Cardinality(Due) = 0
    BY <1>2, FS_EmptySet
  <1>4. dispatches = 0 /\ wins = 0 /\ Chance = 0
    BY DEF Init, Chance
  <1>5. Quiescent
    BY <1>1, <1>4 DEF Init, Quiescent
  <1> QED BY <1>3, <1>4, <1>5 DEF WinInv

LEMMA NextWinInv == IInv /\ WinInv /\ [Next]_vars => WinInv'
  <1> SUFFICES ASSUME IInv, WinInv, [Next]_vars PROVE WinInv'
    OBVIOUS
  <1>1. ASSUME NEW c \in Consumers, NEW m \in DOMAIN work[c],
               Process(c, m) \/ TaskRaises(c, m)
        PROVE  WinInv'
    BY <1>1, WinProcess
  <1> QED BY <1>1, WinInit, WinQueue DEF Next

\* Of the tasks that count their parent on the barrier (HINCRBY, then HGET of the total)
\* one is told it is the last each time the saga initialises it, however often messages
\* are delivered again, workers die and the document is dispatched anew.
THEOREM OneWinner == Spec => []OneWinnerPerBarrier
  <1>1. IInv /\ WinInv => OneWinnerPerBarrier
    <2> SUFFICES ASSUME IInv, WinInv PROVE wins <= dispatches
      BY DEF OneWinnerPerBarrier
    <2>1. Cardinality(Due) \in Nat /\ Chance \in Nat
      BY FS_CardinalityType DEF WinInv, Chance
    <2>2. wins \in Nat /\ dispatches \in Nat
      BY BoundsAssumption DEF IInv, TypeOK
    <2> QED BY <2>1, <2>2 DEF WinInv
  <1>2. Spec => []WinInv
    BY InitWinInv, NextWinInv, Inductive, PTL DEF Spec
  <1> QED BY <1>1, <1>2, Inductive, PTL

-----------------------------------------------------------------------------
(* The undisturbed extraction. *)

IsBefore(t) == t.at \in {"check", "extract", "write", "increment"}

\* The parents that may have been counted: their file is whole and no task is going to
\* count them.
Counted ==
    {p \in Parents :
        /\ checkpoint[p] = "whole"
        /\ \A c \in Consumers : \A m \in DOMAIN work[c] :
              m.parent = p => ~IsBefore(work[c][m])}

\* What a task of parent p stands on.
Standing(t, p) ==
    /\ t.at \in {"check", "extract"} => checkpoint[p] = "absent"
    /\ t.at = "write" => checkpoint[p] = "torn"
    /\ t.at = "increment" => checkpoint[p] = "whole"
    /\ \/ t.at = "total" /\ t.seen = Total
       \/ t.at = "heartbeat" /\ t.last
       \/ t.at \in {"gather", "store"}
       => Counted = Parents
    /\ t.at = "store" => t.parts = Parents

\* A message is published once, and then on the stream or with one worker.
Known(m) == m.run = 1 /\ m \in Published
OnStreamOnce ==
    /\ \A i \in DOMAIN stream :
          /\ Known(stream[i]) /\ checkpoint[stream[i].parent] = "absent"
          /\ \A c \in Consumers : stream[i] \notin DOMAIN work[c]
    /\ \A i, j \in DOMAIN stream : stream[i] = stream[j] => i = j
WithOneWorker ==
    /\ \A c \in Consumers : \A m \in DOMAIN work[c] : Known(m)
    /\ \A c, d \in Consumers : \A m \in DOMAIN work[c] : m \in DOMAIN work[d] => c = d
Unpublished ==
    \A m \in Messages : m.run = 1 /\ m \notin Published => checkpoint[m.parent] = "absent"
Once == OnStreamOnce /\ WithOneWorker /\ Unpublished

AllStand == \A c \in Consumers : \A m \in DOMAIN work[c] : Standing(work[c][m], m.parent)
AllIndexed == \A i \in DOMAIN indexed : indexed[i] = Parents

Calm == Once /\ AllStand /\ completed <= Cardinality(Counted) /\ AllIndexed

CalmInv == Disturbed \/ Calm

-----------------------------------------------------------------------------
(* Counting. *)

LEMMA CountedFinite ==
    ASSUME NEW S, S \subseteq Parents
    PROVE  /\ IsFiniteSet(S) /\ Cardinality(S) \in Nat /\ Cardinality(S) <= Total
           /\ Cardinality(S) = Total => S = Parents
  <1>1. IsFiniteSet(Parents) /\ Cardinality(Parents) = Total
    BY TotalAssumption, FS_Interval DEF Parents
  <1>2. /\ IsFiniteSet(S) /\ Cardinality(S) <= Cardinality(Parents)
        /\ Cardinality(Parents) = Cardinality(S) => Parents = S
    BY <1>1, FS_Subset
  <1> QED BY <1>1, <1>2, FS_CardinalityType

LEMMA CountedParents == Counted \subseteq Parents /\ Counted' \subseteq Parents
  BY DEF Counted

\* Counted parents stay counted.
LEMMA CountGrows ==
    ASSUME Counted \subseteq Counted'
    PROVE  /\ Cardinality(Counted) <= Cardinality(Counted')
           /\ Counted = Parents => Counted' = Parents
  <1>1. IsFiniteSet(Counted')
    BY CountedParents, CountedFinite
  <1> QED BY <1>1, CountedParents, FS_Subset

\* Two tasks of one parent are one task.
LEMMA Solo ==
    ASSUME IInv, Once, NEW c \in Consumers, NEW m \in DOMAIN work[c]
    PROVE  /\ \A d \in Consumers : \A x \in DOMAIN work[d] :
                 x.parent = m.parent => d = c /\ x = m
           /\ \A i \in DOMAIN stream : stream[i].parent # m.parent
  <1>1. /\ m \in Messages /\ \A d \in Consumers : DOMAIN work[d] \subseteq Messages
        /\ \A i \in DOMAIN stream : stream[i] \in Messages
    BY DEF IInv, TypeOK
  <1>2. m.run = 1 /\ \A d \in Consumers : \A x \in DOMAIN work[d] : x.run = 1
    BY DEF Once, WithOneWorker, Known
  <1>3. \A i \in DOMAIN stream : stream[i].run = 1
    BY DEF Once, OnStreamOnce, Known
  <1>4. \A x \in Messages : x.run = 1 /\ x.parent = m.parent => x = m
    BY <1>1, <1>2 DEF Messages
  <1>5. \A i \in DOMAIN stream : stream[i].parent # m.parent
    BY <1>1, <1>3, <1>4 DEF Once, OnStreamOnce
  <1> QED BY <1>1, <1>2, <1>4, <1>5 DEF Once, WithOneWorker

-----------------------------------------------------------------------------
(* A task moves. *)

LEMMA CalmMove ==
    ASSUME IInv, Calm, NEW c \in Consumers, NEW m \in DOMAIN work[c], NEW t \in Tasks,
           Moves(c, m, t), UNCHANGED <<stream, sent>>,
           \A p \in Parents : p # m.parent => checkpoint'[p] = checkpoint[p],
           IsBefore(t) => IsBefore(work[c][m]),
           ~IsBefore(work[c][m]) => checkpoint' = checkpoint
    PROVE  /\ Once' /\ Counted \subseteq Counted'
           /\ Standing(t, m.parent)' => AllStand'
           /\ ~IsBefore(t) /\ checkpoint'[m.parent] = "whole" => m.parent \in Counted'
  <1>1. /\ \A d \in Consumers : DOMAIN work'[d] = DOMAIN work[d]
        /\ work'[c][m] = t
        /\ \A d \in Consumers : \A x \in DOMAIN work[d] :
              (d # c \/ x # m) => work'[d][x] = work[d][x]
    BY TaskMoves DEF IInv, Moves
  <1>2. /\ \A d \in Consumers : \A x \in DOMAIN work[d] :
              x.parent \in Parents /\ (x.parent = m.parent => d = c /\ x = m)
        /\ \A i \in DOMAIN stream : stream[i].parent \in Parents /\ stream[i].parent # m.parent
    <2>1. \A d \in Consumers : \A x \in DOMAIN work[d] : x.parent \in Parents
      BY TaskAt
    <2>2. \A i \in DOMAIN stream : stream[i].parent \in Parents
      <3>1. \A i \in DOMAIN stream : stream[i] \in Messages
        BY DEF IInv, TypeOK
      <3> QED BY <3>1 DEF Messages
    <2> QED BY <2>1, <2>2, Solo DEF Calm
  <1>3. Published' = Published /\ (\A x : Known(x)' <=> Known(x))
    BY DEF Published, Known
  <1>4. OnStreamOnce'
    BY <1>1, <1>2, <1>3 DEF Calm, Once, OnStreamOnce
  <1>5. WithOneWorker'
    BY <1>1, <1>3 DEF Calm, Once, WithOneWorker
  <1>6. Unpublished'
    <2>1. m.run = 1 /\ m \in Published /\ m \in Messages
      BY TaskAt DEF Calm, Once, WithOneWorker, Known
    <2>2. \A x \in Messages : x.run = 1 /\ x \notin Published => x.parent # m.parent
      BY <2>1 DEF Messages
    <2>3. \A x \in Messages : x.parent \in Parents
      BY DEF Messages
    <2> QED BY <1>3, <2>2, <2>3 DEF Calm, Once, Unpublished
  <1>7. Counted \subseteq Counted'
    <2> SUFFICES ASSUME NEW p \in Counted PROVE p \in Counted'
      OBVIOUS
    <2>1. /\ p \in Parents /\ checkpoint[p] = "whole"
          /\ \A d \in Consumers : \A x \in DOMAIN work[d] :
                x.parent = p => ~IsBefore(work[d][x])
      BY DEF Counted
    <2>2. checkpoint'[p] = "whole"
      BY <2>1
    <2>3. \A d \in Consumers : \A x \in DOMAIN work'[d] :
             x.parent = p => ~IsBefore(work'[d][x])
      BY <1>1, <2>1
    <2> QED BY <2>1, <2>2, <2>3 DEF Counted, IsBefore
  <1>8. ASSUME Standing(t, m.parent)' PROVE AllStand'
    <2> SUFFICES ASSUME NEW d \in Consumers, NEW x \in DOMAIN work'[d]
                 PROVE  Standing(work[d][x], x.parent)'
      BY DEF AllStand
    <2>1. CASE d = c /\ x = m
      BY <1>1, <1>8, <2>1
    <2>2. CASE d # c \/ x # m
      <3>1. Standing(work[d][x], x.parent) /\ work'[d][x] = work[d][x]
        BY <1>1, <2>2 DEF Calm, AllStand
      <3>2. checkpoint'[x.parent] = checkpoint[x.parent]
        BY <1>1, <1>2, <2>2
      <3>3. Counted = Parents => Counted' = Parents
        BY <1>7, CountGrows
      <3> QED BY <3>1, <3>2, <3>3 DEF Standing
    <2> QED BY <2>1, <2>2
  <1>9. ASSUME ~IsBefore(t), checkpoint'[m.parent] = "whole" PROVE m.parent \in Counted'
    <2>1. \A d \in Consumers : \A x \in DOMAIN work'[d] :
             x.parent = m.parent => ~IsBefore(work'[d][x])
      BY <1>1, <1>2, <1>9
    <2> QED BY <1>2, <1>9, <2>1 DEF Counted, IsBefore
  <1> QED BY <1>4, <1>5, <1>6, <1>7, <1>8, <1>9 DEF Once

\* The same, not on the barrier and without indexing.
LEMMA CalmMoveOn ==
    ASSUME IInv, Calm, NEW c \in Consumers, NEW m \in DOMAIN work[c], NEW t \in Tasks,
           Moves(c, m, t), UNCHANGED <<stream, sent, completed>>,
           \A p \in Parents : p # m.parent => checkpoint'[p] = checkpoint[p],
           IsBefore(t) => IsBefore(work[c][m]),
           ~IsBefore(work[c][m]) => checkpoint' = checkpoint,
           Counted \subseteq Counted' => Standing(t, m.parent)',
           AllIndexed'
    PROVE  Calm'
  <1>1. Once' /\ Counted \subseteq Counted' /\ AllStand'
    BY CalmMove
  <1>2. Cardinality(Counted) <= Cardinality(Counted')
    BY <1>1, CountGrows
  <1>3. Cardinality(Counted) \in Nat
    BY CountedParents, CountedFinite
  <1>4. Cardinality(Counted') \in Nat
    BY CountedParents, CountedFinite
  <1>5. completed \in Nat
    BY DEF IInv, TypeOK
  <1>6. completed' <= Cardinality(Counted')
    BY <1>2, <1>3, <1>4, <1>5 DEF Calm
  <1> QED BY <1>1, <1>6 DEF Calm

-----------------------------------------------------------------------------
(* A task ends, or a worker's whole batch does. *)

LEMMA CalmShrink ==
    ASSUME IInv, Calm, Quiet, UNCHANGED <<stream, sent, completed, checkpoint, indexed>>
    PROVE  Calm'
  <1>1. Published' = Published /\ (\A x : Known(x)' <=> Known(x))
    BY DEF Published, Known
  <1>2. Once'
    BY <1>1 DEF Calm, Once, OnStreamOnce, WithOneWorker, Unpublished, Quiet
  <1>3. Counted \subseteq Counted'
    BY DEF Counted, Quiet, IsBefore
  <1>4. Cardinality(Counted) <= Cardinality(Counted') /\ (Counted = Parents => Counted' = Parents)
    BY <1>3, CountGrows
  <1>5. AllStand'
    <2> SUFFICES ASSUME NEW d \in Consumers, NEW x \in DOMAIN work'[d]
                 PROVE  Standing(work[d][x], x.parent)'
      BY DEF AllStand
    <2>1. Standing(work[d][x], x.parent) /\ work'[d][x] = work[d][x]
      BY DEF Calm, AllStand, Quiet
    <2> QED BY <1>4, <2>1 DEF Standing
  <1>6. completed' <= Cardinality(Counted')
    <2>1. Cardinality(Counted) \in Nat /\ Cardinality(Counted') \in Nat /\ completed \in Nat
      BY CountedParents, CountedFinite DEF IInv, TypeOK
    <2> QED BY <1>4, <2>1 DEF Calm
  <1>7. AllIndexed'
    BY DEF Calm, AllIndexed
  <1> QED BY <1>2, <1>5, <1>6, <1>7 DEF Calm

LEMMA CalmFinish ==
    ASSUME IInv, Calm, NEW c \in Consumers, NEW m \in DOMAIN work[c], Finish(c, m),
           UNCHANGED <<stream, sent, completed, checkpoint, indexed>>
    PROVE  Calm'
  <1>1. Quiet
    BY FinishBatch DEF IInv, Quiet
  <1> QED BY <1>1, CalmShrink

LEMMA CalmCrash ==
    ASSUME IInv, Calm, NEW c \in Consumers, Crash(c)
    PROVE  Calm'
  <1>1. /\ UNCHANGED <<stream, sent, completed, checkpoint, indexed>>
        /\ work' = [work EXCEPT ![c] = Batch({})]
    BY DEF Crash, Take, queue, barrier, results
  <1>2. DOMAIN work'[c] = {} /\ \A d \in Consumers : d # c => work'[d] = work[d]
    <2>1. DOMAIN Batch({}) = {}
      BY DEF Batch
    <2> QED BY <1>1, <2>1 DEF IInv, WorkTyped
  <1>3. Quiet
    BY <1>2 DEF Quiet
  <1> QED BY <1>1, <1>3, CalmShrink

-----------------------------------------------------------------------------
(* The saga publishes and the workers read. *)

LEMMA CalmInit ==
    ASSUME IInv, Calm, InitBarrier
    PROVE  Calm'
  <1>1. /\ completed' = 0
        /\ UNCHANGED <<stream, sent, checkpoint, work, indexed>>
    BY DEF InitBarrier, queue, results
  <1>2. Published' = Published /\ Counted' = Counted /\ (\A x : Known(x)' <=> Known(x))
    BY <1>1 DEF Published, Counted, Known
  <1>3. Once'
    BY <1>1, <1>2 DEF Calm, Once, OnStreamOnce, WithOneWorker, Unpublished
  <1>4. AllStand' /\ AllIndexed'
    BY <1>1, <1>2 DEF Calm, AllStand, Standing, AllIndexed
  <1>5. completed' <= Cardinality(Counted')
    BY <1>1, CountedParents, CountedFinite
  <1> QED BY <1>3, <1>4, <1>5 DEF Calm

LEMMA CalmSend ==
    ASSUME IInv, Calm, dispatches <= 1, NEW d \in Dispatches, Send(d) \/ DispatchRaises(d)
    PROVE  Calm'
  <1>1. UNCHANGED <<completed, checkpoint, work, indexed>>
    BY DEF Send, PublishTask, EndDispatch, DispatchRaises, barrier, results
  <1>2. CASE UNCHANGED <<stream, sent>>
    <2>1. Quiet
      BY <1>1 DEF Quiet
    <2> QED BY <1>1, <1>2, <2>1, CalmShrink
  <1>3. CASE PublishTask(d)
    <2> DEFINE new == [run |-> 1, parent |-> sent[1] + 1]
    <2>1. d = 1 /\ sent \in [Dispatches -> 0..Total] /\ stream \in Seq(Messages)
      <3>1. /\ d \in sending /\ sending \subseteq 1..dispatches /\ dispatches \in 0..MaxDispatches
            /\ sent \in [Dispatches -> 0..Total] /\ stream \in Seq(Messages)
        BY <1>3 DEF PublishTask, IInv, TypeOK
      <3> QED BY <3>1, BoundsAssumption
    <2>2. /\ new \in Messages /\ sent' = [sent EXCEPT ![1] = sent[1] + 1]
          /\ stream' = Append(stream, new) /\ sent[1] \in 0..Total
      BY <1>3, <2>1, TotalAssumption DEF PublishTask, Messages, Parents
    <2>3. new \notin Published /\ new.run = 1
      BY <2>1, <2>2, TotalAssumption DEF Published
    <2>4. Published' = Published \cup {new}
      <3>1. \A m \in Messages : m.parent <= sent'[m.run] <=> (m.parent <= sent[m.run] \/ m = new)
        <4> SUFFICES ASSUME NEW m \in Messages
                     PROVE  m.parent <= sent'[m.run] <=> (m.parent <= sent[m.run] \/ m = new)
          OBVIOUS
        <4>1. m.run \in Dispatches /\ m.parent \in Nat /\ sent[m.run] \in Nat
          <5>1. m.run \in Dispatches /\ m.parent \in 1..Total
            BY DEF Messages, Parents
          <5>2. sent[m.run] \in 0..Total
            BY <2>1, <5>1
          <5> QED BY <5>1, <5>2, TotalAssumption
        <4>2. CASE m.run = 1
          <5>1. m = new <=> m.parent = sent[1] + 1
            BY <4>2 DEF Messages
          <5>2. sent'[m.run] = sent[1] + 1
            BY <2>1, <2>2, <4>1, <4>2
          <5> HIDE DEF new
          <5> QED BY <4>1, <4>2, <5>1, <5>2
        <4>3. CASE m.run # 1
          <5>1. sent'[m.run] = sent[m.run] /\ m # new
            BY <2>1, <2>2, <4>1, <4>3
          <5> QED BY <5>1
        <4> QED BY <4>2, <4>3
      <3> HIDE DEF new
      <3> QED BY <2>2, <3>1 DEF Published
    <2> HIDE DEF new
    <2>5. /\ DOMAIN stream' = DOMAIN stream \cup {Len(stream) + 1}
          /\ \A i \in DOMAIN stream : stream'[i] = stream[i]
          /\ stream'[Len(stream) + 1] = new
      BY <2>1, <2>2
    <2>6. /\ \A i \in DOMAIN stream : stream[i] # new
          /\ \A c \in Consumers : new \notin DOMAIN work[c]
          /\ checkpoint[new.parent] = "absent"
      BY <2>2, <2>3 DEF Calm, Once, OnStreamOnce, WithOneWorker, Unpublished, Known
    <2>7. \A x : Known(x)' <=> (Known(x) \/ x = new)
      BY <2>3, <2>4 DEF Known
    <2>8. OnStreamOnce'
      <3>1. \A i \in DOMAIN stream' :
               /\ (Known(stream'[i]) \/ stream'[i] = new) /\ checkpoint[stream'[i].parent] = "absent"
               /\ \A c \in Consumers : stream'[i] \notin DOMAIN work[c]
        <4> SUFFICES ASSUME NEW i \in DOMAIN stream'
                     PROVE  /\ (Known(stream'[i]) \/ stream'[i] = new)
                            /\ checkpoint[stream'[i].parent] = "absent"
                            /\ \A c \in Consumers : stream'[i] \notin DOMAIN work[c]
          OBVIOUS
        <4>1. CASE i \in DOMAIN stream
          BY <2>5, <4>1 DEF Calm, Once, OnStreamOnce
        <4>2. CASE i = Len(stream) + 1
          BY <2>5, <2>6, <4>2
        <4> QED BY <2>5, <4>1, <4>2
      <3>2. \A i, j \in DOMAIN stream' : stream'[i] = stream'[j] => i = j
        BY <2>5, <2>6 DEF Calm, Once, OnStreamOnce
      <3> QED BY <1>1, <2>7, <3>1, <3>2 DEF OnStreamOnce
    <2>9. WithOneWorker' /\ Unpublished'
      BY <1>1, <2>4, <2>7 DEF Calm, Once, WithOneWorker, Unpublished
    <2>10. Counted' = Counted
      BY <1>1 DEF Counted
    <2>11. AllStand' /\ AllIndexed' /\ completed' <= Cardinality(Counted')
      BY <1>1, <2>10 DEF Calm, AllStand, Standing, AllIndexed
    <2> QED BY <2>8, <2>9, <2>11 DEF Calm, Once
  <1> QED BY <1>2, <1>3 DEF Send, EndDispatch, DispatchRaises, saga, queue

LEMMA CalmRead ==
    ASSUME IInv, Calm, NEW c \in Consumers, Read(c)
    PROVE  Calm'
  <1> DEFINE n == IF Len(stream) < BatchSize THEN Len(stream) ELSE BatchSize
             batch == {stream[i] : i \in 1..n}
  <1>1. /\ stream \in Seq(Messages) /\ n \in 1..Len(stream)
        /\ DOMAIN work[c] = {}
    BY BatchAssumption DEF IInv, TypeOK, Read, IsIdle
  <1>2. /\ stream' = SubSeq(stream, n + 1, Len(stream)) /\ Take(c, batch)
        /\ UNCHANGED <<sent, completed, checkpoint, indexed>>
    BY DEF Read, saga, barrier, results
  <1> HIDE DEF n
  <1>3. batch \in SUBSET Messages /\ \A m \in batch : \E i \in DOMAIN stream : i <= n /\ m = stream[i]
    BY <1>1
  <1>4. DOMAIN stream' = 1..(Len(stream) - n) /\ \A i \in DOMAIN stream' :
           i + n \in DOMAIN stream /\ stream'[i] = stream[i + n]
    BY <1>1, <1>2
  <1>5. /\ DOMAIN work'[c] = batch /\ \A m \in batch : work'[c][m].at = "check"
        /\ \A d \in Consumers : d # c => work'[d] = work[d]
    <2>1. work' = [work EXCEPT ![c] = Batch(batch)]
      BY <1>2 DEF Take
    <2>2. DOMAIN Batch(batch) = batch /\ \A m \in batch : Batch(batch)[m].at = "check"
      BY DEF Batch, Task
    <2> HIDE DEF batch
    <2> QED BY <2>1, <2>2 DEF IInv, WorkTyped
  <1>6. \A m \in batch :
           /\ Known(m) /\ checkpoint[m.parent] = "absent"
           /\ \A d \in Consumers : m \notin DOMAIN work[d]
           /\ \A i \in DOMAIN stream' : stream'[i] # m
    <2> SUFFICES ASSUME NEW i \in DOMAIN stream, i <= n
                 PROVE  /\ Known(stream[i]) /\ checkpoint[stream[i].parent] = "absent"
                        /\ \A d \in Consumers : stream[i] \notin DOMAIN work[d]
                        /\ \A j \in DOMAIN stream' : stream'[j] # stream[i]
      BY <1>3
    <2>1. ASSUME NEW j \in DOMAIN stream' PROVE stream'[j] # stream[i]
      <3>1. j + n # i
        BY <1>1, <1>4
      <3> QED BY <1>4, <3>1 DEF Calm, Once, OnStreamOnce
    <2> QED BY <2>1 DEF Calm, Once, OnStreamOnce
  <1> HIDE DEF batch
  <1>7. Published' = Published /\ (\A x : Known(x)' <=> Known(x))
    BY <1>2 DEF Published, Known
  <1>8. OnStreamOnce'
    <2>1. \A i \in DOMAIN stream' :
             /\ Known(stream'[i]) /\ checkpoint[stream'[i].parent] = "absent"
             /\ \A d \in Consumers : stream'[i] \notin DOMAIN work'[d]
      BY <1>4, <1>5, <1>6 DEF Calm, Once, OnStreamOnce
    <2>2. \A i, j \in DOMAIN stream' : stream'[i] = stream'[j] => i = j
      <3> SUFFICES ASSUME NEW i \in DOMAIN stream', NEW j \in DOMAIN stream', stream'[i] = stream'[j]
                   PROVE  i = j
        OBVIOUS
      <3>1. i + n = j + n
        BY <1>4 DEF Calm, Once, OnStreamOnce
      <3> QED BY <1>1, <1>4, <3>1
    <2> QED BY <1>2, <1>7, <2>1, <2>2 DEF OnStreamOnce
  <1>9. WithOneWorker'
    BY <1>5, <1>6, <1>7 DEF Calm, Once, WithOneWorker
  <1>10. Unpublished'
    BY <1>2, <1>7 DEF Calm, Once, Unpublished
  <1>11. Counted \subseteq Counted'
    BY <1>2, <1>5, <1>6 DEF Counted, IsBefore
  <1>12. Cardinality(Counted) <= Cardinality(Counted') /\ (Counted = Parents => Counted' = Parents)
    BY <1>11, CountGrows
  <1>13. AllStand'
    <2> SUFFICES ASSUME NEW d \in Consumers, NEW x \in DOMAIN work'[d]
                 PROVE  Standing(work[d][x], x.parent)'
      BY DEF AllStand
    <2>1. CASE d = c
      BY <1>2, <1>5, <1>6, <2>1 DEF Standing
    <2>2. CASE d # c
      <3>1. Standing(work[d][x], x.parent) /\ work'[d] = work[d]
        BY <1>5, <2>2 DEF Calm, AllStand
      <3> QED BY <1>2, <1>12, <3>1 DEF Standing
    <2> QED BY <2>1, <2>2
  <1>14. completed' <= Cardinality(Counted')
    <2>1. Cardinality(Counted) \in Nat /\ Cardinality(Counted') \in Nat /\ completed \in Nat
      BY CountedParents, CountedFinite DEF IInv, TypeOK
    <2> QED BY <1>2, <1>12, <2>1 DEF Calm
  <1>15. AllIndexed'
    BY <1>2 DEF Calm, AllIndexed
  <1> QED BY <1>8, <1>9, <1>10, <1>13, <1>14, <1>15 DEF Calm, Once

-----------------------------------------------------------------------------
(* The steps of a task. *)

\* Up to the file: it is absent, torn and whole in turn, as no other task touches it.
LEMMA CalmFile ==
    ASSUME IInv, Calm, NEW c \in Consumers, NEW m \in DOMAIN work[c],
           HasParent(c, m) \/ OpenCheckpoint(c, m) \/ WriteCheckpoint(c, m)
    PROVE  Calm'
  <1>1. /\ UNCHANGED <<stream, sent, completed, indexed>>
        /\ IsBefore(work[c][m]) /\ Standing(work[c][m], m.parent)
    BY DEF HasParent, OpenCheckpoint, WriteCheckpoint, At, saga, queue, barrier, results,
           IsBefore, Calm, AllStand
  <1>2. /\ m.parent \in Parents
        /\ checkpoint \in [Parents -> {"absent", "torn", "whole"}]
    BY TaskAt DEF IInv, TypeOK
  <1>3. PICK place \in {"extract", "write", "increment"} :
           /\ Goto(c, m, place)
           /\ \A p \in Parents : p # m.parent => checkpoint'[p] = checkpoint[p]
           /\ place = "extract" => checkpoint'[m.parent] = "absent"
           /\ place = "write" => checkpoint'[m.parent] = "torn"
           /\ place = "increment" => checkpoint'[m.parent] = "whole"
    <2>1. CASE HasParent(c, m)
      <3>1. checkpoint[m.parent] = "absent" /\ checkpoint' = checkpoint
        BY <1>1, <2>1 DEF HasParent, At, Standing
      <3>2. Goto(c, m, "extract")
        BY <2>1, <3>1 DEF HasParent
      <3> QED BY <3>1, <3>2
    <2>2. CASE OpenCheckpoint(c, m)
      <3>1. Goto(c, m, "write") /\ checkpoint' = [checkpoint EXCEPT ![m.parent] = "torn"]
        BY <2>2 DEF OpenCheckpoint
      <3> QED BY <1>2, <3>1
    <2>3. CASE WriteCheckpoint(c, m)
      <3>1. checkpoint[m.parent] = "torn"
        BY <1>1, <2>3 DEF WriteCheckpoint, At, Standing
      <3>2. Goto(c, m, "increment") /\ checkpoint' = [checkpoint EXCEPT ![m.parent] = "whole"]
        BY <2>3, <3>1 DEF WriteCheckpoint
      <3> QED BY <1>2, <3>2
    <2> QED BY <2>1, <2>2, <2>3
  <1>4. PICK t \in Tasks : t.at = place /\ Moves(c, m, t)
    BY <1>3, GotoMoves DEF Places, Moves
  <1>5. Standing(t, m.parent)'
    BY <1>3, <1>4 DEF Standing
  <1>6. AllIndexed'
    BY <1>1 DEF Calm, AllIndexed
  <1> QED BY <1>1, <1>3, <1>4, <1>5, <1>6, CalmMoveOn

\* A task counts its own parent, which was not counted before.
LEMMA CalmIncrement ==
    ASSUME IInv, Calm, NEW c \in Consumers, NEW m \in DOMAIN work[c], Increment(c, m)
    PROVE  Calm'
  <1>1. /\ completed \in Nat /\ work[c][m] \in Tasks /\ m.parent \in Parents
    BY TaskAt DEF IInv, TypeOK
  <1>2. PICK t \in Tasks : /\ t = [work[c][m] EXCEPT !.at = "total", !.seen = completed + 1]
                          /\ t.at = "total" /\ t.seen = completed + 1
    <2>1. completed + 1 \in Nat /\ "total" \in Places
      BY <1>1 DEF Places
    <2> DEFINE r == [work[c][m] EXCEPT !.at = "total", !.seen = completed + 1]
    <2>2. r \in Tasks /\ r.at = "total" /\ r.seen = completed + 1
      BY <1>1, <2>1 DEF Tasks
    <2> QED BY <2>2
  <1>3. /\ UNCHANGED <<stream, sent, checkpoint, indexed>>
        /\ completed' = completed + 1 /\ Moves(c, m, t)
        /\ work[c][m].at = "increment"
    BY <1>2 DEF Increment, At, saga, queue, results, Moves
  <1>4. checkpoint[m.parent] = "whole" /\ m.parent \notin Counted
    BY <1>3 DEF Calm, AllStand, Standing, Counted, IsBefore
  <1>5. /\ Once' /\ Counted \subseteq Counted' /\ m.parent \in Counted'
        /\ Standing(t, m.parent)' => AllStand'
    BY <1>2, <1>3, <1>4, CalmMove DEF IsBefore
  <1>6. /\ IsFiniteSet(Counted) /\ Cardinality(Counted) \in Nat
        /\ IsFiniteSet(Counted') /\ Cardinality(Counted') \in Nat
        /\ Cardinality(Counted') <= Total
        /\ Cardinality(Counted') = Total => Counted' = Parents
    BY CountedParents, CountedFinite
  <1>7. completed' <= Cardinality(Counted')
    <2>1. PICK p : p = m.parent
      OBVIOUS
    <2>2. Cardinality(Counted \cup {p}) = Cardinality(Counted) + 1
      BY <1>4, <1>6, <2>1, FS_AddElement
    <2>3. Cardinality(Counted \cup {p}) <= Cardinality(Counted')
      BY <1>5, <1>6, <2>1, FS_Subset
    <2> QED BY <1>1, <1>3, <1>6, <2>2, <2>3 DEF Calm
  <1>8. Standing(t, m.parent)'
    <2>1. t.seen = Total => Counted' = Parents
      BY <1>1, <1>2, <1>3, <1>6, <1>7, TotalAssumption
    <2> QED BY <1>2, <2>1 DEF Standing
  <1>9. AllIndexed'
    BY <1>3 DEF Calm, AllIndexed
  <1> QED BY <1>5, <1>7, <1>8, <1>9 DEF Calm

\* The task that drew the last number learns it when all parents are counted.
LEMMA CalmCheckLast ==
    ASSUME IInv, WinInv, Calm, NEW c \in Consumers, NEW m \in DOMAIN work[c], CheckLast(c, m)
    PROVE  Calm'
  <1>1. PICK t \in Tasks :
           /\ t = [Task("heartbeat") EXCEPT !.last = IsLast(work[c][m].seen)]
           /\ t.at = "heartbeat" /\ t.last = IsLast(work[c][m].seen)
    <2> DEFINE r == [Task("heartbeat") EXCEPT !.last = IsLast(work[c][m].seen)]
    <2>1. r \in Tasks /\ r.at = "heartbeat" /\ r.last = IsLast(work[c][m].seen)
      BY DEF Tasks, Task, Places, IsLast
    <2> QED BY <2>1
  <1>2. /\ UNCHANGED <<stream, sent, completed, checkpoint, indexed>> /\ Moves(c, m, t)
        /\ work[c][m].at = "total"
    BY <1>1 DEF CheckLast, At, saga, queue, barrier, Moves
  <1>3. t.last => Counted = Parents
    <2>1. Standing(work[c][m], m.parent)
      BY DEF Calm, AllStand
    <2>2. work[c][m].seen = Total => Counted = Parents
      BY <1>2, <2>1 DEF Standing
    <2>3. t.last => work[c][m].seen = Total
      BY <1>1, Dispatched DEF IsLast
    <2> QED BY <2>2, <2>3
  <1>4. ASSUME Counted \subseteq Counted' PROVE Standing(t, m.parent)'
    <2>1. t.last => Counted' = Parents
      BY <1>3, <1>4, CountGrows
    <2> QED BY <1>1, <2>1 DEF Standing
  <1>5. AllIndexed'
    BY <1>2 DEF Calm, AllIndexed
  <1> QED BY <1>1, <1>2, <1>4, <1>5, CalmMoveOn DEF IsBefore

LEMMA CalmHeartbeat ==
    ASSUME IInv, Calm, NEW c \in Consumers, NEW m \in DOMAIN work[c], Heartbeat(c, m)
    PROVE  Calm'
  <1> DEFINE place == IF work[c][m].last THEN "gather" ELSE "ack"
  <1>1. /\ UNCHANGED <<stream, sent, completed, checkpoint, indexed>>
        /\ Goto(c, m, place) /\ work[c][m].at = "heartbeat"
        /\ work[c][m].last => Counted = Parents
    BY DEF Heartbeat, At, saga, queue, barrier, results, Calm, AllStand, Standing
  <1>2. place \in Places /\ place \in {"gather", "ack"} /\ (place = "gather" => Counted = Parents)
    BY <1>1 DEF Places
  <1> HIDE DEF place
  <1>3. PICK t \in Tasks : t.at = place /\ Moves(c, m, t)
    BY <1>1, <1>2, GotoMoves DEF Moves
  <1>4. ASSUME Counted \subseteq Counted' PROVE Standing(t, m.parent)'
    <2>1. Counted = Parents => Counted' = Parents
      BY <1>4, CountGrows
    <2> QED BY <1>2, <1>3, <2>1 DEF Standing
  <1>5. AllIndexed'
    BY <1>1 DEF Calm, AllIndexed
  <1> QED BY <1>1, <1>2, <1>3, <1>4, <1>5, CalmMoveOn DEF IsBefore

LEMMA CalmGather ==
    ASSUME IInv, Calm, NEW c \in Consumers, NEW m \in DOMAIN work[c], Gather(c, m)
    PROVE  Calm'
  <1>1. /\ UNCHANGED <<stream, sent, completed, checkpoint, indexed>>
        /\ work[c][m].at = "gather" /\ Counted = Parents
    BY DEF Gather, At, saga, queue, barrier, results, Calm, AllStand, Standing
  <1>2. {p \in Parents : checkpoint[p] = "whole"} = Parents
    BY <1>1 DEF Counted
  <1>3. PICK t \in Tasks : /\ t = [Task("store") EXCEPT !.parts = Parents]
                          /\ t.at = "store" /\ t.parts = Parents
    <2> DEFINE r == [Task("store") EXCEPT !.parts = Parents]
    <2>1. r \in Tasks /\ r.at = "store" /\ r.parts = Parents
      BY DEF Tasks, Task, Places
    <2> QED BY <2>1
  <1>4. Finish(c, m) \/ Moves(c, m, t)
    BY <1>2, <1>3 DEF Gather, Moves
  <1>5. ASSUME Counted \subseteq Counted' PROVE Standing(t, m.parent)'
    <2>1. Counted' = Parents
      BY <1>1, <1>5, CountGrows
    <2> QED BY <1>3, <2>1 DEF Standing
  <1>6. AllIndexed'
    BY <1>1 DEF Calm, AllIndexed
  <1> QED BY <1>1, <1>3, <1>4, <1>5, <1>6, CalmFinish, CalmMoveOn DEF IsBefore

LEMMA CalmStore ==
    ASSUME IInv, Calm, NEW c \in Consumers, NEW m \in DOMAIN work[c], Store(c, m)
    PROVE  Calm'
  <1>1. /\ UNCHANGED <<stream, sent, completed, checkpoint>>
        /\ work[c][m].at = "store" /\ work[c][m].parts = Parents
        /\ indexed' = Append(indexed, work[c][m].parts)
        /\ Moves(c, m, Task("ack"))
    BY DEF Store, At, saga, queue, barrier, Moves, Calm, AllStand, Standing
  <1>2. Task("ack") \in Tasks /\ Task("ack").at = "ack"
    BY TaskTyped DEF Places
  <1>3. AllIndexed'
    <2>1. indexed \in Seq(SUBSET Parents) /\ \A i \in DOMAIN indexed : indexed[i] = Parents
      BY DEF Calm, AllIndexed, IInv, TypeOK
    <2>2. indexed' = Append(indexed, Parents)
      BY <1>1
    <2>3. \A i \in DOMAIN indexed' : indexed'[i] = Parents
      BY <2>1, <2>2
    <2> QED BY <2>3 DEF AllIndexed
  <1>4. Standing(Task("ack"), m.parent)'
    BY <1>2 DEF Standing
  <1> QED BY <1>1, <1>2, <1>3, <1>4, CalmMoveOn DEF IsBefore

-----------------------------------------------------------------------------
(* The theorem. *)

LEMMA CalmProcess ==
    ASSUME IInv, WinInv, Calm, NEW c \in Consumers, NEW m \in DOMAIN work[c],
           Process(c, m) \/ TaskRaises(c, m)
    PROVE  Calm'
  <1>1. CASE TaskRaises(c, m) \/ Ack(c, m)
    <2>1. Finish(c, m) /\ UNCHANGED <<stream, sent, completed, checkpoint, indexed>>
      BY <1>1 DEF TaskRaises, Ack, saga, queue, barrier, results
    <2> QED BY <2>1, CalmFinish
  <1> QED BY <1>1, CalmFile, CalmIncrement, CalmCheckLast, CalmHeartbeat, CalmGather,
             CalmStore DEF Process

LEMMA InitCalm == Init => CalmInv
  <1> SUFFICES ASSUME Init PROVE Calm
    BY DEF CalmInv
  <1>1. \A c \in Consumers : DOMAIN work[c] = {}
    BY DEF Init, Batch
  <1>2. stream = <<>> /\ indexed = <<>> /\ completed = 0 /\ DOMAIN <<>> = {}
    BY DEF Init
  <1>3. Once
    BY <1>1, <1>2 DEF Once, OnStreamOnce, WithOneWorker, Unpublished, Init, Messages
  <1>4. AllStand /\ AllIndexed
    BY <1>1, <1>2 DEF AllStand, AllIndexed
  <1>5. completed <= Cardinality(Counted)
    BY <1>2, CountedParents, CountedFinite
  <1> QED BY <1>3, <1>4, <1>5 DEF Calm

LEMMA NextCalm == IInv /\ WinInv /\ CalmInv /\ [Next]_vars => CalmInv'
  <1> SUFFICES ASSUME IInv, WinInv, CalmInv, [Next]_vars PROVE CalmInv'
    OBVIOUS
  <1>1. CASE UNCHANGED vars
    <2>1. UNCHANGED <<stream, sent, completed, checkpoint, indexed, dispatches, redelivered, work>>
      BY <1>1 DEF vars, saga, queue, barrier, results, history
    <2>2. Quiet /\ (Disturbed => Disturbed')
      BY <2>1 DEF Quiet, Disturbed
    <2> QED BY <2>1, <2>2, CalmShrink DEF CalmInv
  <1>2. CASE \E c \in Consumers : Claim(c)
    <2>1. Disturbed'
      BY <1>2 DEF Claim, Disturbed
    <2> QED BY <2>1 DEF CalmInv
  <1>3. CASE InitBarrier
    <2>1. dispatches \in Nat /\ dispatches' = dispatches + 1 /\ redelivered' = redelivered
      BY <1>3, BoundsAssumption DEF InitBarrier, IInv, TypeOK, history
    <2>2. Disturbed => Disturbed'
      BY <2>1 DEF Disturbed
    <2> QED BY <1>3, <2>2, CalmInit DEF CalmInv
  <1>4. CASE \E d \in Dispatches : Send(d) \/ DispatchRaises(d)
    <2>1. UNCHANGED <<dispatches, redelivered>>
      BY <1>4 DEF Send, PublishTask, EndDispatch, DispatchRaises, history
    <2>2. CASE Disturbed
      BY <2>1, <2>2 DEF Disturbed, CalmInv
    <2>3. CASE ~Disturbed
      <3>1. dispatches <= 1
        BY <2>3, BoundsAssumption DEF Disturbed, IInv, TypeOK
      <3> QED BY <1>4, <2>3, <3>1, CalmSend DEF CalmInv
    <2> QED BY <2>2, <2>3
  <1>5. CASE \E c \in Consumers : Read(c) \/ Crash(c)
    <2>1. UNCHANGED <<dispatches, redelivered>>
      BY <1>5 DEF Read, Crash, saga, history
    <2>2. Disturbed => Disturbed'
      BY <2>1 DEF Disturbed
    <2> QED BY <1>5, <2>2, CalmRead, CalmCrash DEF CalmInv
  <1>6. CASE \E c \in Consumers : \E m \in DOMAIN work[c] : Process(c, m) \/ TaskRaises(c, m)
    <2>1. UNCHANGED <<dispatches, redelivered>>
      BY <1>6 DEF Process, HasParent, OpenCheckpoint, WriteCheckpoint, Increment, CheckLast,
                  Heartbeat, Gather, Store, Ack, TaskRaises, saga, history
    <2>2. Disturbed => Disturbed'
      BY <2>1 DEF Disturbed
    <2> QED BY <1>6, <2>2, CalmProcess DEF CalmInv
  <1> QED BY <1>1, <1>2, <1>3, <1>4, <1>5, <1>6 DEF Next

\* While no message is delivered twice and the document is dispatched once, whoever the
\* barrier tells to be the last (process_task) indexes the graphs of all parents, for any
\* number of workers and parents, whatever raises and whichever process is killed.
THEOREM CompleteWhenCalm == Spec => []CompleteUnlessDisturbed
  <1>1. CalmInv => CompleteUnlessDisturbed
    BY DEF CalmInv, Calm, AllIndexed, CompleteUnlessDisturbed
  <1>2. Spec => []WinInv
    BY InitWinInv, NextWinInv, Inductive, PTL DEF Spec
  <1>3. Spec => []CalmInv
    BY InitCalm, NextCalm, Inductive, <1>2, PTL DEF Spec
  <1> QED BY <1>1, <1>3, PTL

-----------------------------------------------------------------------------
(* The results are merged once. *)

\* A task that was told it is the last and has not stored its result yet.
Merging(t) == (t.at = "heartbeat" /\ t.last) \/ t.at \in {"gather", "store"}

\* There is one such task, before anything is indexed and after the barrier's winner.
MergeOnce ==
    /\ \A c, d \in Consumers : \A m \in DOMAIN work[c] : \A n \in DOMAIN work[d] :
          Merging(work[c][m]) /\ Merging(work[d][n]) => c = d /\ m = n
    /\ \A c \in Consumers : \A m \in DOMAIN work[c] :
          Merging(work[c][m]) => indexed = <<>> /\ wins # 0
    /\ wins = 0 => indexed = <<>>

MergeInv == dispatches > 1 \/ MergeOnce

\* What the other steps do to the variables of the scatter-gather.
Remembered == dispatches' = dispatches /\ (redelivered => redelivered')
Idle == UNCHANGED <<checkpoint, indexed>>

LEMMA SagaRemembers ==
    ASSUME NEW d \in Dispatches, Send(d) \/ DispatchRaises(d)
    PROVE  Remembered /\ Idle
  <1>1. CASE PublishTask(d) \/ EndDispatch(d)
    BY <1>1 DEF PublishTask, EndDispatch, results, history, Remembered, Idle
  <1>2. CASE DispatchRaises(d)
    BY <1>2 DEF DispatchRaises, results, Remembered, Idle
  <1> QED BY <1>1, <1>2 DEF Send

LEMMA WorkerRemembers ==
    ASSUME NEW c \in Consumers, Read(c) \/ Claim(c) \/ Crash(c)
    PROVE  Remembered /\ Idle
  <1>1. CASE Read(c)
    BY <1>1 DEF Read, saga, results, history, Remembered, Idle
  <1>2. CASE Claim(c)
    BY <1>2 DEF Claim, saga, results, Remembered, Idle
  <1>3. CASE Crash(c)
    BY <1>3 DEF Crash, results, Remembered, Idle
  <1> QED BY <1>1, <1>2, <1>3

LEMMA TaskRemembers ==
    ASSUME NEW c \in Consumers, NEW m \in DOMAIN work[c], Process(c, m) \/ TaskRaises(c, m)
    PROVE  /\ Remembered
           /\ OpenCheckpoint(c, m) \/ WriteCheckpoint(c, m) \/ Store(c, m) \/ Idle
  <1>1. CASE HasParent(c, m) \/ OpenCheckpoint(c, m) \/ WriteCheckpoint(c, m)
    BY <1>1 DEF HasParent, OpenCheckpoint, WriteCheckpoint, saga, results, history,
                Remembered, Idle
  <1>2. CASE Increment(c, m) \/ CheckLast(c, m) \/ Heartbeat(c, m)
    BY <1>2 DEF Increment, CheckLast, Heartbeat, saga, results, history, Remembered, Idle
  <1>3. CASE Gather(c, m) \/ Store(c, m) \/ Ack(c, m)
    BY <1>3 DEF Gather, Store, Ack, saga, results, history, Remembered, Idle
  <1>4. CASE TaskRaises(c, m)
    BY <1>4 DEF TaskRaises, saga, results, Remembered, Idle
  <1> QED BY <1>1, <1>2, <1>3, <1>4 DEF Process

LEMMA StepRemembers ==
    ASSUME [Next]_vars
    PROVE  /\ InitBarrier \/ Remembered
           /\ \/ InitBarrier
              \/ \E c \in Consumers : \E m \in DOMAIN work[c] :
                    OpenCheckpoint(c, m) \/ WriteCheckpoint(c, m) \/ Store(c, m)
              \/ Idle
  <1>1. CASE UNCHANGED vars
    BY <1>1 DEF vars, saga, results, history, Remembered, Idle
  <1>2. CASE \E c \in Consumers : \E m \in DOMAIN work[c] : Process(c, m) \/ TaskRaises(c, m)
    BY <1>2, TaskRemembers
  <1> QED BY <1>1, <1>2, SagaRemembers, WorkerRemembers DEF Next

\* A step after which no task merges that did not.
NoneMerges ==
    \A d \in Consumers : \A x \in DOMAIN work'[d] :
        Merging(work'[d][x]) => x \in DOMAIN work[d] /\ Merging(work[d][x])

LEMMA MergeKept ==
    ASSUME MergeOnce, NoneMerges, UNCHANGED <<wins, indexed>>
    PROVE  MergeOnce'
  <1>1. \A c, d \in Consumers : \A m \in DOMAIN work'[c] : \A n \in DOMAIN work'[d] :
           Merging(work'[c][m]) /\ Merging(work'[d][n]) => c = d /\ m = n
    BY DEF MergeOnce, NoneMerges
  <1>2. \A c \in Consumers : \A m \in DOMAIN work'[c] :
           Merging(work'[c][m]) => indexed' = <<>> /\ wins' # 0
    BY DEF MergeOnce, NoneMerges
  <1> QED BY <1>1, <1>2 DEF MergeOnce

LEMMA MoveMerges ==
    ASSUME IInv, NEW c \in Consumers, NEW m \in DOMAIN work[c], NEW t \in Tasks,
           Moves(c, m, t), Merging(t) => Merging(work[c][m])
    PROVE  NoneMerges
  <1>1. /\ \A d \in Consumers : DOMAIN work'[d] = DOMAIN work[d]
        /\ work'[c][m] = t
        /\ \A d \in Consumers : \A x \in DOMAIN work[d] :
              (d # c \/ x # m) => work'[d][x] = work[d][x]
    BY TaskMoves DEF IInv, Moves
  <1> QED BY <1>1 DEF NoneMerges

LEMMA FreshMerges ==
    ASSUME \A d \in Consumers : \A x \in DOMAIN work'[d] :
              \/ x \in DOMAIN work[d] /\ work'[d][x] = work[d][x]
              \/ work'[d][x].at = "check"
    PROVE  NoneMerges
  BY DEF NoneMerges, Merging

\* Batches are taken, dropped or left alone.
LEMMA MergeQueue ==
    ASSUME IInv, MergeOnce,
           \/ InitBarrier
           \/ \E d \in Dispatches : Send(d) \/ DispatchRaises(d)
           \/ \E c \in Consumers : Read(c) \/ Claim(c) \/ Crash(c)
           \/ UNCHANGED vars
    PROVE  MergeOnce'
  <1>1. UNCHANGED <<wins, indexed>>
    BY DEF InitBarrier, Send, PublishTask, EndDispatch, DispatchRaises, Read, Claim, Crash,
           saga, barrier, results, vars
  <1>2. ASSUME NEW c \in Consumers, NEW batch \in SUBSET Messages, Take(c, batch)
        PROVE  NoneMerges
    <2>1. /\ \A m \in DOMAIN work'[c] : work'[c][m].at = "check"
          /\ \A d \in Consumers : d # c => work'[d] = work[d]
      BY <1>2, TakeBatch DEF IInv
    <2> QED BY <2>1, FreshMerges
  <1>3. CASE work' = work
    <2>1. NoneMerges
      BY <1>3 DEF NoneMerges
    <2> QED BY <1>1, <2>1, MergeKept
  <1>4. ASSUME NEW c \in Consumers, Read(c) PROVE MergeOnce'
    <2>1. PICK batch : Take(c, batch) /\ batch = {stream[i] :
                  i \in 1..(IF Len(stream) < BatchSize THEN Len(stream) ELSE BatchSize)}
      BY <1>4 DEF Read
    <2>2. batch \in SUBSET Messages
      BY <1>4, <2>1, BatchAssumption DEF IInv, TypeOK, Read
    <2> QED BY <1>1, <1>2, <2>1, <2>2, MergeKept
  <1>5. ASSUME NEW c \in Consumers, Claim(c) PROVE MergeOnce'
    <2>1. PICK batch \in SUBSET Stale : Take(c, batch)
      BY <1>5, Zenon DEF Claim
    <2>2. batch \in SUBSET Messages
      <3>1. pending \subseteq Messages
        BY DEF IInv, TypeOK
      <3> QED BY <2>1, <3>1 DEF Stale
    <2> QED BY <1>1, <1>2, <2>1, <2>2, MergeKept
  <1>6. ASSUME NEW c \in Consumers, Crash(c) PROVE MergeOnce'
    <2>1. Take(c, {})
      BY <1>6 DEF Crash
    <2> QED BY <1>1, <1>2, <2>1, MergeKept
  <1>7. ASSUME \/ InitBarrier
               \/ \E d \in Dispatches : Send(d) \/ DispatchRaises(d)
               \/ UNCHANGED vars
        PROVE  work' = work
    BY <1>7 DEF InitBarrier, Send, PublishTask, EndDispatch, DispatchRaises, vars
  <1> QED BY <1>3, <1>4, <1>5, <1>6, <1>7

LEMMA MergeMove ==
    ASSUME IInv, MergeOnce, NEW c \in Consumers, NEW m \in DOMAIN work[c], NEW t \in Tasks,
           Moves(c, m, t), Merging(t) => Merging(work[c][m]), UNCHANGED <<wins, indexed>>
    PROVE  MergeOnce'
  BY MoveMerges, MergeKept

LEMMA MergeFinish ==
    ASSUME IInv, MergeOnce, NEW c \in Consumers, NEW m \in DOMAIN work[c], Finish(c, m),
           UNCHANGED <<wins, indexed>>
    PROVE  MergeOnce'
  <1>1. /\ \A d \in Consumers : DOMAIN work'[d] \subseteq DOMAIN work[d]
        /\ \A d \in Consumers : \A x \in DOMAIN work'[d] : work'[d][x] = work[d][x]
    BY FinishBatch DEF IInv
  <1>2. NoneMerges
    BY <1>1, FreshMerges
  <1> QED BY <1>2, MergeKept

\* Who is told it is the last is the first to be told so: the barrier has one winner.
LEMMA MergeCheckLast ==
    ASSUME IInv, WinInv, MergeOnce, dispatches <= 1,
           NEW c \in Consumers, NEW m \in DOMAIN work[c], CheckLast(c, m)
    PROVE  MergeOnce'
  <1>1. PICK t \in Tasks : /\ t = [Task("heartbeat") EXCEPT !.last = IsLast(work[c][m].seen)]
                          /\ t.at = "heartbeat" /\ t.last = IsLast(work[c][m].seen)
    <2> DEFINE r == [Task("heartbeat") EXCEPT !.last = IsLast(work[c][m].seen)]
    <2>1. r \in Tasks /\ r.at = "heartbeat" /\ r.last = IsLast(work[c][m].seen)
      BY DEF Tasks, Task, Places, IsLast
    <2> QED BY <2>1
  <1>2. /\ work[c][m].at = "total" /\ indexed' = indexed /\ Moves(c, m, t)
        /\ wins' = IF IsLast(work[c][m].seen) THEN wins + 1 ELSE wins
    BY <1>1 DEF CheckLast, At, Moves
  <1>3. CASE ~IsLast(work[c][m].seen)
    <2>1. ~Merging(t) /\ wins' = wins
      BY <1>1, <1>2, <1>3 DEF Merging
    <2> QED BY <1>2, <2>1, MergeMove
  <1>4. CASE IsLast(work[c][m].seen)
    <2>1. wins = 0 /\ wins' # 0
      <3>1. <<c, m>> \in Due
        BY <1>2, <1>4, TaskAt, Dispatched DEF IsLast, Drawn, Due
      <3>2. IsFiniteSet(Due) /\ Cardinality(Due) \in Nat
        BY FS_CardinalityType DEF WinInv
      <3>3. Cardinality(Due) # 0
        BY <3>1, <3>2, FS_EmptySet
      <3>4. wins \in Nat /\ dispatches \in Nat /\ Chance \in Nat
        BY BoundsAssumption DEF IInv, TypeOK, Chance
      <3>5. wins + Cardinality(Due) + Chance <= 1
        BY <3>2, <3>4 DEF WinInv
      <3> QED BY <1>2, <1>4, <3>2, <3>3, <3>4, <3>5
    <2>2. indexed' = <<>> /\ \A d \in Consumers : \A x \in DOMAIN work[d] : ~Merging(work[d][x])
      BY <1>2, <2>1 DEF MergeOnce
    <2>3. \A d \in Consumers : \A x \in DOMAIN work'[d] : Merging(work'[d][x]) => d = c /\ x = m
      <3>1. /\ \A d \in Consumers : DOMAIN work'[d] = DOMAIN work[d]
            /\ \A d \in Consumers : \A x \in DOMAIN work[d] :
                  (d # c \/ x # m) => work'[d][x] = work[d][x]
        BY <1>2, TaskMoves DEF IInv, Moves
      <3> QED BY <2>2, <3>1
    <2> QED BY <2>1, <2>2, <2>3 DEF MergeOnce
  <1> QED BY <1>3, <1>4

\* The task that merges was the only one.
LEMMA MergeStore ==
    ASSUME IInv, MergeOnce, NEW c \in Consumers, NEW m \in DOMAIN work[c], Store(c, m)
    PROVE  MergeOnce' /\ indexed = <<>>
  <1>1. /\ work[c][m].at = "store" /\ wins' = wins /\ Moves(c, m, Task("ack"))
        /\ Task("ack") \in Tasks /\ ~Merging(Task("ack"))
    BY TaskTyped DEF Store, At, Moves, Merging, Places
  <1>2. Merging(work[c][m])
    BY <1>1 DEF Merging
  <1>3. wins # 0 /\ indexed = <<>>
    BY <1>2 DEF MergeOnce
  <1>4. \A d \in Consumers : \A x \in DOMAIN work[d] : Merging(work[d][x]) => d = c /\ x = m
    BY <1>2 DEF MergeOnce
  <1>5. \A d \in Consumers : \A x \in DOMAIN work'[d] : ~Merging(work'[d][x])
    <2>1. /\ \A d \in Consumers : DOMAIN work'[d] = DOMAIN work[d]
          /\ work'[c][m] = Task("ack")
          /\ \A d \in Consumers : \A x \in DOMAIN work[d] :
                (d # c \/ x # m) => work'[d][x] = work[d][x]
      BY <1>1, TaskMoves DEF IInv, Moves
    <2> QED BY <1>1, <1>4, <2>1
  <1> QED BY <1>1, <1>3, <1>5 DEF MergeOnce

LEMMA MergeProcess ==
    ASSUME IInv, WinInv, MergeOnce, dispatches <= 1,
           NEW c \in Consumers, NEW m \in DOMAIN work[c], Process(c, m) \/ TaskRaises(c, m)
    PROVE  MergeOnce'
  <1>1. CASE TaskRaises(c, m) \/ Ack(c, m)
    <2>1. Finish(c, m) /\ UNCHANGED <<wins, indexed>>
      BY <1>1 DEF TaskRaises, Ack, results
    <2> QED BY <2>1, MergeFinish
  <1>2. CASE HasParent(c, m) \/ OpenCheckpoint(c, m) \/ WriteCheckpoint(c, m)
    <2>1. /\ UNCHANGED <<wins, indexed>>
          /\ \E place \in {"extract", "write", "increment"} : Goto(c, m, place)
      BY <1>2 DEF HasParent, OpenCheckpoint, WriteCheckpoint, results
    <2>2. PICK t \in Tasks : t.at \in {"extract", "write", "increment"} /\ Moves(c, m, t)
      BY <2>1, GotoMoves DEF Moves, Places
    <2>3. ~Merging(t)
      BY <2>2 DEF Merging
    <2> QED BY <2>1, <2>2, <2>3, MergeMove
  <1>3. CASE Increment(c, m)
    <2> DEFINE t == [work[c][m] EXCEPT !.at = "total", !.seen = completed + 1]
    <2>1. t \in Tasks /\ t.at = "total"
      <3>1. completed + 1 \in Nat /\ "total" \in Places /\ work[c][m] \in Tasks
        BY TaskAt DEF IInv, TypeOK, Places
      <3> QED BY <3>1 DEF Tasks
    <2>2. Moves(c, m, t) /\ UNCHANGED <<wins, indexed>>
      BY <1>3 DEF Increment, Moves, results
    <2> HIDE DEF t
    <2>3. ~Merging(t)
      BY <2>1 DEF Merging
    <2> QED BY <2>1, <2>2, <2>3, MergeMove
  <1>4. CASE Heartbeat(c, m)
    <2> DEFINE place == IF work[c][m].last THEN "gather" ELSE "ack"
    <2>1. /\ UNCHANGED <<wins, indexed>> /\ Goto(c, m, place) /\ work[c][m].at = "heartbeat"
          /\ place \in Places /\ place \in {"gather", "ack"}
          /\ (place = "gather" => work[c][m].last)
      BY <1>4 DEF Heartbeat, At, results, Places
    <2> HIDE DEF place
    <2>2. PICK t \in Tasks : t.at = place /\ Moves(c, m, t)
      BY <2>1, GotoMoves DEF Moves
    <2>3. Merging(t) => Merging(work[c][m])
      BY <2>1, <2>2 DEF Merging
    <2> QED BY <2>1, <2>2, <2>3, MergeMove
  <1>5. CASE Gather(c, m)
    <2> DEFINE t == [Task("store") EXCEPT !.parts = {p \in Parents : checkpoint[p] = "whole"}]
    <2>1. t \in Tasks /\ Merging(work[c][m])
      BY <1>5 DEF Tasks, Task, Places, Gather, At, Merging
    <2>2. UNCHANGED <<wins, indexed>>
      BY <1>5 DEF Gather, results
    <2>3. Finish(c, m) \/ Moves(c, m, t)
      BY <1>5 DEF Gather, Moves
    <2> HIDE DEF t
    <2> QED BY <2>1, <2>2, <2>3, MergeFinish, MergeMove
  <1> QED BY <1>1, <1>2, <1>3, <1>4, <1>5, MergeCheckLast, MergeStore DEF Process

LEMMA InitMerge == Init => MergeInv
  <1> SUFFICES ASSUME Init PROVE MergeOnce
    BY DEF MergeInv
  <1>1. \A c \in Consumers : DOMAIN work[c] = {}
    <2>1. DOMAIN Batch({}) = {}
      BY DEF Batch
    <2> QED BY <2>1 DEF Init
  <1> QED BY <1>1 DEF Init, MergeOnce

LEMMA NextMerge == IInv /\ WinInv /\ MergeInv /\ [Next]_vars => MergeInv'
  <1> SUFFICES ASSUME IInv, WinInv, MergeInv, [Next]_vars, ~(dispatches' > 1) PROVE MergeOnce'
    BY DEF MergeInv
  <1>1. dispatches \in Nat /\ (dispatches' = dispatches \/ dispatches' = dispatches + 1)
    <2>1. dispatches \in Nat
      BY BoundsAssumption DEF IInv, TypeOK
    <2>2. InitBarrier \/ dispatches' = dispatches
      BY StepRemembers DEF Remembered
    <2> QED BY <2>1, <2>2 DEF InitBarrier
  <1>2. dispatches <= 1 /\ MergeOnce
    BY <1>1 DEF MergeInv
  <1>3. ASSUME NEW c \in Consumers, NEW m \in DOMAIN work[c], Process(c, m) \/ TaskRaises(c, m)
        PROVE  MergeOnce'
    BY <1>2, <1>3, MergeProcess
  <1> QED BY <1>2, <1>3, MergeQueue DEF Next

-----------------------------------------------------------------------------
(* The scatter-gather that the extraction implements. *)

Whole == {p \in Parents : checkpoint[p] = "whole"}

\* What of the state the scatter-gather shows, but for the disturbance.
shown == <<dispatches > 0, Whole, indexed # <<>>>>
\* A step without a disturbance before it or by it.
StaysCalm == ~(Disturbed \/ CutShort) /\ ~(Disturbed' \/ CutShort')

\* Steps that finish no part and merge nothing.
LEMMA Stutters ==
    ASSUME UNCHANGED <<dispatches, indexed>>, Whole' = Whole
    PROVE  UNCHANGED shown
  BY DEF shown, Whole

\* Opening the file of a part that has none leaves the finished parts alone, and
\* writing it finishes the part.
LEMMA FilesScatter ==
    ASSUME IInv, WinInv, Calm, StaysCalm, NEW c \in Consumers, NEW m \in DOMAIN work[c],
           OpenCheckpoint(c, m) \/ WriteCheckpoint(c, m)
    PROVE  Abstract!Next \/ UNCHANGED shown
  <1>1. /\ m.parent \in Parents /\ UNCHANGED <<dispatches, indexed>> /\ dispatches > 0
        /\ checkpoint \in [Parents -> {"absent", "torn", "whole"}]
        /\ Standing(work[c][m], m.parent)
    BY TaskAt, Dispatched DEF IInv, TypeOK, Calm, AllStand, OpenCheckpoint, WriteCheckpoint,
                              saga, results
  <1>2. CASE OpenCheckpoint(c, m)
    <2>1. /\ checkpoint[m.parent] = "absent"
          /\ checkpoint' = [checkpoint EXCEPT ![m.parent] = "torn"]
      BY <1>1, <1>2 DEF OpenCheckpoint, At, Standing
    <2>2. Whole' = Whole
      BY <1>1, <2>1 DEF Whole
    <2> QED BY <1>1, <2>2, Stutters
  <1>3. CASE WriteCheckpoint(c, m)
    <2>1. checkpoint[m.parent] = "torn"
      BY <1>1, <1>3 DEF WriteCheckpoint, At, Standing
    <2>2. checkpoint' = [checkpoint EXCEPT ![m.parent] = "whole"]
      BY <1>3, <2>1 DEF WriteCheckpoint
    <2>3. Whole' = Whole \cup {m.parent} /\ m.parent \notin Whole
      BY <1>1, <2>1, <2>2 DEF Whole
    <2>4. Abstract!Finish(m.parent)
      BY <1>1, <2>3 DEF Abstract!Finish, Abstract!Calm, StaysCalm, Whole
    <2> QED BY <1>1, <2>4 DEF Abstract!Next
  <1> QED BY <1>2, <1>3

\* What is stored is the merge of all parts, and the first.
LEMMA StoreMerges ==
    ASSUME IInv, Calm, MergeOnce, StaysCalm, NEW c \in Consumers, NEW m \in DOMAIN work[c], Store(c, m)
    PROVE  Abstract!Next
  <1>1. /\ UNCHANGED <<dispatches, checkpoint>> /\ Counted = Parents
        /\ indexed' = Append(indexed, work[c][m].parts)
    BY DEF Store, At, saga, Calm, AllStand, Standing
  <1>2. Whole = Parents /\ Whole' = Whole
    BY <1>1 DEF Whole, Counted
  <1>3. indexed = <<>> /\ indexed' # <<>>
    BY <1>1, MergeStore
  <1> QED BY <1>1, <1>2, <1>3 DEF Abstract!Next, Abstract!Merge, Abstract!Calm, StaysCalm, Whole

LEMMA StepScatters ==
    ASSUME IInv, WinInv, CalmInv, MergeInv, [Next]_vars, StaysCalm
    PROVE  Abstract!Next \/ UNCHANGED shown
  <1>1. CASE InitBarrier
    <2>1. dispatches \in Nat /\ dispatches' = dispatches + 1 /\ ~(dispatches' > 1)
      BY <1>1, BoundsAssumption DEF InitBarrier, IInv, TypeOK, Disturbed, StaysCalm
    <2>2. UNCHANGED <<indexed, checkpoint>> /\ dispatches = 0 /\ dispatches' = 1
      BY <1>1, <2>1 DEF InitBarrier, results
    <2>3. Abstract!Start
      BY <2>2 DEF Abstract!Start, Abstract!Calm, StaysCalm, Whole
    <2> QED BY <2>3 DEF Abstract!Next
  <1>2. ASSUME ~InitBarrier PROVE UNCHANGED dispatches /\ Calm /\ MergeOnce
    <2>1. dispatches' = dispatches
      BY <1>2, StepRemembers DEF Remembered
    <2>2. ~Disturbed /\ ~(dispatches > 1)
      BY DEF Disturbed, StaysCalm
    <2> QED BY <2>1, <2>2 DEF CalmInv, MergeInv
  <1>3. ASSUME ~InitBarrier, UNCHANGED <<checkpoint, indexed>> PROVE UNCHANGED shown
    BY <1>2, <1>3, Stutters DEF Whole
  <1>4. ASSUME NEW c \in Consumers, NEW m \in DOMAIN work[c],
               OpenCheckpoint(c, m) \/ WriteCheckpoint(c, m) \/ Store(c, m), ~InitBarrier
        PROVE  Abstract!Next \/ UNCHANGED shown
    BY <1>2, <1>4, FilesScatter, StoreMerges
  <1>5. \/ InitBarrier
        \/ \E c \in Consumers : \E m \in DOMAIN work[c] :
              OpenCheckpoint(c, m) \/ WriteCheckpoint(c, m) \/ Store(c, m)
        \/ UNCHANGED <<checkpoint, indexed>>
    BY StepRemembers DEF Idle
  <1> QED BY <1>1, <1>3, <1>4, <1>5

\* A disturbance is never undone.
LEMMA DisturbanceStays ==
    ASSUME IInv, [Next]_vars, Disturbed \/ CutShort
    PROVE  Disturbed' \/ CutShort'
  <1>0. dispatches \in Nat /\ sent \in [Dispatches -> 0..Total] /\ dispatches \in 0..MaxDispatches
    BY BoundsAssumption DEF IInv, TypeOK
  <1>1. CASE InitBarrier
    <2>1. dispatches' = dispatches + 1 /\ redelivered' = redelivered
      BY <1>1 DEF InitBarrier, history
    <2>2. CASE Disturbed
      BY <1>0, <2>1, <2>2 DEF Disturbed
    <2>3. CASE CutShort
      <3>1. dispatches # 0
        BY <1>0, <2>3 DEF CutShort
      <3> QED BY <1>0, <2>1, <3>1 DEF Disturbed
    <2> QED BY <2>2, <2>3
  <1>2. ASSUME ~InitBarrier PROVE Remembered
    BY <1>2, StepRemembers
  <1>3. ASSUME ~InitBarrier, Disturbed PROVE Disturbed'
    BY <1>2, <1>3 DEF Remembered, Disturbed
  <1>4. ASSUME ~InitBarrier, CutShort PROVE CutShort'
    <2>1. PICK d \in 1..dispatches : d \notin sending /\ sent[d] < Total
      BY <1>4 DEF CutShort
    <2>2. d \in Dispatches /\ dispatches' = dispatches
      BY <1>0, <1>2, <1>4, BoundsAssumption DEF Dispatches, Remembered
    <2>3. d \notin sending' /\ sent'[d] = sent[d]
      <3>1. ASSUME NEW e \in Dispatches, Send(e) \/ DispatchRaises(e)
            PROVE  d \notin sending' /\ sent'[d] = sent[d]
        BY <1>0, <2>1, <2>2, <3>1 DEF Send, PublishTask, EndDispatch, DispatchRaises
      <3>2. ASSUME NEW c \in Consumers, Read(c) \/ Claim(c) \/ Crash(c)
            PROVE  d \notin sending' /\ sent'[d] = sent[d]
        BY <2>1, <3>2 DEF Read, Claim, Crash, saga
      <3>3. ASSUME NEW c \in Consumers, NEW m \in DOMAIN work[c],
                   Process(c, m) \/ TaskRaises(c, m)
            PROVE  d \notin sending' /\ sent'[d] = sent[d]
        <4>1. UNCHANGED saga
          BY <3>3 DEF Process, TaskRaises, HasParent, OpenCheckpoint, WriteCheckpoint,
                      Increment, CheckLast, Heartbeat, Gather, Store, Ack
        <4> QED BY <2>1, <4>1 DEF saga
      <3>4. CASE UNCHANGED vars
        BY <2>1, <3>4 DEF vars, saga
      <3> QED BY <1>4, <3>1, <3>2, <3>3, <3>4 DEF Next
    <2> QED BY <2>1, <2>2, <2>3 DEF CutShort
  <1> QED BY <1>1, <1>3, <1>4

\* The saga, the stream, the workers and the barrier (handle_document_chunked,
\* process_task, RedisStreamJobQueue, AtomicJobBarrier) implement the scatter-gather:
\* until a message is delivered again, the document dispatched anew or its dispatch cut
\* short, the parts are handed out once, each is finished once, and they are merged once,
\* when all are finished.  Exceptions and killed processes are among the steps.
THEOREM RefinesScatterGather == Spec => Abstract!Spec
  <1>1. Init => Abstract!Init
    <2> SUFFICES ASSUME Init PROVE Abstract!Init
      OBVIOUS
    <2>1. (Disturbed \/ CutShort) = FALSE
      BY DEF Init, Disturbed, CutShort
    <2>2. (dispatches > 0) = FALSE /\ (indexed # <<>>) = FALSE
      BY DEF Init
    <2>3. {p \in Parents : checkpoint[p] = "whole"} = {}
      BY DEF Init
    <2> QED BY <2>1, <2>2, <2>3 DEF Abstract!Init
  <1>2. Spec => []WinInv
    BY InitWinInv, NextWinInv, Inductive, PTL DEF Spec
  <1>3. Spec => []CalmInv
    BY InitCalm, NextCalm, Inductive, <1>2, PTL DEF Spec
  <1>4. Spec => []MergeInv
    BY InitMerge, NextMerge, Inductive, <1>2, PTL DEF Spec
  <1>5. /\ IInv /\ WinInv /\ CalmInv /\ MergeInv /\ [Next]_vars
        => [Abstract!Next]_(Abstract!vars)
    <2> SUFFICES ASSUME IInv, WinInv, CalmInv, MergeInv, [Next]_vars
                 PROVE  [Abstract!Next]_(Abstract!vars)
      OBVIOUS
    <2>1. CASE Disturbed' \/ CutShort'
      BY <2>1 DEF Abstract!Next, Abstract!Disturb
    <2>2. CASE ~(Disturbed' \/ CutShort')
      <3>1. StaysCalm
        BY <2>2, DisturbanceStays DEF StaysCalm
      <3>2. CASE Abstract!Next
        BY <3>2
      <3>3. CASE UNCHANGED shown
        <4>1. (Disturbed \/ CutShort)' = (Disturbed \/ CutShort)
          BY <3>1 DEF StaysCalm
        <4> QED BY <3>3, <4>1 DEF Abstract!vars, shown, Whole
      <3> QED BY <3>1, <3>2, <3>3, StepScatters
    <2> QED BY <2>1, <2>2
  <1> QED BY <1>1, <1>2, <1>3, <1>4, <1>5, Inductive, PTL DEF Spec, Abstract!Spec
=============================================================================
