------------------------ MODULE DocumentStreamProofs ------------------------
(***************************************************************************)
(* What TLAPS proves about DocumentStream, for any number of writers and   *)
(* any bounds: the inductive invariant IInv below and, from it, that the   *)
(* version of the stream counts its events, that no update is lost, that   *)
(* the stream is created once and that deletion is final; then that no     *)
(* stage ends more often than the event that triggers it occurred, and     *)
(* that the stages of one ingestion do not overlap.                        *)
(***************************************************************************)
EXTENDS DocumentStream, FiniteSetTheorems, TLAPS

USE DEF requests

(* The strengthening. *)

\* What a writer loaded is a prefix of the stream as it is now.
LoadedIsPast ==
    \A w \in Writers : pc[w] \in {"working", "appending"} =>
        /\ op[w] \in Ops /\ version[w] \in 0..Len(log)
        /\ status[w] = StatusAt(version[w])

\* Whoever holds the row is appending to the version it has.
LockIsHeld ==
    rowLock # NoWriter => /\ Len(log) > 0 /\ pc[rowLock] = "appending"
                          /\ version[rowLock] = Len(log)

\* A writer past the version check holds the row, unless it found none.
AppendersChecked ==
    \A w \in Writers : pc[w] = "appending" =>
        /\ status[w] # "DELETED"
        /\ rowLock = w \/ version[w] = 0

\* Only committed events are published.
OutboxIsLogged ==
    \A w \in Writers :
        /\ \A i \in DOMAIN outbox[w] : outbox[w][i] \in DOMAIN log
        /\ pc[w] = "publishing" => outbox[w] # <<>> /\ op[w] \in Ops

\* What is known of the requests.
RequestsTyped ==
    /\ streaming \in Modes /\ origin \in {"new", "legacy", "used"}
    /\ reprocesses \in 0..MaxReprocess /\ deletes \in 0..MaxDeletes

IInv == /\ TypeOK /\ VersionCountsEvents
        /\ LoadedIsPast /\ LockIsHeld /\ AppendersChecked /\ OutboxIsLogged

-----------------------------------------------------------------------------
(* The aggregate. *)

\* The tables of the aggregate are what they look like.
LEMMA Tables ==
    /\ EventTypes = {"Attached", "Stored", "Parsed", "Chunked",
                     "GraphExtracted", "Indexed", "Failed", "Deleted"}
    /\ \A e \in EventTypes : /\ StatusOf[e] \in Statuses /\ StatusOf[e] # "NONE"
                             /\ StatusOf[e] = "DELETED" <=> e = "Deleted"
    /\ "NONE" \in Statuses
    /\ Ops = {"Attach", "Reprocess", "HandleStored", "HandleParsed",
              "HandleChunked", "HandleGraphExtracted", "Consolidate",
              "RecordFailure", "Delete"}
    /\ \A e \in DOMAIN HandlerOf : e \in EventTypes /\ HandlerOf[e] \in Ops
  BY DEF EventTypes, StatusOf, Statuses, Ops, Marks, HandlerOf

\* What one save appends: at least one event, the creation first and only for a
\* new stream, a deletion only at the end.
LEMMA Saved ==
    ASSUME NEW o \in Ops, NEW s \in Statuses, s # "DELETED"
    PROVE  /\ Uncommitted(o, s) \in Seq(EventTypes)
           /\ Len(Uncommitted(o, s)) > 0
           /\ \A i \in 1..Len(Uncommitted(o, s)) :
                 /\ (Uncommitted(o, s)[i] = "Attached") <=> (i = 1 /\ s = "NONE")
                 /\ Uncommitted(o, s)[i] = "Deleted" => i = Len(Uncommitted(o, s))
  <1> DEFINE Later == EventTypes \ {"Attached"}
             Good(q) == /\ q \in Seq(Later) /\ Len(q) > 0
                        /\ \A i \in 1..Len(q) : q[i] = "Deleted" => i = Len(q)
  <1>1. Good(Marks[o])
    <2>1. \A e \in Later : Good(<<e>>)
      OBVIOUS
    <2>2. Good(<<"GraphExtracted", "Indexed">>)
      BY Tables
    <2>3. {"Stored", "Parsed", "Chunked", "GraphExtracted", "Indexed", "Failed",
           "Deleted"} \subseteq Later
      BY Tables
    <2>4. \/ \E e \in Later : Marks[o] = <<e>>
          \/ Marks[o] = <<"GraphExtracted", "Indexed">>
      BY <2>3, Tables DEF Marks
    <2> QED BY <2>1, <2>2, <2>4
  <1>2. CASE s = "NONE"
    <2>1. Uncommitted(o, s) = <<"Attached">> \o Marks[o]
      BY <1>2 DEF Uncommitted
    <2>2. "Attached" \in EventTypes
      BY Tables
    <2> DEFINE m == Marks[o]
               u == <<"Attached">> \o m
    <2>3. Good(m)
      BY <1>1
    <2> HIDE DEF m
    <2>4. /\ u \in Seq(EventTypes) /\ Len(u) = 1 + Len(m) /\ u[1] = "Attached"
          /\ \A i \in 2..Len(u) : u[i] = m[i - 1] /\ i - 1 \in 1..Len(m)
      BY <2>2, <2>3
    <2>5. \A i \in 1..Len(m) : m[i] # "Attached"
      BY <2>3
    <2>6. Uncommitted(o, s) = u
      BY <2>1 DEF m
    <2> HIDE DEF u
    <2>7. Len(u) \in Nat /\ Len(m) \in Nat
      BY <2>3, <2>4
    <2>8. \A i \in 1..Len(u) : /\ (u[i] = "Attached") <=> i = 1
                             /\ u[i] = "Deleted" => i = Len(u)
      BY <2>3, <2>4, <2>5, <2>7
    <2> QED BY <1>2, <2>3, <2>4, <2>6, <2>7, <2>8
  <1>3. CASE s # "NONE"
    <2>1. Uncommitted(o, s) = <<>> \o Marks[o]
      BY <1>3 DEF Uncommitted
    <2>2. Uncommitted(o, s) = Marks[o]
      BY <1>1, <2>1
    <2> DEFINE m == Marks[o]
    <2>3. Good(m) /\ Uncommitted(o, s) = m
      BY <1>1, <2>2
    <2> HIDE DEF m
    <2>4. m \in Seq(EventTypes) /\ \A i \in 1..Len(m) : m[i] # "Attached"
      BY <2>3
    <2> QED BY <1>3, <2>3, <2>4
  <1> QED BY <1>2, <1>3

-----------------------------------------------------------------------------
(* The steps, grouped by what they do to the document. *)

\* What replay finds after the first n events, and that it has a status.
LEMMA Replay ==
    ASSUME TypeOK, NEW n \in 0..Len(log)
    PROVE  /\ StatusAt(n) \in Statuses
           /\ n > 0 => StatusAt(n) # "NONE"
           /\ n > 0 /\ StatusAt(n) # "DELETED" => log[n] # "Deleted"
  <1>1. n > 0 => log[n] \in EventTypes
    BY DEF TypeOK
  <1> QED BY <1>1, Tables DEF StatusAt

\* A code path starts by loading the document.
LEMMA LoadStep ==
    ASSUME IInv, NEW w \in Writers, NEW o \in Ops,
           pc[w] \in {"idle", "failing"}, Load(w, o),
           todo' \subseteq todo, jobs' \in Nat, RequestsTyped'
    PROVE  IInv'
  <1> USE DEF Load, SetLocals, store, history, RequestsTyped
  <1>1. StatusAt(Len(log)) \in Statuses /\ Len(log) \in Nat
    BY Replay DEF IInv, TypeOK
  <1>2. TypeOK'
    BY <1>1 DEF IInv, TypeOK
  <1>3. VersionCountsEvents'
    BY DEF IInv, VersionCountsEvents
  <1>4. LoadedIsPast'
    BY <1>1 DEF IInv, TypeOK, LoadedIsPast, StatusAt
  <1>5. LockIsHeld'
    BY DEF IInv, TypeOK, LockIsHeld
  <1>6. AppendersChecked'
    BY DEF IInv, TypeOK, AppendersChecked
  <1>7. OutboxIsLogged'
    BY DEF IInv, TypeOK, OutboxIsLogged
  <1> QED BY <1>2, <1>3, <1>4, <1>5, <1>6, <1>7 DEF IInv

\* A code path gives up or returns without touching the stream.
Leaves(w) ==
    /\ \E place \in {"idle", "failing"} : SetLocals(w, place, "none", 0)
    /\ log' = log /\ streamVersion' = streamVersion
    /\ \/ rowLock' = rowLock /\ rowLock # w
       \/ rowLock' = NoWriter /\ rowLock \in {w, NoWriter}
    /\ todo' \subseteq DOMAIN log /\ \A v \in todo' : log[v] \in DOMAIN HandlerOf
    /\ jobs' \in Nat /\ UNCHANGED <<streaming, requests>>
    /\ raises' \in 0..MaxRaises /\ crashes' = crashes /\ conflicted' \in BOOLEAN
    /\ outbox' = outbox \/ outbox' = [outbox EXCEPT ![w] = <<>>]

LEMMA EmptyOutbox == \A q : q = <<>> => DOMAIN q = {}
  OBVIOUS

LEMMA LeaveStep ==
    ASSUME IInv, NEW w \in Writers, Leaves(w)
    PROVE  IInv'
  <1> PICK place \in {"idle", "failing"} : SetLocals(w, place, "none", 0)
    BY DEF Leaves
  <1> USE DEF SetLocals, Leaves
  <1>1. StatusAt(0) \in Statuses
    BY Tables DEF StatusAt
  <1>2. TypeOK'
    <2>1. outbox' \in [Writers -> Seq(Nat)]
      <3>1. <<>> \in Seq(Nat) /\ outbox \in [Writers -> Seq(Nat)]
        BY DEF IInv, TypeOK
      <3>2. CASE outbox' = [outbox EXCEPT ![w] = <<>>]
        BY <3>1, <3>2
      <3> QED BY <3>1, <3>2
    <2>2. /\ pc' \in [Writers -> {"idle", "working", "appending", "publishing", "failing"}]
          /\ op' \in [Writers -> Ops \cup {"none"}]
          /\ version' \in [Writers -> Nat] /\ status' \in [Writers -> Statuses]
      BY <1>1 DEF IInv, TypeOK
    <2>3. rowLock' \in Writers \cup {NoWriter}
      BY DEF IInv, TypeOK
    <2> QED BY <2>1, <2>2, <2>3 DEF IInv, TypeOK
  <1>3. VersionCountsEvents'
    BY DEF IInv, VersionCountsEvents
  <1>4. LoadedIsPast'
    BY DEF IInv, TypeOK, LoadedIsPast, StatusAt
  <1>5. LockIsHeld'
    BY DEF IInv, TypeOK, LockIsHeld
  <1>6. AppendersChecked'
    <2> SUFFICES ASSUME NEW x \in Writers, pc'[x] = "appending"
                 PROVE  status'[x] # "DELETED" /\ (rowLock' = x \/ version'[x] = 0)
      BY DEF AppendersChecked
    <2>1. x # w /\ pc[x] = "appending" /\ status'[x] = status[x] /\ version'[x] = version[x]
      BY DEF IInv, TypeOK, SetLocals
    <2>2. status[x] # "DELETED" /\ (rowLock = x \/ version[x] = 0)
      BY <2>1 DEF IInv, AppendersChecked
    <2>3. rowLock = x => rowLock' = x
      BY <2>1, WritersAssumption DEF Leaves
    <2> QED BY <2>1, <2>2, <2>3
  <1>7. OutboxIsLogged'
    <2> SUFFICES ASSUME NEW x \in Writers
                 PROVE  /\ \A i \in DOMAIN outbox'[x] : outbox'[x][i] \in DOMAIN log'
                        /\ pc'[x] = "publishing" => outbox'[x] # <<>> /\ op'[x] \in Ops
      BY DEF OutboxIsLogged
    <2>1. outbox'[x] = outbox[x] \/ (x = w /\ outbox'[x] = <<>>)
      BY DEF IInv, TypeOK
    <2>2. pc'[x] = "publishing" => x # w /\ pc[x] = "publishing" /\ op'[x] = op[x]
      <3>1. /\ pc \in [Writers -> {"idle", "working", "appending", "publishing", "failing"}]
            /\ op \in [Writers -> Ops \cup {"none"}]
        BY DEF IInv, TypeOK
      <3>2. pc' = [pc EXCEPT ![w] = place] /\ op' = [op EXCEPT ![w] = "none"]
        OBVIOUS
      <3>3. pc'[w] = place /\ (x # w => pc'[x] = pc[x] /\ op'[x] = op[x])
        BY <3>1, <3>2
      <3> QED BY <3>3
    <2>3. \A i \in DOMAIN outbox'[x] : outbox'[x] = outbox[x]
      BY <2>1, EmptyOutbox
    <2>4. pc'[x] = "publishing" => outbox'[x] = outbox[x]
      BY <2>1, <2>2
    <2> QED BY <2>2, <2>3, <2>4 DEF IInv, OutboxIsLogged
  <1> QED BY <1>2, <1>3, <1>4, <1>5, <1>6, <1>7 DEF IInv

\* The version check passes and locks the row, or the save is refused.
LEMMA CheckVersionStep ==
    ASSUME IInv, NEW w \in Writers, CheckVersion(w)
    PROVE  IInv'
  <1>1. CASE streamVersion = version[w]
    <2> USE <1>1 DEF CheckVersion, ReadyToSave, Goto
    <2>1. UNCHANGED <<log, streamVersion, todo, jobs, streaming, requests,
                      raises, crashes, conflicted, op, version, status, outbox>>
      BY DEF queues, locals
    <2>2. /\ pc' = [pc EXCEPT ![w] = "appending"] /\ pc[w] = "working"
          /\ rowLock' = IF streamVersion = 0 THEN rowLock ELSE w
          /\ status[w] # "DELETED"
      BY DEF Uncommitted
    <2>3. streamVersion = Len(log) /\ Len(log) \in Nat
      BY DEF IInv, TypeOK, VersionCountsEvents
    <2>4. TypeOK'
      BY <2>1, <2>2 DEF IInv, TypeOK
    <2>5. VersionCountsEvents'
      BY <2>1 DEF IInv, VersionCountsEvents
    <2>6. LoadedIsPast'
      BY <2>1, <2>2 DEF IInv, TypeOK, LoadedIsPast, StatusAt
    <2>7. LockIsHeld'
      <3>1. CASE streamVersion = 0
        BY <2>1, <2>2, <2>3, <3>1 DEF IInv, LockIsHeld
      <3>2. CASE streamVersion # 0
        <4>1. pc'[w] = "appending" /\ rowLock' = w /\ version'[w] = Len(log')
          BY <2>1, <2>2, <2>3, <3>2 DEF IInv, TypeOK
        <4> QED BY <2>1, <2>3, <3>2, <4>1 DEF LockIsHeld
      <3> QED BY <3>1, <3>2
    <2>8. AppendersChecked'
      BY <2>1, <2>2, <2>3, WritersAssumption
      DEF IInv, TypeOK, AppendersChecked, LockIsHeld, RowFree
    <2>9. OutboxIsLogged'
      BY <2>1, <2>2 DEF IInv, TypeOK, OutboxIsLogged
    <2> QED BY <2>4, <2>5, <2>6, <2>7, <2>8, <2>9 DEF IInv
  <1>2. CASE streamVersion # version[w]
    <2> USE <1>2 DEF CheckVersion, ReadyToSave
    <2>1. rowLock # w
      BY WritersAssumption DEF IInv, LockIsHeld
    <2>2. \E place \in {"idle", "failing"} : SetLocals(w, place, "none", 0)
      BY DEF Raise
    <2>3. /\ UNCHANGED <<log, streamVersion, rowLock, todo, jobs, streaming,
                         requests, raises, crashes, outbox>>
          /\ conflicted' = TRUE
      BY DEF queues
    <2>4. /\ todo \subseteq DOMAIN log /\ \A v \in todo : log[v] \in DOMAIN HandlerOf
          /\ jobs \in Nat /\ raises \in 0..MaxRaises
      BY DEF IInv, TypeOK
    <2>5. Leaves(w)
      BY <2>1, <2>2, <2>3, <2>4 DEF Leaves
    <2> QED BY <2>5, LeaveStep
  <1> QED BY <1>1, <1>2

\* A committed save extends the state its writer saw: nobody came between.
LEMMA CommitSees ==
    ASSUME IInv, NEW w \in Writers, Commit(w)
    PROVE  /\ op[w] \in Ops /\ status[w] \in Statuses /\ status[w] # "DELETED"
           /\ version[w] = Len(log) /\ status[w] = StatusAt(Len(log))
  <1>1. /\ op[w] \in Ops /\ version[w] \in 0..Len(log) /\ status[w] # "DELETED"
        /\ status[w] = StatusAt(version[w]) /\ status[w] \in Statuses
    BY DEF IInv, TypeOK, Commit, LoadedIsPast, AppendersChecked
  <1>2. version[w] + 1 > Len(log) /\ Len(log) \in Nat
    BY DEF Commit, Unique, IInv, TypeOK
  <1> QED BY <1>1, <1>2

LEMMA CommitStep ==
    ASSUME IInv, NEW w \in Writers, Commit(w)
    PROVE  IInv'
  <1> DEFINE events == Uncommitted(op[w], status[w])
             k == Len(log)
  <1>1. /\ op[w] \in Ops /\ status[w] \in Statuses /\ status[w] # "DELETED"
        /\ version[w] = k /\ status[w] = StatusAt(k) /\ k \in Nat
    BY CommitSees DEF IInv, TypeOK
  <1>2. events \in Seq(EventTypes) /\ Len(events) \in Nat \ {0}
    BY <1>1, Saved
  <1>3. /\ log' = log \o events
        /\ streamVersion' = k + Len(events)
        /\ outbox' = [outbox EXCEPT ![w] = [i \in 1..Len(events) |-> k + i]]
        /\ rowLock' = IF rowLock = w THEN NoWriter ELSE rowLock
        /\ pc' = [pc EXCEPT ![w] = "publishing"] /\ op' = [op EXCEPT ![w] = op[w]]
        /\ version' = [version EXCEPT ![w] = 0]
        /\ status' = [status EXCEPT ![w] = "NONE"]
        /\ UNCHANGED <<todo, jobs, streaming, requests, raises, crashes, conflicted>>
        /\ pc[w] = "appending"
        /\ streamVersion = 0 \/ rowLock \in {w, NoWriter}
    BY <1>1 DEF Commit, Unlock, SetLocals, StatusAt, queues, history, RowFree
  <1> HIDE DEF events
  <1>4. /\ log' \in Seq(EventTypes) /\ Len(log') = k + Len(events)
        /\ \A i \in 1..k : log'[i] = log[i] /\ i \in DOMAIN log'
        /\ log \in Seq(EventTypes)
    BY <1>1, <1>2, <1>3 DEF IInv, TypeOK
  <1>5. rowLock' = NoWriter
    BY <1>1, <1>3 DEF IInv, LockIsHeld, VersionCountsEvents
  <1>6. TypeOK'
    <2>1. [i \in 1..Len(events) |-> k + i] \in Seq(Nat)
      BY <1>1, <1>2
    <2>2. outbox' \in [Writers -> Seq(Nat)]
      BY <1>3, <2>1 DEF IInv, TypeOK
    <2>3. todo' \subseteq DOMAIN log' /\ \A v \in todo' : log'[v] \in DOMAIN HandlerOf
      BY <1>1, <1>3, <1>4 DEF IInv, TypeOK
    <2>4. "NONE" \in Statuses
      BY Tables
    <2> QED BY <1>1, <1>2, <1>3, <1>4, <1>5, <2>2, <2>3, <2>4 DEF IInv, TypeOK
  <1>7. VersionCountsEvents'
    BY <1>3, <1>4 DEF VersionCountsEvents
  <1>8. LoadedIsPast'
    <2> SUFFICES ASSUME NEW x \in Writers, pc'[x] \in {"working", "appending"}
                 PROVE  /\ op'[x] \in Ops /\ version'[x] \in 0..Len(log')
                        /\ status'[x] = StatusAt(version[x])'
      BY <1>3 DEF LoadedIsPast, IInv, TypeOK
    <2>1. x # w /\ pc[x] \in {"working", "appending"} /\ op'[x] = op[x]
          /\ version'[x] = version[x] /\ status'[x] = status[x]
      BY <1>3 DEF IInv, TypeOK
    <2>2. op[x] \in Ops /\ version[x] \in 0..k /\ status[x] = StatusAt(version[x])
      BY <2>1 DEF IInv, LoadedIsPast
    <2>3. StatusAt(version[x])' = StatusAt(version[x])
      BY <1>1, <1>4, <2>1, <2>2 DEF StatusAt
    <2> QED BY <1>1, <1>2, <1>4, <2>1, <2>2, <2>3
  <1>9. LockIsHeld'
    BY <1>5 DEF LockIsHeld
  <1>10. AppendersChecked'
    BY <1>1, <1>3, <1>5, WritersAssumption
    DEF IInv, TypeOK, AppendersChecked, VersionCountsEvents, LockIsHeld
  <1>11. OutboxIsLogged'
    <2> SUFFICES ASSUME NEW x \in Writers
                 PROVE  /\ \A i \in DOMAIN outbox'[x] : outbox'[x][i] \in DOMAIN log'
                        /\ pc'[x] = "publishing" => outbox'[x] # <<>> /\ op'[x] \in Ops
      BY DEF OutboxIsLogged
    <2>1. CASE x = w
      <3>1. outbox'[x] = [i \in 1..Len(events) |-> k + i]
        BY <1>3, <2>1 DEF IInv, TypeOK
      <3>2. op'[x] \in Ops
        BY <1>1, <1>3, <2>1 DEF IInv, TypeOK
      <3>3. DOMAIN outbox'[x] # {}
        BY <1>2, <3>1
      <3> QED BY <1>1, <1>2, <1>4, <3>1, <3>2, <3>3
    <2>2. CASE x # w
      BY <1>1, <1>3, <1>4, <2>2 DEF IInv, TypeOK, OutboxIsLogged
    <2> QED BY <2>1, <2>2
  <1> QED BY <1>6, <1>7, <1>8, <1>9, <1>10, <1>11 DEF IInv

\* Publishing starts handlers of committed events only.
LEMMA PublishStep ==
    ASSUME IInv, NEW w \in Writers, Publish(w)
    PROVE  IInv'
  <1> DEFINE v == Head(outbox[w])
  <1>1. /\ outbox[w] \in Seq(Nat) /\ outbox[w] # <<>> /\ op[w] \in Ops
        /\ v \in DOMAIN log /\ log \in Seq(EventTypes) /\ rowLock # w
        /\ \A i \in DOMAIN outbox[w] : outbox[w][i] \in DOMAIN log
    BY WritersAssumption DEF IInv, TypeOK, OutboxIsLogged, LockIsHeld, Publish
  <1>2. /\ todo' \subseteq DOMAIN log /\ \A x \in todo' : log[x] \in DOMAIN HandlerOf
        /\ jobs \in Nat /\ raises' \in 0..MaxRaises /\ conflicted \in BOOLEAN
    <2>1. /\ todo \subseteq DOMAIN log /\ \A x \in todo : log[x] \in DOMAIN HandlerOf
          /\ jobs \in Nat /\ raises \in 0..MaxRaises /\ conflicted \in BOOLEAN
      BY DEF IInv, TypeOK
    <2>2. todo' = todo \cup Started(v) /\ (UNCHANGED raises \/ Fault)
      BY DEF Publish
    <2>3. raises' \in 0..MaxRaises
      BY <2>1, <2>2, BoundsAssumption DEF Fault
    <2> QED BY <1>1, <2>1, <2>2, <2>3 DEF Started
  <1>3. UNCHANGED <<log, streamVersion, rowLock, jobs, streaming, requests,
                    crashes, conflicted>> /\ pc[w] = "publishing"
    BY DEF Publish, store
  <1>4. CASE /\ outbox' = [outbox EXCEPT ![w] = <<>>]
             /\ Raise(w)
    <2>1. \E place \in {"idle", "failing"} : SetLocals(w, place, "none", 0)
      BY <1>4 DEF Raise
    <2>2. Leaves(w)
      BY <1>1, <1>2, <1>3, <1>4, <2>1 DEF Leaves
    <2> QED BY <2>2, LeaveStep
  <1>5. CASE /\ outbox' = [outbox EXCEPT ![w] = Tail(@)]
             /\ Tail(outbox[w]) = <<>> /\ Return(w)
    <2>1. outbox' = [outbox EXCEPT ![w] = <<>>]
      BY <1>5
    <2>2. Leaves(w)
      BY <1>1, <1>2, <1>3, <1>5, <2>1 DEF Leaves, Return
    <2> QED BY <2>2, LeaveStep
  <1>6. CASE /\ outbox' = [outbox EXCEPT ![w] = Tail(@)]
             /\ Tail(outbox[w]) # <<>> /\ Goto(w, "publishing")
    <2>1. UNCHANGED <<pc, op, version, status>>
      BY <1>3, <1>6 DEF Goto, locals, IInv, TypeOK
    <2>2. /\ Tail(outbox[w]) \in Seq(Nat)
          /\ \A i \in DOMAIN Tail(outbox[w]) : Tail(outbox[w])[i] \in DOMAIN log
      BY <1>1
    <2>3. TypeOK'
      <3>1. outbox' \in [Writers -> Seq(Nat)]
        BY <1>6, <2>2 DEF IInv, TypeOK
      <3> QED BY <1>2, <1>3, <2>1, <3>1 DEF IInv, TypeOK
    <2>4. VersionCountsEvents' /\ LoadedIsPast' /\ LockIsHeld' /\ AppendersChecked'
      BY <1>3, <2>1 DEF IInv, VersionCountsEvents, LoadedIsPast, LockIsHeld,
                        AppendersChecked, StatusAt
    <2>5. OutboxIsLogged'
      BY <1>1, <1>3, <1>6, <2>1, <2>2 DEF IInv, TypeOK, OutboxIsLogged
    <2> QED BY <2>3, <2>4, <2>5 DEF IInv
  <1>7. \/ outbox' = [outbox EXCEPT ![w] = Tail(@)]
           /\ IF Tail(outbox[w]) = <<>> THEN Return(w) ELSE Goto(w, "publishing")
        \/ outbox' = [outbox EXCEPT ![w] = <<>>] /\ Raise(w)
    BY DEF Publish
  <1> QED BY <1>4, <1>5, <1>6, <1>7

\* A restart forgets the tasks and the locks and keeps the stream.
LEMMA CrashStep ==
    ASSUME IInv, Crash
    PROVE  IInv'
  <1> USE DEF Crash
  <1>1. "NONE" \in Statuses /\ <<>> \in Seq(Nat)
    BY Tables
  <1>2. TypeOK'
    BY <1>1, BoundsAssumption DEF IInv, TypeOK
  <1>3. VersionCountsEvents'
    BY DEF IInv, VersionCountsEvents
  <1>4. LoadedIsPast' /\ LockIsHeld' /\ AppendersChecked' /\ OutboxIsLogged'
    BY DEF LoadedIsPast, LockIsHeld, AppendersChecked, OutboxIsLogged
  <1> QED BY <1>2, <1>3, <1>4 DEF IInv

LEMMA InitIInv == Init => IInv
  <1> SUFFICES ASSUME Init PROVE IInv
    OBVIOUS
  <1> USE DEF Init
  <1>1. "NONE" \in Statuses /\ <<>> \in Seq(Nat) /\ <<>> \in Seq(EventTypes)
    BY Tables
  <1>2. TypeOK
    <2>1. /\ pc \in [Writers -> {"idle", "working", "appending", "publishing", "failing"}]
          /\ op \in [Writers -> Ops \cup {"none"}]
          /\ version \in [Writers -> Nat] /\ status \in [Writers -> Statuses]
          /\ outbox \in [Writers -> Seq(Nat)]
      BY <1>1
    <2>2. /\ RequestsTyped
          /\ raises \in 0..MaxRaises /\ crashes \in 0..MaxCrashes
      BY BoundsAssumption, OriginsAssumption DEF RequestsTyped
    <2> QED BY <1>1, <2>1, <2>2 DEF TypeOK, RequestsTyped
  <1>3. VersionCountsEvents
    BY DEF VersionCountsEvents
  <1>4. LoadedIsPast /\ LockIsHeld /\ AppendersChecked /\ OutboxIsLogged
    BY DEF LoadedIsPast, LockIsHeld, AppendersChecked, OutboxIsLogged
  <1> QED BY <1>2, <1>3, <1>4 DEF IInv

\* The lock of a writer that is not appending is not its own.
LEMMA NotHolder ==
    ASSUME IInv, NEW w \in Writers, pc[w] # "appending"
    PROVE  rowLock # w
  BY WritersAssumption DEF IInv, LockIsHeld

LEMMA NextIInv == IInv /\ [Next]_vars => IInv'
  <1> SUFFICES ASSUME IInv, [Next]_vars PROVE IInv'
    OBVIOUS
  <1>1. /\ todo \subseteq DOMAIN log /\ \A v \in todo : log[v] \in DOMAIN HandlerOf
        /\ jobs \in Nat /\ raises \in 0..MaxRaises /\ conflicted \in BOOLEAN
        /\ RequestsTyped
    BY DEF IInv, TypeOK, RequestsTyped
  <1>2. ASSUME NEW w \in Writers, Attach(w) PROVE IInv'
    BY <1>1, <1>2, LoadStep, Tables, BoundsAssumption DEF Attach, RequestsTyped
  <1>3. ASSUME NEW w \in Writers, Reprocess(w) PROVE IInv'
    BY <1>1, <1>3, LoadStep, Tables, BoundsAssumption DEF Reprocess, RequestsTyped
  <1>4. ASSUME NEW w \in Writers, Delete(w) PROVE IInv'
    BY <1>1, <1>4, LoadStep, Tables, BoundsAssumption DEF Delete, queues, RequestsTyped
  <1>5. ASSUME NEW w \in Writers, NEW v \in todo, Handle(w, v) PROVE IInv'
    BY <1>1, <1>5, LoadStep, Tables, BoundsAssumption DEF Handle, Taken, RequestsTyped
  <1>6. ASSUME NEW w \in Writers, Consolidate(w) PROVE IInv'
    BY <1>1, <1>6, LoadStep, Tables, BoundsAssumption DEF Consolidate, RequestsTyped
  <1>7. ASSUME NEW w \in Writers, RecordFailure(w) PROVE IInv'
    BY <1>1, <1>7, LoadStep, Tables, BoundsAssumption
       DEF RecordFailure, queues, RequestsTyped
  <1>8. ASSUME NEW w \in Writers, Dispatch(w) PROVE IInv'
    <2>1. \E place \in {"idle", "failing"} : SetLocals(w, place, "none", 0)
      BY <1>8 DEF Dispatch, Return, Raise
    <2>2. rowLock # w
      BY <1>8, NotHolder DEF Dispatch
    <2>3. /\ UNCHANGED <<log, streamVersion, rowLock, todo, streaming, requests,
                         crashes, conflicted, outbox>>
          /\ jobs' \in Nat /\ raises' \in 0..MaxRaises
      BY <1>1, <1>8, BoundsAssumption DEF Dispatch, Fault, store
    <2>4. Leaves(w)
      BY <1>1, <2>1, <2>2, <2>3 DEF Leaves
    <2> QED BY <2>4, LeaveStep
  <1>9. ASSUME NEW w \in Writers, NothingToSave(w) PROVE IInv'
    <2>1. SetLocals(w, "idle", "none", 0) /\ rowLock # w
      BY <1>9, NotHolder DEF NothingToSave, ReadyToSave, Return
    <2>2. UNCHANGED <<log, streamVersion, rowLock, todo, jobs, streaming, requests,
                      raises, crashes, conflicted, outbox>>
      BY <1>9 DEF NothingToSave, store, queues, history
    <2>3. Leaves(w)
      BY <1>1, <2>1, <2>2 DEF Leaves
    <2> QED BY <2>3, LeaveStep
  <1>10. ASSUME NEW w \in Writers, StepRaises(w) PROVE IInv'
    <2>1. \E place \in {"idle", "failing"} : SetLocals(w, place, "none", 0)
      BY <1>10 DEF StepRaises, Raise, Return
    <2>2. rowLock # w
      BY <1>10, NotHolder DEF StepRaises
    <2>3. /\ UNCHANGED <<log, streamVersion, rowLock, todo, jobs, streaming,
                         requests, crashes, conflicted, outbox>>
          /\ raises' \in 0..MaxRaises
      BY <1>1, <1>10, BoundsAssumption DEF StepRaises, Fault, store, queues
    <2>4. Leaves(w)
      BY <1>1, <2>1, <2>2, <2>3 DEF Leaves
    <2> QED BY <2>4, LeaveStep
  <1>11. ASSUME NEW w \in Writers, Rollback(w) PROVE IInv'
    <2>1. \E place \in {"idle", "failing"} : SetLocals(w, place, "none", 0)
      BY <1>11 DEF Rollback, Raise
    <2>2. \/ rowLock' = rowLock /\ rowLock # w
          \/ rowLock' = NoWriter /\ rowLock \in {w, NoWriter}
      BY <1>11 DEF Rollback, Unlock
    <2>3. /\ UNCHANGED <<log, streamVersion, todo, jobs, streaming, requests,
                         crashes, conflicted, outbox>>
          /\ raises' \in 0..MaxRaises
      BY <1>1, <1>11, BoundsAssumption DEF Rollback, Fault, queues
    <2>4. Leaves(w)
      BY <1>1, <2>1, <2>2, <2>3 DEF Leaves
    <2> QED BY <2>4, LeaveStep
  <1>12. CASE DeleteLegacyRow
    BY <1>12, BoundsAssumption
       DEF DeleteLegacyRow, RequestsTyped, store, history, locals, IInv, TypeOK,
        VersionCountsEvents, LoadedIsPast, LockIsHeld, AppendersChecked,
        OutboxIsLogged, StatusAt
  <1>13. CASE UNCHANGED vars
    BY <1>13 DEF vars, store, queues, history, locals, IInv, TypeOK,
        VersionCountsEvents, LoadedIsPast, LockIsHeld, AppendersChecked,
        OutboxIsLogged, StatusAt
  <1> QED BY <1>2, <1>3, <1>4, <1>5, <1>6, <1>7, <1>8, <1>9, <1>10, <1>11, <1>12,
             <1>13, CheckVersionStep, CommitStep, PublishStep, CrashStep
          DEF Next, Request, Step

-----------------------------------------------------------------------------
(* The theorems. *)

\* In every reachable state the variables have their types, the row's version
\* is the length of the stream, and the strengthening holds.
THEOREM Inductive == Spec => []IInv
  <1>1. Init => IInv
    BY InitIInv
  <1>2. IInv /\ [Next]_vars => IInv'
    BY NextIInv
  <1> QED BY <1>1, <1>2, PTL DEF Spec

\* The variables have their types (what replay, append_events and the bus make).
THEOREM TypeCorrect == Spec => []TypeOK
  <1>1. IInv => TypeOK
    BY DEF IInv
  <1> QED BY <1>1, Inductive, PTL

\* event_streams.version is the number of rows of domain_events, also when two
\* writers create the stream at once (append_events).
THEOREM VersionIsLength == Spec => []VersionCountsEvents
  <1>1. IInv => VersionCountsEvents
    BY DEF IInv
  <1> QED BY <1>1, Inductive, PTL

\* Only a commit changes the stream, and it appends what one save recorded.
LEMMA StreamChanges ==
    ASSUME [Next]_vars
    PROVE  log' = log \/ \E w \in Writers : Commit(w)
  BY DEF Next, Request, Step, Attach, Reprocess, Delete, Handle, Consolidate,
         RecordFailure, Dispatch, NothingToSave, CheckVersion, Publish, StepRaises,
         Rollback, DeleteLegacyRow, Crash, Load, vars, store

\* Every committed save was decided on the state it extends (append_events).
THEOREM NothingLost == Spec => NoLostUpdate
  <1> DEFINE Seen == \A w \in Writers : Appends(w) =>
                        version[w] = Len(log) /\ status[w] = StatusAt(Len(log))
  <1>1. IInv /\ Next => Seen
    <2> SUFFICES ASSUME IInv, Next, NEW w \in Writers, Appends(w)
                 PROVE  version[w] = Len(log) /\ status[w] = StatusAt(Len(log))
      OBVIOUS
    <2>1. ASSUME NEW x \in Writers, pc'[w] # pc[w], ~ Commit(x),
                 Request(x) \/ Step(x) \/ StepRaises(x) \/ Rollback(x)
          PROVE  pc'[w] # "publishing" \/ pc[w] # "appending"
      BY <2>1 DEF IInv, TypeOK, Request, Step, Attach, Reprocess, Delete, Handle,
         Consolidate, RecordFailure, Dispatch, NothingToSave, CheckVersion, Publish,
         StepRaises, Rollback, Load, Goto, Return, Raise, SetLocals, ReadyToSave
    <2>2. ASSUME NEW x \in Writers, Commit(x), pc'[w] # pc[w] PROVE x = w
      BY <2>2 DEF Commit, SetLocals, IInv, TypeOK
    <2>3. ~ Crash /\ ~ DeleteLegacyRow
      BY DEF Crash, DeleteLegacyRow, Appends
    <2>4. Commit(w)
      BY <2>1, <2>2, <2>3 DEF Next, Appends
    <2> QED BY <2>4, CommitSees
  <1>2. IInv /\ [Next]_vars => [Seen]_vars
    BY <1>1
  <1> QED BY <1>2, Inductive, PTL DEF Spec, NoLostUpdate

\* Nothing follows a deletion, for any number of handlers, workers and retries in
\* flight (the DELETED guards of mark_* and append_events together).
THEOREM DeletionIsFinal == Spec => []DeletedIsFinal
  <1>1. Init => DeletedIsFinal
    BY DEF Init, DeletedIsFinal
  <1>2. IInv /\ DeletedIsFinal /\ [Next]_vars => DeletedIsFinal'
    <2> SUFFICES ASSUME IInv, DeletedIsFinal, [Next]_vars PROVE DeletedIsFinal'
      OBVIOUS
    <2>1. CASE log' = log
      BY <2>1 DEF DeletedIsFinal
    <2>2. ASSUME NEW w \in Writers, Commit(w) PROVE DeletedIsFinal'
      <3> DEFINE events == Uncommitted(op[w], status[w])
                 k == Len(log)
      <3>1. /\ op[w] \in Ops /\ status[w] \in Statuses /\ status[w] # "DELETED"
            /\ status[w] = StatusAt(k) /\ log \in Seq(EventTypes) /\ k \in Nat
        BY <2>2, CommitSees DEF IInv, TypeOK
      <3>2. /\ events \in Seq(EventTypes)
            /\ \A i \in 1..Len(events) : events[i] = "Deleted" => i = Len(events)
        BY <3>1, Saved
      <3>3. log' = log \o events
        BY <2>2 DEF Commit
      <3>4. \A i \in 1..k : log[i] # "Deleted"
        BY <3>1, Replay DEF DeletedIsFinal, IInv
      <3> HIDE DEF events
      <3>5. /\ Len(log') = k + Len(events) /\ DOMAIN log' = 1..Len(log')
            /\ \A i \in 1..k : log'[i] = log[i]
            /\ \A i \in (k + 1)..Len(log') :
                  log'[i] = events[i - k] /\ i - k \in 1..Len(events)
            /\ Len(events) \in Nat
        BY <3>1, <3>2, <3>3
      <3> SUFFICES ASSUME NEW i \in 1..Len(log'), log'[i] = "Deleted"
                   PROVE  i = Len(log')
        BY <3>5 DEF DeletedIsFinal
      <3>6. i \in (k + 1)..Len(log')
        BY <3>1, <3>4, <3>5
      <3>7. i - k = Len(events)
        BY <3>2, <3>5, <3>6
      <3> QED BY <3>1, <3>5, <3>6, <3>7
    <2> QED BY <2>1, <2>2, StreamChanges
  <1> QED BY <1>1, <1>2, Inductive, PTL DEF Spec

\* The stream begins with its creation and is created once, also when two
\* reprocess calls find the same row without a stream.
THEOREM CreationIsOnce == Spec => []CreatedOnce
  <1>1. Init => CreatedOnce
    BY DEF Init, CreatedOnce
  <1>2. IInv /\ CreatedOnce /\ [Next]_vars => CreatedOnce'
    <2> SUFFICES ASSUME IInv, CreatedOnce, [Next]_vars PROVE CreatedOnce'
      OBVIOUS
    <2>1. CASE log' = log
      BY <2>1 DEF CreatedOnce
    <2>2. ASSUME NEW w \in Writers, Commit(w) PROVE CreatedOnce'
      <3> DEFINE events == Uncommitted(op[w], status[w])
                 k == Len(log)
      <3>1. /\ op[w] \in Ops /\ status[w] \in Statuses /\ status[w] # "DELETED"
            /\ status[w] = StatusAt(k) /\ log \in Seq(EventTypes) /\ k \in Nat
        BY <2>2, CommitSees DEF IInv, TypeOK
      <3>2. /\ events \in Seq(EventTypes)
            /\ \A i \in 1..Len(events) :
                  (events[i] = "Attached") <=> (i = 1 /\ status[w] = "NONE")
        BY <3>1, Saved
      <3>3. log' = log \o events
        BY <2>2 DEF Commit
      <3>4. (status[w] = "NONE") <=> (k = 0)
        BY <3>1, Replay DEF IInv, StatusAt
      <3> HIDE DEF events
      <3>5. /\ Len(log') = k + Len(events) /\ DOMAIN log' = 1..Len(log')
            /\ \A i \in 1..k : log'[i] = log[i]
            /\ \A i \in (k + 1)..Len(log') :
                  log'[i] = events[i - k] /\ i - k \in 1..Len(events)
            /\ Len(events) \in Nat
        BY <3>1, <3>2, <3>3
      <3> QED BY <3>1, <3>2, <3>4, <3>5 DEF CreatedOnce
    <2> QED BY <2>1, <2>2, StreamChanges
  <1> QED BY <1>1, <1>2, Inductive, PTL DEF Spec

-----------------------------------------------------------------------------
(* The stages: each is caused by an event, and they do not overlap. *)

\* The stage that an event triggers: the code paths that run it and the event it ends with.
Triggers == {"Stored", "Parsed", "Chunked", "GraphExtracted"}
Effect(e) ==
    CASE e = "Stored" -> "Parsed" [] e = "Parsed" -> "Chunked"
      [] e = "Chunked" -> "GraphExtracted" [] OTHER -> "Indexed"
Runners(e) ==
    CASE e = "Stored" -> {"HandleStored"} [] e = "Parsed" -> {"HandleParsed"}
      [] e = "Chunked" -> {"HandleChunked", "Consolidate"} [] OTHER -> {"HandleGraphExtracted"}

\* What may still lead to the effect of a trigger: events whose handler has not begun,
\* writers at work on the stage, and dispatched extractions.
Outboxed(w, v) == \E i \in DOMAIN outbox[w] : outbox[w][i] = v
Unhandled(v) == v \in todo \/ \E w \in Writers : Outboxed(w, v)
Occurring(e) == {v \in DOMAIN log : log[v] = e}
Waiting(e) == {v \in Occurring(e) : Unhandled(v)}
Running(e) == {w \in Writers : pc[w] \in {"working", "appending"} /\ op[w] \in Runners(e)}
Dispatched(e) == IF e = "Chunked" THEN jobs ELSE 0

\* A worker's GraphExtracted comes with an Indexed of its own.
Allowed(e) == (IF e = "GraphExtracted" THEN 2 ELSE 1) * Cardinality(Occurring(e))

\* Each occurrence of a trigger is waiting, at work, dispatched or used up.
Caused(e) ==
    /\ IsFiniteSet(Running(e))
    /\ Cardinality(Occurring(Effect(e))) + Cardinality(Waiting(e)) + Cardinality(Running(e))
          + Dispatched(e) <= Allowed(e)

\* An event is in one outbox once, or its handler is a task.
PublishedOnce ==
    \A w \in Writers :
        /\ \A i, j \in DOMAIN outbox[w] : outbox[w][i] = outbox[w][j] => i = j
        /\ \A i \in DOMAIN outbox[w] :
              /\ outbox[w][i] \notin todo
              /\ \A x \in Writers : Outboxed(x, outbox[w][i]) => x = w

StageInv == PublishedOnce /\ \A e \in Triggers : Caused(e)

-----------------------------------------------------------------------------
(* Counting. *)

\* The stages are what they look like.
LEMMA Stages ==
    /\ Effect("Stored") = "Parsed" /\ Runners("Stored") = {"HandleStored"}
    /\ Effect("Parsed") = "Chunked" /\ Runners("Parsed") = {"HandleParsed"}
    /\ Effect("Chunked") = "GraphExtracted"
    /\ Runners("Chunked") = {"HandleChunked", "Consolidate"}
    /\ Effect("GraphExtracted") = "Indexed"
    /\ Runners("GraphExtracted") = {"HandleGraphExtracted"}
  BY DEF Effect, Runners

\* The handler of one trigger runs no other stage.
LEMMA Handlers ==
    /\ DOMAIN HandlerOf = Triggers
    /\ \A e \in Triggers : HandlerOf[e] \in Ops
    /\ \A e, f \in Triggers : e # f => HandlerOf[f] \notin Runners(e)
  <1>1. /\ DOMAIN HandlerOf = Triggers
        /\ HandlerOf["Stored"] = "HandleStored" /\ HandlerOf["Parsed"] = "HandleParsed"
        /\ HandlerOf["Chunked"] = "HandleChunked"
        /\ HandlerOf["GraphExtracted"] = "HandleGraphExtracted"
    BY DEF HandlerOf, Triggers
  <1>2. \A e \in Triggers : HandlerOf[e] \in Ops
    BY <1>1, Tables DEF Triggers
  <1>3. \A e, f \in Triggers : e # f => HandlerOf[f] \notin Runners(e)
    BY <1>1, Stages DEF Triggers
  <1> QED BY <1>1, <1>2, <1>3

\* The counted sets of events are finite.
LEMMA Counts ==
    ASSUME IInv, NEW e
    PROVE  /\ IsFiniteSet(Occurring(e)) /\ Cardinality(Occurring(e)) \in Nat
           /\ IsFiniteSet(Waiting(e)) /\ Cardinality(Waiting(e)) \in Nat
  <1>1. Len(log) \in Nat /\ DOMAIN log = 1..Len(log)
    BY DEF IInv, TypeOK
  <1>2. IsFiniteSet(1..Len(log))
    BY <1>1, FS_Interval
  <1>3. Occurring(e) \subseteq 1..Len(log) /\ Waiting(e) \subseteq Occurring(e)
    BY <1>1 DEF Occurring, Waiting
  <1>4. IsFiniteSet(Occurring(e)) /\ IsFiniteSet(Waiting(e))
    BY <1>2, <1>3, FS_Subset
  <1> QED BY <1>4, FS_CardinalityType

\* At most one new element.
LEMMA OneMore ==
    ASSUME NEW S, IsFiniteSet(S), NEW x, NEW T \in SUBSET (S \cup {x})
    PROVE  IsFiniteSet(T) /\ Cardinality(T) \in Nat /\ Cardinality(T) <= Cardinality(S) + 1
  <1>1. /\ IsFiniteSet(S \cup {x}) /\ Cardinality(S) \in Nat
        /\ Cardinality(S \cup {x}) <= Cardinality(S) + 1
    <2>1. Cardinality(S) \in Nat
      BY FS_CardinalityType
    <2>2. /\ IsFiniteSet(S \cup {x})
          /\ Cardinality(S \cup {x}) = IF x \in S THEN Cardinality(S) ELSE Cardinality(S) + 1
      BY FS_AddElement
    <2> QED BY <2>1, <2>2
  <1>2. IsFiniteSet(T) /\ Cardinality(T) <= Cardinality(S \cup {x})
    BY <1>1, FS_Subset
  <1>3. Cardinality(T) \in Nat /\ Cardinality(S \cup {x}) \in Nat
    BY <1>1, <1>2, FS_CardinalityType
  <1> QED BY <1>1, <1>2, <1>3

\* One element less.
LEMMA OneLess ==
    ASSUME NEW S, IsFiniteSet(S), NEW x \in S, NEW T \in SUBSET (S \ {x})
    PROVE  IsFiniteSet(T) /\ Cardinality(T) \in Nat /\ Cardinality(T) + 1 <= Cardinality(S)
  <1>1. /\ IsFiniteSet(S \ {x}) /\ Cardinality(S) \in Nat
        /\ Cardinality(S \ {x}) = Cardinality(S) - 1
    BY FS_RemoveElement, FS_CardinalityType
  <1>2. IsFiniteSet(T) /\ Cardinality(T) <= Cardinality(S \ {x})
    BY <1>1, FS_Subset
  <1>3. Cardinality(T) \in Nat /\ Cardinality(S \ {x}) \in Nat
    BY <1>1, <1>2, FS_CardinalityType
  <1> QED BY <1>1, <1>2, <1>3

\* No new element.
LEMMA NoneMore ==
    ASSUME NEW S, IsFiniteSet(S), NEW T \in SUBSET S
    PROVE  IsFiniteSet(T) /\ Cardinality(T) \in Nat /\ Cardinality(T) <= Cardinality(S)
  BY FS_Subset, FS_CardinalityType

-----------------------------------------------------------------------------
(* Steps that append nothing. *)

\* A step that at most drops waiting events and code paths of a stage.
Fewer(e) ==
    /\ log' = log /\ jobs' = jobs
    /\ Waiting(e)' \subseteq Waiting(e) /\ Running(e)' \subseteq Running(e)

LEMMA FewerCaused ==
    ASSUME IInv, NEW e \in Triggers, Caused(e), Fewer(e)
    PROVE  Caused(e)'
  <1>1. /\ Cardinality(Waiting(e)') \in Nat /\ Cardinality(Waiting(e)) \in Nat
        /\ Cardinality(Waiting(e)') <= Cardinality(Waiting(e))
    BY Counts, NoneMore DEF Fewer
  <1>2. /\ IsFiniteSet(Running(e)') /\ Cardinality(Running(e)') \in Nat
        /\ Cardinality(Running(e)) \in Nat
        /\ Cardinality(Running(e)') <= Cardinality(Running(e))
    BY NoneMore, FS_CardinalityType DEF Fewer, Caused
  <1>3. Occurring(e)' = Occurring(e) /\ Occurring(Effect(e))' = Occurring(Effect(e))
    BY DEF Fewer, Occurring
  <1>4. Allowed(e)' = Allowed(e) /\ Dispatched(e)' = Dispatched(e)
    BY <1>3 DEF Fewer, Allowed, Dispatched
  <1>5. /\ Cardinality(Occurring(e)) \in Nat /\ Cardinality(Occurring(Effect(e))) \in Nat
        /\ Dispatched(e) \in Nat /\ Allowed(e) \in Nat
    BY Counts DEF Dispatched, Allowed, IInv, TypeOK
  <1>6. Cardinality(Occurring(Effect(e))') + Cardinality(Waiting(e)')
           + Cardinality(Running(e)') + Dispatched(e)' <= Allowed(e)'
    BY <1>1, <1>2, <1>3, <1>4, <1>5 DEF Caused
  <1> QED BY <1>2, <1>6 DEF Caused

\* A code path begins.
LEMMA LoadRuns ==
    ASSUME IInv, NEW w \in Writers, NEW o \in Ops, Load(w, o), pc[w] \in {"idle", "failing"},
           NEW e
    PROVE  /\ w \notin Running(e)
           /\ Running(e)' \subseteq Running(e) \cup {w}
           /\ o \notin Runners(e) => Running(e)' \subseteq Running(e)
  <1>1. /\ pc \in [Writers -> {"idle", "working", "appending", "publishing", "failing"}]
        /\ op \in [Writers -> Ops \cup {"none"}]
    BY DEF IInv, TypeOK
  <1>2. pc' = [pc EXCEPT ![w] = "working"] /\ op' = [op EXCEPT ![w] = o]
    BY DEF Load, SetLocals
  <1>3. op'[w] = o /\ \A x \in Writers : x # w => pc'[x] = pc[x] /\ op'[x] = op[x]
    BY <1>1, <1>2
  <1> QED BY <1>3 DEF Running

\* A code path ends, or has committed.
LEMMA LeaveRuns ==
    ASSUME IInv, NEW w \in Writers, NEW place \in {"idle", "failing", "publishing"}, NEW o,
           SetLocals(w, place, o, 0), NEW e
    PROVE  Running(e)' \subseteq Running(e) \ {w}
  <1>1. /\ pc \in [Writers -> {"idle", "working", "appending", "publishing", "failing"}]
        /\ op \in [Writers -> Ops \cup {"none"}]
    BY DEF IInv, TypeOK
  <1>2. pc' = [pc EXCEPT ![w] = place] /\ op' = [op EXCEPT ![w] = o]
    BY DEF SetLocals
  <1>3. pc'[w] = place /\ \A x \in Writers : x # w => pc'[x] = pc[x] /\ op'[x] = op[x]
    BY <1>1, <1>2
  <1> QED BY <1>3 DEF Running

\* Nothing is put into an outbox.
LEMMA SameWaiting ==
    ASSUME UNCHANGED <<log, outbox>>, todo' \subseteq todo, NEW e
    PROVE  Waiting(e)' \subseteq Waiting(e)
  BY DEF Waiting, Occurring, Unhandled, Outboxed

LEMMA SameOutbox ==
    ASSUME PublishedOnce, UNCHANGED outbox, todo' \subseteq todo
    PROVE  PublishedOnce'
  BY DEF PublishedOnce, Outboxed

\* The requests and the recording of a failure run no stage.
LEMMA RequestKeeps ==
    ASSUME IInv, StageInv, NEW w \in Writers,
           Request(w) \/ RecordFailure(w)
    PROVE  StageInv'
  <1>1. PICK o \in {"Attach", "Reprocess", "Delete", "RecordFailure"} : Load(w, o)
    BY DEF Request, Attach, Reprocess, Delete, RecordFailure
  <1>2. /\ pc[w] \in {"idle", "failing"} /\ UNCHANGED <<log, todo, jobs, outbox>>
    BY DEF Request, Attach, Reprocess, Delete, RecordFailure, Load, store, queues
  <1>3. o \in Ops /\ \A e \in Triggers : o \notin Runners(e)
    BY Tables, Stages DEF Triggers
  <1>4. ASSUME NEW e \in Triggers PROVE Caused(e)'
    <2>1. Fewer(e)
      BY <1>1, <1>2, <1>3, LoadRuns, SameWaiting DEF Fewer
    <2> QED BY <2>1, FewerCaused DEF StageInv
  <1>5. PublishedOnce'
    BY <1>2, SameOutbox DEF StageInv
  <1> QED BY <1>4, <1>5 DEF StageInv

\* A task begins: its event is not waiting any more.
LEMMA HandleKeeps ==
    ASSUME IInv, StageInv, NEW w \in Writers, NEW v \in todo, Handle(w, v)
    PROVE  StageInv'
  <1>1. /\ todo' = todo \ {v} /\ UNCHANGED <<log, jobs, outbox>> /\ pc[w] = "idle"
        /\ Load(w, HandlerOf[log[v]])
    BY DEF Handle, Taken, Load, store
  <1>2. /\ v \in DOMAIN log /\ log[v] \in Triggers /\ HandlerOf[log[v]] \in Ops
        /\ \A e \in Triggers : e # log[v] => HandlerOf[log[v]] \notin Runners(e)
    <2>1. v \in DOMAIN log /\ log[v] \in DOMAIN HandlerOf
      BY DEF IInv, TypeOK
    <2> QED BY <2>1, Handlers
  <1>3. \A x \in Writers : ~Outboxed(x, v)
    BY DEF StageInv, PublishedOnce, Outboxed
  <1>4. ASSUME NEW e \in Triggers PROVE Caused(e)'
    <2>1. CASE e # log[v]
      <3>1. Fewer(e)
        BY <1>1, <1>2, <2>1, LoadRuns, SameWaiting DEF Fewer
      <3> QED BY <3>1, FewerCaused DEF StageInv
    <2>2. CASE e = log[v]
      <3>1. v \in Waiting(e) /\ Waiting(e)' \subseteq Waiting(e) \ {v}
        BY <1>1, <1>2, <1>3, <2>2 DEF Waiting, Occurring, Unhandled, Outboxed
      <3>2. /\ Cardinality(Waiting(e)') \in Nat /\ Cardinality(Waiting(e)) \in Nat
            /\ Cardinality(Waiting(e)') + 1 <= Cardinality(Waiting(e))
        BY <3>1, Counts, OneLess
      <3>3. Running(e)' \subseteq Running(e) \cup {w}
        BY <1>1, <1>2, LoadRuns
      <3>4. IsFiniteSet(Running(e)) /\ Cardinality(Running(e)) \in Nat
        BY FS_CardinalityType DEF StageInv, Caused
      <3>5. /\ IsFiniteSet(Running(e)') /\ Cardinality(Running(e)') \in Nat
            /\ Cardinality(Running(e)') <= Cardinality(Running(e)) + 1
        BY <3>3, <3>4, OneMore
      <3>6. /\ Occurring(e)' = Occurring(e) /\ Occurring(Effect(e))' = Occurring(Effect(e))
            /\ Allowed(e)' = Allowed(e) /\ Dispatched(e)' = Dispatched(e)
        BY <1>1 DEF Occurring, Allowed, Dispatched
      <3>7. /\ Cardinality(Occurring(e)) \in Nat /\ Cardinality(Occurring(Effect(e))) \in Nat
            /\ Dispatched(e) \in Nat /\ Allowed(e) \in Nat
        <4>1. Cardinality(Occurring(e)) \in Nat /\ Cardinality(Occurring(Effect(e))) \in Nat
          BY Counts
        <4>2. jobs \in Nat
          BY DEF IInv, TypeOK
        <4> QED BY <4>1, <4>2 DEF Dispatched, Allowed
      <3>8. Cardinality(Occurring(Effect(e))') + Cardinality(Waiting(e)')
               + Cardinality(Running(e)') + Dispatched(e)' <= Allowed(e)'
        <4>1. Cardinality(Occurring(Effect(e))) + Cardinality(Waiting(e))
                 + Cardinality(Running(e)) + Dispatched(e) <= Allowed(e)
          BY DEF StageInv, Caused
        <4>2. Cardinality(Waiting(e)') + Cardinality(Running(e)')
                 <= Cardinality(Waiting(e)) + Cardinality(Running(e))
          BY <3>2, <3>4, <3>5
        <4> QED BY <3>2, <3>4, <3>5, <3>6, <3>7, <4>1, <4>2
      <3> QED BY <3>5, <3>8 DEF Caused
    <2> QED BY <2>1, <2>2
  <1>5. PublishedOnce'
    BY <1>1, SameOutbox DEF StageInv
  <1> QED BY <1>4, <1>5 DEF StageInv

\* A worker takes an extraction that was dispatched.
LEMMA ConsolidateKeeps ==
    ASSUME IInv, StageInv, NEW w \in Writers, Consolidate(w)
    PROVE  StageInv'
  <1>1. /\ jobs' = jobs - 1 /\ jobs > 0 /\ UNCHANGED <<log, todo, outbox>> /\ pc[w] = "idle"
        /\ Load(w, "Consolidate")
    BY DEF Consolidate, Load, store
  <1>2. "Consolidate" \in Ops
        /\ \A e \in Triggers : e # "Chunked" => "Consolidate" \notin Runners(e)
    BY Tables, Stages DEF Triggers
  <1>3. ASSUME NEW e \in Triggers PROVE Caused(e)'
    <2>1. Occurring(e)' = Occurring(e) /\ Occurring(Effect(e))' = Occurring(Effect(e))
      BY <1>1 DEF Occurring
    <2>2. Allowed(e)' = Allowed(e)
      BY <2>1 DEF Allowed
    <2>3. /\ Cardinality(Waiting(e)') \in Nat /\ Cardinality(Waiting(e)) \in Nat
          /\ Cardinality(Waiting(e)') <= Cardinality(Waiting(e))
      BY <1>1, SameWaiting, Counts, NoneMore
    <2>4. IsFiniteSet(Running(e)) /\ Cardinality(Running(e)) \in Nat
      BY FS_CardinalityType DEF StageInv, Caused
    <2>5. /\ Cardinality(Occurring(e)) \in Nat /\ Cardinality(Occurring(Effect(e))) \in Nat
          /\ jobs \in Nat /\ Allowed(e) \in Nat
      <3>1. Cardinality(Occurring(e)) \in Nat /\ Cardinality(Occurring(Effect(e))) \in Nat
        BY Counts
      <3>2. jobs \in Nat
        BY DEF IInv, TypeOK
      <3> QED BY <3>1, <3>2 DEF Allowed
    <2>6. Cardinality(Occurring(Effect(e))) + Cardinality(Waiting(e)) + Cardinality(Running(e))
             + Dispatched(e) <= Allowed(e)
      BY DEF StageInv, Caused
    <2>7. /\ IsFiniteSet(Running(e)') /\ Cardinality(Running(e)') \in Nat
          /\ Cardinality(Running(e)') + Dispatched(e)' <= Cardinality(Running(e)) + Dispatched(e)
      <3>1. CASE e = "Chunked"
        <4>1. Running(e)' \subseteq Running(e) \cup {w}
          BY <1>1, <1>2, LoadRuns
        <4>2. /\ IsFiniteSet(Running(e)') /\ Cardinality(Running(e)') \in Nat
              /\ Cardinality(Running(e)') <= Cardinality(Running(e)) + 1
          BY <2>4, <4>1, OneMore
        <4>3. Dispatched(e) = jobs /\ Dispatched(e)' = jobs - 1
          BY <1>1, <3>1 DEF Dispatched
        <4> QED BY <2>4, <2>5, <4>2, <4>3
      <3>2. CASE e # "Chunked"
        <4>1. Running(e)' \subseteq Running(e)
          BY <1>1, <1>2, <3>2, LoadRuns
        <4>2. /\ IsFiniteSet(Running(e)') /\ Cardinality(Running(e)') \in Nat
              /\ Cardinality(Running(e)') <= Cardinality(Running(e))
          BY <2>4, <4>1, NoneMore
        <4>3. Dispatched(e) = 0 /\ Dispatched(e)' = 0
          BY <3>2 DEF Dispatched
        <4> QED BY <2>4, <4>2, <4>3
      <3> QED BY <3>1, <3>2
    <2>8. Dispatched(e) \in Nat /\ Dispatched(e)' \in Nat
      BY <1>1, <2>5 DEF Dispatched
    <2>9. Cardinality(Occurring(Effect(e))') + Cardinality(Waiting(e)')
             + Cardinality(Running(e)') + Dispatched(e)' <= Allowed(e)'
      BY <2>1, <2>2, <2>3, <2>4, <2>5, <2>6, <2>7, <2>8
    <2> QED BY <2>7, <2>9 DEF Caused
  <1>4. PublishedOnce'
    BY <1>1, SameOutbox DEF StageInv
  <1> QED BY <1>3, <1>4 DEF StageInv

\* handle_document_chunked hands its extraction over.
LEMMA DispatchKeeps ==
    ASSUME IInv, StageInv, NEW w \in Writers, Dispatch(w)
    PROVE  StageInv'
  <1>1. /\ jobs' = jobs + 1 /\ UNCHANGED <<log, todo, outbox>>
        /\ pc[w] = "working" /\ op[w] = "HandleChunked"
    BY DEF Dispatch, Dispatches, store
  <1>2. PICK place \in {"idle", "failing", "publishing"} : SetLocals(w, place, "none", 0)
    BY DEF Dispatch, Return, Raise
  <1>3. w \in Running("Chunked")
    BY <1>1, Stages DEF Running
  <1>4. ASSUME NEW e \in Triggers PROVE Caused(e)'
    <2>1. Occurring(e)' = Occurring(e) /\ Occurring(Effect(e))' = Occurring(Effect(e))
      BY <1>1 DEF Occurring
    <2>2. Allowed(e)' = Allowed(e)
      BY <2>1 DEF Allowed
    <2>3. /\ Cardinality(Waiting(e)') \in Nat /\ Cardinality(Waiting(e)) \in Nat
          /\ Cardinality(Waiting(e)') <= Cardinality(Waiting(e))
      BY <1>1, SameWaiting, Counts, NoneMore
    <2>4. IsFiniteSet(Running(e)) /\ Cardinality(Running(e)) \in Nat
      BY FS_CardinalityType DEF StageInv, Caused
    <2>5. /\ Cardinality(Occurring(e)) \in Nat /\ Cardinality(Occurring(Effect(e))) \in Nat
          /\ jobs \in Nat /\ Allowed(e) \in Nat
      <3>1. Cardinality(Occurring(e)) \in Nat /\ Cardinality(Occurring(Effect(e))) \in Nat
        BY Counts
      <3>2. jobs \in Nat
        BY DEF IInv, TypeOK
      <3> QED BY <3>1, <3>2 DEF Allowed
    <2>6. Cardinality(Occurring(Effect(e))) + Cardinality(Waiting(e)) + Cardinality(Running(e))
             + Dispatched(e) <= Allowed(e)
      BY DEF StageInv, Caused
    <2>7. Running(e)' \subseteq Running(e) \ {w}
      BY <1>2, LeaveRuns
    <2>8. /\ IsFiniteSet(Running(e)') /\ Cardinality(Running(e)') \in Nat
          /\ Cardinality(Running(e)') + Dispatched(e)' <= Cardinality(Running(e)) + Dispatched(e)
      <3>1. CASE e = "Chunked"
        <4>1. /\ IsFiniteSet(Running(e)') /\ Cardinality(Running(e)') \in Nat
              /\ Cardinality(Running(e)') + 1 <= Cardinality(Running(e))
          BY <1>3, <2>4, <2>7, <3>1, OneLess
        <4>2. Dispatched(e) = jobs /\ Dispatched(e)' = jobs + 1
          BY <1>1, <3>1 DEF Dispatched
        <4> QED BY <2>4, <2>5, <4>1, <4>2
      <3>2. CASE e # "Chunked"
        <4>1. /\ IsFiniteSet(Running(e)') /\ Cardinality(Running(e)') \in Nat
              /\ Cardinality(Running(e)') <= Cardinality(Running(e))
          BY <2>4, <2>7, NoneMore
        <4>2. Dispatched(e) = 0 /\ Dispatched(e)' = 0
          BY <3>2 DEF Dispatched
        <4> QED BY <2>4, <4>1, <4>2
      <3> QED BY <3>1, <3>2
    <2>9. Dispatched(e) \in Nat /\ Dispatched(e)' \in Nat
      BY <1>1, <2>5 DEF Dispatched
    <2>10. Cardinality(Occurring(Effect(e))') + Cardinality(Waiting(e)')
             + Cardinality(Running(e)') + Dispatched(e)' <= Allowed(e)'
      BY <2>1, <2>2, <2>3, <2>4, <2>5, <2>6, <2>8, <2>9
    <2> QED BY <2>8, <2>10 DEF Caused
  <1>5. PublishedOnce'
    BY <1>1, SameOutbox DEF StageInv
  <1> QED BY <1>4, <1>5 DEF StageInv

\* A path that returns or raises before it commits.
LEMMA GiveUpKeeps ==
    ASSUME IInv, StageInv, NEW w \in Writers,
           NothingToSave(w) \/ StepRaises(w) \/ Rollback(w)
    PROVE  StageInv'
  <1>1. UNCHANGED <<log, todo, jobs, outbox>>
    BY DEF NothingToSave, StepRaises, Rollback, store, queues
  <1>2. PICK place \in {"idle", "failing", "publishing"} : SetLocals(w, place, "none", 0)
    BY DEF NothingToSave, StepRaises, Rollback, Return, Raise
  <1>3. ASSUME NEW e \in Triggers PROVE Caused(e)'
    <2>1. Fewer(e)
      BY <1>1, <1>2, LeaveRuns, SameWaiting DEF Fewer
    <2> QED BY <2>1, FewerCaused DEF StageInv
  <1>4. PublishedOnce'
    BY <1>1, SameOutbox DEF StageInv
  <1> QED BY <1>3, <1>4 DEF StageInv

LEMMA CheckVersionKeeps ==
    ASSUME IInv, StageInv, NEW w \in Writers, CheckVersion(w)
    PROVE  StageInv'
  <1>1. UNCHANGED <<log, todo, jobs, outbox>> /\ pc[w] = "working"
    BY DEF CheckVersion, queues, ReadyToSave
  <1>2. ASSUME NEW e PROVE Running(e)' \subseteq Running(e)
    <2>1. CASE Raise(w)
      <3>1. PICK place \in {"idle", "failing", "publishing"} : SetLocals(w, place, "none", 0)
        BY <2>1 DEF Raise
      <3> QED BY <3>1, LeaveRuns
    <2>2. CASE Goto(w, "appending")
      <3>1. op' = op /\ pc' = [pc EXCEPT ![w] = "appending"]
        BY <2>2 DEF Goto, locals
      <3>2. \A x \in Writers : x # w => pc'[x] = pc[x]
        BY <3>1 DEF IInv, TypeOK
      <3> QED BY <1>1, <3>1, <3>2 DEF Running
    <2> QED BY <2>1, <2>2 DEF CheckVersion
  <1>3. ASSUME NEW e \in Triggers PROVE Caused(e)'
    <2>1. Fewer(e)
      BY <1>1, <1>2, SameWaiting DEF Fewer
    <2> QED BY <2>1, FewerCaused DEF StageInv
  <1>4. PublishedOnce'
    BY <1>1, SameOutbox DEF StageInv
  <1> QED BY <1>3, <1>4 DEF StageInv

\* A restart drops the tasks, the outboxes and the code paths.
LEMMA CrashKeeps ==
    ASSUME IInv, StageInv, Crash
    PROVE  StageInv'
  <1>1. /\ log' = log /\ jobs' = jobs /\ todo' = {}
        /\ \A w \in Writers : outbox'[w] = <<>> /\ pc'[w] = "idle"
    BY DEF Crash
  <1>2. \A w \in Writers : DOMAIN outbox'[w] = {}
    BY <1>1, EmptyOutbox
  <1>3. \A e \in Triggers : Fewer(e)
    BY <1>1, <1>2 DEF Fewer, Waiting, Unhandled, Outboxed, Running
  <1>4. \A e \in Triggers : Caused(e)'
    BY <1>3, FewerCaused DEF StageInv
  <1>5. PublishedOnce'
    BY <1>2 DEF PublishedOnce
  <1> QED BY <1>4, <1>5 DEF StageInv

LEMMA NothingKeeps ==
    ASSUME IInv, StageInv, DeleteLegacyRow \/ UNCHANGED vars
    PROVE  StageInv'
  <1>1. UNCHANGED <<log, todo, jobs, outbox, pc, op>>
    BY DEF DeleteLegacyRow, vars, store, queues, locals
  <1>2. \A e \in Triggers : Fewer(e)
    BY <1>1, SameWaiting DEF Fewer, Running
  <1>3. \A e \in Triggers : Caused(e)'
    BY <1>2, FewerCaused DEF StageInv
  <1>4. PublishedOnce'
    BY <1>1, SameOutbox DEF StageInv
  <1> QED BY <1>3, <1>4 DEF StageInv

-----------------------------------------------------------------------------
(* Publishing and appending. *)

LEMMA Tails ==
    ASSUME NEW q \in Seq(Nat), q # <<>>, NEW i \in DOMAIN Tail(q)
    PROVE  i + 1 \in DOMAIN q /\ Tail(q)[i] = q[i + 1] /\ i \in Nat /\ i + 1 # 1
  <1>1. Len(q) \in Nat /\ Len(q) > 0 /\ DOMAIN q = 1..Len(q) /\ Len(Tail(q)) = Len(q) - 1
    OBVIOUS
  <1>2. i \in 1..(Len(q) - 1)
    BY <1>1
  <1> QED BY <1>1, <1>2

\* Publishing takes the first event out of an outbox and puts none in.
LEMMA PublishDrops ==
    ASSUME IInv, NEW w \in Writers, Publish(w)
    PROVE  /\ 1 \in DOMAIN outbox[w] /\ outbox[w][1] = Head(outbox[w])
           /\ Outboxed(w, Head(outbox[w]))
           /\ \A x \in Writers : \A u : Outboxed(x, u)' => Outboxed(x, u)
  <1>1. outbox \in [Writers -> Seq(Nat)] /\ outbox[w] \in Seq(Nat) /\ outbox[w] # <<>>
    BY DEF IInv, TypeOK, OutboxIsLogged, Publish
  <1>2. PICK rest \in {Tail(outbox[w]), <<>>} : outbox' = [outbox EXCEPT ![w] = rest]
    BY DEF Publish
  <1>3. outbox'[w] = rest /\ \A x \in Writers : x # w => outbox'[x] = outbox[x]
    BY <1>1, <1>2
  <1>4. \A i \in DOMAIN rest : \E j \in DOMAIN outbox[w] : rest[i] = outbox[w][j]
    <2>1. CASE rest = <<>>
      BY <2>1, EmptyOutbox
    <2>2. CASE rest = Tail(outbox[w])
      BY <1>1, <2>2, Tails
    <2> QED BY <2>1, <2>2
  <1>5. 1 \in DOMAIN outbox[w] /\ outbox[w][1] = Head(outbox[w])
    BY <1>1
  <1> QED BY <1>3, <1>4, <1>5 DEF Outboxed

\* The next event of an outbox becomes a task, or its handler is not the saga's.
LEMMA PublishKeeps ==
    ASSUME IInv, StageInv, NEW w \in Writers, Publish(w)
    PROVE  StageInv'
  <1>1. PICK v : v = Head(outbox[w])
    OBVIOUS
  <1>2. /\ outbox \in [Writers -> Seq(Nat)] /\ outbox[w] # <<>> /\ pc[w] = "publishing"
        /\ pc \in [Writers -> {"idle", "working", "appending", "publishing", "failing"}]
    BY DEF IInv, TypeOK, OutboxIsLogged, Publish
  <1>3. /\ log' = log /\ jobs' = jobs /\ todo' \subseteq todo \cup {v}
        /\ \E rest \in {Tail(outbox[w]), <<>>} : outbox' = [outbox EXCEPT ![w] = rest]
    BY <1>1 DEF Publish, Started, store
  <1>4. PICK rest \in {Tail(outbox[w]), <<>>} : outbox' = [outbox EXCEPT ![w] = rest]
    BY <1>3
  <1>5. outbox'[w] = rest /\ \A x \in Writers : x # w => outbox'[x] = outbox[x]
    BY <1>2, <1>4
  <1>6. \A i \in DOMAIN rest : i + 1 \in DOMAIN outbox[w] /\ rest[i] = outbox[w][i + 1] /\ i \in Nat
                             /\ i + 1 # 1
    <2>1. CASE rest = <<>>
      BY <2>1, EmptyOutbox
    <2>2. CASE rest = Tail(outbox[w])
      BY <1>2, <2>2, Tails
    <2> QED BY <2>1, <2>2
  <1>7. 1 \in DOMAIN outbox[w] /\ outbox[w][1] = v /\ Outboxed(w, v)
    BY <1>1, PublishDrops
  <1>8. \A x \in Writers : \A u : Outboxed(x, u)' => Outboxed(x, u)
    BY PublishDrops
  <1>9. ASSUME NEW e PROVE Running(e)' \subseteq Running(e)
    <2>1. CASE Goto(w, "publishing")
      <3>1. pc' = pc /\ op' = op
        BY <1>2, <2>1 DEF Goto, locals
      <3> QED BY <3>1 DEF Running
    <2>2. CASE Raise(w) \/ Return(w)
      <3>1. PICK place \in {"idle", "failing", "publishing"} : SetLocals(w, place, "none", 0)
        BY <2>2 DEF Raise, Return
      <3> QED BY <3>1, LeaveRuns
    <2> QED BY <2>1, <2>2 DEF Publish
  <1>10. ASSUME NEW e \in Triggers PROVE Caused(e)'
    <2>1. Waiting(e)' \subseteq Waiting(e)
      BY <1>3, <1>7, <1>8 DEF Waiting, Occurring, Unhandled
    <2>2. Fewer(e)
      BY <1>3, <1>9, <2>1 DEF Fewer
    <2> QED BY <2>2, FewerCaused DEF StageInv
  <1>11. PublishedOnce'
    <2>1. ASSUME NEW x \in Writers, NEW i \in DOMAIN outbox'[x], NEW j \in DOMAIN outbox'[x],
                 outbox'[x][i] = outbox'[x][j]
          PROVE  i = j
      <3>1. CASE x # w
        BY <1>5, <2>1, <3>1 DEF StageInv, PublishedOnce
      <3>2. CASE x = w
        <4>1. i + 1 = j + 1 /\ i \in Nat /\ j \in Nat
          BY <1>5, <1>6, <2>1, <3>2 DEF StageInv, PublishedOnce
        <4> QED BY <4>1
      <3> QED BY <3>1, <3>2
    <2>2. ASSUME NEW x \in Writers, NEW i \in DOMAIN outbox'[x]
          PROVE  /\ outbox'[x][i] \notin todo'
                 /\ \A y \in Writers : Outboxed(y, outbox[x][i])' => y = x
      <3>1. PICK u : u = outbox'[x][i]
        OBVIOUS
      <3>2. PICK j \in DOMAIN outbox[x] : outbox[x][j] = u /\ (x = w => j # 1)
        BY <1>5, <1>6, <3>1
      <3>3. u \notin todo /\ \A y \in Writers : Outboxed(y, u) => y = x
        BY <3>2 DEF StageInv, PublishedOnce
      <3>4. u # v
        BY <1>7, <3>2, <3>3 DEF StageInv, PublishedOnce
      <3>5. u \notin todo'
        BY <1>3, <3>3, <3>4
      <3>6. \A y \in Writers : Outboxed(y, u)' => y = x
        BY <1>8, <3>3
      <3> QED BY <3>1, <3>5, <3>6 DEF Outboxed
    <2> QED BY <2>1, <2>2 DEF PublishedOnce
  <1> QED BY <1>10, <1>11 DEF StageInv

\* What a code path records, beside the creation of the stream.
Recorded(o) == {Marks[o][i] : i \in DOMAIN Marks[o]}

\* A stage ends with its event, which is not the one that triggers it; a worker's
\* consolidation records both of the last.
LEMMA Produces ==
    ASSUME NEW o \in Ops, NEW e \in Triggers, Effect(e) \in Recorded(o)
    PROVE  \/ o \in Runners(e) /\ e \notin Recorded(o)
           \/ o = "Consolidate" /\ e = "GraphExtracted"
  <1>1. /\ o = "Attach" => Recorded(o) = {"Stored"}
        /\ o = "Reprocess" => Recorded(o) = {"Stored"}
        /\ o = "HandleStored" => Recorded(o) = {"Parsed"}
        /\ o = "HandleParsed" => Recorded(o) = {"Chunked"}
        /\ o = "HandleChunked" => Recorded(o) = {"GraphExtracted"}
        /\ o = "HandleGraphExtracted" => Recorded(o) = {"Indexed"}
        /\ o = "RecordFailure" => Recorded(o) = {"Failed"}
        /\ o = "Delete" => Recorded(o) = {"Deleted"}
    BY DEF Recorded, Marks
  <1>2. o = "Consolidate" => Recorded(o) = {"GraphExtracted", "Indexed"}
    BY DEF Recorded, Marks
  <1> QED BY <1>1, <1>2, Tables, Stages DEF Triggers

\* A save records an event once.
LEMMA SavedOnce ==
    ASSUME NEW o \in Ops, NEW s \in Statuses, s # "DELETED"
    PROVE  /\ \A i \in DOMAIN Uncommitted(o, s) :
                 Uncommitted(o, s)[i] \in Recorded(o) \cup {"Attached"}
           /\ \A x \in Recorded(o) : \E i \in DOMAIN Uncommitted(o, s) : Uncommitted(o, s)[i] = x
           /\ \A i, j \in DOMAIN Uncommitted(o, s) :
                 Uncommitted(o, s)[i] = Uncommitted(o, s)[j] => i = j
  <1>1. PICK m : m = Marks[o]
    OBVIOUS
  <1>2. \/ \E e \in EventTypes \ {"Attached"} : m = <<e>>
        \/ m = <<"GraphExtracted", "Indexed">>
    BY <1>1, Tables DEF Marks
  <1>3. /\ m \in Seq(EventTypes) /\ Recorded(o) = {m[i] : i \in DOMAIN m}
        /\ \A i, j \in DOMAIN m : m[i] = m[j] => i = j
        /\ \A i \in DOMAIN m : m[i] # "Attached"
    <2>1. Recorded(o) = {m[i] : i \in DOMAIN m}
      BY <1>1 DEF Recorded
    <2>2. CASE m = <<"GraphExtracted", "Indexed">>
      BY <2>1, <2>2, Tables
    <2>3. ASSUME NEW e \in EventTypes \ {"Attached"}, m = <<e>>
          PROVE  /\ m \in Seq(EventTypes) /\ \A i, j \in DOMAIN m : m[i] = m[j] => i = j
                 /\ \A i \in DOMAIN m : m[i] # "Attached"
      <3>1. m \in Seq(EventTypes) /\ DOMAIN m = {1} /\ m[1] = e
        BY <2>3
      <3> QED BY <3>1
    <2> QED BY <1>2, <2>1, <2>2, <2>3
  <1>4. CASE s # "NONE"
    <2>1. Uncommitted(o, s) = <<>> \o m
      BY <1>1, <1>4 DEF Uncommitted
    <2>2. Uncommitted(o, s) = m
      BY <1>3, <2>1
    <2> QED BY <1>3, <2>2
  <1>5. CASE s = "NONE"
    <2>1. PICK u : u = <<"Attached">> \o m
      OBVIOUS
    <2>2. Uncommitted(o, s) = u
      BY <1>1, <1>5, <2>1 DEF Uncommitted
    <2>3. /\ DOMAIN u = 1..(1 + Len(m)) /\ u[1] = "Attached" /\ Len(m) \in Nat
          /\ \A i \in 2..(1 + Len(m)) : u[i] = m[i - 1] /\ i - 1 \in DOMAIN m
          /\ \A i \in DOMAIN m : u[i + 1] = m[i] /\ i + 1 \in DOMAIN u
      BY <1>3, <2>1
    <2>4. \A i \in DOMAIN u : i = 1 \/ i \in 2..(1 + Len(m))
      BY <2>3
    <2>5. \A i \in DOMAIN u : u[i] \in Recorded(o) \cup {"Attached"}
      BY <1>3, <2>3, <2>4
    <2>6. \A x \in Recorded(o) : \E i \in DOMAIN u : u[i] = x
      BY <1>3, <2>3
    <2>7. \A i, j \in DOMAIN u : u[i] = u[j] => i = j
      BY <1>3, <2>3, <2>4
    <2> QED BY <2>2, <2>5, <2>6, <2>7
  <1> QED BY <1>4, <1>5

\* What a commit appends: versions that are new, each event once.
Appended(w, f) ==
    \/ /\ f \notin Recorded(op[w])
       /\ Occurring(f)' = Occurring(f) /\ Waiting(f)' \subseteq Waiting(f)
    \/ /\ f \in Recorded(op[w])
       /\ \E x : /\ x \notin Occurring(f) /\ Occurring(f)' = Occurring(f) \cup {x}
                 /\ Waiting(f)' \subseteq Waiting(f) \cup {x}

LEMMA CommitAppends ==
    ASSUME IInv, NEW w \in Writers, Commit(w)
    PROVE  /\ \A f \in EventTypes \ {"Attached"} : Appended(w, f)
           /\ PublishedOnce => PublishedOnce'
  <1>1. PICK events, k : events = Uncommitted(op[w], status[w]) /\ k = Len(log)
    OBVIOUS
  <1>2. PICK recorded : recorded = Recorded(op[w])
    OBVIOUS
  <1>3. /\ op[w] \in Ops /\ status[w] \in Statuses /\ status[w] # "DELETED"
        /\ version[w] = k /\ k \in Nat /\ log \in Seq(EventTypes)
    BY <1>1, CommitSees DEF IInv, TypeOK
  <1>4. /\ events \in Seq(EventTypes) /\ Len(events) \in Nat
        /\ \A i \in DOMAIN events : events[i] \in recorded \cup {"Attached"}
        /\ \A f \in recorded : \E i \in DOMAIN events : events[i] = f
        /\ \A i, j \in DOMAIN events : events[i] = events[j] => i = j
    BY <1>1, <1>2, <1>3, Saved, SavedOnce
  <1>5. /\ log' = log \o events /\ todo' = todo
        /\ outbox' = [outbox EXCEPT ![w] = [i \in 1..Len(events) |-> k + i]]
    BY <1>1, <1>3 DEF Commit, queues
  <1>6. /\ DOMAIN log = 1..k /\ DOMAIN log' = 1..(k + Len(events))
        /\ \A i \in 1..k : log'[i] = log[i]
        /\ \A i \in DOMAIN events : k + i \in DOMAIN log' /\ log'[k + i] = events[i]
                                   /\ k + i \notin 1..k
        /\ \A i \in DOMAIN log' \ 1..k : i - k \in DOMAIN events /\ i = k + (i - k)
    BY <1>1, <1>3, <1>4, <1>5
  <1>7. /\ \A x \in Writers : x # w => outbox'[x] = outbox[x]
        /\ DOMAIN outbox'[w] = DOMAIN events
        /\ \A i \in DOMAIN events : outbox'[w][i] = k + i
    BY <1>4, <1>5 DEF IInv, TypeOK
  <1>8. /\ todo \subseteq 1..k
        /\ \A x \in Writers : \A i \in DOMAIN outbox[x] : outbox[x][i] \in 1..k
    BY <1>6 DEF IInv, TypeOK, OutboxIsLogged
  <1>9. \A v \in 1..k : Unhandled(v)' => Unhandled(v)
    <2>1. ASSUME NEW v \in 1..k, NEW x \in Writers, Outboxed(x, v)' PROVE Outboxed(x, v)
      <3>1. PICK i \in DOMAIN outbox'[x] : outbox'[x][i] = v
        BY <2>1 DEF Outboxed
      <3>2. x # w
        BY <1>6, <1>7, <3>1
      <3> QED BY <1>7, <3>1, <3>2 DEF Outboxed
    <2> QED BY <1>5, <2>1 DEF Unhandled
  <1>10. ASSUME NEW f \in EventTypes \ {"Attached"} PROVE Appended(w, f)
    <2>1. \A i \in DOMAIN log' : log'[i] = f =>
             i \in Occurring(f) \/ \E j \in DOMAIN events : i = k + j /\ events[j] = f
      BY <1>6 DEF Occurring
    <2>2. Occurring(f) \subseteq Occurring(f)' /\ Occurring(f) \subseteq 1..k
      BY <1>3, <1>4, <1>6 DEF Occurring
    <2>3. CASE f \notin recorded
      <3>1. \A j \in DOMAIN events : events[j] # f
        BY <1>4, <2>3
      <3>2. Occurring(f)' = Occurring(f)
        BY <2>1, <2>2, <3>1 DEF Occurring
      <3>3. Waiting(f)' \subseteq Waiting(f)
        BY <1>9, <2>2, <3>2 DEF Waiting
      <3> QED BY <1>2, <2>3, <3>2, <3>3 DEF Appended
    <2>4. CASE f \in recorded
      <3>1. PICK j \in DOMAIN events : events[j] = f
        BY <1>4, <2>4
      <3>2. PICK x : x = k + j
        OBVIOUS
      <3>3. x \in Occurring(f)' /\ x \notin Occurring(f)
        BY <1>6, <2>2, <3>1, <3>2 DEF Occurring
      <3>4. \A i \in DOMAIN log' : log'[i] = f => i \in Occurring(f) \/ i = x
        BY <1>4, <2>1, <3>1, <3>2
      <3>5. Occurring(f)' = Occurring(f) \cup {x}
        BY <2>2, <3>3, <3>4 DEF Occurring
      <3>6. Waiting(f)' \subseteq Waiting(f) \cup {x}
        BY <1>9, <2>2, <3>5 DEF Waiting
      <3> QED BY <1>2, <2>4, <3>3, <3>5, <3>6 DEF Appended
    <2> QED BY <2>3, <2>4
  <1>11. ASSUME PublishedOnce PROVE PublishedOnce'
    <2>1. ASSUME NEW x \in Writers, NEW i \in DOMAIN outbox'[x], NEW j \in DOMAIN outbox'[x],
                 outbox'[x][i] = outbox'[x][j]
          PROVE  i = j
      <3>1. CASE x # w
        BY <1>7, <1>11, <2>1, <3>1 DEF PublishedOnce
      <3>2. CASE x = w
        <4>1. k + i = k + j /\ i \in Nat /\ j \in Nat
          BY <1>4, <1>7, <2>1, <3>2
        <4> QED BY <1>3, <4>1
      <3> QED BY <3>1, <3>2
    <2>2. ASSUME NEW x \in Writers, NEW i \in DOMAIN outbox'[x]
          PROVE  /\ outbox'[x][i] \notin todo'
                 /\ \A y \in Writers : Outboxed(y, outbox[x][i])' => y = x
      <3>1. CASE x = w
        <4>1. outbox'[x][i] \notin 1..k
          BY <1>6, <1>7, <3>1
        <4>2. \A y \in Writers : y # w => ~Outboxed(y, outbox[x][i])'
          BY <1>7, <1>8, <4>1 DEF Outboxed
        <4> QED BY <1>5, <1>8, <3>1, <4>1, <4>2
      <3>2. CASE x # w
        <4>1. /\ outbox'[x][i] = outbox[x][i] /\ outbox[x][i] \in 1..k
              /\ i \in DOMAIN outbox[x]
          BY <1>7, <1>8, <3>2
        <4>2. ~Outboxed(w, outbox[x][i])'
          BY <1>6, <1>7, <4>1 DEF Outboxed
        <4>3. \A y \in Writers : y # w /\ Outboxed(y, outbox[x][i])' => y = x
          BY <1>7, <1>11, <4>1 DEF PublishedOnce, Outboxed
        <4>4. outbox'[x][i] \notin todo'
          BY <1>5, <1>11, <4>1 DEF PublishedOnce
        <4> QED BY <4>2, <4>3, <4>4
      <3> QED BY <3>1, <3>2
    <2> QED BY <2>1, <2>2 DEF PublishedOnce
  <1> QED BY <1>10, <1>11

\* How the counts of a type change with a commit.
LEMMA AppendedCounts ==
    ASSUME IInv, NEW w \in Writers, NEW f, Appended(w, f)
    PROVE  /\ Cardinality(Occurring(f)') \in Nat /\ Cardinality(Waiting(f)') \in Nat
           /\ Cardinality(Occurring(f)) \in Nat /\ Cardinality(Waiting(f)) \in Nat
           /\ f \notin Recorded(op[w]) =>
                 /\ Cardinality(Occurring(f)') = Cardinality(Occurring(f))
                 /\ Cardinality(Waiting(f)') <= Cardinality(Waiting(f))
           /\ f \in Recorded(op[w]) =>
                 /\ Cardinality(Occurring(f)') = Cardinality(Occurring(f)) + 1
                 /\ Cardinality(Waiting(f)') <= Cardinality(Waiting(f)) + 1
  <1>1. /\ IsFiniteSet(Occurring(f)) /\ IsFiniteSet(Waiting(f))
        /\ Cardinality(Occurring(f)) \in Nat /\ Cardinality(Waiting(f)) \in Nat
    BY Counts
  <1>2. CASE f \notin Recorded(op[w])
    <2>1. Occurring(f)' = Occurring(f) /\ Waiting(f)' \subseteq Waiting(f)
      BY <1>2 DEF Appended
    <2>2. Cardinality(Waiting(f)') \in Nat /\ Cardinality(Waiting(f)') <= Cardinality(Waiting(f))
      BY <1>1, <2>1, NoneMore
    <2> QED BY <1>1, <1>2, <2>1, <2>2
  <1>3. CASE f \in Recorded(op[w])
    <2>1. PICK x : /\ x \notin Occurring(f) /\ Occurring(f)' = Occurring(f) \cup {x}
                   /\ Waiting(f)' \subseteq Waiting(f) \cup {x}
      BY <1>3 DEF Appended
    <2>2. Cardinality(Occurring(f)') = Cardinality(Occurring(f)) + 1
      BY <1>1, <2>1, FS_AddElement
    <2>3. /\ Cardinality(Waiting(f)') \in Nat
          /\ Cardinality(Waiting(f)') <= Cardinality(Waiting(f)) + 1
      BY <1>1, <2>1, OneMore
    <2> QED BY <1>1, <1>3, <2>2, <2>3
  <1> QED BY <1>2, <1>3

LEMMA CommitKeeps ==
    ASSUME IInv, StageInv, NEW w \in Writers, Commit(w)
    PROVE  StageInv'
  <1>1. op[w] \in Ops /\ pc[w] = "appending" /\ jobs' = jobs
    BY CommitSees DEF Commit, queues
  <1>2. PICK o : SetLocals(w, "publishing", o, 0)
    BY DEF Commit
  <1>3. ASSUME NEW e \in Triggers PROVE Caused(e)'
    <2>1. PICK f : f = Effect(e)
      OBVIOUS
    <2>2. e \in EventTypes \ {"Attached"} /\ f \in EventTypes \ {"Attached"}
      BY <2>1, Tables, Stages DEF Triggers
    <2>3. Appended(w, e) /\ Appended(w, f)
      BY <2>2, CommitAppends
    <2>4. IsFiniteSet(Running(e)) /\ Cardinality(Running(e)) \in Nat
      BY FS_CardinalityType DEF StageInv, Caused
    <2>5. Running(e)' \subseteq Running(e) \ {w}
      BY <1>2, LeaveRuns
    <2>6. /\ IsFiniteSet(Running(e)') /\ Cardinality(Running(e)') \in Nat
          /\ Cardinality(Running(e)') <= Cardinality(Running(e))
          /\ op[w] \in Runners(e) => Cardinality(Running(e)') + 1 <= Cardinality(Running(e))
      <3>1. op[w] \in Runners(e) => w \in Running(e)
        BY <1>1 DEF Running
      <3>2. CASE w \in Running(e)
        BY <2>4, <2>5, <3>2, OneLess
      <3>3. CASE w \notin Running(e)
        BY <2>4, <2>5, <3>1, <3>3, NoneMore
      <3> QED BY <2>4, <3>2, <3>3
    <2>7. Dispatched(e) \in Nat /\ Dispatched(e)' = Dispatched(e)
      BY <1>1 DEF Dispatched, IInv, TypeOK
    <2>8. Cardinality(Occurring(f)) + Cardinality(Waiting(e)) + Cardinality(Running(e))
             + Dispatched(e) <= Allowed(e)
      BY <2>1 DEF StageInv, Caused
    <2>9. f \in Recorded(op[w]) =>
             \/ op[w] \in Runners(e) /\ e \notin Recorded(op[w])
             \/ e \in Recorded(op[w]) /\ e = "GraphExtracted"
      <3>1. "GraphExtracted" \in Recorded("Consolidate")
        BY DEF Recorded, Marks
      <3> QED BY <1>1, <2>1, <3>1, Produces
    <2>10. Cardinality(Occurring(f)') + Cardinality(Waiting(e)') + Cardinality(Running(e)')
              + Dispatched(e)' <= Allowed(e)'
      <3>1. PICK a, b, c, d, x, y, z :
               /\ a = Cardinality(Occurring(f)) /\ b = Cardinality(Waiting(e))
               /\ c = Cardinality(Running(e)) /\ d = Cardinality(Occurring(e))
               /\ x = Cardinality(Occurring(f)') /\ y = Cardinality(Waiting(e)')
               /\ z = Cardinality(Running(e)')
        OBVIOUS
      <3>2. PICK t : t = Cardinality(Occurring(e)')
        OBVIOUS
      <3>3. /\ a \in Nat /\ b \in Nat /\ c \in Nat /\ d \in Nat
            /\ x \in Nat /\ y \in Nat /\ z \in Nat /\ t \in Nat
        BY <2>3, <2>4, <2>6, <3>1, <3>2, AppendedCounts
      <3>4. /\ f \notin Recorded(op[w]) => x = a
            /\ f \in Recorded(op[w]) => x = a + 1
            /\ e \notin Recorded(op[w]) => t = d /\ y <= b
            /\ e \in Recorded(op[w]) => t = d + 1 /\ y <= b + 1
        BY <2>3, <3>1, <3>2, AppendedCounts
      <3>5. z <= c /\ (op[w] \in Runners(e) => z + 1 <= c)
        BY <2>6, <3>1
      <3>6. CASE e = "GraphExtracted"
        <4>1. Allowed(e) = 2 * d /\ Allowed(e)' = 2 * t
          BY <3>1, <3>2, <3>6 DEF Allowed
        <4> QED BY <2>7, <2>8, <2>9, <3>1, <3>3, <3>4, <3>5, <4>1
      <3>7. CASE e # "GraphExtracted"
        <4>1. Allowed(e) = d /\ Allowed(e)' = t
          BY <3>1, <3>2, <3>3, <3>7 DEF Allowed
        <4> QED BY <2>7, <2>8, <2>9, <3>1, <3>3, <3>4, <3>5, <3>7, <4>1
      <3> QED BY <3>6, <3>7
    <2>11. Cardinality(Occurring(Effect(e))') + Cardinality(Waiting(e)')
              + Cardinality(Running(e)') + Dispatched(e)' <= Allowed(e)'
      BY <2>1, <2>10
    <2> QED BY <2>6, <2>11 DEF Caused
  <1>4. PublishedOnce'
    BY CommitAppends DEF StageInv
  <1> QED BY <1>3, <1>4 DEF StageInv

-----------------------------------------------------------------------------
LEMMA StageInit == Init => StageInv
  <1> SUFFICES ASSUME Init PROVE StageInv
    OBVIOUS
  <1>1. /\ log = <<>> /\ jobs = 0
        /\ \A w \in Writers : pc[w] = "idle" /\ outbox[w] = <<>>
    BY DEF Init
  <1>2. DOMAIN log = {} /\ \A w \in Writers : DOMAIN outbox[w] = {}
    BY <1>1, EmptyOutbox
  <1>3. ASSUME NEW e \in Triggers PROVE Caused(e)
    <2>1. /\ Occurring(e) = {} /\ Occurring(Effect(e)) = {} /\ Waiting(e) = {} /\ Running(e) = {}
          /\ Dispatched(e) = 0
      BY <1>1, <1>2 DEF Occurring, Waiting, Running, Dispatched
    <2>2. Allowed(e) = 0
      BY <2>1, FS_EmptySet DEF Allowed
    <2> QED BY <2>1, <2>2, FS_EmptySet DEF Caused
  <1>4. PublishedOnce
    BY <1>2 DEF PublishedOnce
  <1> QED BY <1>3, <1>4 DEF StageInv

LEMMA StageStep == IInv /\ StageInv /\ [Next]_vars => StageInv'
  <1> SUFFICES ASSUME IInv, StageInv, [Next]_vars PROVE StageInv'
    OBVIOUS
  <1> QED BY RequestKeeps, HandleKeeps, ConsolidateKeeps, DispatchKeeps, GiveUpKeeps,
             CheckVersionKeeps, CommitKeeps, PublishKeeps, CrashKeeps, NothingKeeps
          DEF Next, Step

\* No stage ends more often than it was triggered, however many tasks, workers and retries
\* overlap and wherever they fail (the subscriptions of the saga and the mark_* methods).
THEOREM StagesCaused == Spec => []StagesAreCaused
  <1>1. IInv /\ StageInv => StagesAreCaused
    <2> SUFFICES ASSUME IInv, StageInv PROVE StagesAreCaused
      OBVIOUS
    <2>1. ASSUME NEW e \in Triggers
          PROVE  /\ Cardinality(Occurring(Effect(e))) <= Allowed(e)
                 /\ Cardinality(Occurring(e)) \in Nat
      <3>1. /\ Cardinality(Occurring(Effect(e))) \in Nat /\ Cardinality(Waiting(e)) \in Nat
            /\ Cardinality(Running(e)) \in Nat /\ Dispatched(e) \in Nat
            /\ Cardinality(Occurring(e)) \in Nat
        BY Counts, FS_CardinalityType DEF StageInv, Caused, Dispatched, IInv, TypeOK
      <3>2. Allowed(e) \in Nat
        BY <3>1 DEF Allowed
      <3> QED BY <3>1, <3>2 DEF StageInv, Caused
    <2>2. \A e : Occurrences(e) = Cardinality(Occurring(e))
      BY DEF Occurrences, Occurring
    <2>3. \A e \in Triggers : e # "GraphExtracted" => Allowed(e) = Occurrences(e)
      BY <2>1, <2>2 DEF Allowed
    <2>4. Allowed("GraphExtracted") = 2 * Occurrences("GraphExtracted")
      BY <2>2 DEF Allowed
    <2> QED BY <2>1, <2>2, <2>3, <2>4, Stages DEF StagesAreCaused, Triggers
  <1>2. Init => IInv /\ StageInv
    BY InitIInv, StageInit
  <1>3. IInv /\ StageInv /\ [Next]_vars => (IInv /\ StageInv)'
    BY NextIInv, StageStep
  <1> QED BY <1>1, <1>2, <1>3, PTL DEF Spec

-----------------------------------------------------------------------------
(* One stage at a time. *)

Rival == deletes # 0 \/ reprocesses # 0 \/ raises # 0
Busy == {w \in Writers : pc[w] \in {"working", "appending"}}
Pending == {v \in DOMAIN log : log[v] \in Triggers /\ Unhandled(v)}

\* One thing goes on with the document: the attachment, an event whose handler has not
\* begun, a dispatched extraction or a writer.
OneAtATime ==
    /\ \A w, x \in Busy : w = x
    /\ \A u, v \in Pending : u = v
    /\ Busy # {} => Pending = {}
    /\ jobs > 0 => jobs = 1 /\ Busy = {} /\ Pending = {}
    /\ origin = "new" => jobs = 0 /\ Busy = {} /\ Pending = {}

\* So a writer has loaded the latest version.
Serial ==
    /\ conflicted = FALSE
    /\ \A w \in Writers : pc[w] # "failing"
    /\ \A w \in Busy : version[w] = Len(log)
    /\ OneAtATime

SerialInv == Rival \/ Serial

LEMMA RivalTyped ==
    ASSUME IInv
    PROVE  /\ deletes \in Nat /\ reprocesses \in Nat /\ raises \in Nat /\ jobs \in Nat
           /\ Rival => deletes + reprocesses + raises > 0
  <1>1. deletes \in Nat /\ reprocesses \in Nat /\ raises \in Nat /\ jobs \in Nat
    BY BoundsAssumption DEF IInv, TypeOK
  <1> QED BY <1>1 DEF Rival

\* Rivals are counted and never forgotten.
LEMMA RivalStays ==
    ASSUME IInv, [Next]_vars
    PROVE  /\ Rival => Rival'
           /\ raises' # raises \/ deletes' # deletes \/ reprocesses' # reprocesses => Rival'
  <1>1. /\ deletes' \in {deletes, deletes + 1} /\ reprocesses' \in {reprocesses, reprocesses + 1}
        /\ raises' \in {raises, raises + 1}
    <2>1. ASSUME NEW w \in Writers,
                 Request(w) \/ Step(w) \/ StepRaises(w) \/ Rollback(w)
          PROVE  /\ deletes' \in {deletes, deletes + 1}
                 /\ reprocesses' \in {reprocesses, reprocesses + 1}
                 /\ raises' \in {raises, raises + 1}
      BY <2>1 DEF Request, Attach, Reprocess, Delete, Step, Handle, Consolidate, RecordFailure,
                  Dispatch, NothingToSave, CheckVersion, Commit, Publish, StepRaises, Rollback,
                  Load, Fault, queues, history, requests
    <2> QED BY <2>1 DEF Next, DeleteLegacyRow, Crash, vars, queues, history, requests
  <1>2. deletes \in Nat /\ reprocesses \in Nat /\ raises \in Nat
    BY RivalTyped
  <1>3. /\ deletes' \in Nat /\ deletes <= deletes' /\ reprocesses' \in Nat
        /\ reprocesses <= reprocesses' /\ raises' \in Nat /\ raises <= raises'
    BY <1>1, <1>2
  <1> QED BY <1>2, <1>3 DEF Rival

\* A step after which fewer writers are busy and fewer events pending.
LEMMA FewerSerial ==
    ASSUME IInv, Serial, log' = log, conflicted' = conflicted,
           Busy' \subseteq Busy, Pending' \subseteq Pending, UNCHANGED <<jobs, origin>>,
           \A w \in Writers : pc'[w] # "failing",
           \A w \in Busy' : version'[w] = version[w]
    PROVE  Serial'
  <1>1. \A w \in Busy' : version'[w] = Len(log')
    BY DEF Serial
  <1>2. OneAtATime'
    BY DEF Serial, OneAtATime
  <1> QED BY <1>1, <1>2 DEF Serial

\* A writer that ends, or has committed, is not busy any more.
LEMMA LeaveSerial ==
    ASSUME IInv, Serial, NEW w \in Writers, NEW place \in {"idle", "publishing"}, NEW o,
           SetLocals(w, place, o, 0)
    PROVE  /\ Busy' \subseteq Busy \ {w} /\ \A x \in Writers : pc'[x] # "failing"
           /\ \A x \in Busy' : version'[x] = version[x]
  <1>1. /\ pc \in [Writers -> {"idle", "working", "appending", "publishing", "failing"}]
        /\ version \in [Writers -> Nat]
    BY DEF IInv, TypeOK
  <1>2. pc' = [pc EXCEPT ![w] = place] /\ version' = [version EXCEPT ![w] = 0]
    BY DEF SetLocals
  <1>3. /\ pc'[w] = place
        /\ \A x \in Writers : x # w => pc'[x] = pc[x] /\ version'[x] = version[x]
    BY <1>1, <1>2
  <1> QED BY <1>3 DEF Busy, Serial

\* What was going on alone is now a busy writer.
LEMMA LoadSerial ==
    ASSUME IInv, Serial, NEW w \in Writers, NEW o, Load(w, o),
           Busy = {}, Pending' = {}, jobs' = 0, origin' # "new"
    PROVE  Serial'
  <1>1. /\ pc \in [Writers -> {"idle", "working", "appending", "publishing", "failing"}]
        /\ version \in [Writers -> Nat]
    BY DEF IInv, TypeOK
  <1>2. /\ pc' = [pc EXCEPT ![w] = "working"] /\ version' = [version EXCEPT ![w] = Len(log)]
        /\ UNCHANGED <<log, conflicted>>
    BY DEF Load, SetLocals, store, history
  <1>3. /\ pc'[w] = "working" /\ version'[w] = Len(log)
        /\ \A x \in Writers : x # w => pc'[x] = pc[x]
    BY <1>1, <1>2
  <1>4. Busy' = {w}
    BY <1>3 DEF Busy
  <1>5. OneAtATime'
    BY <1>4 DEF OneAtATime
  <1>6. \A x \in Writers : pc'[x] # "failing"
    BY <1>3 DEF Serial
  <1> QED BY <1>2, <1>3, <1>4, <1>5, <1>6 DEF Serial

LEMMA SamePending ==
    ASSUME UNCHANGED <<log, outbox>>, todo' \subseteq todo
    PROVE  Pending' \subseteq Pending
  BY DEF Pending, Unhandled, Outboxed

LEMMA StartSerial ==
    ASSUME IInv, StageInv, Serial, NEW w \in Writers,
           Attach(w) \/ (\E v \in todo : Handle(w, v)) \/ Consolidate(w)
    PROVE  Serial'
  <1>0. jobs \in Nat
    BY RivalTyped
  <1>1. CASE Attach(w)
    <2>1. /\ origin = "new" /\ origin' = "used" /\ Load(w, "Attach")
          /\ UNCHANGED <<log, outbox, todo, jobs>>
      BY <1>1 DEF Attach, Load, store
    <2>2. Busy = {} /\ Pending = {} /\ jobs = 0
      BY <2>1 DEF Serial, OneAtATime
    <2>3. Pending' = {}
      BY <2>1, <2>2, SamePending
    <2> QED BY <2>1, <2>2, <2>3, LoadSerial
  <1>2. ASSUME NEW v \in todo, Handle(w, v) PROVE Serial'
    <2>1. /\ todo' = todo \ {v} /\ UNCHANGED <<log, jobs, outbox, origin>>
          /\ Load(w, HandlerOf[log[v]])
      BY <1>2 DEF Handle, Taken, Load, store, requests
    <2>2. v \in Pending
      <3>1. v \in DOMAIN log /\ log[v] \in DOMAIN HandlerOf
        BY DEF IInv, TypeOK
      <3> QED BY <3>1, Handlers DEF Pending, Unhandled
    <2>3. Busy = {} /\ Pending = {v} /\ jobs = 0 /\ origin # "new"
      BY <1>0, <2>2 DEF Serial, OneAtATime
    <2>4. \A x \in Writers : ~Outboxed(x, v)
      BY DEF StageInv, PublishedOnce, Outboxed
    <2>5. v \notin Pending'
      BY <2>1, <2>4 DEF Pending, Unhandled, Outboxed
    <2>6. Pending' = {}
      BY <2>1, <2>3, <2>5, SamePending
    <2> QED BY <2>1, <2>3, <2>6, LoadSerial
  <1>3. CASE Consolidate(w)
    <2>1. /\ jobs > 0 /\ jobs' = jobs - 1 /\ UNCHANGED <<log, outbox, todo, origin>>
          /\ Load(w, "Consolidate")
      BY <1>3 DEF Consolidate, Load, store, requests
    <2>2. Busy = {} /\ Pending = {} /\ jobs = 1 /\ origin # "new"
      BY <1>0, <2>1 DEF Serial, OneAtATime
    <2>3. Pending' = {}
      BY <2>1, <2>2, SamePending
    <2> QED BY <2>1, <2>2, <2>3, LoadSerial
  <1> QED BY <1>1, <1>2, <1>3

\* A step before the commit, if it does not raise: the version a writer loaded is the latest.
LEMMA WorkSerial ==
    ASSUME IInv, Serial, NEW w \in Writers, raises' = raises,
           \/ Dispatch(w) \/ NothingToSave(w) \/ CheckVersion(w) \/ StepRaises(w)
           \/ Rollback(w) \/ RecordFailure(w)
    PROVE  Serial'
  <1>1. raises \in Nat /\ raises + 1 # raises /\ jobs \in Nat
    BY RivalTyped
  <1>2. ~Fault
    BY <1>1 DEF Fault
  <1>3. ~StepRaises(w) /\ ~RecordFailure(w)
    BY <1>2 DEF StepRaises, RecordFailure, Serial
  <1>4. CASE Dispatch(w)
    <2>1. /\ jobs' = jobs + 1 /\ UNCHANGED <<log, outbox, todo, origin, conflicted>>
          /\ SetLocals(w, "idle", "none", 0) /\ pc[w] = "working"
      BY <1>2, <1>4 DEF Dispatch, store, requests, Return
    <2>2. w \in Busy
      BY <2>1 DEF Busy
    <2>3. Busy = {w} /\ Pending = {} /\ jobs = 0 /\ origin # "new"
      BY <1>1, <2>2 DEF Serial, OneAtATime
    <2>4. Busy' = {} /\ \A x \in Writers : pc'[x] # "failing"
      BY <2>1, <2>3, LeaveSerial
    <2>5. Pending' = {}
      BY <2>1, <2>3, SamePending
    <2>6. OneAtATime'
      BY <2>1, <2>3, <2>4, <2>5 DEF OneAtATime
    <2> QED BY <2>1, <2>4, <2>6 DEF Serial
  <1>5. CASE NothingToSave(w)
    <2>1. /\ UNCHANGED <<log, outbox, todo, jobs, origin, conflicted>>
          /\ SetLocals(w, "idle", "none", 0)
      BY <1>5 DEF NothingToSave, store, queues, requests, history, Return
    <2> QED BY <2>1, LeaveSerial, SamePending, FewerSerial
  <1>6. CASE CheckVersion(w)
    <2>1. pc[w] = "working" /\ w \in Busy
      BY <1>6 DEF CheckVersion, ReadyToSave, Busy
    <2>2. streamVersion = version[w]
      BY <2>1 DEF Serial, IInv, VersionCountsEvents
    <2>3. /\ UNCHANGED <<log, outbox, todo, jobs, origin, conflicted, version>>
          /\ pc' = [pc EXCEPT ![w] = "appending"]
      BY <1>6, <2>2 DEF CheckVersion, Goto, locals, queues, requests
    <2>4. pc'[w] = "appending" /\ \A x \in Writers : x # w => pc'[x] = pc[x]
      BY <2>3 DEF IInv, TypeOK
    <2>5. Busy' \subseteq Busy /\ \A x \in Writers : pc'[x] # "failing"
      BY <2>1, <2>4 DEF Busy, Serial
    <2> QED BY <2>3, <2>5, SamePending, FewerSerial
  <1>7. ~Rollback(w)
    <2>1. SUFFICES ASSUME Rollback(w) PROVE FALSE
      OBVIOUS
    <2>2. pc[w] = "appending" /\ ~Unique(w)
      BY <1>2, <2>1 DEF Rollback
    <2>3. version[w] = Len(log) /\ Len(log) \in Nat
      BY <2>2 DEF Serial, Busy, IInv, TypeOK
    <2> QED BY <2>2, <2>3 DEF Unique
  <1> QED BY <1>3, <1>4, <1>5, <1>6, <1>7

\* A save appends one event at most that a stage waits for.
LEMMA OneTrigger ==
    ASSUME NEW o \in Ops, NEW e \in Triggers, NEW f \in Triggers,
           e \in Recorded(o), f \in Recorded(o)
    PROVE  e = f
  <1>1. Marks[o] = <<"GraphExtracted", "Indexed">> \/ \E x \in EventTypes : Marks[o] = <<x>>
    BY Tables DEF Marks
  <1>2. CASE \E x \in EventTypes : Marks[o] = <<x>>
    <2>1. PICK x \in EventTypes : Marks[o] = <<x>>
      BY <1>2
    <2>2. Recorded(o) = {x}
      BY <2>1 DEF Recorded
    <2> QED BY <2>2
  <1>3. CASE Marks[o] = <<"GraphExtracted", "Indexed">>
    <2>1. Recorded(o) = {"GraphExtracted", "Indexed"}
      BY <1>3 DEF Recorded
    <2> QED BY <2>1 DEF Triggers
  <1> QED BY <1>1, <1>2, <1>3

LEMMA CommitSerial ==
    ASSUME IInv, Serial, NEW w \in Writers, Commit(w)
    PROVE  Serial'
  <1>1. /\ op[w] \in Ops /\ w \in Busy /\ UNCHANGED <<jobs, origin, conflicted>>
    BY CommitSees DEF Commit, queues, requests, history, Busy
  <1>2. Busy = {w} /\ Pending = {} /\ jobs = 0 /\ origin # "new"
    BY <1>1, RivalTyped DEF Serial, OneAtATime
  <1>3. PICK o : SetLocals(w, "publishing", o, 0)
    BY DEF Commit
  <1>4. Busy' = {} /\ \A x \in Writers : pc'[x] # "failing"
    BY <1>2, <1>3, LeaveSerial
  <1>5. \A e \in Triggers : Waiting(e) = {} /\ Appended(w, e)
    <2>1. \A e \in Triggers : e \in EventTypes \ {"Attached"}
      BY Tables DEF Triggers
    <2>2. \A e \in Triggers : Waiting(e) = {}
      BY <1>2 DEF Pending, Waiting, Occurring
    <2> QED BY <2>1, <2>2, CommitAppends
  <1>6. ASSUME NEW u \in Pending', NEW v \in Pending' PROVE u = v
    <2>1. PICK e \in Triggers, f \in Triggers : u \in Waiting(e)' /\ v \in Waiting(f)'
      BY DEF Pending, Waiting, Occurring
    <2>2. e \in Recorded(op[w]) /\ f \in Recorded(op[w])
      BY <1>5, <2>1 DEF Appended
    <2>3. e = f
      BY <1>1, <2>2, OneTrigger
    <2> QED BY <1>5, <2>1, <2>2, <2>3 DEF Appended
  <1>7. OneAtATime'
    BY <1>1, <1>2, <1>4, <1>6 DEF OneAtATime
  <1> QED BY <1>1, <1>4, <1>7 DEF Serial

LEMMA PublishSerial ==
    ASSUME IInv, StageInv, Serial, NEW w \in Writers, Publish(w), raises' = raises
    PROVE  Serial'
  <1>1. PICK v : v = Head(outbox[w])
    OBVIOUS
  <1>2. ~Fault
    BY RivalTyped DEF Fault
  <1>3. /\ outbox[w] \in Seq(Nat) /\ outbox[w] # <<>> /\ outbox \in [Writers -> Seq(Nat)]
        /\ pc \in [Writers -> {"idle", "working", "appending", "publishing", "failing"}]
    BY DEF IInv, TypeOK, OutboxIsLogged, Publish
  <1>4. /\ UNCHANGED <<log, jobs, origin, conflicted>> /\ todo' \subseteq todo \cup {v}
        /\ outbox' = [outbox EXCEPT ![w] = Tail(outbox[w])]
        /\ Return(w) \/ (Goto(w, "publishing") /\ pc[w] = "publishing")
    BY <1>1, <1>2 DEF Publish, Started, store, requests
  <1>5. \A u : Unhandled(u)' => Unhandled(u)
    <2> QED BY <1>1, <1>4, PublishDrops DEF Unhandled
  <1>6. Pending' \subseteq Pending
    BY <1>4, <1>5 DEF Pending
  <1>7. CASE Return(w)
    <2>1. SetLocals(w, "idle", "none", 0)
      BY <1>7 DEF Return
    <2> QED BY <1>4, <1>6, <2>1, LeaveSerial, FewerSerial
  <1>8. CASE Goto(w, "publishing") /\ pc[w] = "publishing"
    <2>1. UNCHANGED <<pc, version>>
      BY <1>3, <1>8 DEF Goto, locals
    <2>2. Busy' = Busy /\ \A x \in Writers : pc'[x] # "failing"
      BY <2>1 DEF Busy, Serial
    <2> QED BY <1>4, <1>6, <2>1, <2>2, FewerSerial
  <1> QED BY <1>4, <1>7, <1>8

LEMMA CrashSerial ==
    ASSUME IInv, Serial, Crash
    PROVE  Serial'
  <1>1. /\ UNCHANGED <<log, jobs, origin, conflicted>> /\ todo' = {}
        /\ \A w \in Writers : outbox'[w] = <<>> /\ pc'[w] = "idle"
    BY DEF Crash, requests
  <1>2. \A w \in Writers : DOMAIN outbox'[w] = {}
    BY <1>1, EmptyOutbox
  <1>3. Busy' = {} /\ Pending' = {}
    BY <1>1, <1>2 DEF Busy, Pending, Unhandled, Outboxed
  <1>4. \A w \in Writers : pc'[w] # "failing"
    BY <1>1
  <1> QED BY <1>1, <1>3, <1>4, FewerSerial

LEMMA SerialInit == Init => SerialInv
  <1> SUFFICES ASSUME Init PROVE Serial
    BY DEF SerialInv
  <1>1. /\ log = <<>> /\ jobs = 0 /\ conflicted = FALSE /\ \A w \in Writers : pc[w] = "idle"
    BY DEF Init
  <1>2. Busy = {} /\ Pending = {}
    <2>1. DOMAIN log = {}
      BY <1>1, EmptyOutbox
    <2> QED BY <1>1, <2>1 DEF Busy, Pending
  <1> QED BY <1>1, <1>2 DEF Serial, OneAtATime

LEMMA SerialStep == IInv /\ StageInv /\ SerialInv /\ [Next]_vars => SerialInv'
  <1> SUFFICES ASSUME IInv, StageInv, Serial, [Next]_vars, ~Rival' PROVE Serial'
    BY RivalStays DEF SerialInv
  <1>1. raises' = raises /\ deletes' = deletes /\ reprocesses' = reprocesses
    BY RivalStays
  <1>2. \A w \in Writers : ~Reprocess(w) /\ ~Delete(w)
    BY <1>1, RivalTyped DEF Reprocess, Delete
  <1>3. ~DeleteLegacyRow
    BY <1>1, RivalTyped DEF DeleteLegacyRow
  <1>4. CASE UNCHANGED vars
    <2>1. UNCHANGED <<log, todo, jobs, origin, outbox, pc, version, conflicted>>
      BY <1>4 DEF vars, store, queues, requests, history, locals
    <2> QED BY <2>1, SamePending, FewerSerial DEF Busy, Serial
  <1> QED BY <1>1, <1>2, <1>3, <1>4, StartSerial, WorkSerial, CommitSerial, PublishSerial,
             CrashSerial
          DEF Next, Request, Step

\* A save is refused for its version only if a delete, a reprocess or an exception came in
\* between: the stages of an ingestion do not overlap, also across restarts
\* (append_events, the subscriptions of the saga, the barrier of the workers).
THEOREM StagesAreSerial == Spec => []ConflictNeedsRival
  <1>1. IInv /\ SerialInv => ConflictNeedsRival
    BY RivalTyped DEF SerialInv, Serial, ConflictNeedsRival
  <1>2. Init => IInv /\ StageInv /\ SerialInv
    BY InitIInv, StageInit, SerialInit
  <1>3. IInv /\ StageInv /\ SerialInv /\ [Next]_vars => (IInv /\ StageInv /\ SerialInv)'
    BY NextIInv, StageStep, SerialStep
  <1> QED BY <1>1, <1>2, <1>3, PTL DEF Spec
=============================================================================
