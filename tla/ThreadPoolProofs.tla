-------------------------- MODULE ThreadPoolProofs --------------------------
(***************************************************************************)
(* The safety of ThreadPool for any finite set of workers, any finite set   *)
(* of callers and any set of tasks.                                         *)
(***************************************************************************)
EXTENDS ThreadPool, FiniteSetTheorems, SequenceTheorems, TLAPS

(* A queue seen as the set of its elements. *)
LEMMA QueuedSplit ==
  ASSUME NEW S, NEW q \in Seq(S), q # <<>>
  PROVE  /\ Head(q) \in S
         /\ Tail(q) \in Seq(S)
         /\ Len(Tail(q)) = Len(q) - 1
BY HeadTailProperties

-----------------------------------------------------------------------------
(* Type correctness, and the pairing of a worker's place with the task it   *)
(* holds: a worker has a task exactly while it runs it.                     *)
THEOREM TypeCorrect == Spec => []TypeOK
<1>1. Init => TypeOK
  BY EmptySeq DEF Init, TypeOK, WorkerState
<1>2. TypeOK /\ [Next]_vars => TypeOK'
  <2> SUFFICES ASSUME TypeOK, [Next]_vars PROVE TypeOK'
    OBVIOUS
  <2> USE DEF TypeOK, WorkerState
  <2>1. ASSUME NEW p \in Threads, NEW t \in Tasks, Enqueue(p, t) PROVE TypeOK'
    BY <2>1 DEF Enqueue
  <2>2. ASSUME NEW p \in Threads, NotifyOne(p) PROVE TypeOK'
    BY <2>2 DEF NotifyOne, Waiting
  <2>3. ASSUME NEW w \in Workers, Take(w) PROVE TypeOK'
    <3>1. Head(tasks) \in Tasks /\ Tail(tasks) \in Seq(Tasks)
      BY <2>3, QueuedSplit DEF Take
    <3>2. Head(tasks) # NoTask
      BY <3>1, ThreadPoolAssumption
    <3>3. QED BY <2>3, <3>1, <3>2 DEF Take
  <2>4. ASSUME NEW w \in Workers, Wait(w) PROVE TypeOK'
    BY <2>4 DEF Wait
  <2>5. ASSUME NEW w \in Workers, Return(w) PROVE TypeOK'
    BY <2>5 DEF Return
  <2>6. ASSUME NEW w \in Workers, Finish(w) PROVE TypeOK'
    BY <2>6 DEF Finish
  <2>7. ASSUME NEW w \in Workers, SpuriousWakeup(w) PROVE TypeOK'
    BY <2>7 DEF SpuriousWakeup
  <2>8. CASE Stop
    BY <2>8 DEF Stop
  <2>9. CASE NotifyAll
    BY <2>9 DEF NotifyAll, Waiting
  <2>10. CASE Join
    BY <2>10 DEF Join
  <2>11. CASE UNCHANGED vars
    BY <2>11 DEF vars
  <2>12. QED
    BY <2>1, <2>2, <2>3, <2>4, <2>5, <2>6, <2>7, <2>8, <2>9, <2>10, <2>11
    DEF Next, WorkerStep, Destroyed
<1>3. QED BY <1>1, <1>2, PTL DEF Spec

-----------------------------------------------------------------------------
(* The counts in WorkConserving.                                             *)

LEMMA Counts ==
  ASSUME TypeOK
  PROVE  /\ IsFiniteSet(Ready) /\ Cardinality(Ready) \in Nat
         /\ IsFiniteSet(notifying) /\ Cardinality(notifying) \in Nat
         /\ Len(tasks) \in Nat
<1>1. IsFiniteSet(Threads)
  BY FS_Union, ThreadPoolAssumption DEF Threads
<1>2. IsFiniteSet(Ready) /\ IsFiniteSet(notifying)
  BY <1>1, FS_Subset, ThreadPoolAssumption DEF TypeOK, Ready
<1>3. QED
  BY <1>2, FS_CardinalityType, LenProperties DEF TypeOK

LEMMA OneMore ==
  ASSUME NEW S, NEW x, IsFiniteSet(S), x \notin S
  PROVE  Cardinality(S \cup {x}) = Cardinality(S) + 1
BY FS_AddElement

LEMMA OneLess ==
  ASSUME NEW S, NEW x, IsFiniteSet(S), x \in S
  PROVE  Cardinality(S \ {x}) = Cardinality(S) - 1
BY FS_RemoveElement

(* No worker sleeps while a queued task has neither a worker on its way to  *)
(* the predicate nor a notify_one() still to come.                          *)
THEOREM Conserving == Spec => []WorkConserving
<1>1. Init => WorkConserving
  BY DEF Init, WorkConserving, Waiting
<1>2. TypeOK /\ WorkConserving /\ [Next]_vars => WorkConserving'
  <2> SUFFICES ASSUME TypeOK, WorkConserving, [Next]_vars, Waiting' # {}
               PROVE  (Len(tasks) <= Cardinality(Ready) + Cardinality(notifying))'
    BY DEF WorkConserving
  <2> USE Counts
  <2>1. ASSUME NEW p \in Threads, NEW t \in Tasks, Enqueue(p, t)
        PROVE  (Len(tasks) <= Cardinality(Ready) + Cardinality(notifying))'
    <3>1. Waiting' = Waiting /\ Ready' = Ready
      BY <2>1 DEF Enqueue, Waiting, Ready
    <3>2. Len(tasks') = Len(tasks) + 1
      BY <2>1 DEF Enqueue, TypeOK
    <3>3. Cardinality(notifying') = Cardinality(notifying) + 1
      BY <2>1, OneMore DEF Enqueue
    <3>4. QED BY <3>1, <3>2, <3>3 DEF WorkConserving
  <2>2. ASSUME NEW p \in Threads, NotifyOne(p)
        PROVE  (Len(tasks) <= Cardinality(Ready) + Cardinality(notifying))'
    <3>1. PICK w \in Waiting : worker' = [worker EXCEPT ![w] = "ready"]
      BY <2>2 DEF NotifyOne, Waiting
    <3>2. Ready' = Ready \cup {w} /\ w \notin Ready
      BY <3>1 DEF Waiting, Ready, TypeOK
    <3>3. Cardinality(Ready') = Cardinality(Ready) + 1
      BY <3>2, OneMore
    <3>4. Cardinality(notifying') = Cardinality(notifying) - 1
      BY <2>2, OneLess DEF NotifyOne
    <3>5. Waiting # {} /\ tasks' = tasks
      BY <2>2, <3>1 DEF NotifyOne
    <3>6. QED BY <3>3, <3>4, <3>5 DEF WorkConserving
  <2>3. ASSUME NEW w \in Workers, Take(w)
        PROVE  (Len(tasks) <= Cardinality(Ready) + Cardinality(notifying))'
    <3>1. Waiting' = Waiting /\ Ready' = Ready \ {w} /\ w \in Ready
      BY <2>3 DEF Take, Waiting, Ready, TypeOK
    <3>2. Cardinality(Ready') = Cardinality(Ready) - 1
      BY <3>1, OneLess
    <3>3. Len(tasks') = Len(tasks) - 1
      BY <2>3, QueuedSplit DEF Take, TypeOK
    <3>4. notifying' = notifying
      BY <2>3 DEF Take
    <3>5. QED BY <3>1, <3>2, <3>3, <3>4 DEF WorkConserving
  <2>4. ASSUME NEW w \in Workers, Wait(w) \/ Return(w)
        PROVE  (Len(tasks) <= Cardinality(Ready) + Cardinality(notifying))'
    <3>1. Ready' = Ready \ {w} /\ w \in Ready /\ tasks' = <<>> /\ notifying' = notifying
      BY <2>4 DEF Wait, Return, Ready, TypeOK
    <3>2. Len(tasks') = 0 /\ Cardinality(Ready') \in Nat
      BY <3>1, FS_RemoveElement, FS_CardinalityType
    <3>3. QED BY <3>1, <3>2
  <2>5. ASSUME NEW w \in Workers, Finish(w) \/ SpuriousWakeup(w)
        PROVE  (Len(tasks) <= Cardinality(Ready) + Cardinality(notifying))'
    <3>1. Waiting # {}
      BY <2>5 DEF Finish, SpuriousWakeup, Waiting, TypeOK
    <3>2. Ready' = Ready \cup {w} /\ w \notin Ready /\ tasks' = tasks /\ notifying' = notifying
      BY <2>5 DEF Finish, SpuriousWakeup, Ready, TypeOK
    <3>3. Cardinality(Ready') = Cardinality(Ready) + 1
      BY <3>2, OneMore
    <3>4. QED BY <3>1, <3>2, <3>3 DEF WorkConserving
  <2>6. CASE NotifyAll
    BY <2>6 DEF NotifyAll, Waiting, TypeOK
  <2>7. CASE Stop \/ Join \/ UNCHANGED vars
    <3>1. Waiting' = Waiting /\ Ready' = Ready /\ tasks' = tasks /\ notifying' = notifying
      BY <2>7 DEF Stop, Join, vars, Waiting, Ready
    <3>2. QED BY <3>1 DEF WorkConserving
  <2>8. QED
    BY <2>1, <2>2, <2>3, <2>4, <2>5, <2>6, <2>7 DEF Next, WorkerStep, Destroyed
<1>3. QED BY <1>1, <1>2, TypeCorrect, PTL DEF Spec

-----------------------------------------------------------------------------
(* The shutdown.  DrainedAtExit is not inductive: it needs who may still    *)
(* enqueue once the destructor runs, and why the last worker to return      *)
(* leaves an empty queue.                                                   *)

Returned == {w \in Workers : worker[w] = "returned"}

ShutdownInv ==
  /\ stop <=> owner # "alive"
  /\ stop => notifying \cap Callers = {}
  /\ Returned # {} => stop
  /\ Returned = Workers => tasks = <<>>
  /\ owner = "joined" => Returned = Workers
  /\ owner \in {"joining", "joined"} => Waiting = {}

LEMMA ShutdownInvInductive == TypeOK /\ ShutdownInv /\ [Next]_vars => ShutdownInv'
<1> SUFFICES ASSUME TypeOK, ShutdownInv, [Next]_vars PROVE ShutdownInv'
  OBVIOUS
<1> USE DEF TypeOK, ShutdownInv, Returned, Waiting, WorkerState
<1>1. ASSUME NEW p \in Threads, NEW t \in Tasks, Enqueue(p, t) PROVE ShutdownInv'
  <2>1. Returned # Workers
    <3>1. CASE p \in Callers
      BY <1>1, <3>1, ThreadPoolAssumption DEF Enqueue, MayEnqueue
    <3>2. CASE p \in Workers
      BY <1>1, <3>2, ThreadPoolAssumption DEF Enqueue, MayEnqueue
    <3>3. QED BY <3>1, <3>2 DEF Threads
  <2>2. stop => p \notin Callers
    BY <1>1, ThreadPoolAssumption DEF Enqueue, MayEnqueue
  <2>3. QED BY <1>1, <2>1, <2>2 DEF Enqueue
<1>2. ASSUME NEW p \in Threads, NotifyOne(p) PROVE ShutdownInv'
  BY <1>2 DEF NotifyOne
<1>3. ASSUME NEW w \in Workers, Take(w) PROVE ShutdownInv'
  BY <1>3 DEF Take
<1>4. ASSUME NEW w \in Workers, Wait(w) PROVE ShutdownInv'
  BY <1>4 DEF Wait
<1>5. ASSUME NEW w \in Workers, Return(w) PROVE ShutdownInv'
  BY <1>5 DEF Return
<1>6. ASSUME NEW w \in Workers, Finish(w) PROVE ShutdownInv'
  BY <1>6 DEF Finish
<1>7. ASSUME NEW w \in Workers, SpuriousWakeup(w) PROVE ShutdownInv'
  BY <1>7 DEF SpuriousWakeup
<1>8. CASE Stop
  BY <1>8 DEF Stop
<1>9. CASE NotifyAll
  BY <1>9 DEF NotifyAll
<1>10. CASE Join
  BY <1>10 DEF Join
<1>11. CASE UNCHANGED vars
  BY <1>11 DEF vars
<1>12. QED
  BY <1>1, <1>2, <1>3, <1>4, <1>5, <1>6, <1>7, <1>8, <1>9, <1>10, <1>11
  DEF Next, WorkerStep, Destroyed

THEOREM Shutdown == Spec => []ShutdownInv
<1>1. Init => ShutdownInv
  BY ThreadPoolAssumption DEF Init, ShutdownInv, Returned, Waiting
<1>2. QED BY <1>1, ShutdownInvInductive, TypeCorrect, PTL DEF Spec

(* Once the destructor has joined the workers nothing is left to run.       *)
THEOREM Drained == Spec => []DrainedAtExit
<1>1. TypeOK /\ ShutdownInv => DrainedAtExit
  BY DEF TypeOK, ShutdownInv, DrainedAtExit, Returned, Active
<1>2. QED BY <1>1, Shutdown, TypeCorrect, PTL

(* No worker is asleep after notify_all().                                   *)
THEOREM StopIsSeen == Spec => []NobodyMissesStop
<1>1. ShutdownInv => NobodyMissesStop
  BY DEF ShutdownInv, NobodyMissesStop
<1>2. QED BY <1>1, Shutdown, PTL

-----------------------------------------------------------------------------
(* The pool behaves like the queue of TaskQueue, safety part.  A completion *)
(* maps to Complete only if no other worker runs the same task, which needs *)
(* the task popped by a worker to be nowhere else.                          *)

NobodyShares ==
  /\ \A i, j \in 1..Len(tasks) : tasks[i] = tasks[j] => i = j
  /\ \A i \in 1..Len(tasks), w \in Workers : tasks[i] # running[w]
  /\ \A v, w \in Workers : running[v] = running[w] /\ running[v] # NoTask => v = w

LEMMA NobodySharesInductive == TypeOK /\ NobodyShares /\ [Next]_vars => NobodyShares'
<1> SUFFICES ASSUME TypeOK, NobodyShares, [Next]_vars PROVE NobodyShares'
  OBVIOUS
<1>1. ASSUME NEW p \in Threads, NEW t \in Tasks, Enqueue(p, t) PROVE NobodyShares'
  <2>1. /\ Len(tasks') = Len(tasks) + 1 /\ Len(tasks) \in Nat
        /\ \A i \in 1..Len(tasks) : tasks'[i] = tasks[i]
        /\ tasks'[Len(tasks) + 1] = t
    BY <1>1, LenProperties DEF Enqueue, TypeOK
  <2>2. \A i \in 1..Len(tasks) : tasks[i] # t
    BY <1>1 DEF Enqueue, Fresh, Queued
  <2>3. \A w \in Workers : running[w] # t
    BY <1>1, ThreadPoolAssumption DEF Enqueue, Fresh, Active
  <2>4. running' = running
    BY <1>1 DEF Enqueue
  <2>5. \A i \in 1..Len(tasks') : i \in 1..Len(tasks) \/ i = Len(tasks) + 1
    BY <2>1
  <2>6. QED BY <2>1, <2>2, <2>3, <2>4, <2>5 DEF NobodyShares
<1>2. ASSUME NEW w \in Workers, Take(w) PROVE NobodyShares'
  <2>1. /\ Len(tasks') = Len(tasks) - 1 /\ Len(tasks) \in Nat /\ Len(tasks) # 0
        /\ \A i \in 1..Len(tasks') : tasks'[i] = tasks[i + 1]
        /\ Head(tasks) = tasks[1]
    BY <1>2, HeadTailProperties, LenProperties, EmptySeq DEF Take, TypeOK
  <2>2. running' = [running EXCEPT ![w] = tasks[1]]
    BY <1>2, <2>1 DEF Take
  <2>3. \A i \in 1..Len(tasks') : i + 1 \in 1..Len(tasks) /\ i + 1 # 1
    BY <2>1
  <2>4. 1 \in 1..Len(tasks)
    BY <2>1
  <2>5. ASSUME NEW i \in 1..Len(tasks'), NEW v \in Workers PROVE tasks'[i] # running'[v]
    BY <2>1, <2>2, <2>3, <2>4, <2>5 DEF NobodyShares, TypeOK
  <2>6. ASSUME NEW i \in 1..Len(tasks'), NEW j \in 1..Len(tasks'), tasks'[i] = tasks'[j]
        PROVE  i = j
    BY <2>1, <2>3, <2>6 DEF NobodyShares
  <2>7. ASSUME NEW u \in Workers, NEW v \in Workers,
               running'[u] = running'[v], running'[u] # NoTask
        PROVE  u = v
    BY <2>2, <2>4, <2>7 DEF NobodyShares, TypeOK
  <2>8. QED BY <2>5, <2>6, <2>7 DEF NobodyShares
<1>3. ASSUME NEW w \in Workers, Finish(w) PROVE NobodyShares'
  <2>1. \A i \in 1..Len(tasks) : tasks[i] # NoTask
    BY ElementOfSeq, ThreadPoolAssumption DEF TypeOK
  <2>2. tasks' = tasks /\ running' = [running EXCEPT ![w] = NoTask]
    BY <1>3 DEF Finish
  <2>3. QED BY <2>1, <2>2 DEF NobodyShares, TypeOK
<1>4. ASSUME UNCHANGED <<tasks, running>> PROVE NobodyShares'
  BY <1>4 DEF NobodyShares
<1>5. QED
  BY <1>1, <1>2, <1>3, <1>4
  DEF Next, WorkerStep, NotifyOne, Wait, Return, SpuriousWakeup, Stop, NotifyAll, Join,
      Destroyed, vars

THEOREM Unshared == Spec => []NobodyShares
<1>1. Init => NobodyShares
  BY DEF Init, NobodyShares
<1>2. QED BY <1>1, NobodySharesInductive, TypeCorrect, PTL DEF Spec

(* Every step of the pool is a step of the abstract queue or changes        *)
(* nothing it sees.                                                         *)
THEOREM RefinesTaskQueue ==
  Spec => TaskQueueOf!Init /\ [][TaskQueueOf!Next]_(TaskQueueOf!vars)
<1>1. Init => TaskQueueOf!Init
  BY DEF Init, TaskQueueOf!Init, Active
<1>2. TypeOK /\ NobodyShares /\ [Next]_vars => [TaskQueueOf!Next]_(TaskQueueOf!vars)
  <2> SUFFICES ASSUME TypeOK, NobodyShares, [Next]_vars
               PROVE  TaskQueueOf!Next \/ UNCHANGED TaskQueueOf!vars
    OBVIOUS
  <2>1. ASSUME NEW p \in Threads, NEW t \in Tasks, Enqueue(p, t) PROVE TaskQueueOf!Next
    <3>1. Active' = Active
      BY <2>1 DEF Enqueue, Active
    <3>2. TaskQueueOf!Submit(t)
      BY <2>1, <3>1 DEF Enqueue, Fresh, Queued, TaskQueueOf!Submit, TaskQueueOf!Pending
    <3>3. QED BY <3>2 DEF TaskQueueOf!Next
  <2>2. ASSUME NEW w \in Workers, Take(w) PROVE TaskQueueOf!Next
    <3>1. running[w] = NoTask /\ Head(tasks) # NoTask
      BY <2>2, QueuedSplit, ThreadPoolAssumption DEF Take, TypeOK
    <3>2. running' = [running EXCEPT ![w] = Head(tasks)]
      BY <2>2 DEF Take
    <3>3. Active' = Active \cup {Head(tasks)}
      BY <3>1, <3>2 DEF Active, TypeOK
    <3>4. TaskQueueOf!Start
      BY <2>2, <3>3 DEF Take, TaskQueueOf!Start
    <3>5. QED BY <3>4 DEF TaskQueueOf!Next
  <2>3. ASSUME NEW w \in Workers, Finish(w) PROVE TaskQueueOf!Next
    <3>1. running[w] \in Tasks /\ running[w] \in Active
      BY <2>3 DEF Finish, TypeOK, Active
    <3>2. running' = [running EXCEPT ![w] = NoTask]
      BY <2>3 DEF Finish
    <3>3. Active' = Active \ {running[w]}
      BY <3>1, <3>2, ThreadPoolAssumption DEF Active, NobodyShares, TypeOK
    <3>4. TaskQueueOf!Complete(running[w])
      BY <2>3, <3>1, <3>3 DEF Finish, TaskQueueOf!Complete
    <3>5. QED BY <3>1, <3>4 DEF TaskQueueOf!Next
  <2>4. ASSUME UNCHANGED <<tasks, running, done>> PROVE UNCHANGED TaskQueueOf!vars
    BY <2>4 DEF TaskQueueOf!vars, Active
  <2>5. QED
    BY <2>1, <2>2, <2>3, <2>4
    DEF Next, WorkerStep, NotifyOne, Wait, Return, SpuriousWakeup, Stop, NotifyAll, Join,
        Destroyed, vars
<1>3. QED BY <1>1, <1>2, TypeCorrect, Unshared, PTL DEF Spec
=============================================================================
