----------------------------- MODULE ThreadPool -----------------------------
(***************************************************************************)
(* thread_pool.h / thread_pool.cpp: the pool of worker threads that runs    *)
(* every piece of work of the server (polls of the client sockets, pings,   *)
(* global updates).  One action is one critical section of tasksMutex, or   *)
(* one call on the condition variable made outside it: enqueue() pushes     *)
(* under the mutex and calls notify_one() after releasing it, and the       *)
(* destructor sets stop under the mutex and calls notify_all() after it.    *)
(***************************************************************************)
EXTENDS Naturals, Sequences, FiniteSets

CONSTANTS Workers,  \* the threads the constructor starts
          Callers,  \* the other threads that call enqueue() (the timer thread)
          Tasks,    \* the std::function objects handed to enqueue()
          NoTask    \* "this worker runs nothing"

ASSUME ThreadPoolAssumption ==
  /\ IsFiniteSet(Workers) /\ Workers # {}
  /\ IsFiniteSet(Callers)
  /\ Workers \cap Callers = {}
  /\ NoTask \notin Tasks

VARIABLES tasks,      \* ThreadPool::tasks, a std::queue
          stop,       \* ThreadPool::stop
          worker,     \* where each worker is in ThreadPool::worker()
          running,    \* the task each worker took from the queue, or NoTask
          notifying,  \* threads inside enqueue(), past the push, before notify_one()
          owner,      \* progress of the destructor
          done        \* history: the tasks whose call has returned

vars == <<tasks, stop, worker, running, notifying, owner, done>>

Threads == Workers \cup Callers

\* A worker is about to lock tasksMutex and test the predicate ("ready"), asleep in
\* condition.wait ("waiting"), inside task() ("running"), or has left worker().
WorkerState == {"ready", "waiting", "running", "returned"}

Ready   == {w \in Workers : worker[w] = "ready"}
Waiting == {w \in Workers : worker[w] = "waiting"}

Queued == {tasks[i] : i \in 1..Len(tasks)}
Active == {running[w] : w \in Workers} \ {NoTask}

Init == /\ tasks = <<>>
        /\ stop = FALSE
        /\ worker = [w \in Workers |-> "ready"]
        /\ running = [w \in Workers |-> NoTask]
        /\ notifying = {}
        /\ owner = "alive"
        /\ done = {}

-----------------------------------------------------------------------------
(* enqueue(): called by another thread while the pool is alive, or by the   *)
(* task a worker is running (UpdateTask::execute and BroadcastTask::execute *)
(* enqueue more work), which may also happen while the pool shuts down.     *)

MayEnqueue(p) == \/ p \in Callers /\ owner = "alive"
                 \/ p \in Workers /\ worker[p] = "running"

Fresh(t) == t \notin Queued \cup Active \cup done

EnqueueNotifyingOnlyWhenEmpty(p, t) ==   \* mutant: notify only for the first queued task
  /\ MayEnqueue(p) /\ p \notin notifying /\ Fresh(t)
  /\ tasks' = Append(tasks, t)
  /\ notifying' = IF tasks = <<>> THEN notifying \cup {p} ELSE notifying
  /\ UNCHANGED <<stop, worker, running, owner, done>>

EnqueueWithoutNotify(p, t) ==            \* mutant: the push without the notify_one
  /\ MayEnqueue(p) /\ p \notin notifying /\ Fresh(t)
  /\ tasks' = Append(tasks, t)
  /\ UNCHANGED <<stop, worker, running, notifying, owner, done>>

Enqueue(p, t) ==
  /\ MayEnqueue(p) /\ p \notin notifying
  /\ Fresh(t)
  /\ tasks' = Append(tasks, t)
  /\ notifying' = notifying \cup {p}
  /\ UNCHANGED <<stop, worker, running, owner, done>>

NotifyOne(p) ==
  /\ p \in notifying
  /\ notifying' = notifying \ {p}
  /\ \/ Waiting = {} /\ UNCHANGED worker
     \/ \E w \in Waiting : worker' = [worker EXCEPT ![w] = "ready"]
  /\ UNCHANGED <<tasks, stop, running, owner, done>>

-----------------------------------------------------------------------------
(* worker(): the predicate "stop || !tasks.empty()" is tested under the     *)
(* mutex, on entry and after every wake-up.                                 *)

TakeWithoutPop(w) ==                     \* mutant: tasks.front() without tasks.pop()
  /\ worker[w] = "ready" /\ tasks # <<>>
  /\ running' = [running EXCEPT ![w] = Head(tasks)]
  /\ worker' = [worker EXCEPT ![w] = "running"]
  /\ UNCHANGED <<tasks, stop, notifying, owner, done>>

Take(w) ==
  /\ worker[w] = "ready"
  /\ tasks # <<>>
  /\ running' = [running EXCEPT ![w] = Head(tasks)]
  /\ tasks' = Tail(tasks)
  /\ worker' = [worker EXCEPT ![w] = "running"]
  /\ UNCHANGED <<stop, notifying, owner, done>>

Wait(w) ==
  /\ worker[w] = "ready"
  /\ ~stop /\ tasks = <<>>
  /\ worker' = [worker EXCEPT ![w] = "waiting"]
  /\ UNCHANGED <<tasks, stop, running, notifying, owner, done>>

ReturnOnStop(w) ==                       \* mutant: "if (stop) return", queue not drained
  /\ worker[w] = "ready" /\ stop
  /\ worker' = [worker EXCEPT ![w] = "returned"]
  /\ UNCHANGED <<tasks, stop, running, notifying, owner, done>>

Return(w) ==
  /\ worker[w] = "ready"
  /\ stop /\ tasks = <<>>
  /\ worker' = [worker EXCEPT ![w] = "returned"]
  /\ UNCHANGED <<tasks, stop, running, notifying, owner, done>>

\* A condition variable may wake a waiter on its own; wait() then tests the predicate.
SpuriousWakeup(w) ==
  /\ worker[w] = "waiting"
  /\ worker' = [worker EXCEPT ![w] = "ready"]
  /\ UNCHANGED <<tasks, stop, running, notifying, owner, done>>

FinishKeepingTask(w) ==                  \* mutant: the task object outlives its call
  /\ worker[w] = "running" /\ w \notin notifying
  /\ done' = done \cup {running[w]}
  /\ worker' = [worker EXCEPT ![w] = "ready"]
  /\ UNCHANGED <<tasks, stop, running, notifying, owner>>

Finish(w) ==
  /\ worker[w] = "running" /\ w \notin notifying
  /\ done' = done \cup {running[w]}
  /\ running' = [running EXCEPT ![w] = NoTask]
  /\ worker' = [worker EXCEPT ![w] = "ready"]
  /\ UNCHANGED <<tasks, stop, notifying, owner>>

-----------------------------------------------------------------------------
(* ~ThreadPool(): no other thread may be inside a call of the pool when its *)
(* lifetime ends (main joins the timer thread first).                       *)

Stop ==
  /\ owner = "alive" /\ notifying \cap Callers = {}
  /\ stop' = TRUE
  /\ owner' = "stopped"
  /\ UNCHANGED <<tasks, worker, running, notifying, done>>

NotifyAllWakingOne ==                    \* mutant: notify_one() in the destructor
  /\ owner = "stopped"
  /\ owner' = "joining"
  /\ \/ Waiting = {} /\ UNCHANGED worker
     \/ \E w \in Waiting : worker' = [worker EXCEPT ![w] = "ready"]
  /\ UNCHANGED <<tasks, stop, running, notifying, done>>

NotifyAll ==
  /\ owner = "stopped"
  /\ owner' = "joining"
  /\ worker' = [w \in Workers |-> IF w \in Waiting THEN "ready" ELSE worker[w]]
  /\ UNCHANGED <<tasks, stop, running, notifying, done>>

Join ==
  /\ owner = "joining"
  /\ \A w \in Workers : worker[w] = "returned"
  /\ owner' = "joined"
  /\ UNCHANGED <<tasks, stop, worker, running, notifying, done>>

\* The pool no longer exists.
Destroyed == owner = "joined" /\ UNCHANGED vars

-----------------------------------------------------------------------------
WorkerStep(w) == Take(w) \/ Wait(w) \/ Return(w)

Next == \/ \E p \in Threads, t \in Tasks : Enqueue(p, t)
        \/ \E p \in Threads : NotifyOne(p)
        \/ \E w \in Workers : WorkerStep(w) \/ Finish(w) \/ SpuriousWakeup(w)
        \/ Stop \/ NotifyAll \/ Join \/ Destroyed

\* Threads are scheduled and every task returns; nobody has to call enqueue() or to
\* destroy the pool, and spurious wake-ups need not occur.
Fairness == /\ \A p \in Threads : WF_vars(NotifyOne(p))
            /\ \A w \in Workers : WF_vars(WorkerStep(w)) /\ WF_vars(Finish(w))
            /\ WF_vars(NotifyAll) /\ WF_vars(Join)

Spec == Init /\ [][Next]_vars /\ Fairness

-----------------------------------------------------------------------------
TypeOK ==
  /\ tasks \in Seq(Tasks)
  /\ stop \in BOOLEAN
  /\ worker \in [Workers -> WorkerState]
  /\ running \in [Workers -> Tasks \cup {NoTask}]
  /\ notifying \subseteq Threads
  /\ owner \in {"alive", "stopped", "joining", "joined"}
  /\ done \subseteq Tasks
  /\ \A w \in Workers : running[w] # NoTask <=> worker[w] = "running"

\* A worker never sleeps while there is work it should take: as long as one sleeps in
\* condition.wait, each queued task is matched by a worker that is about to test the
\* predicate or by an enqueue() about to notify (enqueue, thread_pool.cpp:21-27, against
\* the wait of thread_pool.cpp:34).
WorkConserving ==
  Waiting # {} => Len(tasks) <= Cardinality(Ready) + Cardinality(notifying)

\* When the destructor has joined every worker (thread_pool.cpp:16-18), no task that was
\* ever enqueued is left unrun, those enqueued by tasks during the shutdown included.
DrainedAtExit == owner = "joined" => tasks = <<>> /\ Active = {}

\* No worker sleeps through the shutdown: once notify_all() (thread_pool.cpp:14) has been
\* called, no worker is or gets back into condition.wait.
NobodyMissesStop == owner \in {"joining", "joined"} => Waiting = {}

\* The pool implements the queue of TaskQueue: FIFO starts, every task run exactly once,
\* every task eventually started and completed (thread_pool.cpp:21-45).
TaskQueueOf == INSTANCE TaskQueue WITH pending <- tasks, active <- Active, completed <- done
ImplementsTaskQueue == TaskQueueOf!Spec

\* A pool whose destructor has begun is eventually joined: no lost wake-up and no
\* worker left behind (thread_pool.cpp:9-19).
ShutdownCompletes == owner = "stopped" ~> owner = "joined"
=============================================================================
