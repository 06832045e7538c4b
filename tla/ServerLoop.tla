----------------------------- MODULE ServerLoop -----------------------------
(***************************************************************************)
(* main.cpp: the start of the server, its accept loop, its timer, and the   *)
(* polls of the client sockets that the timer queues on the pool.           *)
(*                                                                          *)
(* The main thread starts the timer thread, then the timed tasks, then sets *)
(* serverRunning and accepts.  Each iteration of the timer measures         *)
(* clientSockets, without its mutex, and queues one poll for each part of   *)
(* it.  A poll holds clientSocketsMutex shared to its end, thus also while  *)
(* its handlers send, which may be for ever: a send is retried until the    *)
(* client at the other end reads.  A handshake that is rejected in a poll   *)
(* locks that mutex shared once more and erases.                            *)
(*                                                                          *)
(* The timer also drops clients that were not heard of for a while from     *)
(* lastPacketReceived, and queues a task for each that looks at the map     *)
(* through a reference to an iterator that is gone when the task runs.      *)
(*                                                                          *)
(* The mutex is the one of the build, a std::shared_mutex over an SRW lock: *)
(* once a thread waits to lock it exclusively, later shared locks queue     *)
(* behind it, also that of a thread that holds it shared already.           *)
(***************************************************************************)
EXTENDS Integers, Sequences

CONSTANTS Sockets,     \* handles; the system hands a closed one out again
          NoSocket,
          Workers,     \* the threads of the pool that run polls
          MaxAccepts,  \* bound: connections accepted
          MaxJobs      \* bound: polls queued at a time

ASSUME ServerLoopAssumption ==
  /\ NoSocket \notin Sockets
  /\ MaxAccepts \in Nat /\ MaxJobs \in Nat

PROCESS_THREADS == 2
NumTasks        == 2   \* broadcast_task and update_task

VARIABLES process,        \* "up" or "crashed"
          tasks,          \* how many of the timed tasks are in TimedTask::tasks
          serverRunning,
          clientSocket,   \* what main accepted and is about to push_back, or NoSocket
          accepts,        \* counter for the bound
          timer,          \* the timer thread
          timed,          \* the size of its last_timed_task_execution
          memory, size,   \* clientSockets: what was ever written to its storage, its size
          open,           \* the handles that are open connections
          heard,          \* lastPacketReceived has entries
          jobs,           \* polls queued on the pool, first in first out
          poll,           \* per worker: its progress through process_clients
          raced           \* history: an erase began before another one had ended

main  == <<tasks, serverRunning, clientSocket, accepts>>
timing == <<timer, timed>>
list  == <<memory, size>>
conns == <<open, heard>>
vars  == <<process, main, timing, list, conns, jobs, poll, raced>>

Listed == {memory[n] : n \in 1..size}

Idle == [pc |-> "idle", i |-> 0, end |-> 0, socket |-> NoSocket, at |-> 0]
Holding == {"selecting", "handling", "rejecting", "erasing"}
PollState == {"idle", "polling"} \cup Holding

Init == /\ process = "up"
        /\ tasks = 0 /\ serverRunning = FALSE
        /\ clientSocket = NoSocket /\ accepts = 0
        /\ timer = "starting" /\ timed = 0
        /\ memory = <<>> /\ size = 0
        /\ open = {} /\ heard = FALSE /\ jobs = <<>>
        /\ poll = [w \in Workers |-> Idle]
        /\ raced = FALSE

Up      == process = "up"
Readers == {w \in Workers : poll[w].pc # "idle"}
NobodyWaits == clientSocket = NoSocket     \* main wants the mutex as soon as it has a socket

-----------------------------------------------------------------------------
(* The main thread.                                                         *)

\* TimedTask::start()
StartTask ==
  /\ Up /\ tasks < NumTasks
  /\ tasks' = tasks + 1
  /\ UNCHANGED <<process, serverRunning, clientSocket, accepts, timing, list, conns, jobs, poll>>
  /\ UNCHANGED raced

BeginServingFirst ==                  \* mutant: serverRunning is set before the tasks start
  /\ Up /\ ~serverRunning
  /\ serverRunning' = TRUE
  /\ UNCHANGED <<process, tasks, clientSocket, accepts, timing, list, conns, jobs, poll, raced>>

BeginServing ==
  /\ Up /\ tasks = NumTasks /\ ~serverRunning
  /\ serverRunning' = TRUE
  /\ UNCHANGED <<process, tasks, clientSocket, accepts, timing, list, conns, jobs, poll, raced>>

Accept ==
  /\ Up /\ serverRunning /\ clientSocket = NoSocket /\ accepts < MaxAccepts
  /\ \E s \in Sockets \ open :
       \/ clientSocket' = s /\ open' = open \cup {s}
       \/ UNCHANGED <<clientSocket, open>>     \* not made non-blocking: closed at once
  /\ accepts' = accepts + 1
  /\ UNCHANGED <<process, tasks, serverRunning, timing, list, heard, jobs, poll, raced>>

PushBack ==
  /\ Up /\ clientSocket # NoSocket /\ Readers = {}
  /\ memory' = IF size < Len(memory) THEN [memory EXCEPT ![size + 1] = clientSocket]
                                     ELSE Append(memory, clientSocket)
  /\ size' = size + 1
  /\ clientSocket' = NoSocket
  /\ UNCHANGED <<process, tasks, serverRunning, accepts, timing, conns, jobs, poll, raced>>

-----------------------------------------------------------------------------
(* The timer thread.                                                        *)

\* The vector gets one entry for every task that is registered at this moment.
SizeLastTimes ==
  /\ Up /\ timer = "starting"
  /\ timed' = tasks
  /\ timer' = "looping"
  /\ UNCHANGED <<process, main, list, conns, jobs, poll, raced>>

EndTimer ==
  /\ Up /\ timer = "looping" /\ ~serverRunning
  /\ timer' = "ended"
  /\ UNCHANGED <<process, main, timed, list, conns, jobs, poll, raced>>

EndsWithoutRemainder(n) ==            \* mutant: the remaining clients are dropped
  [k \in 0..PROCESS_THREADS |-> k * (n \div PROCESS_THREADS)]

\* Where part k ends (and the next one starts) when n clients are dealt to the threads:
\* the first n % PROCESS_THREADS parts get one more.
Ends(n) ==
  [k \in 0..PROCESS_THREADS |->
     k * (n \div PROCESS_THREADS) +
     (IF k < n % PROCESS_THREADS THEN k ELSE n % PROCESS_THREADS)]

Parts(n) == [k \in 1..PROCESS_THREADS |-> [start |-> Ends(n)[k - 1], end |-> Ends(n)[k]]]

\* An iteration that does something: a poll of every part of clientSockets.  Before, every
\* task has its entry of last_timed_task_execution looked up.
Iterate ==
  /\ Up /\ timer = "looping" /\ serverRunning
  /\ tasks <= timed
  /\ Len(jobs) + PROCESS_THREADS <= MaxJobs
  /\ jobs' = jobs \o Parts(size)
  /\ UNCHANGED <<process, main, timing, list, conns, poll, raced>>

\* There is no such entry: the access is undefined.  An empty vector has no storage to
\* read from; past the end of a shorter one lies whatever the heap holds.
IteratePastEnd ==
  /\ Up /\ timer = "looping" /\ serverRunning
  /\ tasks > timed
  /\ \/ process' = "crashed" /\ UNCHANGED jobs
     \/ /\ timed > 0 /\ Len(jobs) + PROCESS_THREADS <= MaxJobs
        /\ jobs' = jobs \o Parts(size) /\ UNCHANGED process
  /\ UNCHANGED <<main, timing, list, conns, poll, raced>>

\* Nothing was heard of a client for long.  The task that is queued looks at the map through a
\* reference to the timer's own iterator, which has been assigned to and is gone when the task
\* runs: the read is undefined.  It ends the process, or comes to nothing, since handle_timeout
\* is empty.
TimeOut ==
  /\ Up /\ timer = "looping" /\ serverRunning
  /\ heard /\ heard' \in BOOLEAN
  /\ process' \in {"up", "crashed"}
  /\ UNCHANGED <<main, timing, list, open, jobs, poll, raced>>

-----------------------------------------------------------------------------
(* process_clients, on a worker of the pool.                                *)

\* The worker goes on with the same range, at entry i.
GoOn(w, pc, i, s, at) ==
  poll' = [poll EXCEPT ![w] = [pc |-> pc, i |-> i, end |-> poll[w].end, socket |-> s, at |-> at]]

NextSocket(w) == GoOn(w, "polling", poll[w].i + 1, NoSocket, 0)

BeginPoll(w) ==
  /\ Up /\ poll[w].pc = "idle" /\ jobs # <<>>
  /\ NobodyWaits
  /\ poll' = [poll EXCEPT ![w] = [pc |-> "polling", i |-> Head(jobs).start,
                                  end |-> Head(jobs).end, socket |-> NoSocket, at |-> 0]]
  /\ jobs' = Tail(jobs)
  /\ UNCHANGED <<process, main, timing, list, conns, raced>>

EndPoll(w) ==
  /\ Up /\ poll[w].pc = "polling" /\ poll[w].i >= poll[w].end
  /\ poll' = [poll EXCEPT ![w] = Idle]
  /\ UNCHANGED <<process, main, timing, list, conns, jobs, raced>>

\* client_sockets[i] is not checked against the size: behind it lies what was there before.
Select(w) ==
  /\ Up /\ poll[w].pc = "polling" /\ poll[w].i < poll[w].end
  /\ GoOn(w, "selecting", poll[w].i, memory[poll[w].i + 1], 0)
  /\ UNCHANGED <<process, main, timing, list, conns, jobs, raced>>

\* select fails on a closed handle; on an open one there may be nothing to read.
NothingToRead(w) ==
  /\ Up /\ poll[w].pc = "selecting"
  /\ NextSocket(w)
  /\ UNCHANGED <<process, main, timing, list, conns, jobs, raced>>

\* handle_client.  What follows are the handlers of the packets that have arrived.
HandleClient(w) ==
  /\ Up /\ poll[w].pc = "selecting" /\ poll[w].socket \in open
  /\ heard' = TRUE
  /\ GoOn(w, "handling", poll[w].i, poll[w].socket, 0)
  /\ UNCHANGED <<process, main, timing, list, open, jobs, raced>>

\* All packets are handled, which may be never: a handler may send to a client that does not read.
Handled(w) ==
  /\ Up /\ poll[w].pc = "handling"
  /\ NextSocket(w)
  /\ UNCHANGED <<process, main, timing, list, conns, jobs, raced>>

\* One of the packets is ClientDisconnect: the socket is closed, and stays listed.  The packets
\* behind it are handled all the same.
ServeDisconnect(w) ==
  /\ Up /\ poll[w].pc = "handling" /\ poll[w].socket \in open
  /\ open' = open \ {poll[w].socket}
  /\ UNCHANGED <<process, main, timing, list, heard, jobs, poll, raced>>

\* One of the packets is a handshake of another version: removeClientSocket(socket, true).
ServeReject(w) ==
  /\ Up /\ poll[w].pc = "handling"
  /\ GoOn(w, "rejecting", poll[w].i, poll[w].socket, 0)
  /\ UNCHANGED <<process, main, timing, list, conns, jobs, raced>>

\* The shared lock, the second of this thread, and the std::find made under it.
Find(w) ==
  /\ Up /\ poll[w].pc = "rejecting" /\ NobodyWaits
  /\ \/ /\ poll[w].socket \notin Listed /\ NextSocket(w)
     \/ \E n \in 1..size :
          /\ memory[n] = poll[w].socket /\ \A m \in 1..n - 1 : memory[m] # poll[w].socket
          /\ GoOn(w, "erasing", poll[w].i, poll[w].socket, n)
  /\ UNCHANGED <<process, main, timing, list, conns, jobs, raced>>

\* What erase leaves in the storage: later elements move up by one, and the place of the
\* last one keeps its value.
Erased(at) == [n \in 1..Len(memory) |-> IF n \in at..size - 1 THEN memory[n + 1] ELSE memory[n]]

Erasing(w) == \E v \in Workers \ {w} : poll[v].pc = "erasing"

EraseAndShrink(w) ==                  \* mutant: clientSockets gives its storage back
  /\ Up /\ poll[w].pc = "erasing" /\ poll[w].at <= size
  /\ memory' = [n \in 1..size - 1 |-> Erased(poll[w].at)[n]]
  /\ size' = size - 1
  /\ open' = open \ {poll[w].socket}
  /\ raced' = (raced \/ Erasing(w))
  /\ NextSocket(w)
  /\ UNCHANGED <<process, main, timing, heard, jobs>>

EraseWithoutClose(w) ==               \* mutant: removeClientSocket(clientSocket), close left out
  /\ Up /\ poll[w].pc = "erasing" /\ poll[w].at <= size
  /\ memory' = Erased(poll[w].at)
  /\ size' = size - 1
  /\ raced' = (raced \/ Erasing(w))
  /\ NextSocket(w)
  /\ UNCHANGED <<process, main, timing, conns, jobs>>

\* clientSockets.erase(it); closesocket.  When another erase came first, the iterator may refer to
\* another socket by now; at the end there is nothing to erase, which is undefined.
Erase(w) ==
  /\ Up /\ poll[w].pc = "erasing"
  /\ \/ /\ poll[w].at <= size
        /\ memory' = Erased(poll[w].at)
        /\ size' = size - 1
        /\ open' = open \ {poll[w].socket}
        /\ NextSocket(w)
        /\ UNCHANGED process
     \/ /\ poll[w].at > size
        /\ process' = "crashed"
        /\ UNCHANGED <<list, open, poll>>
  /\ raced' = (raced \/ Erasing(w))
  /\ UNCHANGED <<main, timing, heard, jobs>>

-----------------------------------------------------------------------------
MainStep == StartTask \/ BeginServing \/ PushBack

TimerStep == SizeLastTimes \/ EndTimer \/ Iterate \/ IteratePastEnd

PollStep(w) == \/ BeginPoll(w) \/ EndPoll(w) \/ Select(w) \/ NothingToRead(w)
               \/ HandleClient(w) \/ Find(w) \/ Erase(w)

HandlerStep(w) == Handled(w) \/ ServeDisconnect(w) \/ ServeReject(w)

Next == \/ MainStep \/ Accept \/ TimerStep \/ TimeOut
        \/ \E w \in Workers : PollStep(w) \/ HandlerStep(w)

\* Threads are scheduled.  Nobody has to connect, or to be silent for long, and a handler need not
\* end: its sends wait for the clients they go to.
Fairness == /\ WF_vars(MainStep) /\ WF_vars(TimerStep)
            /\ \A w \in Workers : WF_vars(PollStep(w))

Spec == Init /\ [][Next]_vars /\ Fairness

-----------------------------------------------------------------------------
Jobs  == [start : Nat, end : Nat]
Polls == [pc : PollState, i : Nat, end : Nat, socket : Sockets \cup {NoSocket}, at : Nat]

ThreadsOK ==
  /\ process \in {"up", "crashed"}
  /\ tasks \in 0..NumTasks /\ timed \in 0..NumTasks
  /\ serverRunning \in BOOLEAN /\ (serverRunning => tasks = NumTasks)
  /\ clientSocket \in Sockets \cup {NoSocket}
  /\ accepts \in 0..MaxAccepts
  /\ timer \in {"starting", "looping", "ended"}
  /\ open \subseteq Sockets /\ heard \in BOOLEAN
  /\ raced \in BOOLEAN

ListOK == memory \in Seq(Sockets) /\ size \in 0..Len(memory)

PollsOK ==
  /\ poll \in [Workers -> Polls]
  /\ \A w \in Workers :
       /\ poll[w].pc \in Holding <=> poll[w].socket # NoSocket
       /\ poll[w].pc = "erasing" => poll[w].at > 0

TypeOK == ThreadsOK /\ ListOK /\ jobs \in Seq(Jobs) /\ PollsOK

\* A poll reads no storage of clientSockets that was never written, although its range may
\* be older than the last erase (main.cpp:118, :134-136 against packet_handler.cpp:178):
\* erase keeps the storage, and only push_back with no poll running replaces it.
ReadsWritten ==
  /\ \A w \in Workers : poll[w].end <= Len(memory)
  /\ \A n \in 1..Len(jobs) : jobs[n].end <= Len(memory)

\* A connection stays in clientSockets as long as it is open, unless two rejections erased
\* at a time, for which a shared lock is no protection (packet_handler.cpp:175-178).
OpenIsListed == raced \/ open \subseteq Listed \cup {clientSocket}

\* Polls holding the mutex shared, a rejection among them, and main wanting it: main waits
\* for the poll to end, and its rejection waits behind main.
Stuck == clientSocket # NoSocket /\ \E w \in Workers : poll[w].pc = "rejecting"

\* A handler whose send is retried for ever (outgoing_packets.cpp:242-249) in a poll, which
\* holds the mutex (main.cpp:49): once another connection is accepted, main waits for the poll
\* and all polls wait behind main.  Without that it takes such a handler on every worker.
Unread(w) == poll[w].pc = "handling"
SendsBlock == \/ <>[](clientSocket # NoSocket /\ \E w \in Workers : Unread(w))
              \/ <>[](\A w \in Workers : Unread(w))

\* A connection that stays open is polled again and again (main.cpp:116-140), however
\* erases shift it under the ranges of the polls and whatever single handlers hang; unless the
\* timer never got going, the process died, a rejection met an accept, or sends that never end
\* block the polls.
Polled(s) == \E w \in Workers : poll[w].socket = s
Halted    == process = "crashed" \/ timer = "ended" \/ Stuck
ConnectionsArePolled ==
  \/ SendsBlock
  \/ \A s \in Sockets :
       s \in Listed /\ s \in open ~> Polled(s) \/ s \notin Listed \cap open \/ Halted

\* "Enqueue tasks if the interval has passed" (main.cpp:83): a server that accepts clients
\* has a timer that queues its tasks.
TimerServes == serverRunning => timer # "ended" /\ (timer = "looping" => tasks <= timed)
=============================================================================
