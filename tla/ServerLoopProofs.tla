-------------------------- MODULE ServerLoopProofs --------------------------
(***************************************************************************)
(* The safety of ServerLoop for any set of handles, any set of workers and  *)
(* any bounds.                                                              *)
(***************************************************************************)
EXTENDS ServerLoop, SequenceTheorems, TLAPS

-----------------------------------------------------------------------------
(* How the timer deals the clients to the polls.                            *)

LEMMA PartEnds ==
  ASSUME NEW n \in Nat
  PROVE  /\ Ends(n)[0] = 0 /\ Ends(n)[1] \in 0..n /\ Ends(n)[2] = n
         /\ Parts(n)[1].start = 0 /\ Parts(n)[1].end = Ends(n)[1]
         /\ Parts(n)[2].start = Ends(n)[1] /\ Parts(n)[2].end = n
         /\ Parts(n) \in Seq(Jobs) /\ Len(Parts(n)) = 2
<1>1. n % 2 \in 0..1 /\ n = 2 * (n \div 2) + (n % 2) /\ n \div 2 \in Nat
  OBVIOUS
<1>2. /\ Ends(n)[0] = 0
      /\ Ends(n)[1] = (n \div 2) + (n % 2)
      /\ Ends(n)[2] = 2 * (n \div 2) + (n % 2)
  BY <1>1 DEF Ends, PROCESS_THREADS
<1>3. Ends(n)[1] \in 0..n /\ Ends(n)[2] = n
  BY <1>1, <1>2
<1>4. Parts(n) = [k \in 1..2 |-> [start |-> Ends(n)[k - 1], end |-> Ends(n)[k]]]
  BY DEF Parts, PROCESS_THREADS
<1>5. /\ Parts(n)[1] = [start |-> 0, end |-> Ends(n)[1]]
      /\ Parts(n)[2] = [start |-> Ends(n)[1], end |-> n]
  BY <1>2, <1>3, <1>4
<1>6. Parts(n) \in Seq(Jobs) /\ Len(Parts(n)) = 2
  <2>1. ASSUME NEW k \in 1..2 PROVE Parts(n)[k] \in Jobs
    <3>1. k = 1 \/ k = 2
      BY <2>1
    <3>2. QED BY <1>3, <1>5, <3>1 DEF Jobs
  <2>2. QED BY <1>4, <2>1
<1>7. QED BY <1>2, <1>3, <1>5, <1>6

(* Every entry of clientSockets, as it was measured, is in the range of     *)
(* exactly one of the two polls that are queued for it (main.cpp:118-137).  *)
THEOREM EveryClientInOnePart ==
  ASSUME NEW n \in Nat, NEW i \in 0..n - 1
  PROVE  \E k \in 1..PROCESS_THREADS :
           /\ Parts(n)[k].start <= i /\ i < Parts(n)[k].end
           /\ \A l \in 1..PROCESS_THREADS :
                Parts(n)[l].start <= i /\ i < Parts(n)[l].end => l = k
<1> DEFINE In(k) == Parts(n)[k].start <= i /\ i < Parts(n)[k].end
<1>1. Ends(n)[1] \in 0..n
  BY PartEnds
<1> DEFINE middle == Ends(n)[1]
<1>2. In(1) <=> i < middle
  <2>1. Parts(n)[1].start = 0 /\ Parts(n)[1].end = middle
    BY PartEnds
  <2>2. QED BY <2>1
<1>3. In(2) <=> middle <= i
  <2>1. Parts(n)[2].start = middle /\ Parts(n)[2].end = n
    BY PartEnds
  <2>2. QED BY <2>1
<1>4. (In(1) /\ ~In(2)) \/ (In(2) /\ ~In(1))
  BY <1>1, <1>2, <1>3
<1>5. \E k \in 1..2 : In(k) /\ \A l \in 1..2 : In(l) => l = k
  <2>1. \A l \in 1..2 : l = 1 \/ l = 2
    OBVIOUS
  <2> HIDE DEF In
  <2>2. QED BY <1>4, <2>1
<1>6. QED BY <1>5 DEF PROCESS_THREADS

-----------------------------------------------------------------------------
(* Queueing and taking polls. *)
LEMMA QueueOfPolls ==
  ASSUME NEW q \in Seq(Jobs), NEW n \in Nat
  PROVE  /\ q \o Parts(n) \in Seq(Jobs)
         /\ \A k \in 1..Len(q \o Parts(n)) :
              \/ k \in 1..Len(q) /\ (q \o Parts(n))[k] = q[k]
              \/ (q \o Parts(n))[k].end <= n
         /\ q # <<>> => /\ Head(q) \in Jobs /\ Tail(q) \in Seq(Jobs)
                        /\ Head(q) = q[1] /\ 1 \in 1..Len(q)
                        /\ \A k \in 1..Len(Tail(q)) : k + 1 \in 1..Len(q) /\ Tail(q)[k] = q[k + 1]
<1> DEFINE r == Parts(n)
<1>1. r \in Seq(Jobs) /\ Len(r) = 2 /\ r[1].end <= n /\ r[2].end <= n
  <2>1. r[1].end = Ends(n)[1] /\ r[2].end = n /\ Ends(n)[1] \in 0..n
    BY PartEnds
  <2>2. r[1].end <= n /\ r[2].end <= n
    BY <2>1
  <2>3. QED BY <2>2, PartEnds
<1> HIDE DEF r
<1>2. /\ q \o r \in Seq(Jobs)
      /\ Len(q \o r) = Len(q) + 2
      /\ \A k \in 1..Len(q) + 2 : (q \o r)[k] = IF k <= Len(q) THEN q[k] ELSE r[k - Len(q)]
  <2>1. q \o r \in Seq(Jobs)
    BY <1>1
  <2>2. Len(q \o r) = Len(q) + Len(r)
    BY <1>1, ConcatProperties, Zenon
  <2>3. \A k \in 1..Len(q) + Len(r) :
          (q \o r)[k] = IF k <= Len(q) THEN q[k] ELSE r[k - Len(q)]
    BY <1>1, ConcatProperties, Zenon
  <2>4. QED BY <1>1, <2>1, <2>2, <2>3
<1>3. Len(q) \in Nat
  BY LenProperties
<1>4. ASSUME NEW k \in 1..Len(q \o r)
      PROVE  (k \in 1..Len(q) /\ (q \o r)[k] = q[k]) \/ (q \o r)[k].end <= n
  <2>1. CASE k <= Len(q)
    BY <1>2, <1>3, <1>4, <2>1
  <2>2. CASE ~(k <= Len(q))
    <3>1. (q \o r)[k] = r[k - Len(q)] /\ (k - Len(q) = 1 \/ k - Len(q) = 2)
      BY <1>2, <1>3, <1>4, <2>2
    <3>2. QED BY <1>1, <3>1
  <2>3. QED BY <2>1, <2>2
<1>5. ASSUME q # <<>>
      PROVE  /\ Head(q) \in Jobs /\ Tail(q) \in Seq(Jobs)
             /\ Head(q) = q[1] /\ 1 \in 1..Len(q)
             /\ \A k \in 1..Len(Tail(q)) : k + 1 \in 1..Len(q) /\ Tail(q)[k] = q[k + 1]
  BY <1>5
<1>6. QED BY <1>2, <1>4, <1>5 DEF r

(* What erase leaves in the storage of a vector. *)
LEMMA AfterErase ==
  ASSUME TypeOK, NEW at \in 1..size
  PROVE  /\ Erased(at) \in Seq(Sockets)
         /\ Len(Erased(at)) = Len(memory)
         /\ size - 1 \in 0..Len(memory)
         /\ \A n \in 1..size : n # at => \E m \in 1..size - 1 : Erased(at)[m] = memory[n]
<1>1. memory \in Seq(Sockets) /\ size \in 1..Len(memory)
  BY DEF TypeOK, ListOK
<1>2. \A n \in 1..Len(memory) : Erased(at)[n] \in Sockets
  BY <1>1 DEF Erased
<1>3. Erased(at) \in Seq(Sockets) /\ Len(Erased(at)) = Len(memory)
  BY <1>1, <1>2 DEF Erased
<1>4. ASSUME NEW n \in 1..size, n # at
      PROVE  \E m \in 1..size - 1 : Erased(at)[m] = memory[n]
  <2>1. CASE n < at
    <3>1. n \in 1..size - 1 /\ Erased(at)[n] = memory[n]
      BY <1>1, <1>4, <2>1 DEF Erased
    <3>2. QED BY <3>1
  <2>2. CASE n > at
    <3>1. n - 1 \in 1..size - 1 /\ Erased(at)[n - 1] = memory[n]
      BY <1>1, <1>4, <2>2 DEF Erased
    <3>2. QED BY <3>1
  <2>3. QED BY <1>4, <2>1, <2>2
<1>5. QED BY <1>1, <1>3, <1>4

LEMMA AfterPushBack ==
  ASSUME TypeOK, TypeOK', PushBack
  PROVE  /\ memory' \in Seq(Sockets) /\ size' \in 1..Len(memory')
         /\ Len(memory') >= Len(memory)
         /\ memory'[size'] = clientSocket
         /\ \A n \in 1..size : memory'[n] = memory[n]
BY DEF TypeOK, ThreadsOK, ListOK, PushBack

(* A worker that goes on with its range. *)
LEMMA GoingOn ==
  ASSUME PollsOK, NEW w \in Workers,
         NEW pc \in PollState, NEW i \in Nat, NEW s \in Sockets \cup {NoSocket}, NEW at \in Nat,
         pc \in Holding <=> s # NoSocket,
         pc = "erasing" => at > 0,
         GoOn(w, pc, i, s, at)
  PROVE  PollsOK'
<1> DEFINE new == [pc |-> pc, i |-> i, end |-> poll[w].end, socket |-> s, at |-> at]
<1>1. poll[w].end \in Nat
  BY DEF PollsOK, Polls
<1>2. new \in Polls /\ new.pc = pc /\ new.socket = s /\ new.at = at
  BY <1>1 DEF Polls
<1>3. poll' = [poll EXCEPT ![w] = new]
  BY DEF GoOn
<1> HIDE DEF new
<1>4. poll' \in [Workers -> Polls]
  BY <1>2, <1>3 DEF PollsOK
<1>5. ASSUME NEW v \in Workers
      PROVE  /\ poll'[v].pc \in Holding <=> poll'[v].socket # NoSocket
             /\ poll'[v].pc = "erasing" => poll'[v].at > 0
  <2>1. CASE v = w
    <3>1. poll'[v] = new
      BY <1>3, <2>1 DEF PollsOK
    <3>2. QED BY <1>2, <3>1
  <2>2. CASE v # w
    <3>1. poll'[v] = poll[v]
      BY <1>3, <2>2 DEF PollsOK
    <3>2. QED BY <3>1 DEF PollsOK
  <2>3. QED BY <2>1, <2>2
<1>6. QED BY <1>4, <1>5 DEF PollsOK

LEMMA PollTypes ==
  ASSUME PollsOK, NEW w \in Workers
  PROVE  /\ poll[w].pc \in PollState /\ poll[w].i \in Nat /\ poll[w].end \in Nat
         /\ poll[w].socket \in Sockets \cup {NoSocket} /\ poll[w].at \in Nat
         /\ poll[w].pc \in Holding <=> poll[w].socket # NoSocket
         /\ poll[w].pc = "erasing" => poll[w].at > 0
BY DEF PollsOK, Polls

-----------------------------------------------------------------------------
(* The two facts that need each other: a poll reads a handle because its    *)
(* range lies in written storage, and that lies in the storage because      *)
(* ranges come from sizes.                                                  *)

LEMMA InitTyped == Init => TypeOK /\ ReadsWritten
<1> SUFFICES ASSUME Init PROVE TypeOK /\ ReadsWritten
  OBVIOUS
<1>1. poll \in [Workers -> Polls]
  BY DEF Init, Idle, Polls, PollState, Holding
<1>2. \A w \in Workers : poll[w] = Idle
  BY DEF Init
<1>3. Idle.pc = "idle" /\ Idle.socket = NoSocket /\ Idle.end = 0
  BY DEF Idle
<1>4. jobs = <<>> /\ memory = <<>> /\ size = 0
  BY DEF Init
<1>5. jobs \in Seq(Jobs) /\ ListOK
  BY <1>4 DEF ListOK
<1>6. PollsOK
  BY <1>1, <1>2, <1>3 DEF PollsOK, Holding
<1>7. ThreadsOK
  <2>1. 0 \in 0..NumTasks /\ 0 \in 0..MaxAccepts
    BY ServerLoopAssumption DEF NumTasks
  <2>2. QED BY <2>1 DEF Init, ThreadsOK
<1>8. ReadsWritten
  BY <1>2, <1>3, <1>4 DEF ReadsWritten
<1>9. QED BY <1>5, <1>6, <1>7, <1>8 DEF TypeOK

LEMMA NextTyped == TypeOK /\ ReadsWritten /\ [Next]_vars => TypeOK'
<1> SUFFICES ASSUME TypeOK, ReadsWritten, [Next]_vars PROVE TypeOK'
  OBVIOUS
<1>1. ThreadsOK /\ ListOK /\ jobs \in Seq(Jobs) /\ PollsOK
  BY DEF TypeOK
<1>2. UNCHANGED poll => PollsOK'
  BY <1>1 DEF PollsOK
<1>3. UNCHANGED list => ListOK'
  BY <1>1 DEF ListOK, list
<1> USE ServerLoopAssumption DEF ThreadsOK, NumTasks, main, timing, conns
<1>4. CASE StartTask
  BY <1>1, <1>2, <1>3, <1>4 DEF StartTask, TypeOK
<1>5. CASE BeginServing
  BY <1>1, <1>2, <1>3, <1>5 DEF BeginServing, TypeOK
<1>6. CASE PushBack
  <2>1. ListOK'
    BY <1>1, <1>6 DEF PushBack, ListOK
  <2>2. QED BY <1>1, <1>2, <1>6, <2>1 DEF PushBack, TypeOK
<1>7. CASE Accept
  BY <1>1, <1>2, <1>3, <1>7 DEF Accept, TypeOK
<1>8. CASE SizeLastTimes
  BY <1>1, <1>2, <1>3, <1>8 DEF SizeLastTimes, TypeOK
<1>9. CASE EndTimer
  BY <1>1, <1>2, <1>3, <1>9 DEF EndTimer, TypeOK
<1>10. size \in Nat
  BY <1>1 DEF ListOK
<1>11. jobs \o Parts(size) \in Seq(Jobs)
  BY <1>1, <1>10, QueueOfPolls
<1>12. CASE Iterate
  BY <1>1, <1>2, <1>3, <1>11, <1>12 DEF Iterate, TypeOK
<1>13. CASE IteratePastEnd
  BY <1>1, <1>2, <1>3, <1>11, <1>13 DEF IteratePastEnd, TypeOK
<1>14. ASSUME NEW w \in Workers, BeginPoll(w) PROVE TypeOK'
  <2>1. Head(jobs) \in Jobs /\ Tail(jobs) \in Seq(Jobs)
    BY <1>1, <1>10, <1>14, QueueOfPolls DEF BeginPoll
  <2>2. Head(jobs).start \in Nat /\ Head(jobs).end \in Nat
    BY <2>1 DEF Jobs
  <2>3. PollsOK'
    BY <1>1, <1>14, <2>2 DEF BeginPoll, PollsOK, Polls, PollState, Holding
  <2>4. QED BY <1>1, <1>3, <1>14, <2>1, <2>3 DEF BeginPoll, TypeOK
<1>15. ASSUME NEW w \in Workers, EndPoll(w) PROVE TypeOK'
  <2>1. PollsOK'
    BY <1>1, <1>15 DEF EndPoll, Idle, PollsOK, Polls, PollState, Holding
  <2>2. QED BY <1>1, <1>3, <1>15, <2>1 DEF EndPoll, TypeOK
<1>16. ASSUME NEW w \in Workers, NextSocket(w) PROVE PollsOK'
  BY <1>1, <1>16, GoingOn, PollTypes DEF NextSocket, PollState, Holding
<1>17. ASSUME NEW w \in Workers, Select(w) PROVE TypeOK'
  <2>1. poll[w].i \in Nat /\ poll[w].end \in Nat /\ poll[w].end <= Len(memory)
    BY <1>1, PollTypes DEF ReadsWritten
  <2>2. memory[poll[w].i + 1] \in Sockets
    BY <1>1, <1>17, <2>1 DEF Select, ListOK
  <2>3. PollsOK'
    BY <1>1, <1>17, <2>1, <2>2, GoingOn DEF Select, PollState, Holding
  <2>4. QED BY <1>1, <1>3, <1>17, <2>3 DEF Select, TypeOK
<1>18. ASSUME NEW w \in Workers, NothingToRead(w) \/ Handled(w) PROVE TypeOK'
  BY <1>1, <1>3, <1>16, <1>18 DEF NothingToRead, Handled, TypeOK
<1>19. ASSUME NEW w \in Workers, HandleClient(w) PROVE TypeOK'
  <2>1. PollsOK'
    BY <1>1, <1>19, GoingOn, PollTypes DEF HandleClient, PollState, Holding
  <2>2. QED BY <1>1, <1>3, <1>19, <2>1 DEF HandleClient, TypeOK
<1>20. ASSUME NEW w \in Workers, ServeReject(w) PROVE TypeOK'
  <2>1. PollsOK'
    BY <1>1, <1>20, GoingOn, PollTypes DEF ServeReject, PollState, Holding
  <2>2. QED BY <1>1, <1>3, <1>20, <2>1 DEF ServeReject, TypeOK
<1>21. ASSUME NEW w \in Workers, Find(w) PROVE TypeOK'
  <2>1. ASSUME NEW n \in 1..size, GoOn(w, "erasing", poll[w].i, poll[w].socket, n)
        PROVE  PollsOK'
    BY <1>1, <1>10, <1>21, <2>1, GoingOn, PollTypes DEF Find, PollState, Holding
  <2>2. PollsOK'
    BY <1>16, <1>21, <2>1 DEF Find
  <2>3. QED BY <1>1, <1>3, <1>21, <2>2 DEF Find, TypeOK
<1>22. ASSUME NEW w \in Workers, Erase(w) PROVE TypeOK'
  <2>1. poll[w].at \in Nat /\ poll[w].at > 0
    BY <1>1, <1>22, PollTypes DEF Erase
  <2>2. raced' \in BOOLEAN
    BY <1>22 DEF Erase
  <2>3. CASE poll[w].at <= size
    <3>1. poll[w].at \in 1..size
      BY <1>10, <2>1, <2>3
    <3>2. /\ memory' = Erased(poll[w].at) /\ size' = size - 1
          /\ open' = open \ {poll[w].socket} /\ NextSocket(w) /\ process' = process
      BY <1>10, <1>22, <2>1, <2>3 DEF Erase
    <3>3. ListOK'
      BY <3>1, <3>2, AfterErase DEF ListOK
    <3>4. QED BY <1>1, <1>16, <1>22, <2>2, <3>2, <3>3 DEF Erase, TypeOK
  <2>4. CASE poll[w].at > size
    <3>1. process' = "crashed" /\ UNCHANGED <<list, open, poll>>
      BY <1>10, <1>22, <2>1, <2>4 DEF Erase
    <3>2. QED BY <1>1, <1>2, <1>3, <1>22, <2>2, <3>1 DEF Erase, TypeOK
  <2>5. QED BY <1>10, <2>1, <2>3, <2>4
<1>23. CASE UNCHANGED vars
  BY <1>1, <1>2, <1>3, <1>23 DEF vars, TypeOK
<1>24. ASSUME NEW w \in Workers, ServeDisconnect(w) PROVE TypeOK'
  BY <1>1, <1>2, <1>3, <1>24 DEF ServeDisconnect, TypeOK
<1>25. CASE TimeOut
  BY <1>1, <1>2, <1>3, <1>25 DEF TimeOut, TypeOK
<1>26. QED
  BY <1>4, <1>5, <1>6, <1>7, <1>8, <1>9, <1>12, <1>13, <1>14, <1>15, <1>17, <1>18,
     <1>19, <1>20, <1>21, <1>22, <1>23, <1>24, <1>25
  DEF Next, MainStep, TimerStep, PollStep, HandlerStep

LEMMA EndTypes ==
  ASSUME NEW q \in Seq(Jobs)
  PROVE  \A n \in 1..Len(q) : q[n].end \in Nat
<1>1. \A n \in 1..Len(q) : q[n] \in Jobs
  OBVIOUS
<1>2. QED BY <1>1 DEF Jobs

LEMMA NextWritten == TypeOK /\ TypeOK' /\ ReadsWritten /\ [Next]_vars => ReadsWritten'
<1> SUFFICES ASSUME TypeOK, TypeOK', ReadsWritten, [Next]_vars PROVE ReadsWritten'
  OBVIOUS
<1>1. jobs \in Seq(Jobs) /\ PollsOK /\ size \in Nat /\ Len(memory) \in Nat /\ size <= Len(memory)
  BY LenProperties DEF TypeOK, ListOK
(* The ranges change only by the timer and by a poll that begins; the       *)
(* storage never gets shorter.                                              *)
<1>2. ASSUME UNCHANGED jobs, Len(memory') >= Len(memory), Len(memory') \in Nat,
             \A w \in Workers : poll'[w].end = poll[w].end \/ poll'[w].end = 0
      PROVE  ReadsWritten'
  <2>1. \A w \in Workers : poll[w].end \in Nat /\ poll[w].end <= Len(memory)
    BY <1>1, PollTypes DEF ReadsWritten
  <2>2. \A n \in 1..Len(jobs) : jobs[n].end \in Nat /\ jobs[n].end <= Len(memory)
    BY <1>1, EndTypes DEF ReadsWritten
  <2>3. \A w \in Workers : poll'[w].end <= Len(memory')
    BY <1>1, <1>2, <2>1
  <2>4. \A n \in 1..Len(jobs') : jobs'[n].end <= Len(memory')
    BY <1>1, <1>2, <2>2
  <2>5. QED BY <2>3, <2>4 DEF ReadsWritten
<1>3. UNCHANGED memory => Len(memory') >= Len(memory) /\ Len(memory') \in Nat
  BY <1>1
<1>4. CASE StartTask \/ BeginServing \/ Accept \/ SizeLastTimes \/ EndTimer \/ TimeOut
            \/ UNCHANGED vars
  BY <1>2, <1>3, <1>4
  DEF StartTask, BeginServing, Accept, SizeLastTimes, EndTimer, TimeOut, vars, list
<1>5. CASE PushBack
  <2>1. Len(memory') >= Len(memory) /\ Len(memory') \in Nat
    BY <1>5, AfterPushBack, LenProperties
  <2>2. QED BY <1>2, <1>5, <2>1 DEF PushBack
<1>6. ASSUME jobs' = jobs \o Parts(size), UNCHANGED <<memory, poll>>
      PROVE  ReadsWritten'
  <2>1. \A n \in 1..Len(jobs') : (n \in 1..Len(jobs) /\ jobs'[n] = jobs[n]) \/ jobs'[n].end <= size
    BY <1>1, <1>6, QueueOfPolls
  <2>2. jobs' \in Seq(Jobs)
    BY DEF TypeOK
  <2>3. \A n \in 1..Len(jobs') : jobs'[n].end \in Nat
    BY <2>2, EndTypes
  <2>4. \A n \in 1..Len(jobs') : jobs'[n].end <= Len(memory)
    BY <1>1, <2>1, <2>3 DEF ReadsWritten
  <2>5. QED BY <1>6, <2>4 DEF ReadsWritten
<1>7. CASE Iterate \/ IteratePastEnd
  <2>1. \/ jobs' = jobs \o Parts(size) /\ UNCHANGED <<memory, poll>>
        \/ UNCHANGED <<jobs, memory, poll>>
    BY <1>7 DEF Iterate, IteratePastEnd, list
  <2>2. QED BY <1>2, <1>3, <1>6, <2>1
<1>8. ASSUME NEW w \in Workers, NEW pc, NEW i, NEW s, NEW at, GoOn(w, pc, i, s, at)
      PROVE  \A v \in Workers : poll'[v].end = poll[v].end
  BY <1>1, <1>8 DEF GoOn, PollsOK
<1>9. ASSUME NEW w \in Workers, NextSocket(w)
      PROVE  \A v \in Workers : poll'[v].end = poll[v].end
  BY <1>8, <1>9 DEF NextSocket
<1>10. ASSUME NEW w \in Workers, BeginPoll(w) PROVE ReadsWritten'
  <2>1. /\ Head(jobs) = jobs[1] /\ 1 \in 1..Len(jobs)
        /\ \A k \in 1..Len(Tail(jobs)) : k + 1 \in 1..Len(jobs) /\ Tail(jobs)[k] = jobs[k + 1]
    BY <1>1, <1>10, QueueOfPolls DEF BeginPoll
  <2>2. Head(jobs).end <= Len(memory)
    BY <2>1 DEF ReadsWritten
  <2>3. \A v \in Workers : poll'[v].end = poll[v].end \/ poll'[v].end = Head(jobs).end
    BY <1>1, <1>10 DEF BeginPoll, PollsOK
  <2>4. \A v \in Workers : poll'[v].end <= Len(memory)
    BY <2>2, <2>3 DEF ReadsWritten
  <2>5. \A k \in 1..Len(jobs') : jobs'[k].end <= Len(memory)
    BY <1>10, <2>1 DEF BeginPoll, ReadsWritten
  <2>6. QED BY <1>10, <2>4, <2>5 DEF BeginPoll, ReadsWritten, list
<1>11. ASSUME NEW w \in Workers, EndPoll(w) PROVE ReadsWritten'
  <2>1. \A v \in Workers : poll'[v].end = poll[v].end \/ poll'[v].end = 0
    BY <1>1, <1>11 DEF EndPoll, Idle, PollsOK
  <2>2. QED BY <1>2, <1>3, <1>11, <2>1 DEF EndPoll, list
<1>12. ASSUME NEW w \in Workers,
              Select(w) \/ NothingToRead(w) \/ HandleClient(w) \/ HandlerStep(w) \/ Find(w)
       PROVE  ReadsWritten'
  <2>1. \A v \in Workers : poll'[v].end = poll[v].end
    BY <1>8, <1>9, <1>12
       DEF Select, NothingToRead, HandleClient, HandlerStep, Handled, ServeDisconnect,
           ServeReject, Find
  <2>2. UNCHANGED <<jobs, memory>>
    BY <1>12 DEF Select, NothingToRead, HandleClient, HandlerStep, Handled, ServeDisconnect,
                 ServeReject, Find, list
  <2>3. QED BY <1>2, <1>3, <2>1, <2>2
<1>13. ASSUME NEW w \in Workers, Erase(w) PROVE ReadsWritten'
  <2>1. poll[w].at \in Nat /\ poll[w].at > 0 /\ UNCHANGED jobs
    BY <1>1, <1>13, PollTypes DEF Erase
  <2>2. CASE poll[w].at <= size
    <3>1. poll[w].at \in 1..size
      BY <1>1, <2>1, <2>2
    <3>2. memory' = Erased(poll[w].at) /\ NextSocket(w)
      BY <1>1, <1>13, <2>1, <2>2 DEF Erase
    <3>3. Len(memory') = Len(memory)
      BY <3>1, <3>2, AfterErase
    <3>4. QED BY <1>1, <1>2, <1>9, <2>1, <3>2, <3>3
  <2>3. CASE poll[w].at > size
    <3>1. UNCHANGED <<memory, poll>>
      BY <1>1, <1>13, <2>1, <2>3 DEF Erase, list
    <3>2. QED BY <1>2, <1>3, <2>1, <3>1
  <2>4. QED BY <1>1, <2>1, <2>2, <2>3
<1>14. QED
  BY <1>4, <1>5, <1>7, <1>10, <1>11, <1>12, <1>13
  DEF Next, MainStep, TimerStep, PollStep

(* Type correctness: a worker holds a socket exactly while it serves it,    *)
(* and clientSockets holds handles.                                         *)
THEOREM TypeCorrect == Spec => []TypeOK
<1>1. Init => TypeOK /\ ReadsWritten
  BY InitTyped
<1>2. TypeOK /\ ReadsWritten /\ [Next]_vars => TypeOK' /\ ReadsWritten'
  BY NextTyped, NextWritten
<1>3. QED BY <1>1, <1>2, PTL DEF Spec

(* No poll reads storage of clientSockets that was never written, however   *)
(* old its range is (main.cpp:50-51, :118).                                 *)
THEOREM Written == Spec => []ReadsWritten
<1>1. Init => TypeOK /\ ReadsWritten
  BY InitTyped
<1>2. TypeOK /\ ReadsWritten /\ [Next]_vars => TypeOK' /\ ReadsWritten'
  BY NextTyped, NextWritten
<1>3. QED BY <1>1, <1>2, PTL DEF Spec

-----------------------------------------------------------------------------
(* The inductive form of OpenIsListed: until two erases have raced, the     *)
(* iterator of an erase refers to the socket it was searched for.           *)

ErasesOwn == \A w \in Workers :
  poll[w].pc = "erasing" => poll[w].at \in 1..size /\ memory[poll[w].at] = poll[w].socket

Listing == ~raced => open \subseteq Listed \cup {clientSocket} /\ ErasesOwn

LEMMA NextListing == TypeOK /\ TypeOK' /\ Listing /\ [Next]_vars => Listing'
<1> SUFFICES ASSUME TypeOK, TypeOK', Listing, [Next]_vars, ~raced' PROVE
      (open \subseteq Listed \cup {clientSocket} /\ ErasesOwn)'
  BY DEF Listing
<1>1. /\ PollsOK /\ size \in Nat /\ Len(memory) \in Nat /\ size <= Len(memory)
      /\ open \subseteq Sockets /\ raced \in BOOLEAN /\ open' \subseteq Sockets
  BY LenProperties DEF TypeOK, ListOK, ThreadsOK
<1>2. ~raced
  BY <1>1 DEF Next, MainStep, TimerStep, PollStep, HandlerStep, StartTask, BeginServing, PushBack,
       Accept, SizeLastTimes, EndTimer, Iterate, IteratePastEnd, TimeOut, BeginPoll, EndPoll,
       Select, NothingToRead, HandleClient, Handled, ServeDisconnect, ServeReject, Find, Erase, vars
<1>3. open \subseteq Listed \cup {clientSocket} /\ ErasesOwn
  BY <1>2 DEF Listing
<1>4. ASSUME UNCHANGED list PROVE Listed' = Listed
  BY <1>4 DEF Listed, list
(* No worker turns to erasing and nothing is erased. *)
<1>5. ASSUME UNCHANGED <<list, clientSocket>>, open' \subseteq open,
             \A w \in Workers : poll'[w] = poll[w] \/ poll'[w].pc # "erasing"
      PROVE  (open \subseteq Listed \cup {clientSocket} /\ ErasesOwn)'
  <2>1. (open \subseteq Listed \cup {clientSocket})'
    BY <1>3, <1>4, <1>5
  <2>2. ErasesOwn'
    BY <1>3, <1>5 DEF ErasesOwn, list
  <2>3. QED BY <2>1, <2>2
<1>6. CASE StartTask \/ BeginServing \/ TimerStep \/ TimeOut \/ UNCHANGED vars
  BY <1>5, <1>6 DEF StartTask, BeginServing, TimerStep, SizeLastTimes, EndTimer, Iterate,
       IteratePastEnd, TimeOut, vars, main, conns
<1>7. CASE Accept
  <2>1. UNCHANGED <<list, poll>> /\ clientSocket = NoSocket
    BY <1>7 DEF Accept
  <2>2. open \subseteq Listed
    BY <1>1, <1>3, <2>1, ServerLoopAssumption
  <2>3. open' \subseteq open \cup {clientSocket'}
    BY <1>7 DEF Accept
  <2>4. (open \subseteq Listed \cup {clientSocket})'
    BY <1>4, <2>1, <2>2, <2>3
  <2>5. ErasesOwn'
    BY <1>3, <2>1 DEF ErasesOwn, list
  <2>6. QED BY <2>4, <2>5
<1>8. CASE PushBack
  <2>1. /\ size' \in 1..Len(memory') /\ memory'[size'] = clientSocket
        /\ \A n \in 1..size : memory'[n] = memory[n]
    BY <1>8, AfterPushBack
  <2>2. size' = size + 1 /\ UNCHANGED <<open, poll>>
    BY <1>8 DEF PushBack, conns
  <2>3. Listed \cup {clientSocket} \subseteq Listed'
    BY <1>1, <2>1, <2>2 DEF Listed
  <2>4. \A w \in Workers : poll'[w].pc = "idle"
    BY <1>8, <2>2 DEF PushBack, Readers
  <2>5. QED BY <1>3, <2>2, <2>3, <2>4 DEF ErasesOwn
<1>9. ASSUME NEW w \in Workers, NEW pc, NEW i, NEW s, NEW at, GoOn(w, pc, i, s, at)
      PROVE  /\ \A v \in Workers \ {w} : poll'[v] = poll[v]
             /\ poll'[w].pc = pc /\ poll'[w].socket = s /\ poll'[w].at = at
  BY <1>1, <1>9 DEF GoOn, PollsOK
<1>10. ASSUME NEW w \in Workers, NextSocket(w)
       PROVE  /\ \A v \in Workers \ {w} : poll'[v] = poll[v]
              /\ poll'[w].pc = "polling"
  BY <1>9, <1>10 DEF NextSocket
<1>11. ASSUME NEW w \in Workers, BeginPoll(w) \/ EndPoll(w)
       PROVE  (open \subseteq Listed \cup {clientSocket} /\ ErasesOwn)'
  <2>1. \A v \in Workers : poll'[v] = poll[v] \/ poll'[v].pc # "erasing"
    BY <1>1, <1>11 DEF BeginPoll, EndPoll, Idle, PollsOK
  <2>2. QED BY <1>5, <1>11, <2>1 DEF BeginPoll, EndPoll, main, conns
<1>12. ASSUME NEW w \in Workers,
              Select(w) \/ NothingToRead(w) \/ HandleClient(w) \/ HandlerStep(w)
       PROVE  (open \subseteq Listed \cup {clientSocket} /\ ErasesOwn)'
  <2>1. \A v \in Workers : poll'[v] = poll[v] \/ poll'[v].pc # "erasing"
    BY <1>9, <1>10, <1>12
       DEF Select, NothingToRead, HandleClient, HandlerStep, Handled, ServeDisconnect, ServeReject
  <2>2. UNCHANGED <<list, clientSocket>> /\ open' \subseteq open
    BY <1>12 DEF Select, NothingToRead, HandleClient, HandlerStep, Handled, ServeDisconnect,
                 ServeReject, main, conns
  <2>3. QED BY <1>5, <2>1, <2>2
<1>13. ASSUME NEW w \in Workers, Find(w)
       PROVE  (open \subseteq Listed \cup {clientSocket} /\ ErasesOwn)'
  <2>1. UNCHANGED <<list, clientSocket, open>>
    BY <1>13 DEF Find, main, conns
  <2>2. CASE NextSocket(w)
    BY <1>5, <1>10, <2>1, <2>2
  <2>3. ASSUME NEW n \in 1..size, memory[n] = poll[w].socket,
               GoOn(w, "erasing", poll[w].i, poll[w].socket, n)
        PROVE  (open \subseteq Listed \cup {clientSocket} /\ ErasesOwn)'
    <3>1. ErasesOwn'
      BY <1>3, <1>9, <2>1, <2>3 DEF ErasesOwn, list
    <3>2. QED BY <1>3, <1>4, <2>1, <3>1
  <2>4. QED BY <1>13, <2>2, <2>3 DEF Find
<1>14. ASSUME NEW w \in Workers, Erase(w)
       PROVE  (open \subseteq Listed \cup {clientSocket} /\ ErasesOwn)'
  <2>1. poll[w].at \in 1..size /\ memory[poll[w].at] = poll[w].socket
    BY <1>3, <1>14 DEF Erase, ErasesOwn
  <2>2. /\ memory' = Erased(poll[w].at) /\ size' = size - 1
        /\ open' = open \ {poll[w].socket} /\ NextSocket(w)
    BY <1>1, <1>14, <2>1 DEF Erase
  <2>3. clientSocket' = clientSocket /\ \A v \in Workers \ {w} : poll[v].pc # "erasing"
    BY <1>14 DEF Erase, Erasing, main
  <2>4. ErasesOwn'
    BY <1>10, <2>2, <2>3 DEF ErasesOwn
  <2>5. ASSUME NEW o \in open' PROVE o \in Listed' \cup {clientSocket'}
    <3>1. o \in open /\ o # memory[poll[w].at]
      BY <2>1, <2>2
    <3>2. CASE o = clientSocket
      BY <2>3, <3>2
    <3>3. CASE o \in Listed
      <4>1. PICK n \in 1..size : memory[n] = o
        BY <3>3 DEF Listed
      <4>2. PICK m \in 1..size - 1 : Erased(poll[w].at)[m] = o
        BY <2>1, <3>1, <4>1, AfterErase
      <4>3. QED BY <2>2, <4>2 DEF Listed
    <3>4. QED BY <1>3, <3>1, <3>2, <3>3
  <2>6. QED BY <2>4, <2>5
<1>15. QED
  BY <1>6, <1>7, <1>8, <1>11, <1>12, <1>13, <1>14
  DEF Next, MainStep, PollStep, HandlerStep

(* An open connection stays listed until two rejections have raced          *)
(* (packet_handler.cpp:172-183, main.cpp:236-239).                          *)
THEOREM OpenListed == Spec => []OpenIsListed
<1>1. Init => TypeOK /\ ReadsWritten /\ Listing
  BY InitTyped DEF Init, Listing, ErasesOwn, Idle
<1>2. TypeOK /\ ReadsWritten /\ Listing /\ [Next]_vars
        => TypeOK' /\ ReadsWritten' /\ Listing'
  BY NextTyped, NextWritten, NextListing
<1>3. TypeOK /\ Listing => OpenIsListed
  BY DEF Listing, OpenIsListed, TypeOK, ThreadsOK
<1>4. QED BY <1>1, <1>2, <1>3, PTL DEF Spec
=============================================================================
