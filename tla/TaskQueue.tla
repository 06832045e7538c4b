------------------------------ MODULE TaskQueue ------------------------------
(***************************************************************************)
(* What a ThreadPool promises to the code that hands it work, with no       *)
(* threads, no mutex and no condition variable: tasks are started in the    *)
(* order in which they were enqueued, each of them once, several may be in  *)
(* progress at a time, and every enqueued task is started and completed.    *)
(* ThreadPool.tla implements this specification.                            *)
(***************************************************************************)
EXTENDS Naturals, Sequences

CONSTANT Tasks       \* the tasks that may be enqueued, each at most once

VARIABLES pending,   \* enqueued, not started: first in, first out
          active,    \* started, not completed
          completed  \* completed

vars == <<pending, active, completed>>

Pending == {pending[i] : i \in 1..Len(pending)}

Init == /\ pending = <<>>
        /\ active = {}
        /\ completed = {}

Submit(t) == /\ t \notin Pending \cup active \cup completed
             /\ pending' = Append(pending, t)
             /\ UNCHANGED <<active, completed>>

Start == /\ pending # <<>>
         /\ active' = active \cup {Head(pending)}
         /\ pending' = Tail(pending)
         /\ UNCHANGED completed

Complete(t) == /\ t \in active
               /\ active' = active \ {t}
               /\ completed' = completed \cup {t}
               /\ UNCHANGED pending

Next == \/ \E t \in Tasks : Submit(t) \/ Complete(t)
        \/ Start

Fairness == /\ WF_vars(Start)
            /\ \A t \in Tasks : WF_vars(Complete(t))

Spec == Init /\ [][Next]_vars /\ Fairness
=============================================================================
