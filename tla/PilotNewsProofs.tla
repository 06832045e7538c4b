--------------------------- MODULE PilotNewsProofs ---------------------------
(***************************************************************************)
(* What reaches the viewers of a pilot, for any viewers, controllers and    *)
(* ranges, any number of changes and moves: the fields and the scripts;     *)
(* then the flight plan, for any number of edits by any user.               *)
(***************************************************************************)
EXTENDS PilotNews, TLAPS

USE PilotNewsAssumption
USE DEF Users, ranges, pilot, clients, history

-----------------------------------------------------------------------------
(* Types.  The state, the pass and the handlers are taken one after the     *)
(* other; each leaf of the last two replaces one record of them.            *)

LEMMA SendNewsState ==
  ASSUME TypeOK, SendNews
  PROVE  StateOK'
<1> DEFINE topic == handler[Pilot].topic
           item == handler[Pilot].item
<1>1. PICK u \in handler[Pilot].to :
     /\ IF topic = "script"
          THEN /\ held' = [held EXCEPT ![u] = IF u \in shows THEN @ \cup {item} ELSE @]
               /\ UNCHANGED <<told, missed, overtaken, pass>>
          ELSE /\ told' = [told EXCEPT ![u][topic] = IF u \in shows THEN item ELSE @]
               /\ missed' = missed \ {<<u, topic>>} /\ overtaken' = overtaken \ {<<u, topic>>}
               /\ UNCHANGED held
  BY DEF SendNews
<1>2. /\ handler[Pilot].job = "iterate"
      /\ UNCHANGED <<ranges, pilot, local_users, shows, strip, unsent, raced>>
  BY DEF SendNews, Is
<1>3. handler[Pilot] \in HandlerRecords
  BY DEF TypeOK, HandlerOK
<1>4. u \in Viewers /\ item \in Nat
  BY <1>3, SMT DEF HandlerRecords
<1>5. CASE topic = "script"
  <2>1. item \in 1..scripts
    BY <1>4, <1>5, SMT DEF TypeOK, HandlerOK, StateOK
  <2> HIDE DEF topic, item
  <2>2. held' \in [Viewers -> SUBSET (1..scripts)]
    BY <1>1, <1>4, <1>5, <2>1, SMT DEF TypeOK, StateOK
  <2> QED
    BY <1>1, <1>2, <1>5, <2>2, SMT DEF TypeOK, StateOK
<1>6. CASE topic # "script"
  <2>1. topic \in Fields
    BY <1>2, <1>3, <1>6, SMT DEF HandlerRecords, TypeOK, HandlerOK
  <2> HIDE DEF topic, item
  <2> DEFINE row == [told[u] EXCEPT ![topic] = IF u \in shows THEN item ELSE @]
  <2>2. row \in [Fields -> Nat]
    BY <1>4, <2>1, SMT DEF TypeOK, StateOK
  <2>3. told' = [told EXCEPT ![u] = row]
    BY <1>1, <1>4, <1>6, SMT DEF TypeOK, StateOK
  <2> HIDE DEF row
  <2>4. told' \in [Viewers -> [Fields -> Nat]]
    BY <1>4, <2>2, <2>3, SMT DEF TypeOK, StateOK
  <2> QED
    BY <1>1, <1>2, <1>6, <2>4, SMT DEF TypeOK, StateOK
<1> QED
  BY <1>5, <1>6

LEMMA TestQueueState ==
  ASSUME TypeOK, TestQueue
  PROVE  StateOK'
<1>1. missed' \subseteq Viewers \X Topics /\ raced' \in BOOLEAN
  <2>1. (Viewers \ (local_users[Pilot] \cap Audience("plan"))) \X {"plan"} \subseteq Viewers \X Topics
    BY SMT DEF Topics
  <2> QED 
    BY <2>1, Zenon DEF TestQueue, TypeOK, StateOK
<1>2. UNCHANGED <<ranges, pilot, local_users, clients, unsent, overtaken>>
  BY DEF TestQueue
<1> QED
  BY <1>1, <1>2, SMT DEF TypeOK, StateOK

LEMMA ClearQueueState ==
  ASSUME TypeOK, ClearQueue
  PROVE  StateOK'
<1>1. /\ queued' \in BOOLEAN
      /\ UNCHANGED <<ranges, news, scripts, plan, edits, changes, budget, local_users, clients,
                     history>>
  BY DEF ClearQueue
<1> QED
  BY <1>1, Zenon DEF TypeOK, StateOK

LEMMA StateStays ==
  ASSUME TypeOK, UNCHANGED <<ranges, pilot, local_users, clients, history>>
  PROVE  StateOK'
  BY Zenon DEF TypeOK, StateOK

LEMMA StateKept ==
  ASSUME TypeOK, [Next]_vars
  PROVE  StateOK'
<1>1. ASSUME NEW u \in Viewers, Move(u) PROVE StateOK'
  BY <1>1, SMT DEF Move, Flip, TypeOK, StateOK
<1>2. ASSUME NEW u \in Viewers, Request(u) PROVE StateOK'
  BY <1>2, StateStays DEF Request
<1>3. ASSUME NEW f \in Fields, SetField(f) PROVE StateOK'
  BY <1>3, SMT DEF SetField, Change, TypeOK, StateOK
<1>4. CASE RegisterScript
  BY <1>4, SMT DEF RegisterScript, Change, TypeOK, StateOK
<1>5. ASSUME NEW u \in Users, SetCycle(u) PROVE StateOK'
  BY <1>5, SMT DEF SetCycle, TypeOK, StateOK, Plans
<1>6. ASSUME NEW u \in Users, HandlerStep(u) PROVE StateOK'
  <2>1. CASE SetBody(u)
    <3>1. handler[u].item \in Nat
      BY SMT DEF TypeOK, HandlerOK, HandlerRecords
    <3>2. plan' = [plan EXCEPT !.body = handler[u].item]
      BY <2>1 DEF SetBody
    <3>3. plan' \in Plans
      BY <3>1, <3>2, SMT DEF TypeOK, StateOK, Plans
    <3>4. UNCHANGED <<ranges, news, scripts, queued, edits, changes, budget, local_users, clients,
                      history>>
      BY <2>1 DEF SetBody
    <3> QED
      BY <3>3, <3>4, Zenon DEF TypeOK, StateOK
  <2>2. CASE SetQueue(u)
    BY <2>2, SMT DEF SetQueue, TypeOK, StateOK
  <2>3. CASE ReplyReadCycle(u) \/ ReplyReadBody(u)
    BY <2>3, StateStays DEF ReplyReadCycle, ReplyReadBody
  <2>4. CASE ReplyWrite(u)
    BY <2>4, SMT DEF ReplyWrite, Is, Receive, TypeOK, StateOK, HandlerOK, HandlerRecords, Topics
  <2> QED
    BY <1>6, <2>1, <2>2, <2>3, <2>4 DEF HandlerStep
<1>7. CASE BeginIterating
  BY <1>7, SMT DEF BeginIterating, Is, TypeOK, StateOK, HandlerOK, HandlerRecords, Topics
<1>8. CASE SendNews
  BY <1>8, SendNewsState
<1>9. CASE \/ EndIterating \/ BeginPass \/ Examine \/ AssembleCreate \/ CreateFlightPlan
           \/ ReadCycle \/ ReadBody \/ GetAllScripts \/ NextInQueue
  BY <1>9, StateStays DEF EndIterating, BeginPass, Examine, AssembleCreate, CreateFlightPlan,
       ReadCycle, ReadBody, GetAllScripts, NextInQueue
<1>10. CASE WriteCreate
  BY <1>10, SMT DEF WriteCreate, At, TypeOK, StateOK, PassOK, PassRecords, Plans, NoPlan, Topics
<1>11. CASE WritePlan
  BY <1>11, SMT DEF WritePlan, At, Receive, PlanFor, TypeOK, StateOK, PassOK, PassRecords, Topics
<1>12. CASE SendScripts
  BY <1>12, SMT DEF SendScripts, At, TypeOK, StateOK, PassOK, PassRecords
<1>13. CASE Emplace
  BY <1>13, SMT DEF Emplace, At, TypeOK, StateOK, PassOK
<1>14. CASE Delete
  BY <1>14, SMT DEF Delete, At, TypeOK, StateOK, PassOK, Plans, NoPlan
<1>15. CASE Erase
  BY <1>15, SMT DEF Erase, At, TypeOK, StateOK, PassOK
<1>16. CASE TestQueue \/ ClearQueue
  BY <1>16, TestQueueState, ClearQueueState
<1>17. CASE UNCHANGED vars
  BY <1>17, StateStays DEF vars
<1> QED
  BY <1>1, <1>2, <1>3, <1>4, <1>5, <1>6, <1>7, <1>8, <1>9, <1>10, <1>11, <1>12, <1>13, <1>14,
     <1>15, <1>16, <1>17 DEF Next, Announcing, PassStep

LEMMA PassStays ==
  ASSUME TypeOK, pass' = pass, scripts' \in Nat, scripts' >= scripts
  PROVE  PassOK'
  BY SMT DEF TypeOK, StateOK, PassOK, PassRecords

LEMMA RestingIsPass ==
  /\ Resting \in PassRecords
  /\ Resting.phase = "idle" /\ Resting.job = "none" /\ Resting.user = NoOne /\ Resting.other = NoOne
  /\ Resting.todo = {} /\ Resting.upto = 0
<1>1. /\ NoPlan \in Plans /\ [f \in Fields |-> 0] \in [Fields -> Nat] /\ "none" \in PassJobs
      /\ {} \in SUBSET (Users \X Users)
  BY SMT DEF NoPlan, Plans, PassJobs
<1>2. Resting \in PassRecords
  BY <1>1, Zenon DEF Resting, PassRecords
<1> QED
  BY <1>2, SMT DEF Resting

LEMMA PassRests ==
  ASSUME TypeOK, pass' = Resting, scripts' = scripts
  PROVE  PassOK'
  BY RestingIsPass, SMT DEF TypeOK, StateOK, PassOK

LEMMA PassGoesOn ==
  ASSUME TypeOK, pass' \in PassRecords, scripts' = scripts, pass.phase # "idle",
         pass'.phase = pass.phase, pass'.todo \subseteq pass.todo, pass'.upto <= scripts,
         pass.phase = "queues" => pass'.job \in {"none", "read_cycle", "read_body", "write_plan"},
         IF pass'.job = "none"
         THEN pass'.user = NoOne /\ pass'.other = NoOne
         ELSE \/ pass'.user \in Viewers /\ pass'.other = Pilot /\ pass.phase = "local"
              \/ pass'.user = Pilot /\ pass'.other \in Viewers
                   /\ (pass.phase = "queues" \/ pass'.job \in {"emplace", "erase"})
  PROVE  PassOK'
  BY SMT DEF TypeOK, PassOK

LEMMA JobDone ==
  ASSUME TypeOK, NEW j \in PassJobs \ {"none"}, pass.job # "none",
         pass.job \notin {"emplace", "erase"},
         pass' \in PassRecords, scripts' = scripts,
         pass'.job = j, pass'.phase = pass.phase, pass'.todo = pass.todo, pass'.upto <= scripts,
         pass'.user = pass.user, pass'.other = pass.other,
         pass.phase = "queues" => j \in {"read_cycle", "read_body", "write_plan"}
  PROVE  PassOK'
<1>1. pass.phase # "idle"
  BY DEF TypeOK, PassOK, Resting
<1> QED
  BY <1>1, PassGoesOn, SMT DEF TypeOK, PassOK

LEMMA PassLate ==
  ASSUME TypeOK, NEW l \in SUBSET Topics, pass' = [pass EXCEPT !.late = l], pass.job # "none",
         scripts' = scripts
  PROVE  PassOK'
<1>1. pass \in PassRecords /\ pass.phase # "idle"
  BY DEF TypeOK, PassOK, Resting
<1>2. pass' \in PassRecords
  BY <1>1, Zenon DEF PassRecords
<1> QED
  BY <1>1, <1>2, PassGoesOn, SMT DEF TypeOK, PassOK, PassRecords

LEMMA SendNewsPass ==
  ASSUME TypeOK, SendNews
  PROVE  PassOK'
<1> DEFINE topic == handler[Pilot].topic
<1>1. PICK u \in Viewers :
     IF topic = "script"
          THEN pass' = pass
          ELSE pass' = [pass EXCEPT !.late = IF pass.job = "write_create" /\ pass.user = u
                                                THEN pass.late \cup {topic} ELSE pass.late]
  <2>1. pass \in PassRecords /\ handler[Pilot].to \subseteq Viewers
    BY SMT DEF TypeOK, PassOK, HandlerOK, HandlerRecords
  <2> QED
    BY <2>1 DEF SendNews
<1>2. scripts' = scripts /\ scripts \in Nat /\ pass \in PassRecords
  BY DEF SendNews, TypeOK, StateOK, PassOK
<1>3. CASE topic = "script" \/ ~(pass.job = "write_create" /\ pass.user = u)
  <2>1. pass' = pass
    <3>1. CASE topic = "script"
      BY <1>1, <3>1
    <3>2. CASE topic # "script"
      <4>1. pass' = [pass EXCEPT !.late = pass.late]
        BY <1>1, <1>3, <3>2
      <4> QED
        BY <1>2, <4>1, Zenon DEF PassRecords
    <3> QED
      BY <3>1, <3>2
  <2> QED
    BY <1>2, <2>1, PassStays, SMT
<1>4. CASE topic # "script" /\ pass.job = "write_create" /\ pass.user = u
  <2>1. topic \in Topics
    BY <1>4, SMT DEF SendNews, Is, TypeOK, HandlerOK, HandlerRecords, Topics
  <2>2. pass.late \cup {topic} \in SUBSET Topics
    BY <1>2, <2>1, SMT DEF PassRecords
  <2>3. pass' = [pass EXCEPT !.late = pass.late \cup {topic}]
    BY <1>1, <1>4
  <2> QED
    BY <1>2, <1>4, <2>2, <2>3, PassLate, SMT
<1> QED
  BY <1>3, <1>4

LEMMA ReplyWritePass ==
  ASSUME TypeOK, NEW u \in Users, ReplyWrite(u)
  PROVE  PassOK'
<1>1. pass \in PassRecords /\ scripts' = scripts /\ scripts \in Nat
  BY DEF TypeOK, StateOK, PassOK, ReplyWrite
<1>2. CASE PlanFor = u /\ pass.job \in BeingRead
  <2>1. pass.late \cup {"plan"} \in SUBSET Topics
    BY <1>1, SMT DEF PassRecords, Topics
  <2>2. pass' = [pass EXCEPT !.late = pass.late \cup {"plan"}]
    BY <1>1, <1>2 DEF ReplyWrite
  <2> QED
    BY <1>1, <1>2, <2>1, <2>2, PassLate, SMT DEF BeingRead
<1>3. CASE ~(PlanFor = u /\ pass.job \in BeingRead)
  <2>1. pass' = [pass EXCEPT !.late = pass.late]
    BY <1>1, <1>3 DEF ReplyWrite
  <2>2. pass' = pass
    BY <1>1, <2>1, Zenon DEF PassRecords
  <2> QED
    BY <1>1, <2>2, PassStays, SMT
<1> QED
  BY <1>2, <1>3

LEMMA BeginPassPass ==
  ASSUME TypeOK, BeginPass
  PROVE  PassOK'
<1> DEFINE t == (Viewers \X {Pilot}) \cup ({Pilot} \X Viewers)
<1>1. pass \in PassRecords /\ pass = Resting /\ scripts' = scripts
  BY DEF TypeOK, PassOK, BeginPass
<1>2. /\ t \in SUBSET (Users \X Users)
      /\ \A look \in t : \/ look[1] \in Viewers /\ look[2] = Pilot
                         \/ look[1] = Pilot /\ look[2] \in Viewers
  BY SMT
<1>3. pass' = [pass EXCEPT !.phase = "local", !.todo = t]
  BY DEF BeginPass
<1> HIDE DEF t
<1>4. pass' \in PassRecords
  BY <1>1, <1>2, <1>3, Zenon DEF PassRecords
<1>5. /\ pass'.phase = "local" /\ pass'.todo = t
      /\ pass'.job = pass.job /\ pass'.user = pass.user /\ pass'.other = pass.other /\ pass'.upto = pass.upto
  BY <1>1, <1>3, SMT DEF PassRecords
<1>6. pass.job = "none" /\ pass.user = NoOne /\ pass.other = NoOne /\ pass.upto <= scripts
  BY <1>1, SMT DEF Resting, TypeOK, PassOK
<1> QED
  BY <1>1, <1>2, <1>4, <1>5, <1>6, SMT DEF PassOK

LEMMA ExaminePass ==
  ASSUME TypeOK, Examine
  PROVE  PassOK'
<1>1. pass \in PassRecords /\ pass.job = "none" /\ pass.phase = "local" /\ scripts' = scripts
  BY DEF TypeOK, PassOK, Examine, At
<1>2. PICK look \in pass.todo, job \in {"emplace", "create", "erase", "delete", "none"} :
        /\ pass' = [pass EXCEPT !.todo = pass.todo \ {look}, !.job = job,
                               !.user = IF job = "none" THEN NoOne ELSE look[1],
                               !.other = IF job = "none" THEN NoOne ELSE look[2]]
        /\ job \in {"create", "delete"} => look[1] # Pilot
  <2>1. PICK look \in pass.todo : 
         LET u     == look[1]  v == look[2]
           known == v \in local_users[u]
           job   == CASE Sees(u, v) /\ ~known -> IF u = Pilot THEN "emplace" ELSE "create"
                      [] ~Sees(u, v) /\ known -> IF u = Pilot THEN "erase" ELSE "delete"
                      [] OTHER                -> "none"
       IN pass' = [pass EXCEPT !.todo = @ \ {look}, !.job = job,
                               !.user = IF job = "none" THEN NoOne ELSE u,
                               !.other = IF job = "none" THEN NoOne ELSE v]
     BY DEF Examine
  <2> DEFINE known == look[2] \in local_users[look[1]]
             sees == Sees(look[1], look[2])
  <2> HIDE DEF known, sees
  <2> DEFINE  job   == CASE sees /\ ~known -> IF look[1] = Pilot THEN "emplace" ELSE "create"
                      [] ~sees /\ known -> IF look[1] = Pilot THEN "erase" ELSE "delete"
                      [] OTHER                -> "none"
  <2>2. /\ job \in {"emplace", "create", "erase", "delete", "none"}
        /\ (job \in {"create", "delete"} => look[1] # Pilot)
     BY Zenon
  <2>3. pass' = [pass EXCEPT !.todo = pass.todo \ {look}, !.job = job,
                               !.user = IF job = "none" THEN NoOne ELSE look[1],
                               !.other = IF job = "none" THEN NoOne ELSE look[2]]
     BY <1>1, <2>1 DEF known, sees
  <2> HIDE DEF job
  <2> QED
    BY <2>2, <2>3
<1> DEFINE u == IF job = "none" THEN NoOne ELSE look[1]
           v == IF job = "none" THEN NoOne ELSE look[2]
           t == pass.todo \ {look}
<1>3. \/ (look[1] \in Viewers /\ look[2] = Pilot)
      \/ (look[1] = Pilot /\ look[2] \in Viewers)
  BY <1>1, SMT DEF TypeOK, PassOK
<1>4. u \in Users \cup {NoOne} /\ v \in Users \cup {NoOne} /\ t \in SUBSET (Users \X Users)
  BY <1>1, <1>3, SMT DEF PassRecords
<1>5. IF job = "none" THEN u = NoOne /\ v = NoOne
                      ELSE \/ u \in Viewers /\ v = Pilot
                           \/ u = Pilot /\ v \in Viewers /\ job \in {"emplace", "erase"}
  BY <1>2, <1>3, SMT
<1>6. t \subseteq pass.todo
  BY SMT
<1>7. pass' = [pass EXCEPT !.todo = t, !.job = job, !.user = u, !.other = v]
  BY <1>2
<1> HIDE DEF u, v, t
<1>8. job \in PassJobs
  BY DEF PassJobs
<1>9. pass' \in PassRecords
  BY <1>1, <1>4, <1>7, <1>8, Zenon DEF PassRecords
<1>10. /\ pass'.phase = pass.phase /\ pass'.todo = t
      /\ pass'.job = job /\ pass'.user = u /\ pass'.other = v /\ pass'.upto = pass.upto
  BY <1>1, <1>7, SMT DEF PassRecords
<1> QED
  BY <1>1, <1>5, <1>6, <1>9, <1>10, PassGoesOn, SMT DEF TypeOK, PassOK

LEMMA AssembleCreatePass ==
  ASSUME TypeOK, AssembleCreate
  PROVE  PassOK'
<1> DEFINE c == [f \in Fields |-> IF f \in Carried THEN news[f] ELSE 0]
<1>1. pass \in PassRecords /\ pass.job = "create" /\ scripts' = scripts /\ pass.upto <= scripts
  BY DEF TypeOK, PassOK, AssembleCreate, At
<1>2. c \in [Fields -> Nat] /\ "write_create" \in PassJobs
  BY SMT DEF TypeOK, StateOK, PassJobs
<1>3. pass' = [pass EXCEPT !.job = "write_create", !.create = c]
  BY DEF AssembleCreate
<1> HIDE DEF c
<1>4. pass' \in PassRecords
  BY <1>1, <1>2, <1>3, Zenon DEF PassRecords
<1> QED
  BY <1>1, <1>2, <1>3, <1>4, JobDone, SMT DEF TypeOK, PassOK, PassRecords

LEMMA WriteCreatePass ==
  ASSUME TypeOK, WriteCreate
  PROVE  PassOK'
<1> DEFINE c == [f \in Fields |-> 0]
<1>1. /\ pass \in PassRecords /\ pass.job = "write_create" /\ scripts' = scripts
      /\ pass.upto <= scripts
  BY DEF TypeOK, PassOK, WriteCreate, At
<1>2. c \in [Fields -> Nat] /\ "plan" \in PassJobs
  BY SMT DEF PassJobs
<1>3. pass' = [pass EXCEPT !.job = "plan", !.create = c, !.late = {}]
  BY DEF WriteCreate
<1> HIDE DEF c
<1>4. pass' \in PassRecords
  BY <1>1, <1>2, <1>3, Zenon DEF PassRecords
<1> QED
  BY <1>1, <1>2, <1>3, <1>4, JobDone, SMT DEF TypeOK, PassOK, PassRecords

LEMMA CreateFlightPlanPass ==
  ASSUME TypeOK, CreateFlightPlan
  PROVE  PassOK'
<1>1. pass \in PassRecords /\ pass.job = "plan" /\ scripts' = scripts /\ pass.upto <= scripts
  BY DEF TypeOK, PassOK, CreateFlightPlan, At
<1>2. PICK j \in {"read_cycle", "scripts"} : pass' = [pass EXCEPT !.job = j]
  BY DEF CreateFlightPlan, Go
<1>3. j \in PassJobs
  BY DEF PassJobs
<1>4. pass' \in PassRecords
  BY <1>1, <1>2, <1>3, Zenon DEF PassRecords
<1> QED
  BY <1>1, <1>2, <1>3, <1>4, JobDone, SMT DEF TypeOK, PassOK, PassRecords

LEMMA ReadCyclePass ==
  ASSUME TypeOK, ReadCycle
  PROVE  PassOK'
<1> DEFINE p == [pass.packet EXCEPT !.cycle = plan.cycle]
<1>1. pass \in PassRecords /\ pass.job = "read_cycle" /\ scripts' = scripts /\ pass.upto <= scripts
  BY DEF TypeOK, PassOK, ReadCycle, At
<1>2. p \in Plans /\ "read_body" \in PassJobs
  BY <1>1, SMT DEF TypeOK, StateOK, Plans, PassRecords, PassJobs
<1>3. pass' = [pass EXCEPT !.job = "read_body", !.packet = p]
  BY <1>1, SMT DEF ReadCycle, PassRecords
<1> HIDE DEF p
<1>4. pass' \in PassRecords
  BY <1>1, <1>2, <1>3, Zenon DEF PassRecords
<1> QED
  BY <1>1, <1>2, <1>3, <1>4, JobDone, SMT DEF PassRecords

LEMMA ReadBodyPass ==
  ASSUME TypeOK, ReadBody
  PROVE  PassOK'
<1> DEFINE p == [pass.packet EXCEPT !.body = plan.body]
<1>1. pass \in PassRecords /\ pass.job = "read_body" /\ scripts' = scripts /\ pass.upto <= scripts
  BY DEF TypeOK, PassOK, ReadBody, At
<1>2. p \in Plans /\ "write_plan" \in PassJobs
  BY <1>1, SMT DEF TypeOK, StateOK, Plans, PassRecords, PassJobs
<1>3. pass' = [pass EXCEPT !.job = "write_plan", !.packet = p]
  BY <1>1, SMT DEF ReadBody, PassRecords
<1> HIDE DEF p
<1>4. pass' \in PassRecords
  BY <1>1, <1>2, <1>3, Zenon DEF PassRecords
<1> QED
  BY <1>1, <1>2, <1>3, <1>4, JobDone, SMT DEF PassRecords

LEMMA WritePlanPass ==
  ASSUME TypeOK, WritePlan
  PROVE  PassOK'
<1> DEFINE local == pass.phase = "local"
           job   == IF local THEN "scripts" ELSE "none"
           user  == IF local THEN pass.user ELSE NoOne
           other == IF local THEN pass.other ELSE NoOne
<1>1. pass \in PassRecords /\ pass.job = "write_plan" /\ pass.phase # "idle" /\ scripts' = scripts
  BY DEF TypeOK, PassOK, WritePlan, At, Resting
<1>2. job \in PassJobs /\ user \in Users \cup {NoOne} /\ other \in Users \cup {NoOne}
  BY <1>1, SMT DEF PassRecords, PassJobs
<1>3. NoPlan \in Plans
  BY SMT DEF NoPlan, Plans
<1>4. pass' = [pass EXCEPT !.job = job, !.packet = NoPlan, !.late = {}, !.user = user, !.other = other]
  BY <1>1, Zenon DEF WritePlan, PassRecords
<1>5. /\ local => job = "scripts" /\ user = pass.user /\ other = pass.other
      /\ ~local => job = "none" /\ user = NoOne /\ other = NoOne
  OBVIOUS
<1> HIDE DEF job, user, other
<1>6. pass' \in PassRecords
  BY <1>1, <1>2, <1>3, <1>4, Zenon DEF PassRecords
<1>7. /\ pass'.job = job /\ pass'.user = user /\ pass'.other = other
      /\ pass'.phase = pass.phase /\ pass'.todo = pass.todo /\ pass'.upto = pass.upto
  BY <1>1, <1>4, SMT DEF PassRecords
<1> QED
  BY <1>1, <1>5, <1>6, <1>7, PassGoesOn, SMT DEF TypeOK, PassOK

LEMMA GetAllScriptsPass ==
  ASSUME TypeOK, GetAllScripts
  PROVE  PassOK'
<1>1. pass \in PassRecords /\ pass.job = "scripts" /\ scripts' = scripts /\ scripts \in Nat
  BY DEF TypeOK, StateOK, PassOK, GetAllScripts, At
<1>2. "send_scripts" \in PassJobs
  BY DEF PassJobs
<1>3. pass' = [pass EXCEPT !.job = "send_scripts", !.upto = scripts]
  BY DEF GetAllScripts
<1>4. pass' \in PassRecords
  BY <1>1, <1>2, <1>3, Zenon DEF PassRecords
<1> QED
  BY <1>1, <1>2, <1>3, <1>4, JobDone, SMT DEF TypeOK, PassOK, PassRecords

LEMMA SendScriptsPass ==
  ASSUME TypeOK, SendScripts
  PROVE  PassOK'
<1>1. pass \in PassRecords /\ pass.job = "send_scripts" /\ scripts' = scripts /\ scripts \in Nat
  BY DEF TypeOK, StateOK, PassOK, SendScripts, At
<1>2. "emplace" \in PassJobs
  BY DEF PassJobs
<1>3. pass' = [pass EXCEPT !.job = "emplace", !.upto = 0]
  BY DEF SendScripts
<1>4. pass' \in PassRecords
  BY <1>1, <1>2, <1>3, Zenon DEF PassRecords
<1> QED
  BY <1>1, <1>2, <1>3, <1>4, JobDone, SMT DEF TypeOK, PassOK, PassRecords

LEMMA LeavePass ==
  ASSUME TypeOK, Leave, pass.job # "none", scripts' = scripts
  PROVE  PassOK'
<1>1. pass \in PassRecords /\ pass.phase # "idle" /\ pass.upto <= scripts
  BY DEF TypeOK, StateOK, PassOK, Resting
<1>2. "none" \in PassJobs
  BY DEF PassJobs
<1>3. pass' = [pass EXCEPT !.job = "none", !.user = NoOne, !.other = NoOne]
  BY DEF Leave
<1>4. pass' \in PassRecords
  BY <1>1, <1>2, <1>3, Zenon DEF PassRecords
<1> QED
  BY <1>1, <1>2, <1>3, <1>4, PassGoesOn, SMT DEF PassRecords

LEMMA DeletePass ==
  ASSUME TypeOK, Delete
  PROVE  PassOK'
<1>1. pass \in PassRecords /\ pass.job = "delete" /\ scripts' = scripts /\ pass.upto <= scripts
  BY DEF TypeOK, StateOK, PassOK, Delete, At
<1>2. "erase" \in PassJobs
  BY DEF PassJobs
<1>3. pass' = [pass EXCEPT !.job = "erase"]
  BY DEF Delete, Go
<1>4. pass' \in PassRecords
  BY <1>1, <1>2, <1>3, Zenon DEF PassRecords
<1> QED
  BY <1>1, <1>2, <1>3, <1>4, JobDone, SMT DEF TypeOK, PassOK, PassRecords

LEMMA TestQueuePass ==
  ASSUME TypeOK, TestQueue
  PROVE  PassOK'
<1> DEFINE to == local_users[Pilot] \cap Audience("plan")
           t  == {Pilot} \X to
<1>1. /\ pass \in PassRecords /\ pass.job = "none" /\ pass.phase = "local" /\ scripts' = scripts
      /\ scripts \in Nat
      /\ local_users[Pilot] \subseteq Viewers
  BY DEF TypeOK, StateOK, PassOK, TestQueue, At
<1>2. CASE pass' = Resting
  BY <1>1, <1>2, PassRests
<1>3. CASE pass' = [pass EXCEPT !.phase = "queues", !.todo = t]
  <2>1. t \in SUBSET (Users \X Users) /\ \A look \in t : look[1] = Pilot /\ look[2] \in Viewers
    BY <1>1, SMT
  <2> HIDE DEF t
  <2>2. pass' \in PassRecords
    BY <1>1, <1>3, <2>1, Zenon DEF PassRecords
  <2>3. /\ pass'.phase = "queues" /\ pass'.todo = t /\ pass'.job = pass.job
        /\ pass'.user = pass.user /\ pass'.other = pass.other /\ pass'.upto = pass.upto
    BY <1>1, <1>3, SMT DEF PassRecords
  <2> QED
    BY <1>1, <2>1, <2>2, <2>3, SMT DEF TypeOK, PassOK
<1> QED
  BY <1>2, <1>3 DEF TestQueue

LEMMA NextInQueuePass ==
  ASSUME TypeOK, NextInQueue
  PROVE  PassOK'
<1>1. pass \in PassRecords /\ pass.phase = "queues" /\ scripts' = scripts
  BY DEF TypeOK, PassOK, NextInQueue
<1>2. PICK look \in pass.todo :
        pass' = [pass EXCEPT !.todo = pass.todo \ {look}, !.job = "read_cycle", !.user = look[1], !.other = look[2]]
  BY <1>1, Zenon DEF NextInQueue, PassRecords
<1>3. look[1] = Pilot /\ look[2] \in Viewers
  BY <1>1, SMT DEF TypeOK, PassOK
<1>4. look[1] \in Users \cup {NoOne} /\ look[2] \in Users \cup {NoOne} /\ "read_cycle" \in PassJobs
      /\ pass.todo \ {look} \in SUBSET (Users \X Users)
  BY <1>1, <1>3, SMT DEF PassJobs, PassRecords
<1>5. pass' \in PassRecords
  BY <1>1, <1>2, <1>4, Zenon DEF PassRecords
<1>6. /\ pass'.phase = pass.phase /\ pass'.todo = pass.todo \ {look} /\ pass'.job = "read_cycle"
      /\ pass'.user = look[1] /\ pass'.other = look[2] /\ pass'.upto = pass.upto
  BY <1>1, <1>2, SMT DEF PassRecords
<1> QED
  BY <1>1, <1>3, <1>5, <1>6, PassGoesOn, SMT DEF TypeOK, PassOK

LEMMA PassKept ==
  ASSUME TypeOK, [Next]_vars
  PROVE  PassOK'
<1>1. CASE pass' = pass /\ scripts' \in Nat /\ scripts' >= scripts
  BY <1>1, PassStays
<1>2. scripts \in Nat
  BY DEF TypeOK, StateOK
<1>3. ASSUME NEW u \in Viewers, Move(u) \/ Request(u) PROVE PassOK'
  BY <1>1, <1>2, <1>3, SMT DEF Move, Request
<1>4. ASSUME NEW f \in Fields, SetField(f) PROVE PassOK'
  BY <1>1, <1>2, <1>4, SMT DEF SetField
<1>5. CASE RegisterScript
  BY <1>1, <1>2, <1>5, SMT DEF RegisterScript
<1>6. ASSUME NEW u \in Users, SetCycle(u) \/ HandlerStep(u) PROVE PassOK'
  <2>1. CASE SetCycle(u) \/ SetBody(u) \/ SetQueue(u) \/ ReplyReadCycle(u) \/ ReplyReadBody(u)
    BY <1>1, <1>2, <2>1, SMT DEF SetCycle, SetBody, SetQueue, ReplyReadCycle, ReplyReadBody
  <2> QED
    BY <1>6, <2>1, ReplyWritePass DEF HandlerStep
<1>7. CASE BeginIterating \/ EndIterating
  BY <1>1, <1>2, <1>7, SMT DEF BeginIterating, EndIterating
<1>8. CASE Emplace \/ Erase
  BY <1>8, LeavePass DEF Emplace, Erase, At
<1>9. CASE ClearQueue
  BY <1>9, PassRests DEF ClearQueue
<1>10. CASE UNCHANGED vars
  BY <1>1, <1>2, <1>10, SMT DEF vars
<1> QED
  BY <1>3, <1>4, <1>5, <1>6, <1>7, <1>8, <1>9, <1>10, SendNewsPass, BeginPassPass, ExaminePass,
     AssembleCreatePass, WriteCreatePass, CreateFlightPlanPass, ReadCyclePass, ReadBodyPass,
     WritePlanPass, GetAllScriptsPass, SendScriptsPass, DeletePass, TestQueuePass, NextInQueuePass
     DEF Next, Announcing, PassStep

LEMMA HandlersStay ==
  ASSUME TypeOK, handler' = handler, news' = news, scripts' = scripts
  PROVE  HandlerOK'
  BY DEF TypeOK, HandlerOK

LEMMA HandlerGoesOn ==
  ASSUME TypeOK, NEW u \in Users, NEW r \in HandlerRecords, handler' = [handler EXCEPT ![u] = r],
         r.topic = "none", r.job \notin {"announce", "iterate"},
         r.job \in {"read_cycle", "read_body", "write_plan"} => u \in Viewers,
         news' = news, scripts' = scripts
  PROVE  HandlerOK'
<1>1. handler \in [Users -> HandlerRecords] /\ handler' \in [Users -> HandlerRecords]
  BY SMT DEF TypeOK, HandlerOK
<1>2. handler'[u] = r /\ \A v \in Users \ {u} : handler'[v] = handler[v]
  BY <1>1, SMT
<1> QED
  BY <1>1, <1>2, SMT DEF TypeOK, HandlerOK

LEMMA PilotGoesOn ==
  ASSUME TypeOK, NEW r \in HandlerRecords, handler' = [handler EXCEPT ![Pilot] = r],
         r.job \in {"announce", "iterate"}, r.topic # "none",
         r.topic = "script" => r.item = scripts' /\ scripts' > 0,
         \A f \in Fields : r.topic = f => r.item = news'[f]
  PROVE  HandlerOK'
<1>1. handler \in [Users -> HandlerRecords] /\ handler' \in [Users -> HandlerRecords]
  BY SMT DEF TypeOK, HandlerOK
<1>2. handler'[Pilot] = r /\ \A v \in Viewers : handler'[v] = handler[v]
  BY <1>1, SMT
<1> QED
  BY <1>1, <1>2, SMT DEF TypeOK, HandlerOK

LEMMA FreeIsHandler == Free \in HandlerRecords /\ Free.job = "none" /\ Free.topic = "none"
<1>1. NoPlan \in Plans /\ "none" \in HandlerJobs
  BY SMT DEF NoPlan, Plans, HandlerJobs
<1>2. Free \in HandlerRecords
  BY <1>1, Zenon DEF Free, HandlerRecords
<1> QED
  BY <1>2, SMT DEF Free

LEMMA HandlerEnds ==
  ASSUME TypeOK, NEW u \in Users, handler' = [handler EXCEPT ![u] = Free],
         news' = news, scripts' = scripts
  PROVE  HandlerOK'
  BY FreeIsHandler, HandlerGoesOn, Zenon

LEMMA SetFieldHandler ==
  ASSUME TypeOK, NEW f \in Fields, SetField(f)
  PROVE  HandlerOK'
<1> DEFINE h == handler[Pilot]
           n == news'[f]
           r == [h EXCEPT !.job = "announce", !.topic = f, !.item = n]
<1>1. h \in HandlerRecords /\ n \in Nat /\ "announce" \in HandlerJobs /\ news \in [Fields -> Nat]
  BY SMT DEF TypeOK, StateOK, HandlerOK, SetField, HandlerJobs
<1>2. handler' = [handler EXCEPT ![Pilot] = r]
  BY DEF SetField
<1> HIDE DEF h, n
<1>3. r \in HandlerRecords
  BY <1>1, Zenon DEF HandlerRecords
<1>4. r.job = "announce" /\ r.topic = f /\ r.item = n
  BY <1>1, SMT DEF HandlerRecords
<1>5. f \notin {"none", "script"}
  BY SMT
<1> HIDE DEF r
<1> QED
  BY <1>2, <1>3, <1>4, <1>5, PilotGoesOn, Zenon DEF n

LEMMA RegisterScriptHandler ==
  ASSUME TypeOK, RegisterScript
  PROVE  HandlerOK'
<1> DEFINE h == handler[Pilot]
           r == [h EXCEPT !.job = "announce", !.topic = "script", !.item = scripts']
<1>1. h \in HandlerRecords /\ scripts' \in Nat /\ scripts' > 0 /\ "announce" \in HandlerJobs
  BY SMT DEF TypeOK, StateOK, HandlerOK, RegisterScript, HandlerJobs
<1>2. handler' = [handler EXCEPT ![Pilot] = r]
  BY DEF RegisterScript
<1> HIDE DEF h
<1>3. r \in HandlerRecords
  BY <1>1, Zenon DEF HandlerRecords
<1>4. r.job = "announce" /\ r.topic = "script" /\ r.item = scripts'
  BY <1>1, SMT DEF HandlerRecords
<1>5. "script" \notin Fields
  BY SMT
<1> HIDE DEF r
<1> QED
  BY <1>1, <1>2, <1>3, <1>4, <1>5, PilotGoesOn, Zenon

LEMMA BeginIteratingHandler ==
  ASSUME TypeOK, BeginIterating
  PROVE  HandlerOK'
<1> DEFINE h  == handler[Pilot]
           to == local_users[Pilot] \cap Audience(handler[Pilot].topic)
           r  == [h EXCEPT !.job = "iterate", !.to = to]
<1>1. h \in HandlerRecords /\ to \in SUBSET Viewers /\ "iterate" \in HandlerJobs
  BY SMT DEF TypeOK, StateOK, HandlerOK, HandlerJobs
<1>2. /\ handler' = [handler EXCEPT ![Pilot] = r] /\ h.job = "announce" /\ news' = news
      /\ scripts' = scripts
  BY DEF BeginIterating, Is
<1>3. /\ h.topic # "none"
      /\ h.topic = "script" => h.item = scripts /\ scripts > 0
      /\ \A f \in Fields : h.topic = f => h.item = news[f]
  BY <1>2, SMT DEF TypeOK, HandlerOK
<1> HIDE DEF h, to
<1>4. r \in HandlerRecords
  BY <1>1, Zenon DEF HandlerRecords
<1>5. r.job = "iterate" /\ r.topic = h.topic /\ r.item = h.item
  BY <1>1, SMT DEF HandlerRecords
<1> HIDE DEF r
<1> QED
  BY <1>2, <1>3, <1>4, <1>5, PilotGoesOn, Zenon

LEMMA SendNewsHandler ==
  ASSUME TypeOK, SendNews
  PROVE  HandlerOK'
<1> DEFINE h  == handler[Pilot]
<1>1. PICK u \in h.to : handler' = [handler EXCEPT ![Pilot].to = @ \ {u}]
  BY DEF SendNews
<1> DEFINE r  == [h EXCEPT !.to = h.to \ {u}]
<1>2. h \in HandlerRecords /\ handler \in [Users -> HandlerRecords]
  BY SMT DEF TypeOK, HandlerOK
<1>3. handler' = [handler EXCEPT ![Pilot] = r]
  BY <1>1, <1>2, Zenon
<1>4. h.job = "iterate" /\ news' = news /\ scripts' = scripts
  BY DEF SendNews, Is
<1>5. /\ h.topic # "none"
      /\ h.topic = "script" => h.item = scripts /\ scripts > 0
      /\ \A f \in Fields : h.topic = f => h.item = news[f]
  BY <1>4, SMT DEF TypeOK, HandlerOK
<1>6. h.to \ {u} \in SUBSET Viewers
  BY <1>2, SMT DEF HandlerRecords
<1> HIDE DEF h
<1>7. r \in HandlerRecords
  BY <1>2, <1>6, Zenon DEF HandlerRecords
<1>8. r.job = h.job /\ r.topic = h.topic /\ r.item = h.item
  BY <1>2, SMT DEF HandlerRecords
<1> HIDE DEF r
<1> QED
  BY <1>3, <1>4, <1>5, <1>7, <1>8, PilotGoesOn, Zenon

LEMMA SetCycleHandler ==
  ASSUME TypeOK, NEW e \in Users, SetCycle(e)
  PROVE  HandlerOK'
<1> DEFINE h == handler[e]
           r == [h EXCEPT !.job = "set_body", !.item = edits']
<1>1. /\ h \in HandlerRecords /\ handler \in [Users -> HandlerRecords] /\ edits' \in Nat
      /\ "set_body" \in HandlerJobs /\ h.topic = "none"
  BY SMT DEF TypeOK, StateOK, HandlerOK, SetCycle, Is, HandlerJobs
<1>2. handler' = [handler EXCEPT ![e] = r]
  BY <1>1, Zenon DEF SetCycle
<1>3. news' = news /\ scripts' = scripts
  BY DEF SetCycle
<1> HIDE DEF h
<1>4. r \in HandlerRecords
  BY <1>1, Zenon DEF HandlerRecords
<1>5. r.job = "set_body" /\ r.topic = h.topic
  BY <1>1, SMT DEF HandlerRecords
<1> HIDE DEF r
<1> QED
  BY <1>1, <1>2, <1>3, <1>4, <1>5, HandlerGoesOn, Zenon

LEMMA SetBodyHandler ==
  ASSUME TypeOK, NEW e \in Users, SetBody(e)
  PROVE  HandlerOK'
<1> DEFINE h == handler[e]
           r == [h EXCEPT !.job = "queue"]
<1>1. /\ h \in HandlerRecords /\ handler \in [Users -> HandlerRecords] /\ "queue" \in HandlerJobs
      /\ h.topic = "none"
  BY SMT DEF TypeOK, HandlerOK, SetBody, Is, HandlerJobs
<1>2. handler' = [handler EXCEPT ![e] = r]
  BY <1>1, Zenon DEF SetBody
<1>3. news' = news /\ scripts' = scripts
  BY DEF SetBody
<1> HIDE DEF h
<1>4. r \in HandlerRecords
  BY <1>1, Zenon DEF HandlerRecords
<1>5. r.job = "queue" /\ r.topic = h.topic
  BY <1>1, SMT DEF HandlerRecords
<1> HIDE DEF r
<1> QED
  BY <1>1, <1>2, <1>3, <1>4, <1>5, HandlerGoesOn, Zenon

LEMMA RequestHandler ==
  ASSUME TypeOK, NEW u \in Viewers, Request(u)
  PROVE  HandlerOK'
<1> DEFINE h == handler[u]
           r == [h EXCEPT !.job = "read_cycle"]
<1>1. /\ h \in HandlerRecords /\ handler \in [Users -> HandlerRecords]
      /\ "read_cycle" \in HandlerJobs /\ h.topic = "none"
  BY SMT DEF TypeOK, HandlerOK, Request, Is, HandlerJobs
<1>2. handler' = [handler EXCEPT ![u] = r]
  BY <1>1, Zenon DEF Request
<1>3. news' = news /\ scripts' = scripts
  BY DEF Request
<1> HIDE DEF h
<1>4. r \in HandlerRecords
  BY <1>1, Zenon DEF HandlerRecords
<1>5. r.job = "read_cycle" /\ r.topic = h.topic
  BY <1>1, SMT DEF HandlerRecords
<1> HIDE DEF r
<1> QED
  BY <1>1, <1>2, <1>3, <1>4, <1>5, HandlerGoesOn, Zenon

LEMMA ReplyReadCycleHandler ==
  ASSUME TypeOK, NEW u \in Users, ReplyReadCycle(u)
  PROVE  HandlerOK'
<1> DEFINE h == handler[u]
           p == [h.packet EXCEPT !.cycle = plan.cycle]
           r == [h EXCEPT !.job = "read_body", !.packet = p]
<1>1. /\ h \in HandlerRecords /\ handler \in [Users -> HandlerRecords]
      /\ "read_body" \in HandlerJobs /\ h.topic = "none" /\ u \in Viewers
  BY SMT DEF TypeOK, HandlerOK, ReplyReadCycle, Is, HandlerJobs
<1>2. p \in Plans
  <2>1. h.packet \in Plans
    BY <1>1, SMT DEF HandlerRecords
  <2>2. plan.cycle \in Nat /\ plan.body \in Nat
    BY SMT DEF TypeOK, StateOK, Plans
  <2> HIDE DEF h
  <2> QED
    BY <2>1, <2>2, SMT DEF Plans
<1>3. handler' = [handler EXCEPT ![u] = r]
  BY <1>1, Zenon DEF ReplyReadCycle, HandlerRecords
<1>4. news' = news /\ scripts' = scripts
  BY DEF ReplyReadCycle
<1> HIDE DEF h, p
<1>5. r \in HandlerRecords
  BY <1>1, <1>2, Zenon DEF HandlerRecords
<1>6. r.job = "read_body" /\ r.topic = h.topic
  BY <1>1, SMT DEF HandlerRecords
<1> HIDE DEF r
<1> QED
  BY <1>1, <1>3, <1>4, <1>5, <1>6, HandlerGoesOn, Zenon

LEMMA ReplyReadBodyHandler ==
  ASSUME TypeOK, NEW u \in Users, ReplyReadBody(u)
  PROVE  HandlerOK'
<1> DEFINE h == handler[u]
           p == [h.packet EXCEPT !.body = plan.body]
           r == [h EXCEPT !.job = "write_plan", !.packet = p]
<1>1. /\ h \in HandlerRecords /\ handler \in [Users -> HandlerRecords]
      /\ "write_plan" \in HandlerJobs /\ h.topic = "none" /\ u \in Viewers
  BY SMT DEF TypeOK, HandlerOK, ReplyReadBody, Is, HandlerJobs
<1>2. p \in Plans
  <2>1. h.packet \in Plans
    BY <1>1, SMT DEF HandlerRecords
  <2>2. plan.cycle \in Nat /\ plan.body \in Nat
    BY SMT DEF TypeOK, StateOK, Plans
  <2> HIDE DEF h
  <2> QED
    BY <2>1, <2>2, SMT DEF Plans
<1>3. handler' = [handler EXCEPT ![u] = r]
  BY <1>1, Zenon DEF ReplyReadBody, HandlerRecords
<1>4. news' = news /\ scripts' = scripts
  BY DEF ReplyReadBody
<1> HIDE DEF h, p
<1>5. r \in HandlerRecords
  BY <1>1, <1>2, Zenon DEF HandlerRecords
<1>6. r.job = "write_plan" /\ r.topic = h.topic
  BY <1>1, SMT DEF HandlerRecords
<1> HIDE DEF r
<1> QED
  BY <1>1, <1>3, <1>4, <1>5, <1>6, HandlerGoesOn, Zenon

LEMMA WritePlanHandler ==
  ASSUME TypeOK, WritePlan
  PROVE  HandlerOK'
<1> DEFINE u == PlanFor
           h == handler[u]
           l == IF h.job \in BeingRead THEN {"plan"} ELSE h.late
           r == [h EXCEPT !.late = l]
<1>1. u \in Viewers
  BY SMT DEF TypeOK, PassOK, WritePlan, At, PlanFor, Resting
<1>2. /\ h \in HandlerRecords /\ handler \in [Users -> HandlerRecords] /\ h.topic = "none"
      /\ h.job \notin {"announce", "iterate"}
  BY <1>1, SMT DEF TypeOK, HandlerOK
<1>3. l \in SUBSET Topics
  BY <1>2, SMT DEF HandlerRecords, Topics
<1>4. handler' = [handler EXCEPT ![u] = r] /\ news' = news /\ scripts' = scripts
  BY <1>2, Zenon DEF WritePlan, HandlerRecords
<1> HIDE DEF u, h, l
<1>5. r \in HandlerRecords
  BY <1>2, <1>3, Zenon DEF HandlerRecords
<1>6. r.job = h.job /\ r.topic = h.topic
  BY <1>2, SMT DEF HandlerRecords
<1> HIDE DEF r
<1> QED
  BY <1>1, <1>2, <1>4, <1>5, <1>6, HandlerGoesOn, Zenon

LEMMA HandlersKept ==
  ASSUME TypeOK, [Next]_vars
  PROVE  HandlerOK'
<1>1. ASSUME NEW u \in Viewers, Move(u) \/ Request(u) PROVE HandlerOK'
  BY <1>1, HandlersStay, RequestHandler DEF Move
<1>2. ASSUME NEW u \in Users, SetCycle(u) \/ HandlerStep(u) PROVE HandlerOK'
  <2>1. CASE SetQueue(u) \/ ReplyWrite(u)
    BY <2>1, HandlerEnds DEF SetQueue, ReplyWrite
  <2> QED
    BY <1>2, <2>1, SetCycleHandler, SetBodyHandler, ReplyReadCycleHandler, ReplyReadBodyHandler
       DEF HandlerStep
<1>3. CASE EndIterating
  BY <1>3, HandlerEnds DEF EndIterating
<1>4. CASE PassStep
  <2>1. CASE \/ BeginPass \/ Examine \/ AssembleCreate \/ WriteCreate \/ CreateFlightPlan
             \/ ReadCycle \/ ReadBody \/ GetAllScripts \/ SendScripts
             \/ Emplace \/ Delete \/ Erase \/ TestQueue \/ NextInQueue \/ ClearQueue
    BY <2>1, HandlersStay DEF BeginPass, Examine, AssembleCreate, WriteCreate, CreateFlightPlan,
         ReadCycle, ReadBody, GetAllScripts, SendScripts, Emplace, Delete, Erase, TestQueue,
         NextInQueue, ClearQueue
  <2> QED
    BY <1>4, <2>1, WritePlanHandler DEF PassStep
<1>5. CASE UNCHANGED vars
  BY <1>5, HandlersStay DEF vars
<1> QED
  BY <1>1, <1>2, <1>3, <1>4, <1>5, SetFieldHandler, RegisterScriptHandler, BeginIteratingHandler,
     SendNewsHandler DEF Next, Announcing

LEMMA TypesAtFirst == Init => TypeOK
<1> SUFFICES ASSUME Init PROVE TypeOK
  OBVIOUS
<1>1. StateOK
  <2>1. /\ NoPlan \in Plans /\ news \in [Fields -> Nat] /\ scripts = 0 /\ scripts \in Nat
        /\ moves \in Nat /\ changes \in Nat /\ edits \in Nat
    BY SMT DEF Init, NoPlan, Plans
  <2>2. /\ local_users \in [Users -> SUBSET Users] /\ local_users[Pilot] \subseteq Viewers
        /\ told \in [Viewers -> [Fields -> Nat]] /\ held \in [Viewers -> SUBSET (1..scripts)]
        /\ strip \in [Viewers -> Plans]
    BY <2>1, Zenon DEF Init
  <2>3. /\ queued \in BOOLEAN /\ raced \in BOOLEAN /\ budget \in Budgets /\ plan \in Plans
        /\ inView \subseteq Viewers /\ inReach \subseteq Viewers /\ shows \subseteq Viewers
        /\ missed \subseteq Viewers \X Topics /\ overtaken \subseteq Viewers \X Topics
        /\ unsent \subseteq Viewers \X (1..scripts)
    BY <2>1, Zenon DEF Init
  <2> QED
    BY <2>1, <2>2, <2>3 DEF StateOK
<1>2. PassOK
  <2>1. Resting \in PassRecords /\ Resting.upto = 0 /\ Resting.todo = {} /\ Resting.phase = "idle"
        /\ Resting.job = "none" /\ Resting.user = NoOne /\ Resting.other = NoOne
    BY RestingIsPass
  <2> QED
    BY <2>1, SMT DEF Init, PassOK
<1>3. HandlerOK
  <2>1. Free \in HandlerRecords /\ Free.job = "none" /\ Free.topic = "none"
    BY FreeIsHandler
  <2>2. handler = [u \in Users |-> Free]
    BY DEF Init
  <2> QED
    BY <2>1, <2>2, SMT DEF HandlerOK
<1> QED
  BY <1>1, <1>2, <1>3 DEF TypeOK

LEMMA TypesKept ==
  ASSUME TypeOK, [Next]_vars
  PROVE  TypeOK'
  BY StateKept, PassKept, HandlersKept DEF TypeOK

\* The three progresses and the tables stay what they are declared to be: a pass is about a
\* viewer and the pilot, only viewers ask for plans, and the pilot announces its last change
\* (the stages of globalUpdate in client_updater.cpp and of the handlers in
\* incoming_packets.cpp).
THEOREM TypeCorrect == Spec => []TypeOK
<1>1. TypeOK /\ [Next]_vars => TypeOK'
  BY TypesKept
<1> QED
  BY <1>1, TypesAtFirst, PTL DEF Spec

-----------------------------------------------------------------------------
(* Who touches what: handlers leave the pass alone but for what is late, and *)
(* all but the pilot's own leave what it announces alone.                   *)

LEMMA PilotHandler ==
  ASSUME TypeOK
  PROVE  /\ handler \in [Users -> HandlerRecords]
         /\ handler[Pilot] \in HandlerRecords
         /\ handler[Pilot].to \subseteq Viewers /\ handler[Pilot].item \in Nat
         /\ handler[Pilot].topic \in Fields \cup {"script", "none"}
         /\ handler[Pilot].job \in {"announce", "iterate"} <=> handler[Pilot].topic # "none"
         /\ \A f \in Fields : handler[Pilot].topic = f => handler[Pilot].item = news[f]
  BY SMT DEF TypeOK, HandlerOK, HandlerRecords

Handling == \/ \E u \in Viewers : Move(u) \/ Request(u)
            \/ \E f \in Fields : SetField(f)
            \/ RegisterScript
            \/ \E u \in Users : SetCycle(u) \/ HandlerStep(u)
            \/ Announcing
            \/ UNCHANGED vars

LEMMA NotPass ==
  ASSUME [Next]_vars, ~PassStep
  PROVE  Handling
  BY DEF Next, Handling

LEMMA OnlyLate ==
  ASSUME TypeOK, Handling
  PROVE  /\ pass'.job = pass.job /\ pass'.phase = pass.phase /\ pass'.user = pass.user
         /\ pass'.other = pass.other /\ pass'.upto = pass.upto /\ pass'.todo = pass.todo
         /\ pass'.packet = pass.packet /\ pass.late \subseteq pass'.late /\ shows' = shows
<1>1. pass \in PassRecords
  BY DEF TypeOK, PassOK
<1>2. ASSUME NEW l, pass' = [pass EXCEPT !.late = l], pass.late \subseteq l
      PROVE  /\ pass'.job = pass.job /\ pass'.phase = pass.phase /\ pass'.user = pass.user
             /\ pass'.other = pass.other /\ pass'.upto = pass.upto /\ pass'.todo = pass.todo
             /\ pass'.packet = pass.packet /\ pass.late \subseteq pass'.late
  BY <1>1, <1>2, SMT DEF PassRecords
<1>3. CASE SendNews
  <2>1. /\ shows' = shows
        /\ \/ pass' = pass
           \/ \E t : pass' = [pass EXCEPT !.late = IF pass.job = "write_create" /\ pass.user = t
                                                   THEN @ \cup {handler[Pilot].topic} ELSE @]
    BY <1>3 DEF SendNews
  <2> QED
    BY <1>2, <2>1
<1>4. ASSUME NEW u \in Users, ReplyWrite(u)
      PROVE  /\ shows' = shows
             /\ \E l : pass' = [pass EXCEPT !.late = l] /\ pass.late \subseteq l
  <2> DEFINE l == IF PlanFor = u /\ pass.job \in BeingRead THEN pass.late \cup {"plan"} ELSE pass.late
  <2>1. shows' = shows /\ pass' = [pass EXCEPT !.late = l]
    BY <1>4 DEF ReplyWrite
  <2>2. pass.late \subseteq l
    OBVIOUS
  <2> HIDE DEF l
  <2> QED
    BY <2>1, <2>2
<1>5. CASE pass' = pass /\ shows' = shows
  BY <1>5
<1>6. ASSUME NEW v \in Viewers, Move(v) \/ Request(v) PROVE pass' = pass /\ shows' = shows
  BY <1>6 DEF Move, Request
<1>7. ASSUME NEW v \in Users, SetCycle(v) \/ HandlerStep(v), ~ReplyWrite(v)
      PROVE  pass' = pass /\ shows' = shows
  BY <1>7 DEF SetCycle, HandlerStep, SetBody, SetQueue, ReplyReadCycle, ReplyReadBody
<1>8. ASSUME NEW f \in Fields, SetField(f) PROVE pass' = pass /\ shows' = shows
  BY <1>8 DEF SetField
<1>9. CASE EndIterating \/ UNCHANGED vars \/ RegisterScript \/ BeginIterating
  BY <1>5, <1>9 DEF EndIterating, vars, RegisterScript, BeginIterating
<1> QED
  BY <1>2, <1>3, <1>4, <1>5, <1>6, <1>7, <1>8, <1>9, Zenon DEF Handling, Announcing

Other == \/ \E u \in Viewers : Move(u) \/ Request(u)
         \/ \E u \in Users : SetCycle(u) \/ HandlerStep(u)
         \/ EndIterating
         \/ PassStep
         \/ UNCHANGED vars

LEMMA OtherSteps == Other => [Next]_vars
  BY DEF Other, Next, Announcing

LEMMA PlanForViewer == ASSUME TypeOK, WritePlan PROVE PlanFor \in Viewers
  BY SMT DEF TypeOK, PassOK, WritePlan, At, PlanFor, Resting

LEMMA PilotSilent ==
  ASSUME TypeOK, Other
  PROVE  /\ news' = news /\ scripts' = scripts
         /\ \A u \in Viewers, t \in Fields \cup {"script"} : OnItsWay(u, t)' <=> OnItsWay(u, t)
         /\ handler'[Pilot].topic = "none" \/ handler'[Pilot] = handler[Pilot]
<1> SUFFICES /\ news' = news /\ scripts' = scripts
             /\ \/ handler'[Pilot] = handler[Pilot]
                \/ /\ handler'[Pilot].topic = "none"
                   /\ \/ handler[Pilot].topic = "none"
                      \/ handler[Pilot].job = "iterate" /\ handler[Pilot].to = {}
  BY SMT DEF OnItsWay, Is
<1>1. ASSUME NEW u \in Viewers, Move(u) \/ Request(u) 
      PROVE news' = news /\ scripts' = scripts /\ handler'[Pilot] = handler[Pilot]
  BY <1>1, PilotHandler, SMT DEF Move, Request
<1>2. ASSUME NEW u \in Users, SetCycle(u) \/ HandlerStep(u) 
      PROVE /\ news' = news /\ scripts' = scripts 
            /\ \/ handler'[Pilot] = handler[Pilot]
               \/ handler'[Pilot].topic = "none" /\ handler[Pilot].topic = "none"
  <2>1. news' = news /\ scripts' = scripts 
    BY <1>2 DEF HandlerStep, SetCycle, SetBody, SetQueue, ReplyReadCycle, ReplyReadBody, ReplyWrite
  <2>2. \/ handler[u].job \in {"none", "set_body", "queue"}
        \/ handler[u].job \in {"read_cycle", "read_body", "write_plan"}
    BY <1>2, Zenon DEF HandlerStep, SetCycle, SetBody, SetQueue, ReplyReadCycle, ReplyReadBody,
       ReplyWrite, Is
  <2>3. CASE u \in Viewers
    <3>1. u # Pilot /\ handler \in [Users -> HandlerRecords]
      BY <2>3 DEF TypeOK, HandlerOK
    <3>2. handler'[Pilot] = handler[Pilot]
      <4>1. CASE SetCycle(u)
        BY <3>1, <4>1, SMT DEF SetCycle
      <4>2. CASE SetBody(u)
        BY <3>1, <4>2, SMT DEF SetBody
      <4>3. CASE SetQueue(u)
        BY <3>1, <4>3, SMT DEF SetQueue
      <4>4. CASE ReplyReadCycle(u)
        BY <3>1, <4>4, SMT DEF ReplyReadCycle
      <4>5. CASE ReplyReadBody(u)
        BY <3>1, <4>5, SMT DEF ReplyReadBody
      <4>6. CASE ReplyWrite(u)
        BY <3>1, <4>6, SMT DEF ReplyWrite
      <4> QED
        BY <1>2, <4>1, <4>2, <4>3, <4>4, <4>5, <4>6 DEF HandlerStep
    <3> QED
      BY <2>1, <3>2
  <2>4. CASE u = Pilot
    <3>1. handler[u].job \in {"none", "set_body", "queue"}
      BY <2>2, <2>4, SMT DEF TypeOK, HandlerOK
    <3>2. handler[Pilot].topic = "none"
      BY <3>1, <2>4, PilotHandler, SMT
    <3>3. CASE SetCycle(Pilot)
      BY <3>2, <3>3, PilotHandler, SMT DEF SetCycle, HandlerRecords
    <3>4. CASE SetBody(Pilot)
      BY <3>2, <3>4, PilotHandler, SMT DEF SetBody, HandlerRecords
    <3>5. CASE SetQueue(Pilot)
      BY <3>2, <3>5, PilotHandler, SMT DEF SetQueue, Free
    <3> QED
      BY <2>1, <3>1, <3>2, <3>3, <3>4, <3>5, <2>4, <1>2 DEF HandlerStep, ReplyReadCycle,
         ReplyReadBody, ReplyWrite, Is
  <2> QED
    BY <2>3, <2>4
<1>3. CASE EndIterating
  <2>1. handler'[Pilot] = Free 
    BY <1>3, PilotHandler, SMT DEF EndIterating
  <2> QED
    BY <1>3, <2>1, SMT DEF EndIterating, Is, Free
<1>4. CASE PassStep
  <2>1. news' = news /\ scripts' = scripts 
    BY <1>4 DEF PassStep, BeginPass, Examine, AssembleCreate, WriteCreate, CreateFlightPlan,
         ReadCycle, ReadBody, GetAllScripts, SendScripts, Emplace, Delete, Erase, TestQueue,
         NextInQueue, ClearQueue, WritePlan
  <2>2. CASE WritePlan
    BY <2>1, <2>2, PilotHandler, PlanForViewer, SMT DEF WritePlan
  <2>3. CASE ~WritePlan
    <3>1. handler' = handler
     BY <1>4, <2>3 DEF PassStep, BeginPass, Examine, AssembleCreate, WriteCreate, CreateFlightPlan,
         ReadCycle, ReadBody, GetAllScripts, SendScripts, Emplace, Delete, Erase, TestQueue,
         NextInQueue, ClearQueue
    <3> QED BY <3>1, <2>1
  <2> QED BY <2>2, <2>3
<1>5. CASE UNCHANGED vars
  BY <1>5 DEF vars
<1> QED
  BY <1>1, <1>2, <1>3, <1>4, <1>5, Zenon DEF Other

-----------------------------------------------------------------------------
(* Fields.  A viewer is told by an announcement or by the packet that        *)
(* creates the pilot; the invariant follows the second while it is in hand. *)

\* The fields of the packet that creates the pilot, until it is written: each is the last,
\* or a newer packet was or will be written first, or the viewer has missed the last.
InHand(f) ==
  IF f \in Carried
  THEN \/ pass.create[f] = news[f]
       \/ f \in pass.late
       \/ <<pass.user, f>> \in missed
       \/ OnItsWay(pass.user, f)
  ELSE pass.create[f] = 0

CreateInHand == pass.job = "write_create" => \A f \in Fields : InHand(f)

NewsInv == TypeOK /\ CreateInHand /\ UpToDate

LEMMA UpdatedBySetField == 
  ASSUME NewsInv, NEW g \in Fields, SetField(g)
  PROVE  UpToDate'
<1> SUFFICES ASSUME NEW u \in shows', NEW f \in Fields 
             PROVE (told[u][f] = news[f] \/ <<u, f>> \in missed \cup overtaken \/ OnItsWay(u, f))'
  BY DEF UpToDate
<1>1. /\ news' = [news EXCEPT ![g] = @ + 1] /\ UNCHANGED <<told, missed, overtaken, shows>> 
      /\ handler[Pilot].job = "none"
  BY DEF SetField, Is
<1>2. handler'[Pilot].job = "announce" /\ handler'[Pilot].topic = g
  BY PilotHandler, SMT DEF SetField, NewsInv, HandlerRecords
<1>3. ~OnItsWay(u, f)
  BY <1>1, PilotHandler, SMT DEF NewsInv, OnItsWay
<1> QED
  BY <1>1, <1>2, <1>3, SMT DEF NewsInv, UpToDate, OnItsWay, Is, TypeOK, StateOK

LEMMA UpdatedByScript ==
  ASSUME NewsInv, RegisterScript
  PROVE  UpToDate'
<1> SUFFICES ASSUME NEW u \in shows', NEW f \in Fields 
             PROVE (told[u][f] = news[f] \/ <<u, f>> \in missed \cup overtaken \/ OnItsWay(u, f))'
  BY DEF UpToDate
<1>1. UNCHANGED <<news, told, missed, overtaken, shows>> /\ handler[Pilot].job = "none"
  BY DEF RegisterScript, Is
<1>3. ~OnItsWay(u, f)
  BY <1>1, PilotHandler, SMT DEF NewsInv, OnItsWay
<1>4. u \in shows /\ (told[u][f] = news[f] \/ <<u, f>> \in missed \cup overtaken)
  BY <1>1, <1>3 DEF NewsInv, UpToDate
<1> QED
  BY <1>1, <1>4

LEMMA UpdatedByAnnouncing ==
  ASSUME NewsInv, BeginIterating \/ SendNews
  PROVE  UpToDate'
<1> SUFFICES ASSUME NEW u \in shows', NEW f \in Fields 
             PROVE (told[u][f] = news[f] \/ <<u, f>> \in missed \cup overtaken \/ OnItsWay(u, f))'
  BY DEF UpToDate
<1>1. CASE BeginIterating
  <2>1. /\ handler'[Pilot].job = "iterate" /\ handler'[Pilot].topic = handler[Pilot].topic 
        /\ handler'[Pilot].to = local_users[Pilot] \cap Audience(handler[Pilot].topic)
    BY <1>1, PilotHandler, SMT DEF BeginIterating, NewsInv, HandlerRecords
  <2> QED
    BY <1>1, <2>1, SMT DEF NewsInv, UpToDate, OnItsWay, Is, TypeOK, StateOK, BeginIterating
<1>2. CASE SendNews
  <2> DEFINE topic == handler[Pilot].topic
             item == handler[Pilot].item
  <2>1. PICK v \in handler[Pilot].to :
          /\ handler' = [handler EXCEPT ![Pilot].to = @ \ {v}]
          /\ IF topic = "script"
               THEN UNCHANGED <<told, missed, overtaken>>
               ELSE /\ told' = [told EXCEPT ![v][topic] = IF v \in shows THEN item ELSE @]
                    /\ missed' = missed \ {<<v, topic>>} /\ overtaken' = overtaken \ {<<v, topic>>}
    BY <1>2 DEF SendNews
  <2>2. handler[Pilot].job = "iterate" /\ shows' = shows /\ news' = news
    BY <1>2 DEF SendNews, Is
  <2>3. v \in Viewers /\ u \in Viewers /\ u \in shows
    BY <2>2, PilotHandler DEF NewsInv, TypeOK, StateOK
  <2>4. /\ handler'[Pilot].job = "iterate" /\ handler'[Pilot].topic = topic
        /\ handler'[Pilot].to = handler[Pilot].to \ {v}
    BY <2>1, <2>2, PilotHandler, SMT DEF NewsInv, HandlerRecords
  <2>5. told[u][f] = news[f] \/ <<u, f>> \in missed \cup overtaken \/ OnItsWay(u, f)
    BY <2>3 DEF NewsInv, UpToDate
  <2>6. CASE topic = f /\ v = u
    <3>1. item = news[f] /\ topic # "script"
      BY <2>6, PilotHandler, SMT DEF NewsInv
    <3>2. told'[u][f] = item
      BY <2>1, <2>3, <2>6, <3>1, SMT DEF NewsInv, TypeOK, StateOK
    <3> QED
      BY <2>2, <3>1, <3>2
  <2>7. CASE topic # f \/ v # u
    <3>1. told'[u][f] = told[u][f]
      <4>1. CASE topic = "script"
        BY <2>1, <4>1
      <4>2. CASE topic # "script"
        <5> HIDE DEF item
        <5>1. /\ told' = [told EXCEPT ![v][topic] = IF v \in shows THEN item ELSE @]
              /\ told \in [Viewers -> [Fields -> Nat]]
          BY <2>1, <4>2 DEF NewsInv, TypeOK, StateOK
        <5> HIDE DEF topic
        <5> QED
          BY <2>3, <2>7, <5>1, SMT
      <4> QED
        BY <4>1, <4>2
    <3>2. <<u, f>> \in missed \cup overtaken => <<u, f>> \in missed' \cup overtaken'
      BY <2>1, <2>7
    <3>3. OnItsWay(u, f) => OnItsWay(u, f)'
      BY <2>2, <2>4, <2>7 DEF OnItsWay, Is
    <3> QED
      BY <2>2, <2>5, <3>1, <3>2, <3>3
  <2> QED
    BY <2>6, <2>7
<1> QED
  BY <1>1, <1>2

LEMMA UpdatedByCreate ==
  ASSUME NewsInv, WriteCreate
  PROVE  UpToDate'
<1> SUFFICES ASSUME NEW u \in shows', NEW f \in Fields
             PROVE (told[u][f] = news[f] \/ <<u, f>> \in missed \cup overtaken \/ OnItsWay(u, f))'
  BY DEF UpToDate
<1> DEFINE v == pass.user
           current == {g \in Fields : pass.create[g] = news[g]}
<1>1. /\ pass.job = "write_create" /\ news' = news /\ handler' = handler
      /\ shows' = shows \cup {v} /\ told' = [told EXCEPT ![v] = pass.create]
      /\ missed' = (missed \ ({v} \X (current \cup {"plan"})))
                      \cup ({v} \X (Fields \ (Carried \cup current)))
      /\ overtaken' = (overtaken \ ({v} \X Topics)) \cup ({v} \X pass.late)
  BY DEF WriteCreate, At
<1>2. v \in Viewers
  BY <1>1, SMT DEF NewsInv, TypeOK, PassOK
<1>3. OnItsWay(u, f)' <=> OnItsWay(u, f)
  BY <1>1 DEF OnItsWay, Is
<1>4. CASE u = v
  <2>1. told'[u] = pass.create
    BY <1>1, <1>2, <1>4, SMT DEF NewsInv, TypeOK, StateOK
  <2>2. CASE pass.create[f] = news[f]
    BY <1>1, <2>1, <2>2
  <2>3. CASE pass.create[f] # news[f] /\ f \notin Carried
    BY <1>1, <1>4, <2>3
  <2>4. CASE pass.create[f] # news[f] /\ f \in Carried
    <3>1. f \in pass.late \/ <<v, f>> \in missed \/ OnItsWay(v, f)
      BY <1>1, <2>4 DEF NewsInv, CreateInHand, InHand
    <3>2. <<v, f>> \notin {v} \X (current \cup {"plan"})
      BY <2>4, SMT
    <3> QED
      BY <1>1, <1>3, <1>4, <3>1, <3>2
  <2> QED
    BY <2>2, <2>3, <2>4
<1>5. CASE u # v
  <2>1. u \in shows
    BY <1>1, <1>5
  <2>2. told'[u] = told[u]
    BY <1>1, <1>5, <2>1, SMT DEF NewsInv, TypeOK, StateOK
  <2>3. told[u][f] = news[f] \/ <<u, f>> \in missed \cup overtaken \/ OnItsWay(u, f)
    BY <2>1 DEF NewsInv, UpToDate
  <2> QED
    BY <1>1, <1>3, <1>5, <2>2, <2>3
<1> QED
  BY <1>4, <1>5

LEMMA UpdatedByOther ==
  ASSUME NewsInv, Other
  PROVE  UpToDate'
<1> SUFFICES ASSUME NEW u \in shows', NEW f \in Fields 
             PROVE (told[u][f] = news[f] \/ <<u, f>> \in missed \cup overtaken \/ OnItsWay(u, f))'
  BY DEF UpToDate
<1>1. u \in Viewers
  BY TypesKept, OtherSteps DEF NewsInv, TypeOK, StateOK
<1>2. news' = news /\ (OnItsWay(u, f)' <=> OnItsWay(u, f))
  BY <1>1, PilotSilent DEF NewsInv
<1>3. f # "plan"
  BY SMT
<1> DEFINE stays == /\ u \in shows /\ told'[u][f] = told[u][f] 
                    /\ <<u, f>> \in missed \cup overtaken => <<u, f>> \in missed' \cup overtaken'
<1>4. CASE UNCHANGED <<shows, told, missed, overtaken>>
  BY <1>2, <1>4, SMT DEF NewsInv, UpToDate
<1>5. CASE stays
  BY <1>2, <1>5, Zenon DEF NewsInv, UpToDate
<1> HIDE DEF stays
<1>6. ASSUME NEW v \in Viewers, Move(v) \/ Request(v)
      PROVE  UNCHANGED <<shows, told, missed, overtaken>>
  BY <1>6 DEF Move, Request
<1>7. ASSUME NEW v \in Users, NEW packet, NEW late, Receive(v, packet, late),
             shows' = shows, told' = told
      PROVE  stays
  BY <1>3, <1>7, SMT DEF Receive, stays
<1>8. ASSUME NEW v \in Users, SetCycle(v) \/ HandlerStep(v),
             ~ UNCHANGED <<shows, told, missed, overtaken>>
      PROVE  stays
  <2>1. ReplyWrite(v)
    BY <1>8 DEF SetCycle, HandlerStep, SetBody, SetQueue, ReplyReadCycle, ReplyReadBody
  <2> QED
    BY <2>1, <1>7, Zenon DEF ReplyWrite
<1>9. CASE EndIterating 
  BY <1>9, <1>4 DEF EndIterating
<1>10. CASE PassStep /\ ~WriteCreate
  <2>1. CASE WritePlan
    <3>1. PlanFor \in Users 
      BY <2>1, PlanForViewer DEF NewsInv
    <3> QED
      BY <2>1, <3>1, <1>5, <1>7, Zenon DEF WritePlan
  <2>2. CASE Delete
    <3>1. u # pass.user /\ u \in shows /\ UNCHANGED <<missed, overtaken>>
      BY <2>2 DEF Delete
    <3>2. told'[u] = told[u]
      BY <1>1, <2>2, <3>1, SMT DEF Delete, NewsInv, TypeOK, StateOK
    <3> QED
      BY <3>1, <3>2, <1>5 DEF stays
  <2>3. CASE TestQueue
    BY <1>3, <1>5, <2>3, SMT DEF TestQueue, stays
  <2> QED
    BY <1>4, <1>10, <2>1, <2>2, <2>3 DEF PassStep, BeginPass, Examine, AssembleCreate,
       CreateFlightPlan,
         ReadCycle, ReadBody, GetAllScripts, SendScripts, Emplace, Erase, NextInQueue, ClearQueue
<1>11. CASE WriteCreate
  BY <1>11, UpdatedByCreate DEF UpToDate
<1>12. CASE UNCHANGED vars
  BY <1>12, <1>4 DEF vars
<1> QED
  BY <1>4, <1>5, <1>6, <1>8, <1>9, <1>10, <1>11, <1>12, Zenon DEF Other

LEMMA CreateKept ==
  ASSUME NewsInv, [Next]_vars
  PROVE  CreateInHand'
<1> SUFFICES ASSUME pass'.job = "write_create", NEW f \in Fields
             PROVE  InHand(f)'
  BY DEF CreateInHand
<1>1. PICK u : u = pass.user
  OBVIOUS
<1>2. ASSUME pass.job = "write_create"
      PROVE  /\ f \in Carried => \/ pass.create[f] = news[f] \/ f \in pass.late \/ <<u, f>> \in missed
                                 \/ OnItsWay(u, f)
             /\ f \notin Carried => pass.create[f] = 0
             /\ u \in Viewers
             /\ pass \in PassRecords
  BY <1>2, <1>1, SMT DEF NewsInv, CreateInHand, InHand, TypeOK, PassOK
<1>3. f # "plan"
  BY SMT
<1>4. ASSUME pass' = pass, <<u, f>> \in missed => <<u, f>> \in missed', news' = news, 
             OnItsWay(u, f) => OnItsWay(u, f)' \/ <<u, f>> \in missed'
      PROVE  InHand(f)'
  <2>1. pass'.user = u
    BY <1>4, <1>1
  <2> QED
    BY <1>4, <1>2, <2>1 DEF InHand, OnItsWay, Is
<1>5. ASSUME NEW g \in Fields, SetField(g)
      PROVE  InHand(f)'
  <2>1. /\ news' = [news EXCEPT ![g] = @ + 1] /\ pass' = pass /\ missed' = missed
        /\ handler[Pilot].job = "none"
    BY <1>5 DEF SetField, Is
  <2>2. handler'[Pilot].job = "announce" /\ handler'[Pilot].topic = g
    BY <1>5, PilotHandler, SMT DEF SetField, NewsInv, HandlerRecords
  <2>3. ~OnItsWay(u, f)
    BY <2>1, PilotHandler, SMT DEF NewsInv, OnItsWay
  <2>4. f # g => news'[f] = news[f]
    BY <2>1, SMT DEF NewsInv, TypeOK, StateOK
  <2>5. f = g => OnItsWay(u, f)'
    BY <2>2 DEF OnItsWay, Is
  <2> QED
    BY <2>1, <2>3, <2>4, <2>5, <1>2, <1>1 DEF InHand, OnItsWay, Is
<1>6. CASE RegisterScript
  <2>1. UNCHANGED <<news, missed, pass>> /\ handler[Pilot].job = "none"
    BY <1>6 DEF RegisterScript, Is
  <2>2. ~OnItsWay(u, f)
    BY <2>1, PilotHandler, SMT DEF NewsInv, OnItsWay
  <2> QED
    BY <1>4, <2>1, <2>2
<1>7. CASE BeginIterating
  <2>1. /\ handler'[Pilot].job = "iterate" /\ handler'[Pilot].topic = handler[Pilot].topic 
        /\ handler'[Pilot].to = local_users[Pilot] \cap Audience(handler[Pilot].topic)
    BY <1>7, PilotHandler, SMT DEF BeginIterating, NewsInv, HandlerRecords
  <2>2. UNCHANGED <<news, pass>> /\ missed \subseteq missed'
    BY <1>7 DEF BeginIterating
  <2>3. pass'.job = "write_create" => (OnItsWay(u, f) => OnItsWay(u, f)' \/ <<u, f>> \in missed')
    BY <1>7, <2>1, <2>2, <1>2, SMT DEF BeginIterating, OnItsWay, Is
  <2> QED
    BY <1>4, <2>2, <2>3
<1>8. CASE SendNews
  <2> DEFINE topic == handler[Pilot].topic
  <2>1. PICK v \in handler[Pilot].to :
          /\ handler' = [handler EXCEPT ![Pilot].to = @ \ {v}]
          /\ IF topic = "script"
               THEN UNCHANGED <<missed, pass>>
               ELSE /\ missed' = missed \ {<<v, topic>>} 
                    /\ pass' = [pass EXCEPT !.late = IF pass.job = "write_create" /\ pass.user = v
                                                     THEN @ \cup {topic} ELSE @]
    BY <1>8 DEF SendNews
  <2>2. handler[Pilot].job = "iterate" /\ news' = news
    BY <1>8 DEF SendNews, Is
  <2>3. /\ handler'[Pilot].job = "iterate" /\ handler'[Pilot].topic = topic
        /\ handler'[Pilot].to = handler[Pilot].to \ {v}
    BY <2>1, <2>2, PilotHandler, SMT DEF NewsInv, HandlerRecords
  <2>4. CASE topic = "script"
    <3>1. ~OnItsWay(u, f)
      BY <2>4, SMT DEF OnItsWay
    <3> QED
      BY <1>4, <2>1, <2>2, <2>4, <3>1
  <2>5. CASE topic # "script"
    <3>1. /\ pass.job = "write_create" /\ pass'.create = pass.create /\ pass'.user = u
          /\ pass'.late = IF u = v THEN pass.late \cup {topic} ELSE pass.late
      BY <1>1, <2>1, <2>5, SMT DEF NewsInv, TypeOK, PassOK, PassRecords
    <3>2. OnItsWay(u, f) => OnItsWay(u, f)' \/ (topic = f /\ u = v)
      BY <2>2, <2>3 DEF OnItsWay, Is
    <3>3. <<u, f>> \in missed => <<u, f>> \in missed' \/ (topic = f /\ u = v)
      BY <2>1, <2>5
    <3>4. topic = f /\ u = v => f \in pass'.late
      BY <3>1
    <3>5. pass.late \subseteq pass'.late
      BY <3>1
    <3> HIDE DEF topic
    <3> QED
      BY <1>2, <2>2, <3>1, <3>2, <3>3, <3>4, <3>5 DEF InHand, OnItsWay, Is
  <2> QED
    BY <2>4, <2>5
<1>9. CASE Other
  <2>1. news' = news
    BY <1>9, PilotSilent DEF NewsInv
  <2>2. pass.job = "write_create" => (OnItsWay(u, f)' <=> OnItsWay(u, f))
    BY <1>9, <1>2, PilotSilent DEF NewsInv
  <2>3. CASE pass' = pass /\ missed' = missed
    BY <1>4, <2>1, <2>2, <2>3
  <2>4. ASSUME NEW v \in Users, ReplyWrite(v)
        PROVE  InHand(f)'
    <3>1. /\ pass'.job = pass.job /\ (pass.job \notin BeingRead => pass' = pass)
      BY <2>4, SMT DEF ReplyWrite, NewsInv, TypeOK, PassOK, PassRecords
    <3>2. pass' = pass
      BY <3>1 DEF BeingRead
    <3>3. <<u, f>> \in missed => <<u, f>> \in missed'
      BY <1>3, <2>4, SMT DEF ReplyWrite, Receive
    <3> QED
      BY <1>4, <2>1, <2>2, <3>2, <3>3
  <2>5. CASE PassStep
    <3>1. CASE AssembleCreate
      <4>1. pass'.create = [g \in Fields |-> IF g \in Carried THEN news[g] ELSE 0]
        BY <3>1, SMT DEF AssembleCreate, NewsInv, TypeOK, PassOK, PassRecords
      <4> QED
        BY <2>1, <4>1, SMT DEF InHand
    <3>2. CASE ~AssembleCreate
      <4>1. pass \in PassRecords
        BY DEF NewsInv, TypeOK, PassOK
      <4>2. SUFFICES pass'.job # "write_create"
        OBVIOUS
      <4>3. CASE BeginPass
        <5>1. pass.job = "none" /\ \E T : pass' = [pass EXCEPT !.phase = "local", !.todo = T]
          BY <4>3, Zenon DEF BeginPass, NewsInv, TypeOK, PassOK, Resting
        <5> QED
          BY <4>1, <5>1, SMT DEF PassRecords
      <4>4. CASE WriteCreate
        BY <4>1, <4>4, SMT DEF WriteCreate, PassRecords
      <4>5. CASE CreateFlightPlan
        BY <4>1, <4>5, SMT DEF CreateFlightPlan, Go, PassRecords
      <4>6. CASE ReadCycle
        BY <4>1, <4>6, SMT DEF ReadCycle, PassRecords
      <4>7. CASE ReadBody
        BY <4>1, <4>7, SMT DEF ReadBody, PassRecords
      <4>8. CASE WritePlan
        BY <4>1, <4>8, SMT DEF WritePlan, PassRecords
      <4>9. CASE GetAllScripts
        BY <4>1, <4>9, SMT DEF GetAllScripts, PassRecords
      <4>10. CASE SendScripts
        BY <4>1, <4>10, SMT DEF SendScripts, PassRecords
      <4>11. CASE Emplace
        BY <4>1, <4>11, SMT DEF Emplace, Leave, PassRecords
      <4>12. CASE Delete
        BY <4>1, <4>12, SMT DEF Delete, Go, PassRecords
      <4>13. CASE Erase
        BY <4>1, <4>13, SMT DEF Erase, Leave, PassRecords
      <4>14. CASE TestQueue
        <5>1. /\ pass.job = "none"
              /\ \/ pass' = Resting
                 \/ \E T : pass' = [pass EXCEPT !.phase = "queues", !.todo = T]
          BY <4>14, Zenon DEF TestQueue, At
        <5>2. Resting.job = "none"
          BY SMT DEF Resting
        <5>3. ASSUME NEW T, pass' = [pass EXCEPT !.phase = "queues", !.todo = T]
              PROVE  pass'.job = pass.job
          BY <4>1, <5>3, SMT DEF PassRecords
        <5>4. pass'.job = "none"
          BY <5>1, <5>2, <5>3, Zenon
        <5> QED
          BY <5>4
      <4>15. CASE NextInQueue
        BY <4>1, <4>15, SMT DEF NextInQueue, PassRecords
      <4>16. CASE ClearQueue
        BY <4>1, <4>16, SMT DEF ClearQueue, Resting, PassRecords
      <4>17. CASE Examine
        BY <4>1, <4>17, SMT DEF Examine, PassRecords
      <4> QED
        BY <2>5, <3>2, <4>3, <4>4, <4>5, <4>6, <4>7, <4>8, <4>9, <4>10, <4>11, <4>12, <4>13,
           <4>14, <4>15, <4>16, <4>17 DEF PassStep
    <3> QED
      BY <3>1, <3>2
  <2>6. ASSUME NEW v \in Viewers, Move(v) \/ Request(v) PROVE pass' = pass /\ missed' = missed
    BY <2>6 DEF Move, Request
  <2>7. ASSUME NEW v \in Users, SetCycle(v) \/ HandlerStep(v), ~ReplyWrite(v)
        PROVE  pass' = pass /\ missed' = missed
    BY <2>7 DEF SetCycle, HandlerStep, SetBody, SetQueue, ReplyReadCycle, ReplyReadBody
  <2>8. CASE EndIterating \/ UNCHANGED vars
    BY <2>3, <2>8 DEF EndIterating, vars
  <2> QED
    BY <1>9, <2>3, <2>4, <2>5, <2>6, <2>7, <2>8, Zenon DEF Other
<1> QED
  BY <1>5, <1>6, <1>7, <1>8, <1>9 DEF Next, Other, Announcing

\* A client that shows the pilot has the last value of every field, or the last change was
\* announced while the pilot did not have it around, or overtaken: handlers assign the field
\* before they go over local_users (incoming_packets.cpp:64-77, :119-133, :203-214).
THEOREM ViewersUpToDate == Spec => []UpToDate
<1>1. Init => NewsInv
  BY TypesAtFirst, SMT DEF Init, NewsInv, CreateInHand, UpToDate, Resting
<1>2. NewsInv /\ [Next]_vars => NewsInv'
  BY TypesKept, CreateKept, UpdatedBySetField, UpdatedByScript, UpdatedByAnnouncing, UpdatedByOther
     DEF NewsInv, Next, Other, Announcing
<1> QED
  BY <1>1, <1>2, PTL DEF Spec, NewsInv

-----------------------------------------------------------------------------
(* Scripts.  What is registered after getAllScripts is announced to all      *)
(* around the pilot; what was before is in the list.                        *)

\* The viewer to which the pass sends the scripts shows the pilot, and once they are listed,
\* it gets, has or missed each other one.
SendingScripts == {"plan", "read_cycle", "read_body", "write_plan", "scripts", "send_scripts"}

HasScript(u, k) == \/ k \in held[u]
                   \/ <<u, k>> \in unsent
                   \/ OnItsWay(u, "script") /\ handler[Pilot].item = k

Shown == pass.phase = "local" /\ pass.job \in SendingScripts => pass.user \in shows

ScriptsInHand == pass.job = "send_scripts" =>
                   \A k \in 1..scripts : k <= pass.upto \/ HasScript(pass.user, k)

ScriptInv == TypeOK /\ Shown /\ ScriptsInHand /\ HoldsScripts

LEMMA ScriptsJobs ==
  ASSUME TypeOK, PassStep
  PROVE  /\ pass.job \in SendingScripts /\ pass.phase = "local"
              => \/ SendScripts
                 \/ pass'.job \in SendingScripts /\ pass'.phase = "local" /\ pass'.user = pass.user
         /\ pass'.job \in SendingScripts /\ pass'.phase = "local"
              => /\ pass.phase = "local" /\ pass'.user = pass.user
                 /\ pass.job \in SendingScripts \/ WriteCreate
         /\ pass'.job = "send_scripts" => pass'.upto = scripts
<1>1. pass \in PassRecords
  BY DEF TypeOK, PassOK
<1>2. CASE BeginPass
  <2>1. pass.job = "none"
    BY <1>2, SMT DEF BeginPass, TypeOK, PassOK, Resting
  <2>2. PICK T : pass' = [pass EXCEPT !.phase = "local", !.todo = T]
    BY <1>2, Zenon DEF BeginPass
  <2>3. pass'.job = "none"
    BY <1>1, <2>1, <2>2, SMT DEF PassRecords
  <2> QED
    BY <2>1, <2>3, SMT DEF SendingScripts
<1>3. CASE Examine
  BY <1>1, <1>3, SMT DEF Examine, At, PassRecords, SendingScripts
<1>4. CASE AssembleCreate
  BY <1>1, <1>4, SMT DEF AssembleCreate, At, PassRecords, SendingScripts
<1>5. CASE WriteCreate
  BY <1>1, <1>5, SMT DEF WriteCreate, At, PassRecords, SendingScripts, TypeOK, PassOK
<1>6. CASE CreateFlightPlan
  BY <1>1, <1>6, SMT DEF CreateFlightPlan, At, Go, PassRecords, SendingScripts
<1>7. CASE ReadCycle
  BY <1>1, <1>7, SMT DEF ReadCycle, At, PassRecords, SendingScripts
<1>8. CASE ReadBody
  BY <1>1, <1>8, SMT DEF ReadBody, At, PassRecords, SendingScripts
<1>9. CASE WritePlan
  BY <1>1, <1>9, SMT DEF WritePlan, At, PassRecords, SendingScripts
<1>10. CASE GetAllScripts
  BY <1>1, <1>10, SMT DEF GetAllScripts, At, PassRecords, SendingScripts
<1>11. CASE SendScripts
  BY <1>1, <1>11, SMT DEF SendScripts, At, PassRecords, SendingScripts
<1>12. CASE Emplace
  BY <1>1, <1>12, SMT DEF Emplace, At, Leave, PassRecords, SendingScripts
<1>13. CASE Delete
  BY <1>1, <1>13, SMT DEF Delete, At, Go, PassRecords, SendingScripts
<1>14. CASE Erase
  BY <1>1, <1>14, SMT DEF Erase, At, Leave, PassRecords, SendingScripts
<1>15. CASE TestQueue
  <2>1. /\ pass.job = "none"
        /\ \/ pass' = Resting
           \/ \E T : pass' = [pass EXCEPT !.phase = "queues", !.todo = T]
    BY <1>15, Zenon DEF TestQueue, At
  <2>2. Resting.job = "none"
    BY SMT DEF Resting
  <2>3. ASSUME NEW T, pass' = [pass EXCEPT !.phase = "queues", !.todo = T]
        PROVE  pass'.job = pass.job
    BY <1>1, <2>3, SMT DEF PassRecords
  <2>4. pass'.job = "none"
    BY <2>1, <2>2, <2>3, Zenon
  <2>5. pass.job = "none"
    BY <2>1
  <2> QED
    BY <2>4, <2>5, SMT DEF SendingScripts
<1>16. CASE NextInQueue
  BY <1>1, <1>16, SMT DEF NextInQueue, At, PassRecords, SendingScripts
<1>17. CASE ClearQueue
  BY <1>1, <1>17, SMT DEF ClearQueue, At, Resting, PassRecords, SendingScripts
<1> QED
  BY <1>2, <1>3, <1>4, <1>5, <1>6, <1>7, <1>8, <1>9, <1>10, <1>11, <1>12, <1>13, <1>14, <1>15,
     <1>16, <1>17 DEF PassStep

LEMMA ScriptsStay ==
  ASSUME TypeOK, [Next]_vars, NEW u \in shows, u \in shows', NEW k \in 1..scripts',
         WriteCreate => u # pass.user
  PROVE  IF k \in 1..scripts THEN HasScript(u, k) => HasScript(u, k)' ELSE HasScript(u, k)'
<1>1. u \in Viewers /\ scripts \in Nat /\ k \in Nat
  BY SMT DEF TypeOK, StateOK
<1>2. ASSUME scripts' = scripts, k \in held[u] => k \in held'[u],
             <<u, k>> \in unsent => <<u, k>> \in unsent',
             \/ ~OnItsWay(u, "script")
             \/ OnItsWay(u, "script")' /\ handler'[Pilot].item = handler[Pilot].item
      PROVE  IF k \in 1..scripts THEN HasScript(u, k) => HasScript(u, k)' ELSE HasScript(u, k)'
  BY <1>2 DEF HasScript
<1>3. ASSUME NEW g \in Fields, SetField(g)
      PROVE  IF k \in 1..scripts THEN HasScript(u, k) => HasScript(u, k)' ELSE HasScript(u, k)'
  <2>1. UNCHANGED <<scripts, held, unsent>> /\ handler[Pilot].job = "none"
    BY <1>3 DEF SetField, Is
  <2>2. ~OnItsWay(u, "script")
    BY <2>1, PilotHandler, SMT DEF OnItsWay
  <2> QED
    BY <1>2, <2>1, <2>2
<1>4. CASE RegisterScript
  <2>1. UNCHANGED <<held, unsent>> /\ handler[Pilot].job = "none" /\ scripts' = scripts + 1
    BY <1>4 DEF RegisterScript, Is
  <2>2. ~OnItsWay(u, "script")
    BY <2>1, PilotHandler, SMT DEF OnItsWay
  <2>3. CASE k \in 1..scripts
    BY <2>1, <2>2, <2>3 DEF HasScript
  <2>4. CASE k \notin 1..scripts
    <3>1. k = scripts'
      BY <1>1, <2>1, <2>4, SMT
    <3>2. /\ handler'[Pilot].job = "announce" /\ handler'[Pilot].topic = "script"
          /\ handler'[Pilot].item = scripts'
      BY <1>4, PilotHandler, SMT DEF RegisterScript, HandlerRecords
    <3> QED
      BY <2>4, <3>1, <3>2 DEF HasScript, OnItsWay, Is
  <2> QED
    BY <2>3, <2>4
<1>5. CASE BeginIterating
  <2> DEFINE to == local_users[Pilot] \cap Audience(handler[Pilot].topic)
  <2>1. /\ handler'[Pilot].job = "iterate" /\ handler'[Pilot].topic = handler[Pilot].topic
        /\ handler'[Pilot].item = handler[Pilot].item /\ handler'[Pilot].to = to
    BY <1>5, PilotHandler, SMT DEF BeginIterating, HandlerRecords
  <2>2. /\ UNCHANGED <<scripts, held>> /\ unsent \subseteq unsent'
        /\ handler[Pilot].topic = "script" => unsent' = unsent \cup ((Viewers \ to) \X {handler[Pilot].item})
    BY <1>5 DEF BeginIterating
  <2>3. CASE OnItsWay(u, "script") /\ u \notin to
    <3>1. <<u, handler[Pilot].item>> \in unsent'
      BY <1>1, <2>2, <2>3 DEF OnItsWay
    <3> QED
      BY <2>2, <3>1 DEF HasScript
  <2>4. CASE ~OnItsWay(u, "script") \/ u \in to
    BY <1>2, <2>1, <2>2, <2>4 DEF OnItsWay, Is
  <2> QED
    BY <2>3, <2>4
<1>6. CASE SendNews
  <2> DEFINE topic == handler[Pilot].topic
             item == handler[Pilot].item
  <2>1. PICK v \in handler[Pilot].to :
          /\ handler' = [handler EXCEPT ![Pilot].to = @ \ {v}]
          /\ IF topic = "script"
               THEN held' = [held EXCEPT ![v] = IF v \in shows THEN @ \cup {item} ELSE @]
               ELSE UNCHANGED held
    BY <1>6 DEF SendNews
  <2>2. UNCHANGED <<scripts, unsent>> /\ handler[Pilot].job = "iterate"
    BY <1>6 DEF SendNews, Is
  <2>3. /\ handler'[Pilot].job = "iterate" /\ handler'[Pilot].topic = topic
        /\ handler'[Pilot].item = item /\ handler'[Pilot].to = handler[Pilot].to \ {v}
    BY <2>1, <2>2, PilotHandler, SMT DEF HandlerRecords
  <2>4. v \in Viewers /\ held \in [Viewers -> SUBSET (1..scripts)]
    BY PilotHandler DEF TypeOK, StateOK
  <2> HIDE DEF topic, item
  <2>5. held[u] \subseteq held'[u] /\ (topic = "script" /\ u = v => item \in held'[u])
    BY <1>1, <2>1, <2>4, SMT
  <2>6. CASE topic = "script" /\ u = v
    BY <2>2, <2>5, <2>6 DEF HasScript, topic, item
  <2>7. CASE ~(topic = "script" /\ u = v)
    <3>1. OnItsWay(u, "script") => OnItsWay(u, "script")'
      BY <2>2, <2>3, <2>7 DEF OnItsWay, Is, topic
    <3> QED
      BY <1>2, <2>2, <2>3, <2>5, <3>1 DEF item
  <2> QED
    BY <2>6, <2>7
<1>7. CASE Other
  <2>1. /\ scripts' = scripts
        /\ OnItsWay(u, "script") => OnItsWay(u, "script")' /\ handler'[Pilot].item = handler[Pilot].item
    BY <1>1, <1>7, PilotSilent DEF OnItsWay
  <2>2. CASE UNCHANGED <<held, unsent>>
    BY <1>2, <2>1, <2>2
  <2>3. CASE WriteCreate
    <3>1. held'[u] = held[u]
      BY <1>1, <2>3, SMT DEF WriteCreate, TypeOK, StateOK
    <3>2. <<u, k>> \in unsent => <<u, k>> \in unsent'
      BY <2>3, SMT DEF WriteCreate
    <3> QED
      BY <1>2, <2>1, <3>1, <3>2
  <2>4. CASE SendScripts
    <3>1. held[u] \subseteq held'[u] /\ unsent' = unsent
      BY <1>1, <2>4, SMT DEF SendScripts, TypeOK, StateOK
    <3> QED
      BY <1>2, <2>1, <3>1
  <2>5. CASE Delete
    <3>1. u # pass.user /\ unsent' = unsent
      BY <2>5 DEF Delete
    <3>2. held'[u] = held[u]
      BY <1>1, <2>5, <3>1, SMT DEF Delete, TypeOK, StateOK
    <3> QED
      BY <1>2, <2>1, <3>1, <3>2
  <2>6. ASSUME NEW v \in Viewers, Move(v) \/ Request(v) PROVE UNCHANGED <<held, unsent>>
    BY <2>6 DEF Move, Request
  <2>7. ASSUME NEW v \in Users, SetCycle(v) \/ HandlerStep(v) PROVE UNCHANGED <<held, unsent>>
    BY <2>7 DEF SetCycle, HandlerStep, SetBody, SetQueue, ReplyReadCycle, ReplyReadBody, ReplyWrite
  <2>8. CASE EndIterating \/ UNCHANGED vars
    BY <2>2, <2>8 DEF EndIterating, vars
  <2>9. CASE PassStep
    BY <2>2, <2>3, <2>4, <2>5, <2>9 DEF PassStep, BeginPass, Examine, AssembleCreate,
       CreateFlightPlan,
         ReadCycle, ReadBody, WritePlan, GetAllScripts, Emplace, Erase, TestQueue, NextInQueue,
    ClearQueue
  <2> QED
    BY <1>7, <2>2, <2>6, <2>7, <2>8, <2>9, Zenon DEF Other
<1> QED
  BY <1>3, <1>4, <1>5, <1>6, <1>7 DEF Next, Other, Announcing

LEMMA ScriptsKept ==
  ASSUME ScriptInv, [Next]_vars
  PROVE  ScriptInv'
<1>1. TypeOK /\ TypeOK'
  BY TypesKept DEF ScriptInv
<1>2. ASSUME NEW u \in Viewers, pass.user = u, pass.job # "none"
      PROVE  pass.phase = "local"
  BY <1>1, <1>2, SMT DEF TypeOK, PassOK
<1>3. pass.job = "send_scripts" => pass.phase = "local" /\ pass.user \in Viewers
  BY <1>1, SMT DEF TypeOK, PassOK, Resting
<1>4. WriteCreate => /\ pass.user \in Viewers /\ shows' = shows \cup {pass.user}
                     /\ pass'.user = pass.user /\ pass'.job = "plan"
  BY <1>1, SMT DEF WriteCreate, At, TypeOK, PassOK, PassRecords
<1>5. Delete => pass'.job = "erase"
  BY <1>1, SMT DEF Delete, Go, TypeOK, PassOK, PassRecords
<1>6. PassStep => scripts' = scripts /\ (shows' = shows \/ WriteCreate \/ Delete)
  BY DEF PassStep, BeginPass, Examine, AssembleCreate, WriteCreate, CreateFlightPlan,
       ReadCycle, ReadBody, WritePlan, GetAllScripts, SendScripts, Emplace, Delete, Erase,
       TestQueue, NextInQueue, ClearQueue
<1>7. Shown'
  <2>1. CASE PassStep
    <3>1. SUFFICES ASSUME pass'.phase = "local", pass'.job \in SendingScripts
                   PROVE  pass'.user \in shows'
      BY DEF Shown
    <3>2. /\ pass.phase = "local" /\ pass'.user = pass.user
          /\ (pass.job \in SendingScripts \/ WriteCreate)
      BY <1>1, <2>1, <3>1, ScriptsJobs
    <3>3. ~Delete
      BY <1>5, <3>1 DEF SendingScripts
    <3> QED
      BY <1>4, <1>6, <2>1, <3>2, <3>3 DEF ScriptInv, Shown
  <2>2. CASE ~PassStep
    BY <1>1, <2>2, OnlyLate, NotPass DEF ScriptInv, Shown
  <2> QED
    BY <2>1, <2>2
<1>8. ScriptsInHand'
  <2>1. CASE PassStep
    <3>1. SUFFICES ASSUME pass'.job = "send_scripts", NEW k \in 1..scripts'
                   PROVE  k <= pass'.upto
      BY DEF ScriptsInHand
    <3>2. pass'.upto = scripts
      BY <1>1, <2>1, <3>1, ScriptsJobs
    <3> QED
      BY <1>1, <1>6, <2>1, <3>2, SMT DEF TypeOK, StateOK
  <2>2. CASE ~PassStep
    <3>1. SUFFICES ASSUME pass'.job = "send_scripts", NEW k \in 1..scripts'
                   PROVE  (k <= pass.upto \/ HasScript(pass.user, k))'
      BY DEF ScriptsInHand
    <3>2. /\ pass.job = "send_scripts" /\ pass'.user = pass.user /\ pass'.upto = pass.upto
          /\ shows' = shows
      BY <1>1, <2>2, <3>1, OnlyLate, NotPass
    <3>3. PICK u : u = pass.user
      OBVIOUS
    <3>4. u \in shows
      BY <1>3, <3>2, <3>3 DEF ScriptInv, Shown, SendingScripts
    <3>5. ~WriteCreate
      BY <2>2 DEF PassStep
    <3>6. IF k \in 1..scripts THEN HasScript(u, k) => HasScript(u, k)' ELSE HasScript(u, k)'
      BY <1>1, <3>2, <3>4, <3>5, ScriptsStay
    <3>7. k \in 1..scripts => k <= pass.upto \/ HasScript(u, k)
      BY <3>2, <3>3 DEF ScriptInv, ScriptsInHand
    <3>8. k <= pass'.upto \/ HasScript(u, k)'
      BY <3>2, <3>6, <3>7
    <3> QED
      BY <3>2, <3>3, <3>8 DEF HasScript, OnItsWay, Is
  <2> QED
    BY <2>1, <2>2
<1>9. HoldsScripts'
  <2>1. SUFFICES ASSUME NEW u \in shows', NEW k \in 1..scripts'
                 PROVE  HasScript(u, k)' \/ (pass'.user = u /\ pass'.job \in SendingScripts)
    BY DEF HoldsScripts, HasScript, SendingScripts
  <2>2. u \in Viewers
    BY <1>1 DEF TypeOK, StateOK
  <2>3. CASE WriteCreate /\ u = pass.user
    BY <1>4, <2>3 DEF SendingScripts
  <2>4. CASE ~(WriteCreate /\ u = pass.user)
    <3>1. u \in shows
      <4>1. CASE PassStep
        BY <1>4, <1>6, <2>4, <4>1 DEF Delete
      <4>2. CASE ~PassStep
        BY <1>1, <4>2, OnlyLate, NotPass
      <4> QED
        BY <4>1, <4>2
    <3>2. IF k \in 1..scripts THEN HasScript(u, k) => HasScript(u, k)' ELSE HasScript(u, k)'
      BY <1>1, <2>4, <3>1, ScriptsStay
    <3>3. CASE k \in 1..scripts
      <4>1. HasScript(u, k) \/ (pass.user = u /\ pass.job \in SendingScripts)
        BY <3>1, <3>3 DEF ScriptInv, HoldsScripts, HasScript, SendingScripts
      <4>2. CASE pass.user = u /\ pass.job \in SendingScripts
        <5>1. pass.phase = "local"
          BY <1>2, <2>2, <4>2 DEF SendingScripts
        <5>2. CASE SendScripts
          <6>1. /\ pass.job = "send_scripts"
                /\ held' = [held EXCEPT ![pass.user] = @ \cup 1..pass.upto]
            BY <5>2 DEF SendScripts, At
          <6>2. HasScript(u, k) \/ k <= pass.upto
            BY <3>3, <4>2, <6>1 DEF ScriptInv, ScriptsInHand
          <6>3. k <= pass.upto => k \in held'[u]
            BY <1>1, <2>2, <3>3, <4>2, <6>1, SMT DEF TypeOK, StateOK, PassOK, PassRecords
          <6> QED
            BY <3>2, <3>3, <6>2, <6>3 DEF HasScript
        <5>3. CASE PassStep /\ ~SendScripts
          BY <1>1, <4>2, <5>1, <5>3, ScriptsJobs
        <5>4. CASE ~PassStep
          BY <1>1, <4>2, <5>4, OnlyLate, NotPass
        <5> QED
          BY <5>2, <5>3, <5>4
      <4> QED
        BY <3>2, <3>3, <4>1, <4>2
    <3> QED
      BY <3>2, <3>3
  <2> QED
    BY <2>3, <2>4
<1> QED
  BY <1>1, <1>7, <1>8, <1>9 DEF ScriptInv

\* A client that shows the pilot has every script that was not registered while the pilot did
\* not have it around, or is about to get it: send_scripts lists them after create_client
\* (client_updater.cpp:86-88), registerScript adds before it sends (user.cpp:16-25).
THEOREM ViewersHoldScripts == Spec => []HoldsScripts
<1>1. Init => ScriptInv
  <2>1. Init => TypeOK
    BY TypesAtFirst
  <2>2. Init => pass.phase = "idle" /\ pass.job = "none" /\ shows = {}
    BY SMT DEF Init, Resting
  <2> QED
    BY <2>1, <2>2 DEF ScriptInv, Shown, ScriptsInHand, HoldsScripts
<1>2. ScriptInv /\ [Next]_vars => ScriptInv'
  BY ScriptsKept
<1> QED
  BY <1>1, <1>2, PTL DEF Spec, ScriptInv
-----------------------------------------------------------------------------
(* The flight plan.  A viewer is covered when an excuse holds or a packet   *)
(* with the plan as it is then is still to be assembled for it.  One that   *)
(* is not has the plan, and every packet that is being assembled for it has *)
(* it too, or will be known to be late.                                     *)

Reading    == {"read_cycle", "read_body", "write_plan"}
Excused(u) == <<u, "plan">> \in missed \cup overtaken \/ Editing \/ raced
Due(u)     == pass.phase = "queues" /\ (<<Pilot, u>> \in pass.todo \/ pass.other = u)
Covered(u) == Excused(u) \/ Due(u) \/ (pass.phase # "queues" /\ (queued \/ Giving(u)))

\* Before the first edit there is nothing to read, to queue or to send.
NoPlanYet ==
  plan.cycle = 0 =>
    /\ plan = NoPlan /\ ~Editing /\ ~queued /\ pass.job \notin Reading
    /\ \A u \in Viewers : strip[u] = NoPlan /\ handler[u].job \notin Reading

QueuesQueued == pass.phase = "queues" => queued

StripOK(u) == strip[u] = plan \/ Covered(u)

ReplyOK(u) ==
  /\ handler[u].job = "write_plan" => handler[u].packet = plan \/ handler[u].late # {} \/ Covered(u)
  /\ handler[u].job = "read_body" =>
       handler[u].packet.cycle = plan.cycle \/ handler[u].late # {} \/ Covered(u)

Replied == \A u \in shows : StripOK(u) /\ ReplyOK(u)

PassExcused(u) == Excused(u) \/ pass.late # {} \/ (pass.phase = "local" /\ queued)

PacketCovered ==
  /\ pass.job = "write_plan" => pass.packet = plan \/ PassExcused(PlanFor)
  /\ pass.job = "read_body" => pass.packet.cycle = plan.cycle \/ PassExcused(PlanFor)

Rest    == QueuesQueued /\ NoPlanYet /\ Replied /\ PacketCovered
PlanInv == TypeOK /\ Rest

-----------------------------------------------------------------------------
(* What each step does to the handlers.                                     *)

LEMMA EditingHandlers ==
  ASSUME TypeOK, NEW u \in Users
  PROVE  /\ SetCycle(u) => handler'[u].job = "set_body"
         /\ SetBody(u) => handler[u].job = "set_body" /\ handler'[u].job = "queue"
         /\ SetQueue(u) => handler[u].job = "queue" /\ handler'[u] = Free
         /\ SetCycle(u) \/ SetBody(u) \/ SetQueue(u) => \A v \in Users \ {u} : handler'[v] = handler[v]
<1>1. handler \in [Users -> HandlerRecords]
  BY PilotHandler
<1>2. SetCycle(u) => handler'[u].job = "set_body"
  BY <1>1, SMT DEF SetCycle, HandlerRecords
<1>3. SetBody(u) => handler'[u].job = "queue"
  BY <1>1, SMT DEF SetBody, HandlerRecords
<1>4. SetQueue(u) => handler'[u] = Free
  BY <1>1, SMT DEF SetQueue
<1>5. SetCycle(u) \/ SetBody(u) \/ SetQueue(u) => \A v \in Users \ {u} : handler'[v] = handler[v]
  BY <1>1, SMT DEF SetCycle, SetBody, SetQueue
<1> QED
  BY <1>2, <1>3, <1>4, <1>5 DEF SetBody, SetQueue, Is

LEMMA RepliesHandlers ==
  ASSUME TypeOK, NEW u \in Users
  PROVE  /\ Request(u) => handler[u].job = "none" /\ handler'[u].job = "read_cycle"
         /\ ReplyReadCycle(u) => /\ handler[u].job = "read_cycle" /\ handler'[u].job = "read_body"
                                 /\ handler'[u].packet.cycle = plan.cycle
         /\ ReplyReadBody(u) => /\ handler[u].job = "read_body" /\ handler'[u].job = "write_plan"
                                /\ handler'[u].packet.cycle = handler[u].packet.cycle
                                /\ handler'[u].packet.body = plan.body
                                /\ handler'[u].late = handler[u].late
         /\ ReplyWrite(u) => handler[u].job = "write_plan" /\ handler'[u] = Free
         /\ Request(u) \/ ReplyReadCycle(u) \/ ReplyReadBody(u) \/ ReplyWrite(u)
              => \A v \in Users \ {u} : handler'[v] = handler[v]
<1>1. handler \in [Users -> HandlerRecords]
  BY PilotHandler
<1>2. Request(u) => handler'[u].job = "read_cycle"
  BY <1>1, SMT DEF Request, HandlerRecords
<1>3. ReplyReadCycle(u) => handler'[u].job = "read_body" /\ handler'[u].packet.cycle = plan.cycle
  BY <1>1, SMT DEF ReplyReadCycle, HandlerRecords, Plans
<1>4. ReplyReadBody(u) => /\ handler'[u].job = "write_plan"
                                /\ handler'[u].packet.cycle = handler[u].packet.cycle
                                /\ handler'[u].packet.body = plan.body
                                /\ handler'[u].late = handler[u].late
  BY <1>1, SMT DEF ReplyReadBody, HandlerRecords, Plans
<1>5. ReplyWrite(u) => handler'[u] = Free
  BY <1>1, SMT DEF ReplyWrite
<1>6. Request(u) \/ ReplyReadCycle(u) => \A v \in Users \ {u} : handler'[v] = handler[v]
  BY <1>1, SMT DEF Request, ReplyReadCycle
<1>7. ReplyReadBody(u) \/ ReplyWrite(u) => \A v \in Users \ {u} : handler'[v] = handler[v]
  BY <1>1, SMT DEF ReplyReadBody, ReplyWrite
<1> QED
  BY <1>2, <1>3, <1>4, <1>5, <1>6, <1>7 DEF Request, ReplyReadCycle, ReplyReadBody, ReplyWrite, Is

NewsStep == (\E f \in Fields : SetField(f)) \/ RegisterScript \/ Announcing

LEMMA NewsHandlers ==
  ASSUME TypeOK, NewsStep
  PROVE  /\ handler[Pilot].job \in {"none", "announce", "iterate"}
         /\ handler'[Pilot].job \in {"none", "announce", "iterate"}
         /\ \A v \in Viewers : handler'[v] = handler[v]
<1>1. handler \in [Users -> HandlerRecords]
  BY PilotHandler
<1>2. ASSUME NEW f \in Fields, SetField(f)
      PROVE  /\ handler[Pilot].job \in {"none", "announce", "iterate"}
             /\ handler'[Pilot].job \in {"none", "announce", "iterate"}
             /\ \A v \in Viewers : handler'[v] = handler[v]
  <2>1. handler[Pilot].job = "none"
    BY <1>2 DEF SetField, Is
  <2>2. handler'[Pilot].job = "announce"
    BY <1>1, <1>2, SMT DEF SetField, HandlerRecords
  <2>3. \A v \in Viewers : handler'[v] = handler[v]
    BY <1>1, <1>2, SMT DEF SetField
  <2> QED
    BY <2>1, <2>2, <2>3
<1>3. CASE RegisterScript
  <2>1. handler[Pilot].job = "none"
    BY <1>3 DEF RegisterScript, Is
  <2>2. handler'[Pilot].job = "announce"
    BY <1>1, <1>3, SMT DEF RegisterScript, HandlerRecords
  <2>3. \A v \in Viewers : handler'[v] = handler[v]
    BY <1>1, <1>3, SMT DEF RegisterScript
  <2> QED
    BY <2>1, <2>2, <2>3
<1>4. CASE BeginIterating
  <2>1. handler[Pilot].job = "announce"
    BY <1>4 DEF BeginIterating, Is
  <2>2. handler'[Pilot].job = "iterate"
    BY <1>1, <1>4, SMT DEF BeginIterating, HandlerRecords
  <2>3. \A v \in Viewers : handler'[v] = handler[v]
    BY <1>1, <1>4, SMT DEF BeginIterating
  <2> QED
    BY <2>1, <2>2, <2>3
<1>5. CASE SendNews
  <2>1. handler[Pilot].job = "iterate"
    BY <1>5 DEF SendNews, Is
  <2>2. handler'[Pilot].job = "iterate"
    BY <1>1, <1>5, <2>1, SMT DEF SendNews, HandlerRecords
  <2>3. \A v \in Viewers : handler'[v] = handler[v]
    BY <1>1, <1>5, SMT DEF SendNews
  <2> QED
    BY <2>1, <2>2, <2>3
<1>6. CASE EndIterating
  <2>1. handler[Pilot].job = "iterate"
    BY <1>6 DEF EndIterating, Is
  <2>2. handler'[Pilot] = Free
    BY <1>1, <1>6, SMT DEF EndIterating
  <2>3. \A v \in Viewers : handler'[v] = handler[v]
    BY <1>1, <1>6, SMT DEF EndIterating
  <2> QED
    BY <2>1, <2>2, <2>3, FreeIsHandler
<1> QED
  BY <1>2, <1>3, <1>4, <1>5, <1>6 DEF NewsStep, Announcing

LEMMA WritePlanHandlers ==
  ASSUME TypeOK, WritePlan
  PROVE  /\ \A v \in Users \ {PlanFor} : handler'[v] = handler[v]
         /\ handler'[PlanFor].job = handler[PlanFor].job
         /\ handler'[PlanFor].packet = handler[PlanFor].packet
         /\ handler[PlanFor].job \in BeingRead => handler'[PlanFor].late = {"plan"}
<1>1. handler \in [Users -> HandlerRecords]
  BY PilotHandler
<1>2. PICK u : u = PlanFor
  OBVIOUS
<1>3. u \in Viewers
  BY <1>2, PlanForViewer
<1>4. handler' = [handler EXCEPT ![u].late = IF handler[u].job \in BeingRead THEN {"plan"} ELSE @]
  BY <1>2 DEF WritePlan
<1>5. \A v \in Users \ {u} : handler'[v] = handler[v]
  BY <1>1, <1>3, <1>4, SMT
<1>6. /\ handler'[u].job = handler[u].job
      /\ handler'[u].packet = handler[u].packet
      /\ handler[u].job \in BeingRead => handler'[u].late = {"plan"}
  BY <1>1, <1>3, <1>4, SMT DEF HandlerRecords
<1> QED
  BY <1>2, <1>5, <1>6

LEMMA EditingStays ==
  ASSUME TypeOK, NEW u \in Users, \A v \in Users \ {u} : handler'[v] = handler[v],
         handler[u].job \notin {"set_body", "queue"}, handler'[u].job \notin {"set_body", "queue"}
  PROVE  Editing' <=> Editing
  BY SMT DEF Editing

-----------------------------------------------------------------------------
(* Handlers: what changes the plan excuses everyone, and so does the flag    *)
(* that follows; a reply that is not the last plan is known to be late.      *)

LEMMA PlanQuiet ==
  ASSUME PlanInv, UNCHANGED <<plan, queued, strip, shows, raced>>, Editing' <=> Editing,
         pass'.job = pass.job, pass'.phase = pass.phase, pass'.user = pass.user,
         pass'.other = pass.other, pass'.todo = pass.todo, pass'.packet = pass.packet,
         pass.late \subseteq pass'.late,
         \A u \in Viewers :
           <<u, "plan">> \in missed \cup overtaken => <<u, "plan">> \in missed' \cup overtaken',
         \A u \in Viewers :
           \/ handler'[u] = handler[u]
           \/ handler'[u].job = "none"
           \/ handler'[u].job = "read_cycle" /\ plan.cycle # 0
           \/ handler'[u].job = "read_body" /\ handler'[u].packet.cycle = plan.cycle /\ plan.cycle # 0
           \/ /\ handler'[u].job = "write_plan" /\ handler[u].job = "read_body"
              /\ handler'[u].late = handler[u].late
              /\ handler[u].packet.cycle = plan.cycle => handler'[u].packet = plan
  PROVE  Rest'
<1> USE DEF PlanInv, Rest
<1>1. \A u \in Viewers : Excused(u) => Excused(u)'
  BY DEF Excused
<1>2. \A u \in Viewers : Covered(u) => Covered(u)'
  BY <1>1 DEF Covered, Due, Giving
<1>3. QueuesQueued'
  BY DEF QueuesQueued
<1>4. NoPlanYet'
  BY SMT DEF NoPlanYet, Reading
<1>5. Replied'
  <2>1. SUFFICES ASSUME NEW u \in shows' PROVE StripOK(u)' /\ ReplyOK(u)'
    BY DEF Replied
  <2>2. u \in Viewers /\ StripOK(u) /\ ReplyOK(u)
    BY DEF Replied, TypeOK, StateOK
  <2>3. StripOK(u)'
    BY <1>2, <2>2 DEF StripOK
  <2>4. ReplyOK(u)'
    BY <1>2, <2>2 DEF ReplyOK
  <2> QED
    BY <2>3, <2>4
<1>6. PacketCovered'
  <2>1. PlanFor' = PlanFor
    BY DEF PlanFor
  <2>2. pass.job \in {"write_plan", "read_body"} => PlanFor \in Viewers
    BY SMT DEF PlanFor, TypeOK, PassOK, Resting
  <2>3. PlanFor \in Viewers /\ PassExcused(PlanFor) => PassExcused(PlanFor)'
    <3>1. ASSUME NEW u \in Viewers, PassExcused(u) PROVE PassExcused(u)'
      BY <1>1, <3>1 DEF PassExcused
    <3>2. PICK u : u = PlanFor
      OBVIOUS
    <3>3. u \in Viewers /\ PassExcused(u) => PassExcused(u)'
      BY <3>1
    <3> QED
      BY <2>1, <3>2, <3>3 DEF PassExcused, Excused
  <2> QED
    BY <2>1, <2>2, <2>3 DEF PacketCovered
<1> QED
  BY <1>3, <1>4, <1>5, <1>6

LEMMA PlanEdited ==
  ASSUME PlanInv, NEW e \in Users, SetCycle(e) \/ SetBody(e)
  PROVE  Rest'
<1> USE DEF PlanInv, Rest
<1>1. Editing'
  BY EditingHandlers DEF Editing
<1>2. \A u \in Viewers : Covered(u)'
  BY <1>1 DEF Covered, Excused
<1>3. UNCHANGED <<queued, pass, strip, shows>>
  BY DEF SetCycle, SetBody
<1>4. QueuesQueued'
  BY <1>3 DEF QueuesQueued
<1>5. plan'.cycle # 0
  <2>1. CASE SetCycle(e)
    BY <2>1, SMT DEF SetCycle, TypeOK, StateOK, Plans
  <2>2. CASE SetBody(e)
    <3>1. Editing
      BY <2>2, EditingHandlers DEF Editing
    <3>2. plan'.cycle = plan.cycle
      BY <2>2, SMT DEF SetBody, TypeOK, StateOK, Plans
    <3> QED
      BY <3>1, <3>2 DEF NoPlanYet
  <2> QED
    BY <2>1, <2>2
<1>6. Replied'
  BY <1>2, <1>3 DEF Replied, StripOK, ReplyOK, TypeOK, StateOK
<1>7. PacketCovered'
  BY <1>1 DEF PacketCovered, PassExcused, Excused
<1> QED
  BY <1>4, <1>5, <1>6, <1>7 DEF NoPlanYet

LEMMA PlanQueued ==
  ASSUME PlanInv, NEW e \in Users, SetQueue(e)
  PROVE  Rest'
<1> USE DEF PlanInv, Rest
<1>1. /\ queued' = TRUE /\ raced' = (raced \/ pass.phase = "queues")
      /\ UNCHANGED <<plan, strip, shows, pass>>
  BY DEF SetQueue
<1>2. \A u \in Viewers : Covered(u)'
  BY <1>1 DEF Covered, Excused
<1>3. QueuesQueued'
  BY <1>1 DEF QueuesQueued
<1>4. plan'.cycle # 0
  <2>1. Editing
    BY EditingHandlers DEF Editing
  <2> QED
    BY <1>1, <2>1 DEF NoPlanYet
<1>5. Replied'
  BY <1>1, <1>2 DEF Replied, StripOK, ReplyOK, TypeOK, StateOK
<1>6. PacketCovered'
  <2>1. pass.job # "none" => pass.phase \in {"local", "queues"}
    BY SMT DEF TypeOK, PassOK, PassRecords, Resting
  <2> QED
    BY <1>1, <2>1 DEF PacketCovered, PassExcused, Excused
<1> QED
  BY <1>3, <1>4, <1>5, <1>6 DEF NoPlanYet

LEMMA PlanNews ==
  ASSUME PlanInv, NewsStep
  PROVE  Rest'
<1> USE DEF PlanInv
<1>1. UNCHANGED <<plan, queued, strip, shows, raced>>
  BY DEF NewsStep, Announcing, SetField, RegisterScript, BeginIterating, SendNews, EndIterating
<1>2. Editing' <=> Editing
  BY NewsHandlers, EditingStays, SMT
<1>3. \A u \in Viewers : handler'[u] = handler[u]
  BY NewsHandlers
<1>4. \A u \in Viewers :
        <<u, "plan">> \in missed \cup overtaken => <<u, "plan">> \in missed' \cup overtaken'
  <2>1. ASSUME NEW f \in Fields, SetField(f) PROVE UNCHANGED <<missed, overtaken>>
    BY <2>1 DEF SetField
  <2>2. CASE RegisterScript \/ EndIterating
    BY <2>2 DEF RegisterScript, EndIterating
  <2>3. CASE BeginIterating
    BY <2>3 DEF BeginIterating
  <2>4. CASE SendNews
    <3>1. handler[Pilot].topic # "plan"
      BY PilotHandler, SMT
    <3>2. \/ UNCHANGED <<missed, overtaken>>
          \/ \E v : /\ missed' = missed \ {<<v, handler[Pilot].topic>>}
                    /\ overtaken' = overtaken \ {<<v, handler[Pilot].topic>>}
      BY <2>4, Zenon DEF SendNews
    <3> QED
      BY <3>1, <3>2
  <2> QED
    BY <2>1, <2>2, <2>3, <2>4 DEF NewsStep, Announcing
<1>5. Handling
  BY DEF NewsStep, Handling
<1> QED
  BY <1>1, <1>2, <1>3, <1>4, <1>5, OnlyLate, PlanQuiet

LEMMA PlanAsked ==
  ASSUME PlanInv, NEW e \in Viewers, Request(e) \/ ReplyReadCycle(e) \/ ReplyReadBody(e)
  PROVE  Rest'
<1> USE DEF PlanInv
<1>1. UNCHANGED <<plan, queued, strip, shows, raced, missed, overtaken, pass>>
  BY DEF Request, ReplyReadCycle, ReplyReadBody
<1>2. \A v \in Users \ {e} : handler'[v] = handler[v]
  BY RepliesHandlers
<1>3. Editing' <=> Editing
  BY <1>2, RepliesHandlers, EditingStays, SMT
<1>4. handler[e] \in HandlerRecords
  BY PilotHandler
<1>5. \/ handler'[e].job = "read_cycle" /\ plan.cycle # 0
      \/ handler'[e].job = "read_body" /\ handler'[e].packet.cycle = plan.cycle /\ plan.cycle # 0
      \/ /\ handler'[e].job = "write_plan" /\ handler[e].job = "read_body"
         /\ handler'[e].late = handler[e].late
         /\ handler[e].packet.cycle = plan.cycle => handler'[e].packet = plan
  <2>1. CASE Request(e)
    <3>1. plan.cycle # 0
      BY <2>1, SMT DEF Request, TypeOK, StateOK, Plans
    <3> QED
      BY <2>1, <3>1, RepliesHandlers
  <2>2. CASE ReplyReadCycle(e)
    BY <2>2, RepliesHandlers DEF Rest, NoPlanYet, Reading
  <2>3. CASE ReplyReadBody(e)
    <3>1. handler' \in [Users -> HandlerRecords]
      BY TypesKept, <2>3 DEF TypeOK, HandlerOK, Next, HandlerStep
    <3>2. handler'[e].packet \in Plans /\ plan \in Plans
      BY <3>1, SMT DEF HandlerRecords, TypeOK, StateOK
    <3>3. handler[e].packet.cycle = plan.cycle => handler'[e].packet = plan
      BY <2>3, <3>2, RepliesHandlers, SMT DEF Plans
    <3> QED
      BY <2>3, <3>3, RepliesHandlers
  <2> QED
    BY <2>1, <2>2, <2>3
<1> QED
  BY <1>1, <1>2, <1>3, <1>5, PlanQuiet

LEMMA PlanReplied ==
  ASSUME PlanInv, NEW e \in Viewers, ReplyWrite(e)
  PROVE  Rest'
<1> USE DEF PlanInv, Rest
<1> DEFINE packet == handler[e].packet
<1>1. /\ UNCHANGED <<plan, queued, shows, raced>>
      /\ strip' = [strip EXCEPT ![e] = IF e \in shows THEN packet ELSE @]
      /\ packet = plan => missed' = missed \ {<<e, "plan">>} /\ overtaken' = overtaken \ {<<e, "plan">>}
      /\ packet # plan => /\ missed' = missed /\ overtaken \subseteq overtaken'
                          /\ handler[e].late # {} => <<e, "plan">> \in overtaken'
  BY DEF ReplyWrite, Receive
<1>2. /\ handler[e].job = "write_plan" /\ handler'[e] = Free 
      /\ \A v \in Users \ {e} : handler'[v] = handler[v]
  BY RepliesHandlers
<1>3. Editing' <=> Editing
  BY <1>2, FreeIsHandler, EditingStays, SMT
<1>4. /\ pass'.job = pass.job /\ pass'.phase = pass.phase /\ pass'.user = pass.user
      /\ pass'.other = pass.other /\ pass'.todo = pass.todo /\ pass'.packet = pass.packet
      /\ pass.late \subseteq pass'.late
  BY OnlyLate DEF Handling, HandlerStep
<1>5. \A u \in Viewers : (u # e \/ packet # plan) => (Excused(u) => Excused(u)')
  BY <1>1, <1>3 DEF Excused
<1>6. \A u \in Viewers : (u # e \/ packet # plan) => (Covered(u) => Covered(u)')
  BY <1>1, <1>4, <1>5 DEF Covered, Due, Giving
<1>7. QueuesQueued'
  BY <1>1, <1>4 DEF QueuesQueued
<1>8. plan.cycle # 0
  BY <1>2 DEF NoPlanYet, Reading
<1>9. Replied'
  <2>1. SUFFICES ASSUME NEW u \in shows' PROVE StripOK(u)' /\ ReplyOK(u)'
    BY DEF Replied
  <2>2. u \in Viewers /\ u \in shows /\ StripOK(u) /\ ReplyOK(u)
    BY <1>1 DEF Replied, TypeOK, StateOK
  <2>3. CASE u # e
    <3>1. strip'[u] = strip[u] /\ handler'[u] = handler[u]
      BY <1>1, <1>2, <2>2, <2>3, SMT DEF TypeOK, StateOK
    <3> QED
      BY <1>1, <1>6, <2>2, <2>3, <3>1 DEF StripOK, ReplyOK
  <2>4. CASE u = e
    <3>1. strip'[u] = packet
      BY <1>1, <2>2, <2>4, SMT DEF TypeOK, StateOK
    <3>2. packet = plan \/ handler[e].late # {} \/ Covered(e)
      BY <1>2, <2>2, <2>4 DEF ReplyOK
    <3>3. handler[e].late # {} /\ packet # plan => Covered(u)'
      BY <1>1, <2>4 DEF Covered, Excused
    <3>4. StripOK(u)'
      BY <1>1, <1>6, <2>4, <3>1, <3>2, <3>3 DEF StripOK
    <3>5. ReplyOK(u)'
      BY <1>2, <2>4, FreeIsHandler DEF ReplyOK
    <3> QED
      BY <3>4, <3>5
  <2> QED
    BY <2>3, <2>4
<1>10. PacketCovered'
  <2>1. PICK u : u = PlanFor
    OBVIOUS
  <2>2. PlanFor' = u
    BY <1>4, <2>1 DEF PlanFor
  <2>3. SUFFICES ASSUME pass.job \in BeingRead
                 PROVE  PacketCovered'
    BY <1>4 DEF PacketCovered, BeingRead
  <2>4. u \in Viewers
    BY <2>1, <2>3, SMT DEF PlanFor, TypeOK, PassOK, Resting, BeingRead
  <2>5. CASE u = e
    <3>1. pass'.late # {}
      BY <2>1, <2>3, <2>5, SMT DEF ReplyWrite, TypeOK, PassOK, PassRecords
    <3> QED
      BY <3>1 DEF PacketCovered, PassExcused
  <2>6. CASE u # e
    <3>1. PassExcused(u) => PassExcused(u)'
      BY <1>1, <1>4, <1>5, <2>4, <2>6 DEF PassExcused
    <3> QED
      BY <1>1, <1>4, <2>1, <2>2, <3>1 DEF PacketCovered, PassExcused, Excused
  <2> QED
    BY <2>5, <2>6
<1> QED
  BY <1>1, <1>7, <1>8, <1>9, <1>10 DEF NoPlanYet

LEMMA PlanDelivered ==
  ASSUME PlanInv, WritePlan
  PROVE  Rest'
<1> USE DEF PlanInv, Rest
<1> DEFINE packet == pass.packet
<1>1. PICK e : e = PlanFor
  OBVIOUS
<1>2. e \in Viewers
  BY <1>1, PlanForViewer
<1>3. /\ UNCHANGED <<plan, queued, shows, raced>> /\ pass.job = "write_plan"
      /\ strip' = [strip EXCEPT ![e] = IF e \in shows THEN packet ELSE @]
      /\ packet = plan => missed' = missed \ {<<e, "plan">>} /\ overtaken' = overtaken \ {<<e, "plan">>}
      /\ packet # plan => /\ missed' = missed /\ overtaken \subseteq overtaken'
                          /\ pass.late # {} => <<e, "plan">> \in overtaken'
  BY <1>1 DEF WritePlan, Receive, At
<1>4. /\ handler'[e].job = handler[e].job /\ handler'[e].packet = handler[e].packet
      /\ handler[e].job \in BeingRead => handler'[e].late = {"plan"}
      /\ \A v \in Users \ {e} : handler'[v] = handler[v]
  BY <1>1, WritePlanHandlers
<1>5. Editing' <=> Editing
  BY <1>4, SMT DEF Editing
<1>6. /\ pass'.job \in {"scripts", "none"} /\ pass'.phase = pass.phase /\ pass'.todo = pass.todo
      /\ pass.phase \in {"local", "queues"}
      /\ e = IF pass.phase = "local" THEN pass.user ELSE pass.other
  BY <1>1, SMT DEF WritePlan, At, PlanFor, TypeOK, PassOK, PassRecords, Resting
<1>7. \A u \in Viewers : (u # e \/ packet # plan) => (Excused(u) => Excused(u)')
  BY <1>3, <1>5 DEF Excused
<1>8. \A u \in Viewers \ {e} : Covered(u) => Covered(u)'
  BY <1>3, <1>6, <1>7 DEF Covered, Due, Giving
<1>9. QueuesQueued'
  BY <1>3, <1>6 DEF QueuesQueued
<1>10. plan.cycle # 0
  BY <1>3 DEF NoPlanYet, Reading
<1>11. Replied'
  <2>1. SUFFICES ASSUME NEW u \in shows' PROVE StripOK(u)' /\ ReplyOK(u)'
    BY DEF Replied
  <2>2. u \in Viewers /\ u \in shows /\ StripOK(u) /\ ReplyOK(u)
    BY <1>3 DEF Replied, TypeOK, StateOK
  <2>3. CASE u # e
    <3>1. strip'[u] = strip[u] /\ handler'[u] = handler[u]
      BY <1>3, <1>4, <2>2, <2>3, SMT DEF TypeOK, StateOK
    <3> QED
      BY <1>3, <1>8, <2>2, <2>3, <3>1 DEF StripOK, ReplyOK
  <2>4. CASE u = e
    <3>1. strip'[u] = packet
      BY <1>3, <2>2, <2>4, SMT DEF TypeOK, StateOK
    <3>2. packet = plan \/ PassExcused(e)
      BY <1>1, <1>3 DEF PacketCovered, PassExcused, Excused
    <3>3. pass.late # {} /\ packet # plan => Covered(u)'
      BY <1>3, <2>4 DEF Covered, Excused
    <3>4. Excused(e) /\ packet # plan => Covered(u)'
      BY <1>7, <2>2, <2>4 DEF Covered
    <3>5. pass.phase = "local" /\ queued => Covered(u)'
      BY <1>3, <1>6 DEF Covered
    <3>6. StripOK(u)'
      BY <1>3, <3>1, <3>2, <3>3, <3>4, <3>5 DEF StripOK, PassExcused
    <3>7. ReplyOK(u)'
      BY <1>4, <2>4 DEF ReplyOK, BeingRead
    <3> QED
      BY <3>6, <3>7
  <2> QED
    BY <2>3, <2>4
<1>12. PacketCovered'
  BY <1>6 DEF PacketCovered
<1> QED
  BY <1>3, <1>9, <1>10, <1>11, <1>12 DEF NoPlanYet

-----------------------------------------------------------------------------
(* The pass: it covers whom it creates the pilot for, and whom the queue is  *)
(* due to; whoever is not among them is marked as having missed the plan.    *)

LEMMA PassPlans ==
  ASSUME PlanInv, UNCHANGED <<plan, handler>>, queued' => queued, QueuesQueued', PacketCovered',
         plan.cycle = 0 => /\ pass'.job \notin Reading
                           /\ \A u \in Viewers : strip'[u] \in {strip[u], NoPlan},
         \A u \in shows' :
           \/ Covered(u)'
           \/ u \in shows /\ strip'[u] = strip[u] /\ ~Covered(u)
           \/ plan = NoPlan /\ strip'[u] = NoPlan /\ handler[u].job \notin Reading
  PROVE  Rest'
<1> USE DEF PlanInv, Rest
<1>1. Editing' <=> Editing
  BY DEF Editing
<1>2. NoPlanYet'
  BY <1>1, SMT DEF NoPlanYet
<1>3. Replied'
  <2>1. SUFFICES ASSUME NEW u \in shows' PROVE StripOK(u)' /\ ReplyOK(u)'
    BY DEF Replied
  <2>2. CASE Covered(u)'
    BY <2>2 DEF StripOK, ReplyOK
  <2>3. CASE u \in shows /\ strip'[u] = strip[u] /\ ~Covered(u)
    BY <2>3 DEF Replied, StripOK, ReplyOK
  <2>4. CASE plan = NoPlan /\ strip'[u] = NoPlan /\ handler[u].job \notin Reading
    BY <2>4 DEF StripOK, ReplyOK, Reading
  <2> QED
    BY <2>2, <2>3, <2>4
<1> QED
  BY <1>2, <1>3

LEMMA PassBetween ==
  ASSUME PlanInv, UNCHANGED <<plan, handler, queued, strip, shows, raced, missed, overtaken>>,
         pass.phase # "queues", pass'.phase # "queues", pass.job \notin Reading, pass'.job \notin Reading,
         pass.job = "plan" => pass'.job = "plan" /\ pass'.user = pass.user
  PROVE  Rest'
<1>1. Editing' <=> Editing
  BY DEF Editing
<1>2. \A u \in Viewers : Covered(u) => Covered(u)'
  BY <1>1 DEF Covered, Due, Excused, Giving, Reading
<1>3. QueuesQueued' /\ PacketCovered'
  BY DEF QueuesQueued, PacketCovered, Reading
<1>4. \A u \in shows : u \in Viewers
  BY DEF PlanInv, TypeOK, StateOK
<1> QED
  BY <1>2, <1>3, <1>4, PassPlans

LEMMA PlanPassed ==
  ASSUME PlanInv, PassStep
  PROVE  Rest'
<1> USE DEF PlanInv
<1>1. pass \in PassRecords /\ \A u \in shows : u \in Viewers
  BY DEF TypeOK, StateOK, PassOK
<1>2. handler' = handler => (Editing' <=> Editing)
  BY DEF Editing
<1>3. /\ pass.phase = "idle" => pass.job = "none"
      /\ pass.phase = "queues" => pass.job \in {"none"} \cup Reading
      /\ pass.job = "none" => pass.user = NoOne /\ pass.other = NoOne
  BY SMT DEF TypeOK, PassOK, Resting, Reading
<1>4. CASE BeginPass
  <2>1. /\ UNCHANGED <<plan, handler, queued, strip, shows, raced, missed, overtaken>>
        /\ pass.phase = "idle"
    BY <1>4 DEF BeginPass
  <2>2. PICK T : pass' = [pass EXCEPT !.phase = "local", !.todo = T]
    BY <1>4, Zenon DEF BeginPass
  <2>3. pass'.phase = "local" /\ pass'.job = "none"
    BY <1>1, <1>3, <2>1, <2>2, SMT DEF PassRecords
  <2> QED
    BY <1>3, <2>1, <2>3, PassBetween DEF Reading
<1>5. CASE Examine
  <2>1. /\ UNCHANGED <<plan, handler, queued, strip, shows, raced, missed, overtaken>>
        /\ pass.phase = "local" /\ pass.job = "none"
    BY <1>5 DEF Examine, At
  <2>2. pass'.phase = "local" /\ pass'.job \in {"emplace", "create", "erase", "delete", "none"}
    BY <1>1, <1>5, SMT DEF Examine, PassRecords
  <2> QED
    BY <2>1, <2>2, PassBetween DEF Reading
<1>6. CASE AssembleCreate \/ GetAllScripts \/ Emplace \/ Erase
  <2>1. /\ UNCHANGED <<plan, handler, queued, strip, shows, raced, missed, overtaken>>
        /\ pass.job \in {"create", "scripts", "emplace", "erase"}
    BY <1>6 DEF AssembleCreate, GetAllScripts, Emplace, Erase, At
  <2>2. pass'.phase = pass.phase /\ pass'.job \in {"write_create", "send_scripts", "none"}
    <3>1. CASE AssembleCreate
      BY <1>1, <3>1, SMT DEF AssembleCreate, PassRecords
    <3>2. CASE GetAllScripts
      BY <1>1, <3>2, SMT DEF GetAllScripts, PassRecords
    <3>3. CASE Emplace
      BY <1>1, <3>3, SMT DEF Emplace, Leave, PassRecords
    <3>4. CASE Erase
      BY <1>1, <3>4, SMT DEF Erase, Leave, PassRecords
    <3> QED
      BY <1>6, <3>1, <3>2, <3>3, <3>4
  <2> QED
    BY <1>3, <2>1, <2>2, PassBetween DEF Reading
<1>7. CASE SendScripts
  <2>1. /\ UNCHANGED <<plan, handler, queued, strip, shows, raced, missed, overtaken>>
        /\ pass.job = "send_scripts"
    BY <1>7 DEF SendScripts, At
  <2>2. pass'.phase = pass.phase /\ pass'.job = "emplace"
    BY <1>1, <1>7, SMT DEF SendScripts, PassRecords
  <2> QED
    BY <1>3, <2>1, <2>2, PassBetween DEF Reading
<1>8. CASE WriteCreate
  <2>0. PICK e : e = pass.user
    OBVIOUS
  <2>1. /\ UNCHANGED <<plan, handler, queued, raced>> /\ pass.job = "write_create"
        /\ shows' = shows \cup {e} /\ strip' = [strip EXCEPT ![e] = NoPlan]
    BY <1>8, <2>0 DEF WriteCreate, At
  <2>2. pass'.phase = pass.phase /\ pass'.job = "plan" /\ pass'.user = e
    BY <1>1, <1>8, <2>0, SMT DEF WriteCreate, PassRecords
  <2>3. e \in Viewers /\ pass.phase = "local"
    BY <2>0, <2>1, SMT DEF TypeOK, PassOK
  <2>4. Covered(e)'
    BY <2>2, <2>3 DEF Covered, Giving
  <2>5. ASSUME NEW u \in shows, u # e
        PROVE  (Covered(u) => Covered(u)') /\ strip'[u] = strip[u]
    <3>1. /\ (<<u, "plan">> \in missed => <<u, "plan">> \in missed')
          /\ (<<u, "plan">> \in overtaken => <<u, "plan">> \in overtaken')
      BY <1>8, <2>0, <2>5, SMT DEF WriteCreate
    <3>2. strip'[u] = strip[u]
      BY <1>1, <2>1, <2>5, SMT DEF TypeOK, StateOK
    <3>3. Excused(u) => Excused(u)'
      BY <1>2, <2>1, <3>1 DEF Excused
    <3>4. ~Giving(u) /\ ~Due(u)
      BY <2>0, <2>3, <2>5 DEF Giving, Due
    <3> QED
      BY <2>1, <2>2, <2>3, <3>2, <3>3, <3>4 DEF Covered
  <2>6. QueuesQueued' /\ PacketCovered'
    BY <2>2, <2>3 DEF QueuesQueued, PacketCovered
  <2>7. \A u \in shows' : Covered(u)' \/ (u \in shows /\ strip'[u] = strip[u] /\ ~Covered(u))
    BY <2>1, <2>4, <2>5
  <2>8. \A u \in Viewers : strip'[u] \in {strip[u], NoPlan}
    BY <2>1, SMT DEF TypeOK, StateOK
  <2> QED
    BY <2>1, <2>2, <2>6, <2>7, <2>8, PassPlans DEF Reading
<1>9. CASE CreateFlightPlan
  <2>1. /\ UNCHANGED <<plan, handler, queued, strip, shows, raced, missed, overtaken>>
        /\ pass.job = "plan"
    BY <1>9 DEF CreateFlightPlan, At
  <2>2. /\ pass'.phase = pass.phase /\ pass'.user = pass.user /\ pass'.other = pass.other
        /\ pass'.job = IF plan.cycle # 0 THEN "read_cycle" ELSE "scripts"
    BY <1>1, <1>9, SMT DEF CreateFlightPlan, Go, PassRecords
  <2>3. pass.phase # "queues"
    BY <1>3, <2>1 DEF Reading
  <2>4. QueuesQueued' /\ PacketCovered'
    BY <2>2, <2>3 DEF QueuesQueued, PacketCovered
  <2>5. CASE plan.cycle # 0
    <3>1. \A u \in Viewers : Covered(u) => Covered(u)'
      BY <1>2, <2>1, <2>2, <2>3, <2>5 DEF Covered, Due, Excused, Giving
    <3> QED
      BY <1>1, <2>1, <2>4, <2>5, <3>1, PassPlans
  <2>6. CASE plan.cycle = 0
    <3>1. plan = NoPlan /\ \A u \in Viewers : strip[u] = NoPlan /\ handler[u].job \notin Reading
      BY <2>6 DEF Rest, NoPlanYet
    <3> QED
      BY <1>1, <2>1, <2>2, <2>4, <2>6, <3>1, PassPlans DEF Reading
  <2> QED
    BY <2>5, <2>6
<1>10. CASE ReadCycle \/ ReadBody
  <2>1. UNCHANGED <<plan, handler, queued, strip, shows, raced, missed, overtaken>>
    BY <1>10 DEF ReadCycle, ReadBody
  <2>2. /\ pass'.phase = pass.phase /\ pass'.user = pass.user /\ pass'.other = pass.other
        /\ pass'.todo = pass.todo /\ pass'.late = pass.late
        /\ \/ pass.job = "read_cycle" /\ pass'.job = "read_body" /\ pass'.packet.cycle = plan.cycle
           \/ /\ pass.job = "read_body" /\ pass'.job = "write_plan"
              /\ pass'.packet.cycle = pass.packet.cycle /\ pass'.packet.body = plan.body
    <3>1. CASE ReadCycle
      BY <1>1, <3>1, SMT DEF ReadCycle, At, PassRecords, Plans
    <3>2. CASE ReadBody
      BY <1>1, <3>2, SMT DEF ReadBody, At, PassRecords, Plans
    <3> QED
      BY <1>10, <3>1, <3>2
  <2>3. \A u : Covered(u) => Covered(u)'
    BY <1>2, <2>1, <2>2 DEF Covered, Due, Excused, Giving
  <2>4. PacketCovered'
    <3>1. PICK u : u = PlanFor
      OBVIOUS
    <3>2. PlanFor' = u
      BY <2>2, <3>1 DEF PlanFor
    <3>3. PassExcused(u) => PassExcused(u)'
      BY <1>2, <2>1, <2>2 DEF PassExcused, Excused
    <3>4. pass.job = "read_body" => pass.packet.cycle = plan.cycle \/ PassExcused(u)
      BY <3>1 DEF Rest, PacketCovered, PassExcused, Excused
    <3>5. pass' \in PassRecords
      BY <1>10, TypesKept DEF TypeOK, PassOK, Next, PassStep
    <3>6. pass.job = "read_body" /\ pass.packet.cycle = plan.cycle => pass'.packet = plan
      <4>1. pass'.packet \in Plans /\ plan \in Plans
        BY <3>5, SMT DEF PassRecords, TypeOK, StateOK
      <4> QED
        BY <2>2, <4>1, SMT DEF Plans
    <3>7. PassExcused(u)' => PassExcused(PlanFor)'
      BY <3>2 DEF PassExcused, Excused
    <3> QED
      BY <2>1, <2>2, <3>3, <3>4, <3>6, <3>7 DEF PacketCovered
  <2>5. plan.cycle # 0
    BY <2>2 DEF Rest, NoPlanYet, Reading
  <2>6. QueuesQueued'
    BY <2>1, <2>2 DEF Rest, QueuesQueued
  <2> QED
    BY <2>1, <2>3, <2>4, <2>5, <2>6, PassPlans
<1>11. CASE WritePlan
  BY <1>11, PlanDelivered
<1>12. CASE Delete
  <2>0. PICK e : e = pass.user
    OBVIOUS
  <2>1. /\ UNCHANGED <<plan, handler, queued, raced, missed, overtaken>> /\ pass.job = "delete"
        /\ shows' = shows \ {e} /\ strip' = [strip EXCEPT ![e] = NoPlan]
    BY <1>12, <2>0 DEF Delete, At
  <2>2. pass'.phase = pass.phase /\ pass'.job = "erase"
    BY <1>1, <1>12, SMT DEF Delete, Go, PassRecords
  <2>3. pass.phase # "queues"
    BY <1>3, <2>1 DEF Reading
  <2>4. \A u \in shows' : (Covered(u) => Covered(u)') /\ strip'[u] = strip[u] /\ u \in shows
    <3>1. \A u \in shows' : u \in shows /\ u # e
      BY <2>1
    <3>2. \A u \in shows' : strip'[u] = strip[u]
      BY <1>1, <2>1, <3>1, SMT DEF TypeOK, StateOK
    <3>3. \A u \in shows' : Covered(u) => Covered(u)'
      BY <1>2, <2>1, <2>2, <2>3 DEF Covered, Due, Excused, Giving
    <3> QED
      BY <3>1, <3>2, <3>3
  <2>5. \A u \in Viewers : strip'[u] \in {strip[u], NoPlan}
    BY <2>1, SMT DEF TypeOK, StateOK
  <2>6. QueuesQueued' /\ PacketCovered'
    BY <2>2, <2>3 DEF QueuesQueued, PacketCovered
  <2> QED
    BY <2>1, <2>2, <2>4, <2>5, <2>6, PassPlans DEF Reading
<1>13. CASE TestQueue
  <2> DEFINE to == local_users[Pilot] \cap Audience("plan")
  <2>1. /\ UNCHANGED <<plan, handler, queued, strip, shows>> /\ pass.phase = "local"
        /\ pass.job = "none"
    BY <1>13 DEF TestQueue, At
  <2>2. CASE queued
    <3>1. /\ pass' = [pass EXCEPT !.phase = "queues", !.todo = {Pilot} \X to]
          /\ missed' = missed \cup ((Viewers \ to) \X {"plan"})
      BY <1>13, <2>2 DEF TestQueue
    <3> HIDE DEF to
    <3>2. pass'.phase = "queues" /\ pass'.job = "none" /\ pass'.todo = {Pilot} \X to
      BY <1>1, <2>1, <3>1, SMT DEF PassRecords
    <3>3. \A u \in Viewers : Covered(u)'
      BY <3>1, <3>2 DEF Covered, Excused, Due
    <3>4. QueuesQueued' /\ PacketCovered'
      BY <2>1, <2>2, <3>2 DEF QueuesQueued, PacketCovered
    <3> QED
      BY <1>1, <2>1, <3>2, <3>3, <3>4, PassPlans DEF Reading
  <2>3. CASE ~queued
    <3>1. pass' = Resting /\ UNCHANGED <<missed, raced, overtaken>>
      BY <1>13, <2>3 DEF TestQueue
    <3>2. pass'.phase = "idle" /\ pass'.job = "none"
      BY <3>1, SMT DEF Resting
    <3> QED
      BY <2>1, <3>1, <3>2, PassBetween DEF Reading
  <2> QED
    BY <2>2, <2>3
<1>14. CASE NextInQueue
  <2>1. /\ UNCHANGED <<plan, handler, queued, strip, shows, raced, missed, overtaken>>
        /\ pass.phase = "queues" /\ pass.job = "none"
    BY <1>14 DEF NextInQueue, At
  <2>2. PICK look \in pass.todo : pass' = [pass EXCEPT !.todo = @ \ {look}, !.job = "read_cycle",
                            !.user = look[1], !.other = look[2]]
    BY <1>14 DEF NextInQueue
  <2>3. /\ pass'.phase = "queues" /\ pass'.job = "read_cycle" /\ pass'.todo = pass.todo \ {look}
        /\ pass'.other = look[2]
    BY <1>1, <2>1, <2>2, SMT DEF PassRecords
  <2>4. \A u \in Viewers : Due(u) => Due(u)'
    <3>1. \A u \in Viewers : <<Pilot, u>> = look => look[2] = u
      OBVIOUS
    <3>2. \A u \in Viewers : pass.other # u
      BY <1>3, <2>1
    <3> QED
      BY <2>1, <2>3, <3>1, <3>2 DEF Due
  <2>5. \A u \in Viewers : Covered(u) => Covered(u)'
    BY <1>2, <2>1, <2>3, <2>4 DEF Covered, Excused
  <2>6. QueuesQueued' /\ PacketCovered'
    BY <2>1, <2>3 DEF Rest, QueuesQueued, PacketCovered
  <2>7. plan.cycle # 0
    BY <2>1 DEF Rest, QueuesQueued, NoPlanYet
  <2> QED
    BY <1>1, <2>1, <2>5, <2>6, <2>7, PassPlans
<1>15. CASE ClearQueue
  <2>1. /\ UNCHANGED <<plan, handler, strip, shows, raced, missed, overtaken>> 
        /\ pass.phase = "queues" /\ pass.job = "none" /\ pass.todo = {} /\ ~queued' /\ pass' = Resting
    BY <1>15 DEF ClearQueue, At
  <2>2. pass'.phase = "idle" /\ pass'.job = "none"
    BY <2>1, SMT DEF Resting
  <2>3. \A u \in Viewers : ~Due(u)
    BY <1>3, <2>1 DEF Due
  <2>4. \A u \in Viewers : Covered(u) => Covered(u)'
    BY <1>2, <2>1, <2>2, <2>3 DEF Covered, Excused
  <2>5. QueuesQueued' /\ PacketCovered'
    BY <2>2 DEF QueuesQueued, PacketCovered
  <2> QED
    BY <1>1, <2>1, <2>2, <2>4, <2>5, PassPlans DEF Reading
<1> QED
  BY <1>4, <1>5, <1>6, <1>7, <1>8, <1>9, <1>10, <1>11, <1>12, <1>13, <1>14, <1>15 DEF PassStep

LEMMA PlanIdle ==
  ASSUME PlanInv, (\E u \in Viewers : Move(u)) \/ UNCHANGED vars
  PROVE  Rest'
<1>1. UNCHANGED <<plan, queued, strip, shows, raced, missed, overtaken, pass, handler>>
  BY DEF Move, vars
<1>2. Editing' <=> Editing
  BY <1>1 DEF Editing
<1> QED
  BY <1>1, <1>2, PlanQuiet

LEMMA PlanKept ==
  ASSUME PlanInv, [Next]_vars
  PROVE  PlanInv'
<1> USE DEF PlanInv
<1>1. ASSUME NEW u \in Users, HandlerStep(u)
      PROVE  Rest'
  <2>1. ReplyReadCycle(u) \/ ReplyReadBody(u) \/ ReplyWrite(u) => u \in Viewers
    BY SMT DEF ReplyReadCycle, ReplyReadBody, ReplyWrite, Is, TypeOK, HandlerOK
  <2> QED
    BY <1>1, <2>1, PlanEdited, PlanQueued, PlanAsked, PlanReplied DEF HandlerStep
<1>2. Rest'
  BY <1>1, PlanIdle, PlanNews, PlanEdited, PlanAsked, PlanPassed DEF Next, NewsStep
<1> QED
  BY <1>2, TypesKept

\* A client that shows the pilot has its flight plan, or a packet with it is due, or an excuse
\* holds: the change went to others, was overtaken, or came between the test of the flag and
\* its clearing (updateOnlyQueues, client_updater.cpp:209-222; create_flight_plan, :88-98;
\* FlightPlanUpdate and RequestFlightPlan, incoming_packets.cpp).
THEOREM PlanIsKnown == Spec => []PlanKnown
<1>1. Init => PlanInv
  <2> SUFFICES ASSUME Init PROVE PlanInv
    OBVIOUS
  <2>2. TypeOK /\ shows = {}
    BY TypesAtFirst DEF Init
  <2>3. pass.phase = "idle" /\ pass.job = "none" /\ queued = FALSE /\ plan = NoPlan
    BY SMT DEF Init, Resting
  <2>4. \A u \in Users : handler[u].job = "none"
    <3>1. handler = [u \in Users |-> Free]
      BY DEF Init
    <3> QED
      BY <3>1, FreeIsHandler
  <2>5. \A u \in Viewers : strip[u] = NoPlan
    BY DEF Init
  <2>6. NoPlanYet
    BY <2>3, <2>4, <2>5, SMT DEF NoPlanYet, Editing, Reading
  <2> QED
    BY <2>2, <2>3, <2>6 DEF PlanInv, Rest, QueuesQueued, Replied, PacketCovered
<1>2. PlanInv /\ [Next]_vars => PlanInv'
  BY PlanKept
<1>3. PlanInv => PlanKnown
  BY DEF PlanInv, Rest, PlanKnown, QueuesQueued, Replied, StripOK, Covered, Excused, Due
<1> QED
  BY <1>1, <1>2, <1>3, PTL DEF Spec
=============================================================================
