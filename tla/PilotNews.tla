------------------------------ MODULE PilotNews ------------------------------
(***************************************************************************)
(* How what is known about a pilot reaches those that show it: the fields   *)
(* that handlers forward (incoming_packets.cpp), its scripts (user.cpp) and  *)
(* its flight plan (updateOnlyQueues in client_updater.cpp).                *)
(*                                                                          *)
(* A viewer gets all of it when a pass shows it the pilot, and afterwards    *)
(* what is forwarded.  Forwarding goes to the users in the local_users of    *)
(* the PILOT, those that the pilot has around it; the pilot is shown by the  *)
(* users that have the pilot in THEIR local_users.  The two differ when      *)
(* ranges do.  And forwarding runs on other workers than the pass: a packet  *)
(* is assembled from the fields first and written later, so another one may  *)
(* be written in between.                                                   *)
(*                                                                          *)
(* A step reads or writes one piece of shared state, or writes one packet.   *)
(* Values are versions: each change counts one up.  Passes do not overlap.   *)
(***************************************************************************)
EXTENDS Integers

CONSTANTS Viewers,
          Controllers,  \* those of them that are controllers
          Pilot, NoOne,
          Fields,       \* among "transponder", "mode", "title" and "frequency"
          Cycles,       \* cycles that flight plan updates carry
          MaxMoves,     \* bound: users that come into a range or leave it
          Budgets       \* bounds: changes of the fields and scripts, and of the flight plan

ASSUME PilotNewsAssumption ==
  /\ Controllers \subseteq Viewers
  /\ Pilot \notin Viewers /\ NoOne \notin Viewers \cup {Pilot}
  /\ Fields \subseteq {"transponder", "mode", "title", "frequency"}
  /\ Cycles \subseteq Nat \ {0}
  /\ MaxMoves \in Nat /\ Budgets \subseteq [news : Nat, plans : Nat]

VARIABLES
  inView,      \* viewers in whose range the pilot is
  inReach,     \* viewers in the range of the pilot
  moves,
  news,        \* the pilot's fields
  scripts,     \* the number of its scripts
  plan,        \* its flight plan: the cycle, and the rest
  queued,      \* its updateOnlyQueues[0]
  changes,     \* of the fields and scripts
  edits,       \* of the flight plan
  budget,      \* the bounds of this behaviour
  local_users, \* of the viewers and of the pilot: which of them are in it
  shows,       \* viewers whose client shows the pilot
  told,        \* per viewer: the fields its client was last told
  held,        \* per viewer: the scripts of the pilot that its client has
  strip,       \* per viewer: the flight plan that its client has
  missed,      \* history: <<viewer, topic>> whose last change went to others only
  unsent,      \* history: <<viewer, script>> registered while the pilot did not have it around
  overtaken,   \* history: <<viewer, topic>> of which an older packet was written after a newer
  raced,       \* history: the plan was queued while the queue was being sent
  pass,        \* the progress of globalUpdate()
  handler      \* per connection: the progress of the handler of its packet

ranges  == <<inView, inReach, moves>>
pilot   == <<news, scripts, plan, queued, edits, changes, budget>>
clients == <<shows, told, held, strip>>
history == <<missed, unsent, overtaken, raced>>
Users   == Viewers \cup {Pilot}
vars    == <<ranges, pilot, local_users, clients, history, pass, handler>>

\* Whom handlers and updateOnlyQueues send a change: TransponderPacket, PrimeFreq and the
\* queue ask for controllers, ClientMode and scripts do not, PilotTitle sends nothing.
Audience(topic) == CASE topic \in {"transponder", "frequency", "plan"} -> Controllers
                     [] topic = "title"                               -> {}
                     [] topic \in {"mode", "script"}                  -> Viewers

Topics == Fields \cup {"plan"}

\* What create_client has of a pilot.
Carried == Fields \ {"frequency"}

NoPlan  == [cycle |-> 0, body |-> 0]
Resting == [phase |-> "idle", todo |-> {}, user |-> NoOne, other |-> NoOne, job |-> "none",
            create |-> [f \in Fields |-> 0], packet |-> NoPlan, upto |-> 0, late |-> {}]
Free    == [job |-> "none", topic |-> "none", item |-> 0, to |-> {},
            packet |-> NoPlan, late |-> {}]

Init ==
  /\ inView \in SUBSET Viewers /\ inReach \in SUBSET Viewers
  /\ local_users = [u \in Users |-> {}]
  /\ news = [f \in Fields |-> 0] /\ scripts = 0 /\ plan = NoPlan /\ queued = FALSE
  /\ shows = {} /\ told = [u \in Viewers |-> news]
  /\ held = [u \in Viewers |-> {}] /\ strip = [u \in Viewers |-> NoPlan]
  /\ pass = Resting /\ handler = [u \in Users |-> Free]
  /\ missed = {} /\ unsent = {} /\ overtaken = {} /\ raced = FALSE
  /\ moves = 0 /\ changes = 0 /\ edits = 0 /\ budget \in Budgets

-----------------------------------------------------------------------------
\* Someone moves, so that one viewer comes into a range or leaves it.
Flip(S, u) == (S \ {u}) \cup ({u} \ S)

Move(u) ==
  /\ moves < MaxMoves /\ moves' = moves + 1
  /\ \/ inView' = Flip(inView, u) /\ UNCHANGED inReach
     \/ inReach' = Flip(inReach, u) /\ UNCHANGED inView
  /\ UNCHANGED <<pilot, local_users, clients, history, pass, handler>>

-----------------------------------------------------------------------------
(* Handlers of the pilot's packets: a change, and then a packet to each of   *)
(* its local users.  The packets of one connection are handled one by one.   *)

Is(u, job) == handler[u].job = job

Change == changes < budget.news /\ changes' = changes + 1

SetFieldAfterwards(f) ==    \* mutant: the field is assigned after its packets are assembled
  /\ Is(Pilot, "none") /\ Change
  /\ news' = [news EXCEPT ![f] = @ + 1]
  /\ handler' = [handler EXCEPT ![Pilot] = [@ EXCEPT !.job = "announce", !.topic = f, !.item = news[f]]]
  /\ UNCHANGED <<ranges, scripts, plan, queued, edits, budget, local_users, clients, history, pass>>

\* ClientMode, TransponderPacket, PrimeFreqPacket, PilotTitle
SetField(f) ==
  /\ Is(Pilot, "none") /\ Change
  /\ news' = [news EXCEPT ![f] = @ + 1]
  /\ handler' = [handler EXCEPT ![Pilot] = [@ EXCEPT !.job = "announce", !.topic = f, !.item = news'[f]]]
  /\ UNCHANGED <<ranges, scripts, plan, queued, edits, budget, local_users, clients, history, pass>>

\* TempDataPacket: addScript
RegisterScript ==
  /\ Is(Pilot, "none") /\ Change
  /\ scripts' = scripts + 1
  /\ handler' = [handler EXCEPT ![Pilot] = [@ EXCEPT !.job = "announce", !.topic = "script",
                                                           !.item = scripts']]
  /\ UNCHANGED <<ranges, news, plan, queued, edits, budget, local_users, clients, history, pass>>

\* iterateLocalUsers takes local_mutex (shared).
BeginIterating ==
  LET topic == handler[Pilot].topic
      to    == local_users[Pilot] \cap Audience(topic)
      left  == Viewers \ to IN
  /\ Is(Pilot, "announce")
  /\ handler' = [handler EXCEPT ![Pilot] = [@ EXCEPT !.job = "iterate", !.to = to]]
  /\ IF topic = "script"
     THEN unsent' = unsent \cup (left \X {handler[Pilot].item}) /\ UNCHANGED missed
     ELSE missed' = missed \cup (left \X {topic}) /\ UNCHANGED unsent
  /\ UNCHANGED <<ranges, pilot, local_users, clients, overtaken, raced, pass>>

\* send_client_mode_change and the like.  A client ignores news of one it does not show.
SendNews ==
  LET topic == handler[Pilot].topic
      item  == handler[Pilot].item IN
  /\ Is(Pilot, "iterate")
  /\ \E u \in handler[Pilot].to :
       /\ handler' = [handler EXCEPT ![Pilot].to = @ \ {u}]
       /\ IF topic = "script"
          THEN /\ held' = [held EXCEPT ![u] = IF u \in shows THEN @ \cup {item} ELSE @]
               /\ UNCHANGED <<told, missed, overtaken, pass>>
          ELSE /\ told' = [told EXCEPT ![u][topic] = IF u \in shows THEN item ELSE @]
               /\ missed' = missed \ {<<u, topic>>} /\ overtaken' = overtaken \ {<<u, topic>>}
               /\ pass' = [pass EXCEPT !.late = IF pass.job = "write_create" /\ pass.user = u
                                                THEN @ \cup {topic} ELSE @]
               /\ UNCHANGED held
  /\ UNCHANGED <<ranges, pilot, local_users, shows, strip, unsent, raced>>

EndIterating ==
  /\ Is(Pilot, "iterate") /\ handler[Pilot].to = {}
  /\ handler' = [handler EXCEPT ![Pilot] = Free]
  /\ UNCHANGED <<ranges, pilot, local_users, clients, history, pass>>

Iterated == Is(Pilot, "iterate")

-----------------------------------------------------------------------------
(* Flight plan packets, of any user.                                        *)

\* FlightPlanUpdate: the cycle, the other fields, the flag.
SetCycle(e) ==
  /\ Is(e, "none") /\ edits < budget.plans /\ edits' = edits + 1
  /\ \E c \in Cycles : plan' = [plan EXCEPT !.cycle = c]
  /\ handler' = [handler EXCEPT ![e].job = "set_body", ![e].item = edits']
  /\ UNCHANGED <<ranges, news, scripts, queued, changes, budget, local_users, clients, history, pass>>

SetBody(e) ==
  /\ Is(e, "set_body")
  /\ plan' = [plan EXCEPT !.body = handler[e].item]
  /\ handler' = [handler EXCEPT ![e].job = "queue"]
  /\ UNCHANGED <<ranges, news, scripts, queued, edits, changes, budget, local_users, clients, history,
                 pass>>

SetQueueForgotten(e) ==     \* mutant: the flag is not set
  /\ Is(e, "queue")
  /\ handler' = [handler EXCEPT ![e] = Free]
  /\ UNCHANGED <<ranges, pilot, local_users, clients, history, pass>>

SetQueue(e) ==
  /\ Is(e, "queue")
  /\ queued' = TRUE
  /\ raced' = (raced \/ pass.phase = "queues")
  /\ handler' = [handler EXCEPT ![e] = Free]
  /\ UNCHANGED <<ranges, news, scripts, plan, edits, changes, budget, local_users, clients,
                 missed, unsent, overtaken, pass>>

\* RequestFlightPlan: a client asks with the cycle it has.
Request(u) ==
  /\ Is(u, "none")
  /\ u \in shows /\ plan.cycle > strip[u].cycle
  /\ handler' = [handler EXCEPT ![u].job = "read_cycle"]
  /\ UNCHANGED <<ranges, pilot, local_users, clients, history, pass>>

ReplyReadCycle(u) ==
  /\ Is(u, "read_cycle")
  /\ handler' = [handler EXCEPT ![u].job = "read_body", ![u].packet.cycle = plan.cycle]
  /\ UNCHANGED <<ranges, pilot, local_users, clients, history, pass>>

ReplyReadBody(u) ==
  /\ Is(u, "read_body")
  /\ handler' = [handler EXCEPT ![u].job = "write_plan", ![u].packet.body = plan.body]
  /\ UNCHANGED <<ranges, pilot, local_users, clients, history, pass>>

\* A flight plan is written to u; other packets to u that are being assembled are late then.
Receive(u, packet, late) ==
  /\ strip' = [strip EXCEPT ![u] = IF u \in shows THEN packet ELSE @]
  /\ IF packet = plan
     THEN /\ missed' = missed \ {<<u, "plan">>} /\ overtaken' = overtaken \ {<<u, "plan">>}
     ELSE /\ overtaken' = IF late # {} THEN overtaken \cup {<<u, "plan">>} ELSE overtaken
          /\ UNCHANGED missed

BeingRead == {"read_body", "write_plan"}

PlanFor == IF pass.phase = "local" THEN pass.user ELSE pass.other   \* send_flight_plan_cycle's user

ReplyWrite(u) ==
  /\ Is(u, "write_plan")
  /\ Receive(u, handler[u].packet, handler[u].late)
  /\ handler' = [handler EXCEPT ![u] = Free]
  /\ pass' = [pass EXCEPT !.late = IF PlanFor = u /\ pass.job \in BeingRead
                                   THEN @ \cup {"plan"} ELSE @]
  /\ UNCHANGED <<ranges, pilot, local_users, shows, told, held, unsent, raced>>

-----------------------------------------------------------------------------
(* The pass.  Who examines whom first depends on the order of hash maps.     *)

At(job)   == pass.job = job
Go(job)   == pass' = [pass EXCEPT !.job = job]
Leave     == pass' = [pass EXCEPT !.job = "none", !.user = NoOne, !.other = NoOne]

BeginPass ==
  /\ pass.phase = "idle"
  /\ pass' = [pass EXCEPT !.phase = "local",
                          !.todo = (Viewers \X {Pilot}) \cup ({Pilot} \X Viewers)]
  /\ UNCHANGED <<ranges, pilot, local_users, clients, history, handler>>

Sees(u, v) == IF u = Pilot THEN v \in inReach ELSE u \in inView

Examine ==
  /\ pass.phase = "local" /\ At("none")
  /\ \E look \in pass.todo :
       LET u     == look[1]  v == look[2]
           known == v \in local_users[u]
           job   == CASE Sees(u, v) /\ ~known -> IF u = Pilot THEN "emplace" ELSE "create"
                      [] ~Sees(u, v) /\ known -> IF u = Pilot THEN "erase" ELSE "delete"
                      [] OTHER                -> "none"
       IN pass' = [pass EXCEPT !.todo = @ \ {look}, !.job = job,
                               !.user = IF job = "none" THEN NoOne ELSE u,
                               !.other = IF job = "none" THEN NoOne ELSE v]
  /\ UNCHANGED <<ranges, pilot, local_users, clients, history, handler>>

\* create_client assembles the packet,
AssembleCreate ==
  /\ At("create")
  /\ pass' = [pass EXCEPT !.job = "write_create",
                          !.create = [f \in Fields |-> IF f \in Carried THEN news[f] ELSE 0]]
  /\ UNCHANGED <<ranges, pilot, local_users, clients, history, handler>>

\* and writes it.
WriteCreate ==
  LET u       == pass.user
      current == {f \in Fields : pass.create[f] = news[f]} IN
  /\ At("write_create")
  /\ shows' = shows \cup {u}
  /\ told' = [told EXCEPT ![u] = pass.create]
  /\ held' = [held EXCEPT ![u] = {}] /\ strip' = [strip EXCEPT ![u] = NoPlan]
  /\ missed' = (missed \ ({u} \X (current \cup {"plan"})))
                 \cup ({u} \X (Fields \ (Carried \cup current)))
  /\ unsent' = {m \in unsent : m[1] # u}
  /\ overtaken' = (overtaken \ ({u} \X Topics)) \cup ({u} \X pass.late)
  /\ pass' = [pass EXCEPT !.job = "plan", !.create = [f \in Fields |-> 0], !.late = {}]
  /\ UNCHANGED <<ranges, pilot, local_users, raced, handler>>

CreateFlightPlanIfChanged == \* mutant: only a plan of a later cycle is sent
  /\ At("plan")
  /\ Go(IF plan.cycle > 1 THEN "read_cycle" ELSE "scripts")
  /\ UNCHANGED <<ranges, pilot, local_users, clients, history, handler>>

\* create_flight_plan
CreateFlightPlan ==
  /\ At("plan")
  /\ Go(IF plan.cycle # 0 THEN "read_cycle" ELSE "scripts")
  /\ UNCHANGED <<ranges, pilot, local_users, clients, history, handler>>

ReadCycle ==
  /\ At("read_cycle")
  /\ pass' = [pass EXCEPT !.job = "read_body", !.packet.cycle = plan.cycle]
  /\ UNCHANGED <<ranges, pilot, local_users, clients, history, handler>>

ReadBody ==
  /\ At("read_body")
  /\ pass' = [pass EXCEPT !.job = "write_plan", !.packet.body = plan.body]
  /\ UNCHANGED <<ranges, pilot, local_users, clients, history, handler>>

WritePlan ==
  /\ At("write_plan")
  /\ Receive(PlanFor, pass.packet, pass.late)
  /\ handler' = [handler EXCEPT ![PlanFor].late = IF handler[PlanFor].job \in BeingRead
                                                 THEN {"plan"} ELSE @]
  /\ pass' = [pass EXCEPT !.job = IF pass.phase = "local" THEN "scripts" ELSE "none",
                          !.packet = NoPlan, !.late = {},
                          !.user = IF pass.phase = "local" THEN @ ELSE NoOne,
                          !.other = IF pass.phase = "local" THEN @ ELSE NoOne]
  /\ UNCHANGED <<ranges, pilot, local_users, shows, told, held, unsent, raced>>

GetAllScriptsButOne ==      \* mutant: the last index is left out
  /\ At("scripts")
  /\ pass' = [pass EXCEPT !.job = "send_scripts", !.upto = IF scripts = 0 THEN 0 ELSE scripts - 1]
  /\ UNCHANGED <<ranges, pilot, local_users, clients, history, handler>>

GetAllScriptsAndOne ==      \* mutant: one index too many
  /\ At("scripts")
  /\ pass' = [pass EXCEPT !.job = "send_scripts", !.upto = scripts + 1]
  /\ UNCHANGED <<ranges, pilot, local_users, clients, history, handler>>

\* send_scripts: getAllScripts, and a packet for each.
GetAllScripts ==
  /\ At("scripts")
  /\ pass' = [pass EXCEPT !.job = "send_scripts", !.upto = scripts]
  /\ UNCHANGED <<ranges, pilot, local_users, clients, history, handler>>

SendScripts ==
  /\ At("send_scripts")
  /\ held' = [held EXCEPT ![pass.user] = @ \cup 1..pass.upto]
  /\ pass' = [pass EXCEPT !.job = "emplace", !.upto = 0]
  /\ UNCHANGED <<ranges, pilot, local_users, shows, told, strip, history, handler>>

\* emplace and erase take the local_mutex of the user (exclusive).
Emplace ==
  /\ At("emplace") /\ (pass.user = Pilot => ~Iterated)
  /\ local_users' = [local_users EXCEPT ![pass.user] = @ \cup {pass.other}]
  /\ Leave
  /\ UNCHANGED <<ranges, pilot, clients, history, handler>>

\* delete_client; the packets of send_remove_scripts then change nothing more.
Delete ==
  LET u == pass.user IN
  /\ At("delete")
  /\ shows' = shows \ {u}
  /\ told' = [told EXCEPT ![u] = [f \in Fields |-> 0]]
  /\ held' = [held EXCEPT ![u] = {}] /\ strip' = [strip EXCEPT ![u] = NoPlan]
  /\ Go("erase")
  /\ UNCHANGED <<ranges, pilot, local_users, history, handler>>

Erase ==
  /\ At("erase") /\ (pass.user = Pilot => ~Iterated)
  /\ local_users' = [local_users EXCEPT ![pass.user] = @ \ {pass.other}]
  /\ Leave
  /\ UNCHANGED <<ranges, pilot, clients, history, handler>>

\* updateOnlyQueues tests the flag,
TestQueue ==
  LET to == local_users[Pilot] \cap Audience("plan") IN
  /\ pass.phase = "local" /\ At("none") /\ pass.todo = {}
  /\ \/ /\ queued
        /\ pass' = [pass EXCEPT !.phase = "queues", !.todo = {Pilot} \X to]
        /\ missed' = missed \cup ((Viewers \ to) \X {"plan"})
        /\ raced' = FALSE
     \/ /\ ~queued
        /\ pass' = Resting /\ UNCHANGED <<missed, raced>>
  /\ UNCHANGED <<ranges, pilot, local_users, clients, unsent, overtaken, handler>>

\* sends the plan to each controller around the pilot,
NextInQueue ==
  /\ pass.phase = "queues" /\ At("none")
  /\ \E look \in pass.todo :
       pass' = [pass EXCEPT !.todo = @ \ {look}, !.job = "read_cycle",
                            !.user = look[1], !.other = look[2]]
  /\ UNCHANGED <<ranges, pilot, local_users, clients, history, handler>>

\* and clears the flag.
ClearQueue ==
  /\ pass.phase = "queues" /\ At("none") /\ pass.todo = {}
  /\ queued' = FALSE
  /\ pass' = Resting
  /\ UNCHANGED <<ranges, news, scripts, plan, edits, changes, budget, local_users, clients, history,
                 handler>>

-----------------------------------------------------------------------------
HandlerStep(u) == \/ SetBody(u) \/ SetQueue(u)
                  \/ ReplyReadCycle(u) \/ ReplyReadBody(u) \/ ReplyWrite(u)

Announcing == BeginIterating \/ SendNews \/ EndIterating

PassStep == \/ BeginPass \/ Examine \/ AssembleCreate \/ WriteCreate \/ CreateFlightPlan
            \/ ReadCycle \/ ReadBody \/ WritePlan \/ GetAllScripts \/ SendScripts
            \/ Emplace \/ Delete \/ Erase \/ TestQueue \/ NextInQueue \/ ClearQueue

Next == \/ \E u \in Viewers : Move(u) \/ Request(u)
        \/ \E f \in Fields : SetField(f)
        \/ RegisterScript
        \/ \E u \in Users : SetCycle(u) \/ HandlerStep(u)
        \/ Announcing
        \/ PassStep

\* Passes follow each other, and a handler that began goes on.  Nobody has to move, to
\* change anything or to ask.
Fairness == WF_vars(PassStep) /\ WF_vars(Announcing) /\ \A u \in Users : WF_vars(HandlerStep(u))

Spec == Init /\ [][Next]_vars /\ Fairness

-----------------------------------------------------------------------------
PassJobs    == {"none", "create", "write_create", "plan", "read_cycle", "read_body", "write_plan",
                "scripts", "send_scripts", "emplace", "delete", "erase"}
HandlerJobs == {"none", "announce", "iterate", "set_body", "queue",
                "read_cycle", "read_body", "write_plan"}
Plans       == [cycle : Nat, body : Nat]

PassRecords ==
  [phase : {"idle", "local", "queues"}, todo : SUBSET (Users \X Users), job : PassJobs,
   user : Users \cup {NoOne}, other : Users \cup {NoOne}, create : [Fields -> Nat],
   packet : Plans, upto : Nat, late : SUBSET Topics]

HandlerRecords ==
  [job : HandlerJobs, topic : Fields \cup {"script", "none"}, item : Nat,
   to : SUBSET Viewers, packet : Plans, late : SUBSET Topics]

StateOK ==
  /\ inView \subseteq Viewers /\ inReach \subseteq Viewers /\ shows \subseteq Viewers
  /\ news \in [Fields -> Nat] /\ scripts \in Nat /\ plan \in Plans /\ queued \in BOOLEAN
  /\ local_users \in [Users -> SUBSET Users] /\ local_users[Pilot] \subseteq Viewers
  /\ told \in [Viewers -> [Fields -> Nat]] /\ held \in [Viewers -> SUBSET (1..scripts)]
  /\ strip \in [Viewers -> Plans]
  /\ missed \subseteq Viewers \X Topics /\ overtaken \subseteq Viewers \X Topics
  /\ unsent \subseteq Viewers \X (1..scripts) /\ raced \in BOOLEAN
  /\ moves \in Nat /\ changes \in Nat /\ edits \in Nat /\ budget \in Budgets

\* The pass is idle, or between two pairs, or about one of them: a viewer that looks at the
\* pilot, or the pilot at a viewer, in which case only the table changes, or the queue is sent.
PassOK ==
  /\ pass \in PassRecords /\ pass.upto <= scripts
  /\ \A look \in pass.todo : \/ look[1] \in Viewers /\ look[2] = Pilot /\ pass.phase = "local"
                             \/ look[1] = Pilot /\ look[2] \in Viewers
  /\ pass.phase = "idle" => pass = Resting
  /\ pass.phase = "queues" => pass.job \in {"none", "read_cycle", "read_body", "write_plan"}
  /\ IF pass.job = "none"
     THEN pass.user = NoOne /\ pass.other = NoOne
     ELSE \/ pass.user \in Viewers /\ pass.other = Pilot /\ pass.phase = "local"
          \/ pass.user = Pilot /\ pass.other \in Viewers
               /\ (pass.phase = "queues" \/ pass.job \in {"emplace", "erase"})

\* Only viewers ask for plans, only the pilot announces, and what it announces is the last
\* change: its connection handles one packet at a time.
HandlerOK ==
  /\ handler \in [Users -> HandlerRecords]
  /\ \A u \in Users : handler[u].job \in {"read_cycle", "read_body", "write_plan"} => u \in Viewers
  /\ \A u \in Users : handler[u].job \in {"announce", "iterate"} <=> handler[u].topic # "none"
  /\ \A u \in Viewers : handler[u].topic = "none"
  /\ handler[Pilot].topic = "script" => handler[Pilot].item = scripts /\ scripts > 0
  /\ \A f \in Fields : handler[Pilot].topic = f => handler[Pilot].item = news[f]

TypeOK == StateOK /\ PassOK /\ HandlerOK

OnItsWay(u, topic) ==
  handler[Pilot].topic = topic /\ (Is(Pilot, "announce") \/ u \in handler[Pilot].to)

\* A client is up to date about the pilot that it shows, unless the pilot did not have it
\* around when it announced the last change, or the packet that created the pilot was
\* assembled before the change and written after it.  (Every forwarding handler assigns
\* the field first and then goes over all local users: incoming_packets.cpp:64-77,
\* :119-133, :203-214; create_client reads it before it waits for the socket,
\* outgoing_packets.cpp:49-58.)
UpToDate ==
  \A u \in shows, f \in Fields :
    \/ told[u][f] = news[f]
    \/ <<u, f>> \in missed \cup overtaken
    \/ OnItsWay(u, f)

\* A client that shows the pilot has all its scripts, unless the pilot did not have it
\* around when it registered one.  No script is lost between send_scripts and
\* registerScript, whichever comes first: addScript comes before the sends (user.cpp:16-25)
\* and getAllScripts after create_client (client_updater.cpp:86-88).
HoldsScripts ==
  \A u \in shows, k \in 1..scripts :
    \/ k \in held[u]
    \/ <<u, k>> \in unsent
    \/ OnItsWay(u, "script") /\ handler[Pilot].item = k
    \/ pass.user = u /\ pass.job \in {"plan", "read_cycle", "read_body", "write_plan",
                                      "scripts", "send_scripts"}

\* A client has the flight plan of the pilot that it shows, all of it, unless it is about to
\* be sent, or was sent to others only, or in an older packet after a newer one, or the
\* change came between the test of the flag and its clearing (client_updater.cpp:211-220).
Giving(u) == pass.user = u /\ pass.job \in {"plan", "read_cycle", "read_body", "write_plan"}
Editing == \E u \in Users : handler[u].job \in {"set_body", "queue"}
PlanKnown ==
  \A u \in shows :
    \/ strip[u] = plan
    \/ <<u, "plan">> \in missed \cup overtaken
    \/ queued \/ Editing \/ raced
    \/ Giving(u)

\* When flight plans and users rest, the last plan arrives wherever it is due: the flag is
\* seen and cleared by some pass, and every controller around the pilot gets it.
PlanSettles ==
  <>[](\A u \in shows : strip[u] = plan \/ <<u, "plan">> \in missed \cup overtaken \/ raced)
=============================================================================
