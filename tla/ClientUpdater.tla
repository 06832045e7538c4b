---------------------------- MODULE ClientUpdater ----------------------------
(***************************************************************************)
(* client_updater.cpp: who is shown to whom, and how often each client has  *)
(* to report its position.                                                  *)
(*                                                                          *)
(* UpdateTask queues globalUpdate() on the pool every 50 ms.  A pass goes   *)
(* over the connected users four times; between two of these phases, and    *)
(* only there, new users may be placed.  Position updates and ChangeCycle   *)
(* packets arrive from other workers at any time.  When a pass is slow (it  *)
(* sends, and a send waits for its client) the next one starts on another   *)
(* worker: Workers is the set of threads that may run a pass at a time.     *)
(*                                                                          *)
(* A client is the picture its user sees (view) and the reporting interval  *)
(* it was last told (told); both change by the packets the pass sends.      *)
(*                                                                          *)
(* clients_ is keyed by socket handle and nothing removes a user whose      *)
(* client has closed.  When the system hands the handle out again, the next *)
(* user takes the entry and the earlier one is a ghost: in no table, never  *)
(* visited, but still in the local_users of those around it.                *)
(***************************************************************************)
EXTENDS Integers, FiniteSets, SequencesExt

CONSTANTS Users, Workers,
          NoUser,
          HandleMaps,      \* how the system may hand out socket handles to the users
          PILOT, CONTROLLER,
          TypeOf,          \* the type of each user, fixed by its handshake
          Positions,       \* positions, on a line
          Starts,          \* where the users may be when they connect
          VisibilityRange, \* of each user
          DEFAULT,         \* the interval a client starts with
          Intervals,       \* what clients may request
          MaxMoves,        \* bound: position updates
          MaxChanges       \* bound: ChangeCycle packets

ASSUME ClientUpdaterAssumption ==
  /\ IsFiniteSet(Users) /\ NoUser \notin Users
  /\ \A h \in HandleMaps : DOMAIN h = Users
  /\ TypeOf \in [Users -> {PILOT, CONTROLLER}]
  /\ Positions \subseteq Int /\ Starts \subseteq [Users -> Positions]
  /\ VisibilityRange \in [Users -> Nat]
  /\ DEFAULT \in Int /\ Intervals \subseteq Int    \* no handler checks what is requested
  /\ MaxMoves \in Nat /\ MaxChanges \in Nat

Types == {PILOT, CONTROLLER}

VARIABLES clients_,        \* the users that clients_ of ClientManager holds
          placed,          \* those that have ever been placed
          socket,          \* User::socket: the handle of each user's connection
          location,
          requestTime,     \* User::requestTime: per type of the users it looks at
          updateInterval,  \* User::updateInterval
          local_users,     \* per user: the keys of User::local_users
          view,            \* per user: the clients its client was told to show
          told,            \* per user: the interval its client was last told
          strayed,         \* history: users whose client was last told the interval of a ghost
          pass,            \* per worker: its progress through globalUpdate()
          moves, changes   \* counters for the bounds

users    == <<clients_, placed, socket, location, requestTime, moves, changes>>
vars     == <<users, updateInterval, local_users, view, told, strayed, pass>>

Ghosts   == placed \ clients_

Abs(n)        == IF n < 0 THEN -n ELSE n
dist(p, q)    == Abs(p - q)
Sees(u, p, v) == dist(p, location[v]) <= VisibilityRange[u]
Requested(u, v) == requestTime[u][TypeOf[v]]   \* how often u wants to hear from v

-----------------------------------------------------------------------------
(* A pass: the phase, whether it is inside iterate_users (client_mutex_     *)
(* held shared), the users still to visit, the one visited with the         *)
(* position read for it, the others still to examine against it, and what   *)
(* is left to do about one of them.                                         *)

Phases == {"idle", "local", "update", "queues", "reset"}
Jobs   == {"none", "retime", "tell", "show", "emplace", "hide", "erase", "adjust", "tell_adjusted"}

Idle == [phase |-> "idle", locked |-> FALSE, todo |-> {}, user |-> NoUser, at |-> 0,
         others |-> {}, other |-> NoUser, job |-> "none", interval |-> 0]

NextPhase == [p \in Phases |->
  CASE p = "idle" -> "local" [] p = "local" -> "update" [] p = "update" -> "queues"
    [] p = "queues" -> "reset" [] p = "reset" -> "idle"]

Init == /\ clients_ = {} /\ placed = {}
        /\ socket \in HandleMaps
        /\ location \in Starts
        /\ requestTime \in {[u \in Users |-> [t \in Types |-> f[u]]] : f \in [Users -> Intervals]}
        /\ updateInterval = [u \in Users |-> DEFAULT]
        /\ local_users = [u \in Users |-> {}]
        /\ view = [u \in Users |-> {}]
        /\ told = [u \in Users |-> DEFAULT]
        /\ strayed = {}
        /\ pass = [w \in Workers |-> Idle]
        /\ moves = 0 /\ changes = 0

-----------------------------------------------------------------------------
(* What other threads do meanwhile.                                         *)

PlaceAtOnce(u) ==           \* mutant: client_mutex_ taken only for the assignment of the entry
  /\ u \notin placed
  /\ clients_' = {v \in clients_ : socket[v] # socket[u]} \cup {u}
  /\ placed' = placed \cup {u}
  /\ UNCHANGED <<socket, location, requestTime, moves, changes,
                 updateInterval, local_users, view, told, strayed, pass>>

\* provide_placement waits for client_mutex_.  An earlier user of the handle is replaced.
Place(u) ==
  /\ u \notin placed
  /\ \A w \in Workers : ~pass[w].locked
  /\ clients_' = {v \in clients_ : socket[v] # socket[u]} \cup {u}
  /\ placed' = placed \cup {u}
  /\ UNCHANGED <<socket, location, requestTime, moves, changes,
                 updateInterval, local_users, view, told, strayed, pass>>

\* PilotUpdate and ControllerUpdate
Move(u) ==
  /\ u \in clients_ /\ moves < MaxMoves
  /\ \E p \in Positions \ {location[u]} : location' = [location EXCEPT ![u] = p]
  /\ moves' = moves + 1
  /\ UNCHANGED <<clients_, placed, socket, requestTime, changes,
                 updateInterval, local_users, view, told, strayed, pass>>

ChangeCycle(u) ==
  /\ u \in clients_ /\ changes < MaxChanges
  /\ \E t \in Types, r \in Intervals : requestTime' = [requestTime EXCEPT ![u][t] = r]
  /\ changes' = changes + 1
  /\ UNCHANGED <<clients_, placed, socket, location, moves,
                 updateInterval, local_users, view, told, strayed, pass>>

-----------------------------------------------------------------------------
(* The skeleton of a pass.                                                  *)

Busy(w) == pass[w].others # {} \/ pass[w].job # "none"

OthersOfLocalUsers(u, phase) ==   \* mutant: updateLocalUsers goes over local_users
  local_users[u]

OthersOfFirstPhase(u, phase) ==   \* mutant: update() no longer calls timeUpdate
  IF phase = "local" THEN clients_ \ {u} ELSE {}

\* The users a visit of u goes over in this phase: every other user, or its local users.
OthersOf(u, phase) == IF phase = "local" THEN clients_ \ {u} ELSE local_users[u]

\* iterateLocalUsers holds u's local_mutex shared: emplace and erase wait for it.
Iterated(u) == \E w \in Workers : pass[w].phase = "update" /\ Busy(w) /\ pass[w].user = u

\* iterate_users takes client_mutex_ (shared) for a phase.  The visits of the last two
\* phases touch nothing that is modelled here (the setters of the update flags are without
\* effect, user.h:59-61): they are one step.
BeginPhase(w) ==
  LET next == NextPhase[pass[w].phase] IN
  /\ ~pass[w].locked
  /\ pass' = [pass EXCEPT ![w].phase = next, ![w].locked = TRUE,
                          ![w].todo = IF next \in {"local", "update"} THEN clients_ ELSE {}]
  /\ UNCHANGED <<users, updateInterval, local_users, view, told, strayed>>

\* The end of a phase releases client_mutex_.
EndPhase(w) ==
  /\ pass[w].locked /\ ~Busy(w) /\ pass[w].todo = {}
  /\ pass' = [pass EXCEPT ![w] = IF pass[w].phase = "reset" THEN Idle ELSE
                                 [@ EXCEPT !.locked = FALSE, !.user = NoUser, !.at = 0]]
  /\ UNCHANGED <<users, updateInterval, local_users, view, told, strayed>>

\* The tables are hash maps: users are met in any order.
VisitUser(w) ==
  /\ pass[w].locked /\ ~Busy(w)
  /\ \E u \in pass[w].todo :
       pass' = [pass EXCEPT ![w].user = u, ![w].at = location[u], ![w].todo = @ \ {u},
                            ![w].others = OthersOf(u, pass[w].phase)]
  /\ UNCHANGED <<users, updateInterval, local_users, view, told, strayed>>

-----------------------------------------------------------------------------
(* Jobs: what is done about one other user v while u is visited.  Each      *)
(* step is one packet sent or one critical section.                         *)

At(w, job)         == pass[w].job = job
Do(w, job)         == pass' = [pass EXCEPT ![w].job = job]
DoTell(w, job, i)  == pass' = [pass EXCEPT ![w].job = job, ![w].interval = i]
Done(w)            == pass' = [pass EXCEPT ![w].job = "none", ![w].other = NoUser,
                                           ![w].others = @ \ {pass[w].other}, ![w].interval = 0]

\* What is to be done about v: contains_user and the comparison of distance and range in
\* updateLocalUsers; in update, its interval alone.
JobAbout(w, v) ==
  LET u      == pass[w].user
      inside == Sees(u, pass[w].at, v)
      known  == v \in local_users[u]
  IN  IF pass[w].phase = "update" THEN "retime"
      ELSE CASE inside /\ ~known -> "retime"
             [] ~inside /\ known -> "hide"
             [] OTHER            -> "none"

\* The next of the others: there is something to do about it, or it is done with.
Examine(w) ==
  /\ At(w, "none")
  /\ \E v \in pass[w].others :
       \/ /\ JobAbout(w, v) # "none"
          /\ pass' = [pass EXCEPT ![w].job = JobAbout(w, v), ![w].other = v]
       \/ /\ JobAbout(w, v) = "none"
          /\ pass' = [pass EXCEPT ![w].others = @ \ {v}]
  /\ UNCHANGED <<users, updateInterval, local_users, view, told, strayed>>

\* After the interval is settled: create the client at the viewer, or on to the next.
AfterRetime(w) == IF pass[w].phase = "local" THEN Do(w, "show") ELSE Done(w)

\* v is to report as often as its viewer u asks, if that is more often than it does.
Retime(w) ==
  LET u == pass[w].user  v == pass[w].other IN
  /\ At(w, "retime")
  /\ \/ /\ updateInterval[v] > Requested(u, v)
        /\ updateInterval' = [updateInterval EXCEPT ![v] = Requested(u, v)]
        /\ DoTell(w, "tell", Requested(u, v))
     \/ /\ updateInterval[v] <= Requested(u, v)
        /\ AfterRetime(w) /\ UNCHANGED updateInterval
  /\ UNCHANGED <<users, local_users, view, told, strayed>>

\* send_time_change(v, interval) reaches the client on v's handle, be it v's or not.
SendTimeChange(v, interval) ==
  \E c \in {x \in clients_ : socket[x] = socket[v]} :
    /\ told' = [told EXCEPT ![c] = interval]
    /\ strayed' = IF c = v THEN strayed \ {c} ELSE strayed \cup {c}

Tell(w) ==
  /\ At(w, "tell")
  /\ SendTimeChange(pass[w].other, pass[w].interval)
  /\ AfterRetime(w)
  /\ UNCHANGED <<users, updateInterval, local_users, view>>

\* create_client(u, v), with v's flight plan and scripts
Show(w) ==
  /\ At(w, "show")
  /\ view' = [view EXCEPT ![pass[w].user] = @ \cup {pass[w].other}]
  /\ Do(w, "emplace")
  /\ UNCHANGED <<users, updateInterval, local_users, told, strayed>>

EmplaceBothWays(w) ==       \* mutant: visibility taken to be mutual
  LET u == pass[w].user  v == pass[w].other IN
  /\ At(w, "emplace") /\ ~Iterated(u)
  /\ local_users' = [local_users EXCEPT ![u] = @ \cup {v}, ![v] = @ \cup {u}]
  /\ Done(w)
  /\ UNCHANGED <<users, updateInterval, view, told, strayed>>

Emplace(w) ==
  LET u == pass[w].user IN
  /\ At(w, "emplace") /\ ~Iterated(u)
  /\ local_users' = [local_users EXCEPT ![u] = @ \cup {pass[w].other}]
  /\ Done(w)
  /\ UNCHANGED <<users, updateInterval, view, told, strayed>>

\* delete_client(u, v), send_remove_scripts(u, v)
Hide(w) ==
  /\ At(w, "hide")
  /\ view' = [view EXCEPT ![pass[w].user] = @ \ {pass[w].other}]
  /\ Do(w, "erase")
  /\ UNCHANGED <<users, updateInterval, local_users, told, strayed>>

EraseNothing(w) ==          \* mutant: local_users.erase forgotten
  /\ At(w, "erase") /\ ~Iterated(pass[w].user)
  /\ Do(w, "adjust")
  /\ UNCHANGED <<users, updateInterval, local_users, view, told, strayed>>

Erase(w) ==
  LET u == pass[w].user IN
  /\ At(w, "erase") /\ ~Iterated(u)
  /\ local_users' = [local_users EXCEPT ![u] = @ \ {pass[w].other}]
  /\ Do(w, "adjust")
  /\ UNCHANGED <<users, updateInterval, view, told, strayed>>

\* adjust_time(v), client_manager.cpp: lastTime as it goes over the users v itself has
\* around it (not those that have v around them), in the order of the hash map.
LastTimeFrom(first, s, v) ==
  LET last[n \in 0..Len(s)] ==
        IF n = 0 THEN first
        ELSE LET r == Requested(s[n], v) IN
             IF last[n - 1] = DEFAULT \/ r < last[n - 1] THEN r ELSE last[n - 1]
  IN  last[Len(s)]

LastTimesFromZero(v) ==     \* mutant: lastTime starts at 0
  {LastTimeFrom(0, s, v) : s \in SetToSeqs(local_users[v])}

LastTimes(v) == {LastTimeFrom(DEFAULT, s, v) : s \in SetToSeqs(local_users[v])}

Adjust(w) ==
  LET v == pass[w].other IN
  /\ At(w, "adjust")
  /\ \E last \in LastTimes(v) :
       \/ /\ last # updateInterval[v]
          /\ updateInterval' = [updateInterval EXCEPT ![v] = last]
          /\ DoTell(w, "tell_adjusted", last)
       \/ /\ last = updateInterval[v]
          /\ Done(w) /\ UNCHANGED updateInterval
  /\ UNCHANGED <<users, local_users, view, told, strayed>>

TellAdjustedNever(w) ==     \* mutant: adjust_time without send_time_change
  /\ At(w, "tell_adjusted")
  /\ Done(w)
  /\ UNCHANGED <<users, updateInterval, local_users, view, told, strayed>>

TellAdjusted(w) ==
  /\ At(w, "tell_adjusted")
  /\ SendTimeChange(pass[w].other, pass[w].interval)
  /\ Done(w)
  /\ UNCHANGED <<users, updateInterval, local_users, view>>

-----------------------------------------------------------------------------
PassStep(w) == \/ BeginPhase(w) \/ EndPhase(w) \/ VisitUser(w)
               \/ Examine(w) \/ Retime(w) \/ Tell(w) \/ Show(w) \/ Emplace(w)
               \/ Hide(w) \/ Erase(w) \/ Adjust(w) \/ TellAdjusted(w)

Next == \/ \E u \in Users : Place(u) \/ Move(u) \/ ChangeCycle(u)
        \/ \E w \in Workers : PassStep(w)

\* The timer keeps queueing passes and a pass that began goes on (a send to a client that
\* does not read is retried).  No client has to connect, to move or to ask for anything.
Fairness == \A w \in Workers : WF_vars(PassStep(w))

Spec == Init /\ [][Next]_vars /\ Fairness

-----------------------------------------------------------------------------
StateOK ==
  /\ clients_ \subseteq placed /\ placed \subseteq Users
  /\ socket \in HandleMaps
  /\ \A u, v \in clients_ : socket[u] = socket[v] => u = v
  /\ location \in [Users -> Positions]
  /\ requestTime \in [Users -> [Types -> Intervals]]
  /\ updateInterval \in [Users -> Intervals \cup {DEFAULT}]
  /\ local_users \in [Users -> SUBSET placed]
  /\ view \in [Users -> SUBSET placed]
  /\ told \in [Users -> Intervals \cup {DEFAULT}]
  /\ strayed \subseteq placed
  /\ moves \in 0..MaxMoves /\ changes \in 0..MaxChanges

PassRecords == [phase : Phases, locked : BOOLEAN, todo : SUBSET Users, user : Users \cup {NoUser},
                at : Int, others : SUBSET Users, other : Users \cup {NoUser},
                job : Jobs, interval : Int]

\* All that a pass has in hand is connected, but for the local users of the second phase, and
\* it has something in hand only inside iterate_users.
PassOK(w) ==
  /\ pass[w].todo \subseteq clients_
  /\ pass[w].others \subseteq IF pass[w].phase = "local" THEN clients_ \ {pass[w].user} ELSE placed
  /\ pass[w].job # "none" <=> pass[w].other # NoUser
  /\ pass[w].job # "none" => pass[w].other \in pass[w].others
  /\ pass[w].job \notin {"none", "retime", "tell"} => pass[w].phase = "local"
  /\ pass[w].job \in {"tell", "tell_adjusted"} => pass[w].interval \in Intervals \cup {DEFAULT}
  /\ Busy(w) => pass[w].user \in clients_
  /\ Busy(w) \/ pass[w].todo # {} => pass[w].locked /\ pass[w].phase \in {"local", "update"}
  /\ IF pass[w].locked THEN pass[w].phase # "idle" ELSE pass[w].phase # "reset"

TypeOK == StateOK /\ pass \in [Workers -> PassRecords] /\ \A w \in Workers : PassOK(w)

\* What a client shows is what the server believes it shows, but for the one pair a pass
\* is in the middle of (the sends and the table updates of client_updater.cpp:86-100 are
\* separate steps).
InHand(u) == {pass[w].other : w \in {x \in Workers : pass[x].user = u}}
ViewsAgree == \A u \in Users : view[u] \ InHand(u) = local_users[u] \ InHand(u)

\* A client is not told to create a client it already shows, nor to delete one it does
\* not show (client_updater.cpp:80, :94).
NoRepeatedNews ==
  \A w \in Workers :
    /\ At(w, "show") => pass[w].other \notin view[pass[w].user]
    /\ At(w, "hide") => pass[w].other \in view[pass[w].user]

\* The interval the server counts on is the one the client was told, but for the one about
\* to be sent (every setUpdateInterval has its send_time_change), and but for a client on
\* the handle of a ghost, which was told the ghost's.
IntervalsTold ==
  \A v \in clients_ \ strayed :
    \/ told[v] = updateInterval[v]
    \/ \E w \in Workers : /\ pass[w].other = v
                          /\ pass[w].job \in {"tell", "tell_adjusted"}
                          /\ pass[w].interval = updateInterval[v]

\* No client is told to create a user whose entry has gone to the next client on its
\* handle: passes examine clients_ under the lock that placements wait for
\* (client_manager.h:59, :100).  Those that show it already go on showing it.
NoNewGhosts == [][\A u \in Users : view'[u] \cap Ghosts' \subseteq view[u]]_vars

\* When positions rest, every client shows exactly the connected clients in the range of
\* its user, and ghosts: "update local users first (add and delete users around the main
\* user)" (client_updater.cpp:31).
Around(u) == {v \in clients_ \ {u} : Sees(u, location[u], v)}
EventuallySeen == <>[](\A u \in clients_ : view[u] \ Ghosts = Around(u))

\* When requests and positions rest, every client reports at least as often as each client
\* that shows it asks (Retime in both phases repairs what adjust_time computed from the
\* wrong neighbours: client_updater.cpp:81-85, :230-239, client_manager.cpp:6-20), unless
\* it was told the interval of a ghost.
EventuallyOftenEnough ==
  <>[](\A u \in clients_ : \A v \in (view[u] \cap clients_) \ strayed : told[v] <= Requested(u, v))
=============================================================================
