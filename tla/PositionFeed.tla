---------------------------- MODULE PositionFeed ----------------------------
(***************************************************************************)
(* update(), client_updater.cpp:109-174: how the positions that clients     *)
(* report reach the clients that show them.                                 *)
(*                                                                          *)
(* A report is stamped with the time of day (incoming_packets.cpp:52, :61). *)
(* For each user and each of its local users, a pass compares the stamp of  *)
(* the other with the one recorded in the attributes of the pair, and       *)
(* sends.  Who is a local user of whom, and the intervals, are settled by   *)
(* ClientUpdater and constant here.  A tick is the time that a pass takes;  *)
(* reports come at any point of it.                                         *)
(***************************************************************************)
EXTENDS Integers

CONSTANTS Users,
          Pairs,          \* <<user, other>>: other is a local user of user
          Requested,      \* of each user: how often it wants to hear of others
          UpdateInterval, \* of each user: how often it is to report
          Day,            \* ticks in a day
          Begin, Horizon, \* bounds: the ticks between which the model runs
          Uninitialized   \* what User::last_position_update may hold before a report

ASSUME PositionFeedAssumption ==
  /\ Pairs \subseteq {p \in Users \X Users : p[1] # p[2]}
  /\ Requested \in [Users -> Nat] /\ UpdateInterval \in [Users -> Nat \ {0}]
  /\ \A p \in Pairs : UpdateInterval[p[2]] <= Requested[p[1]]   \* timeUpdate sees to it
  /\ Day \in Nat \ {0} /\ Begin \in Nat /\ Horizon \in Nat /\ Begin <= Horizon
  /\ Uninitialized \subseteq Nat

VARIABLES now,
          updateRequired,       \* of each user; its setter is without effect (user.h:59)
          last_position_update, \* of each user, a time of day
          last,                 \* LAST_POS_UPDATE of each pair; 0 is the null pointer
          visited,              \* the pairs that this pass has come to
          pair, stamp,          \* the pair it is at, and otherUpdateStamp
          reportAge,            \* history: ticks since the last report of a user
          heldAge,              \* history: ticks since the report of the position that the
                                \* first user's client holds of the second
          sentAge               \* history: ticks since an update of the pair was in range

clock == <<now, reportAge, sentAge>>
vars  == <<clock, updateRequired, last_position_update, last, visited, pair, stamp, heldAge>>

NoPair    == <<>>
MidnightLate == now % (Day + 1)   \* mutant: the day ends a tick late
TimeOfDay == now % Day
Cap       == Horizon + Day
Older(n)  == IF n < Cap THEN n + 1 ELSE Cap

Init == /\ now = Begin
        /\ updateRequired \in [Users -> BOOLEAN]
        /\ last_position_update \in [Users -> Uninitialized]
        /\ last = [p \in Pairs |-> 0]
        /\ visited = {} /\ pair = NoPair /\ stamp = 0
        /\ reportAge = [u \in Users |-> 0]     \* the position of the handshake, which
        /\ heldAge = [p \in Pairs |-> 0]       \* create_client has passed on
        /\ sentAge = [p \in Pairs |-> Cap]

-----------------------------------------------------------------------------
\* The next pass.  Clients are in time: each has reported by the end of its interval.
Tick ==
  /\ now < Horizon
  /\ visited = Pairs /\ pair = NoPair
  /\ \A u \in Users : reportAge[u] < UpdateInterval[u]
  /\ now' = now + 1
  /\ visited' = {}
  /\ reportAge' = [u \in Users |-> reportAge[u] + 1]
  /\ heldAge' = [p \in Pairs |-> Older(heldAge[p])]
  /\ sentAge' = [p \in Pairs |-> Older(sentAge[p])]
  /\ UNCHANGED <<updateRequired, last_position_update, last, pair, stamp>>

\* PilotUpdate, ControllerUpdate: a new position, and its stamp.
Report(u) ==
  /\ reportAge[u] > 0
  /\ last_position_update' = [last_position_update EXCEPT ![u] = TimeOfDay]
  /\ reportAge' = [reportAge EXCEPT ![u] = 0]
  /\ UNCHANGED <<now, sentAge, updateRequired, last, visited, pair, stamp, heldAge>>

-----------------------------------------------------------------------------
(* One pair of a pass: otherUpdateStamp is read first, the position that is *)
(* sent later.                                                              *)

Look(p) ==
  /\ pair = NoPair /\ p \notin visited
  /\ pair' = p /\ stamp' = last_position_update[p[2]]
  /\ visited' = visited \cup {p}
  /\ UNCHANGED <<clock, updateRequired, last_position_update, last, heldAge>>

Interval == TimeOfDay - last[pair]

NewsAtAnyInterval == stamp # last[pair]           \* mutant: the interval is not compared

News == stamp # last[pair] /\ Interval >= Requested[pair[1]]

MinTime(p) == Requested[p[1]] - UpdateInterval[p[2]]

MaxTimeAsRequested(p) == Requested[p[1]]          \* mutant: the other's interval is left out

MaxTime(p) == Requested[p[1]] + UpdateInterval[p[2]]

InRange == MinTime(pair) <= Interval /\ Interval <= MaxTime(pair)

Leave == /\ pair' = NoPair /\ stamp' = 0
         /\ UNCHANGED <<now, reportAge, updateRequired, last_position_update, visited>>

\* The attributes are recorded, whichever of the two was sent the other's position.
Record == last' = [last EXCEPT ![pair] = stamp] /\ Leave

\* send_pos_update(to, about): a client that does not show `about` takes no notice.
SendPosUpdate(to, about) ==
  heldAge' = IF <<to, about>> \in Pairs THEN [heldAge EXCEPT ![<<to, about>>] = reportAge[about]]
                                        ELSE heldAge

\* The user needs an update, or the new position is within range for one.
UpdateUser ==
  /\ pair # NoPair
  /\ updateRequired[pair[1]] \/ (last[pair] # 0 /\ News /\ InRange)
  /\ SendPosUpdate(pair[1], pair[2])
  /\ sentAge' = [sentAge EXCEPT ![pair] = 0]
  /\ Record

\* Not updated yet, or long overdue: it is the other that is sent this user's position.
UpdateOther ==
  /\ pair # NoPair /\ ~updateRequired[pair[1]]
  /\ last[pair] = 0 \/ (News /\ Interval > MaxTime(pair))
  /\ SendPosUpdate(pair[2], pair[1])
  /\ UNCHANGED sentAge
  /\ Record

\* The stamp is the same, or it is too early for the next update.
LeaveAlone ==
  /\ pair # NoPair /\ ~updateRequired[pair[1]]
  /\ last[pair] # 0 /\ ~(News /\ (InRange \/ Interval > MaxTime(pair)))
  /\ UNCHANGED <<last, heldAge, sentAge>>
  /\ Leave

Next == \/ Tick
        \/ \E u \in Users : Report(u)
        \/ \E p \in Pairs : Look(p)
        \/ UpdateUser \/ UpdateOther \/ LeaveAlone

Spec == Init /\ [][Next]_vars

-----------------------------------------------------------------------------
Stamps == 0..Day - 1 \cup Uninitialized

TypeOK ==
  /\ now \in Begin..Horizon
  /\ updateRequired \in [Users -> BOOLEAN]
  /\ last_position_update \in [Users -> Stamps] /\ last \in [Pairs -> Stamps]
  /\ visited \subseteq Pairs
  /\ pair \in visited \cup {NoPair} /\ stamp \in Stamps
  /\ reportAge \in [Users -> Nat] /\ \A u \in Users : reportAge[u] <= UpdateInterval[u]
  /\ heldAge \in [Pairs -> 0..Cap] /\ sentAge \in [Pairs -> 0..Cap]

\* No client holds a position of another that is older than what it asked for and the other's
\* interval together (maxTime, client_updater.cpp:145), and two passes.
Fresh(p)    == heldAge[p] <= MaxTime(p) + 2
FreshEnough == \A p \in Pairs : Fresh(p)

\* A pair is served in time as long as the stamp recorded for it is not ahead of the clock,
\* whatever the order of reports and visits, and although first and overdue updates go to
\* the other of the two (client_updater.cpp:155-160, :164-169).
FreshUnlessAhead == \A p \in Pairs : [](last[p] <= TimeOfDay) => []Fresh(p)

\* Updates of a pair that are in range are never closer than minTime, although the interval is
\* counted from the stamp of the position and not from the update (client_updater.cpp:140-148).
Paced == [][\A p \in Pairs : sentAge'[p] < sentAge[p] /\ ~updateRequired[p[1]] => sentAge[p] >= MinTime(p)]_sentAge
=============================================================================
