---------------------------- MODULE ClientManager ----------------------------
(***************************************************************************)
(* client_manager.h, and the part of the handshake that uses it: the four   *)
(* tables in which connected clients are found (by socket, id, index and    *)
(* callsign) and the queue of free client indexes.                          *)
(*                                                                          *)
(* Handshakes run on the workers of the pool, several at a time on          *)
(* different sockets.  A handshake takes its index in one critical section  *)
(* (queue_mutex_) and enters the tables in a later one (all four table      *)
(* mutexes held together); what it does in between is private.              *)
(***************************************************************************)
EXTENDS Integers, Sequences

CONSTANTS Users,       \* the User objects the handshakes create
          Sockets,     \* socket handles; the system hands a closed one out again
          Ids,         \* user ids: the user names of the clients
          Callsigns,   \* the callsigns clients choose for themselves
          MaxClients,  \* MAX_CLIENTS
          NoUser       \* "not in the table"

ASSUME ClientManagerAssumption ==
  /\ MaxClients \in Nat \ {0}
  /\ NoUser \notin Users

VARIABLES available_indices_,  \* std::queue<int>
          stage,               \* how far each User got
          index,               \* User::index
          id, callsign,        \* User::id and Identity::callsign
          clients_,            \* socket -> user
          users_by_id_,
          users_by_index_,
          users_by_callsign

tables == <<clients_, users_by_id_, users_by_index_, users_by_callsign>>
vars   == <<available_indices_, stage, index, id, callsign, tables>>

\* A User is created by a handshake, which gives it an index; the handshake then either
\* places it or rejects it (response 2).  A placed user may be removed.
Stage   == {"unborn", "indexed", "placed", "rejected", "removed"}
Placed  == {u \in Users : stage[u] = "placed"}
Indices == 0..MaxClients - 1
Key     == -1..MaxClients - 1   \* -1: provide_index found the queue empty

Queued == {available_indices_[n] : n \in 1..Len(available_indices_)}

InitOneTooMany ==                  \* mutant: i <= max_clients
  /\ available_indices_ = [n \in 1..MaxClients + 1 |-> n - 1]
  /\ stage = [u \in Users |-> "unborn"]
  /\ index = [u \in Users |-> -1]
  /\ id \in [Users -> Ids]
  /\ callsign \in [Users -> Callsigns]
  /\ clients_ = [s \in Sockets |-> NoUser]
  /\ users_by_id_ = [i \in Ids |-> NoUser]
  /\ users_by_index_ = [k \in Key |-> NoUser]
  /\ users_by_callsign = [c \in Callsigns |-> NoUser]

Init == /\ available_indices_ = [n \in 1..MaxClients |-> n - 1]
        /\ stage = [u \in Users |-> "unborn"]
        /\ index = [u \in Users |-> -1]
        /\ id \in [Users -> Ids]
        /\ callsign \in [Users -> Callsigns]
        /\ clients_ = [s \in Sockets |-> NoUser]
        /\ users_by_id_ = [i \in Ids |-> NoUser]
        /\ users_by_index_ = [k \in Key |-> NoUser]
        /\ users_by_callsign = [c \in Callsigns |-> NoUser]

-----------------------------------------------------------------------------
(* new_user->setIndex(clientManager.provide_index()): every handshake takes *)
(* an index, also the one that is about to be rejected.                     *)

ProvideIndexWithoutPop(u) ==       \* mutant: front() without pop()
  /\ stage[u] = "unborn"
  /\ index' = [index EXCEPT ![u] =
                 IF available_indices_ = <<>> THEN -1 ELSE Head(available_indices_)]
  /\ stage' = [stage EXCEPT ![u] = "indexed"]
  /\ UNCHANGED <<available_indices_, id, callsign, tables>>

ProvideIndex(u) ==
  /\ stage[u] = "unborn"
  /\ \/ /\ available_indices_ = <<>>
        /\ index' = [index EXCEPT ![u] = -1]
        /\ UNCHANGED available_indices_
     \/ /\ available_indices_ # <<>>
        /\ index' = [index EXCEPT ![u] = Head(available_indices_)]
        /\ available_indices_' = Tail(available_indices_)
  /\ stage' = [stage EXCEPT ![u] = "indexed"]
  /\ UNCHANGED <<id, callsign, tables>>

PlacementWithoutId(u, s) ==        \* mutant: one of the four tables is not filled
  /\ stage[u] = "indexed"
  /\ clients_' = [clients_ EXCEPT ![s] = u]
  /\ users_by_index_' = [users_by_index_ EXCEPT ![index[u]] = u]
  /\ users_by_callsign' = [users_by_callsign EXCEPT ![callsign[u]] = u]
  /\ stage' = [stage EXCEPT ![u] = "placed"]
  /\ UNCHANGED <<available_indices_, index, id, callsign, users_by_id_>>

\* provide_placement: the client may come on any socket, one that an earlier client left
\* behind in clients_ included, and a client without an index is placed like any other.
ProvidePlacement(u, s) ==
  /\ stage[u] = "indexed"
  /\ clients_' = [clients_ EXCEPT ![s] = u]
  /\ users_by_id_' = [users_by_id_ EXCEPT ![id[u]] = u]
  /\ users_by_index_' = [users_by_index_ EXCEPT ![index[u]] = u]
  /\ users_by_callsign' = [users_by_callsign EXCEPT ![callsign[u]] = u]
  /\ stage' = [stage EXCEPT ![u] = "placed"]
  /\ UNCHANGED <<available_indices_, index, id, callsign>>

\* Another protocol version (response 2): the User goes away, its index with it.
Reject(u) ==
  /\ stage[u] = "indexed"
  /\ stage' = [stage EXCEPT ![u] = "rejected"]
  /\ UNCHANGED <<available_indices_, index, id, callsign, tables>>

-----------------------------------------------------------------------------
(* remove_user, the way out of the tables.  Its one user, disconnect_user,  *)
(* is an operation of the server that nothing calls yet.                    *)

RemoveUserKeepingCallsign(s) ==    \* mutant: users_by_callsign.erase forgotten
  LET u == clients_[s] IN
  /\ u # NoUser
  /\ available_indices_' = Append(available_indices_, index[u])
  /\ users_by_index_' = [users_by_index_ EXCEPT ![index[u]] = NoUser]
  /\ users_by_id_' = [users_by_id_ EXCEPT ![id[u]] = NoUser]
  /\ clients_' = [clients_ EXCEPT ![s] = NoUser]
  /\ stage' = [stage EXCEPT ![u] = "removed"]
  /\ UNCHANGED <<index, id, callsign, users_by_callsign>>

RemoveUserFreeingTwice(s) ==       \* mutant: the caller pushes the index as well
  LET u == clients_[s] IN
  /\ u # NoUser
  /\ available_indices_' = available_indices_ \o <<index[u], index[u]>>
  /\ users_by_index_' = [users_by_index_ EXCEPT ![index[u]] = NoUser]
  /\ users_by_id_' = [users_by_id_ EXCEPT ![id[u]] = NoUser]
  /\ users_by_callsign' = [users_by_callsign EXCEPT ![callsign[u]] = NoUser]
  /\ clients_' = [clients_ EXCEPT ![s] = NoUser]
  /\ stage' = [stage EXCEPT ![u] = "removed"]
  /\ UNCHANGED <<index, id, callsign>>

RemoveUser(s) ==
  LET u == clients_[s] IN
  /\ u # NoUser
  /\ available_indices_' = Append(available_indices_, index[u])
  /\ users_by_index_' = [users_by_index_ EXCEPT ![index[u]] = NoUser]
  /\ users_by_id_' = [users_by_id_ EXCEPT ![id[u]] = NoUser]
  /\ users_by_callsign' = [users_by_callsign EXCEPT ![callsign[u]] = NoUser]
  /\ clients_' = [clients_ EXCEPT ![s] = NoUser]
  /\ stage' = [stage EXCEPT ![u] = "removed"]
  /\ UNCHANGED <<index, id, callsign>>

-----------------------------------------------------------------------------
Next == \/ \E u \in Users : ProvideIndex(u) \/ Reject(u)
        \/ \E u \in Users, s \in Sockets : ProvidePlacement(u, s)
        \/ \E s \in Sockets : RemoveUser(s)

Spec == Init /\ [][Next]_vars

-----------------------------------------------------------------------------
TypeOK ==
  /\ available_indices_ \in Seq(Key)
  /\ stage \in [Users -> Stage]
  /\ index \in [Users -> Key]
  /\ id \in [Users -> Ids]
  /\ callsign \in [Users -> Callsigns]
  /\ clients_ \in [Sockets -> Users \cup {NoUser}]
  /\ users_by_id_ \in [Ids -> Users \cup {NoUser}]
  /\ users_by_index_ \in [Key -> Users \cup {NoUser}]
  /\ users_by_callsign \in [Callsigns -> Users \cup {NoUser}]

\* An index stays taken from the handshake that got it until the user is removed.
Holders(k) == {u \in Users : stage[u] \in {"indexed", "placed", "rejected"} /\ index[u] = k}

\* Every index has one owner, through handshakes, rejections, placements over a stale
\* socket entry and removals: it is in the queue once and held by nobody, or it is not
\* in the queue and held by one user (client_manager.h:23-32, :81).
OneOwner ==
  \A k \in Indices :
    /\ \A m, n \in 1..Len(available_indices_) :
          available_indices_[m] = k /\ available_indices_[n] = k => m = n
    /\ \A u, v \in Holders(k) : u = v
    /\ k \in Queued <=> Holders(k) = {}

\* A client that has an index is the one get_user_by_index finds under it: the handlers
\* of ChangeCycle and PilotTitle (incoming_packets.cpp:82, :111) compare the two, and
\* RequestFlightPlan acts on the result, whoever else came or went meanwhile.
FoundByOwnIndex == \A u \in Placed : index[u] >= 0 => users_by_index_[index[u]] = u

\* No table returns a client that is gone or not yet there, or one whose id, index or
\* callsign is not the one asked for (the erases of client_manager.h:82-85).
NoStaleLookup ==
  /\ \A s \in Sockets : clients_[s] # NoUser => clients_[s] \in Placed
  /\ \A i \in Ids : LET u == users_by_id_[i] IN
        u # NoUser => u \in Placed /\ id[u] = i
  /\ \A k \in Key : LET u == users_by_index_[k] IN
        u # NoUser => u \in Placed /\ index[u] = k
  /\ \A c \in Callsigns : LET u == users_by_callsign[c] IN
        u # NoUser => u \in Placed /\ callsign[u] = c

\* A client is lost to lookups by callsign or id only if another client used the same
\* callsign or id (tables keyed by values the clients choose, client_manager.h:65-67).
LostOnlyWhenShared ==
  \A u \in Placed :
    /\ \/ users_by_callsign[callsign[u]] = u
       \/ \E v \in Users \ {u} : callsign[v] = callsign[u] /\ stage[v] \in {"placed", "removed"}
    /\ \/ users_by_id_[id[u]] = u
       \/ \E v \in Users \ {u} : id[v] = id[u] /\ stage[v] \in {"placed", "removed"}
=============================================================================
