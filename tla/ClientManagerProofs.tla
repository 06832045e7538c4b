------------------------- MODULE ClientManagerProofs -------------------------
(***************************************************************************)
(* The registry of clients, for any set of users and any MAX_CLIENTS: an    *)
(* index has one owner, and a client is found under its own index.          *)
(***************************************************************************)
EXTENDS ClientManager, SequenceTheorems, TLAPS

THEOREM TypeCorrect == Spec => []TypeOK
<1> USE DEF Key, Stage
<1>1. Init => TypeOK
  <2> SUFFICES ASSUME Init PROVE TypeOK
    OBVIOUS
  <2>1. available_indices_ \in [1..MaxClients -> Key]
    BY ClientManagerAssumption DEF Init
  <2>2. available_indices_ \in Seq(Key)
    BY <2>1, ClientManagerAssumption
  <2>3. -1 \in Key
    BY ClientManagerAssumption
  <2>4. QED BY <2>2, <2>3 DEF Init, TypeOK
<1>2. TypeOK /\ [Next]_vars => TypeOK'
  <2> SUFFICES ASSUME TypeOK, [Next]_vars PROVE TypeOK'
    OBVIOUS
  <2> USE DEF TypeOK
  <2>1. ASSUME NEW u \in Users, ProvideIndex(u) PROVE TypeOK'
    <3>1. CASE available_indices_ = <<>>
      <4>1. -1 \in Key
        BY ClientManagerAssumption
      <4>2. QED BY <2>1, <3>1, <4>1 DEF ProvideIndex, tables
    <3>2. CASE available_indices_ # <<>>
      <4>1. Head(available_indices_) \in Key /\ Tail(available_indices_) \in Seq(Key)
        BY <3>2, HeadTailProperties
      <4>2. QED BY <2>1, <3>2, <4>1 DEF ProvideIndex, tables
    <3>3. QED BY <3>1, <3>2
  <2>2. ASSUME NEW u \in Users, Reject(u) PROVE TypeOK'
    BY <2>2 DEF Reject, tables
  <2>3. ASSUME NEW u \in Users, NEW s \in Sockets, ProvidePlacement(u, s) PROVE TypeOK'
    BY <2>3 DEF ProvidePlacement
  <2>4. ASSUME NEW s \in Sockets, RemoveUser(s) PROVE TypeOK'
    <3>1. clients_[s] \in Users
      BY <2>4 DEF RemoveUser
    <3>2. Append(available_indices_, index[clients_[s]]) \in Seq(Key)
      BY <3>1, AppendProperties
    <3>3. QED BY <2>4, <3>1, <3>2 DEF RemoveUser
  <2>5. CASE UNCHANGED vars
    BY <2>5 DEF vars, tables
  <2>6. QED BY <2>1, <2>2, <2>3, <2>4, <2>5 DEF Next
<1>3. QED BY <1>1, <1>2, PTL DEF Spec

-----------------------------------------------------------------------------
(* No table returns a user that is not placed, and each entry is filed      *)
(* under the user's own key.  The placement of a user needs that no entry   *)
(* refers to it yet; a removal clears the three keys of the one user that   *)
(* goes.  A socket entry needs more: a user has only one.                   *)

OneSocket == \A s, t \in Sockets : clients_[s] = clients_[t] /\ clients_[s] # NoUser => s = t

THEOREM NoStale == Spec => [](NoStaleLookup /\ OneSocket)
<1> USE DEF NoStaleLookup, OneSocket, Placed
<1>1. Init => NoStaleLookup /\ OneSocket
  BY DEF Init
<1>2. TypeOK /\ NoStaleLookup /\ OneSocket /\ [Next]_vars => (NoStaleLookup /\ OneSocket)'
  <2> SUFFICES ASSUME TypeOK, NoStaleLookup, OneSocket, [Next]_vars
               PROVE  NoStaleLookup' /\ OneSocket'
    OBVIOUS
  <2> USE DEF TypeOK, Stage
  <2>1. ASSUME NEW u \in Users, ProvideIndex(u) PROVE NoStaleLookup' /\ OneSocket'
    <3>1. /\ index' = [index EXCEPT ![u] = index'[u]]
          /\ stage' = [stage EXCEPT ![u] = "indexed"] /\ stage[u] = "unborn"
          /\ UNCHANGED <<id, callsign, tables>>
      BY <2>1 DEF ProvideIndex
    <3>2. QED BY <3>1 DEF tables
  <2>2. ASSUME NEW u \in Users, Reject(u) PROVE NoStaleLookup' /\ OneSocket'
    BY <2>2 DEF Reject, tables
  <2>3. ASSUME NEW u \in Users, NEW s \in Sockets, ProvidePlacement(u, s)
        PROVE  NoStaleLookup' /\ OneSocket'
    BY <2>3 DEF ProvidePlacement
  <2>4. ASSUME NEW s \in Sockets, RemoveUser(s) PROVE NoStaleLookup' /\ OneSocket'
    BY <2>4 DEF RemoveUser
  <2>5. CASE UNCHANGED vars
    BY <2>5 DEF vars, tables
  <2>6. QED BY <2>1, <2>2, <2>3, <2>4, <2>5 DEF Next
<1>3. QED BY <1>1, <1>2, TypeCorrect, PTL DEF Spec

-----------------------------------------------------------------------------
(* One owner per index.  Inductive with the facts above: a removal gives    *)
(* back the index of a user that holds it, and only of that one.            *)

OwnedOnce(k) ==
  /\ \A m, n \in 1..Len(available_indices_) :
        available_indices_[m] = k /\ available_indices_[n] = k => m = n
  /\ \A u, v \in Holders(k) : u = v
  /\ k \in Queued <=> Holders(k) = {}

LEMMA TakeIndex ==
  ASSUME TypeOK, NEW u \in Users, ProvideIndex(u), NEW k \in Indices, OwnedOnce(k)
  PROVE  OwnedOnce(k)'
<1> USE DEF TypeOK, Key, Indices
<1>1. u \notin Holders(k)
  BY DEF ProvideIndex, Holders
<1>2. CASE available_indices_ = <<>>
  <2>1. Holders(k)' = Holders(k)
    BY <1>1, <1>2, ClientManagerAssumption DEF ProvideIndex, Holders
  <2>2. available_indices_' = available_indices_
    BY <1>2 DEF ProvideIndex
  <2>3. QED BY <2>1, <2>2 DEF OwnedOnce, Queued
<1>3. CASE available_indices_ # <<>>
  <2> DEFINE q == available_indices_
             h == Head(q)
  <2>1. /\ q' = Tail(q) /\ Len(q') = Len(q) - 1 /\ Len(q) \in Nat \ {0}
        /\ \A n \in 1..Len(q') : q'[n] = q[n + 1]
        /\ h = q[1]
    <3>1. q' = Tail(q)
      BY <1>3 DEF ProvideIndex
    <3>2. q # <<>> => Len(q) \in Nat \ {0} /\ Head(q) = q[1]
      BY EmptySeq
    <3>3. Len(Tail(q)) = Len(q) - 1 /\ \A n \in 1..Len(Tail(q)) : Tail(q)[n] = q[n + 1]
      BY <1>3, HeadTailProperties
    <3>4. QED BY <1>3, <3>1, <3>2, <3>3
  <2>2. \A n \in 1..Len(q') : n + 1 \in 1..Len(q)
    BY <2>1
  <2>3. index' = [index EXCEPT ![u] = h] /\ stage' = [stage EXCEPT ![u] = "indexed"]
    BY <1>3 DEF ProvideIndex
  <2>4. Holders(k)' = IF k = h THEN Holders(k) \cup {u} ELSE Holders(k)
    BY <1>1, <2>3 DEF Holders
  <2>5. k \in Queued' <=> k \in Queued /\ k # h
    <3>1. ASSUME k \in Queued' PROVE k \in Queued /\ k # h
      <4>1. PICK n \in 1..Len(q') : q'[n] = k
        BY <3>1 DEF Queued
      <4>2. q[n + 1] = k /\ n + 1 \in 1..Len(q) /\ n + 1 # 1 /\ 1 \in 1..Len(q)
        BY <4>1, <2>1, <2>2
      <4>3. QED BY <4>2, <2>1 DEF OwnedOnce, Queued
    <3>2. ASSUME k \in Queued, k # h PROVE k \in Queued'
      <4>1. PICK n \in 1..Len(q) : q[n] = k
        BY <3>2 DEF Queued
      <4>2. n # 1
        BY <4>1, <3>2, <2>1
      <4>3. n - 1 \in 1..Len(q') /\ q'[n - 1] = k
        BY <4>1, <4>2, <2>1
      <4>4. QED BY <4>3 DEF Queued
    <3>3. QED BY <3>1, <3>2
  <2>6. ASSUME NEW m \in 1..Len(q'), NEW n \in 1..Len(q'), q'[m] = k, q'[n] = k
        PROVE  m = n
    BY <2>1, <2>2, <2>6 DEF OwnedOnce
  <2>7. k = h => k \in Queued
    BY <2>1 DEF Queued
  <2>8. QED BY <2>4, <2>5, <2>6, <2>7 DEF OwnedOnce
<1>4. QED BY <1>2, <1>3

LEMMA GiveBackIndex ==
  ASSUME TypeOK, NoStaleLookup, NEW s \in Sockets, RemoveUser(s),
         NEW k \in Indices, OwnedOnce(k)
  PROVE  OwnedOnce(k)'
<1> DEFINE u == clients_[s]
           q == available_indices_
<1> USE DEF TypeOK, Key, Indices
<1>1. u \in Placed /\ u \in Users /\ stage[u] = "placed"
  BY DEF RemoveUser, NoStaleLookup, Placed
<1>2. /\ q' = Append(q, index[u]) /\ Len(q) \in Nat /\ Len(q') = Len(q) + 1
      /\ \A n \in 1..Len(q) : q'[n] = q[n]
      /\ q'[Len(q) + 1] = index[u]
  BY <1>1, AppendProperties, LenProperties DEF RemoveUser
<1>3. stage' = [stage EXCEPT ![u] = "removed"] /\ index' = index
  BY DEF RemoveUser
<1>4. Holders(k)' = Holders(k) \ {u}
  BY <1>1, <1>3 DEF Holders
<1>5. u \in Holders(k) <=> index[u] = k
  BY <1>1 DEF Holders
<1>6. \A n \in 1..Len(q') : n \in 1..Len(q) \/ n = Len(q) + 1
  BY <1>2
<1>7. k \in Queued' <=> k \in Queued \/ k = index[u]
  BY <1>2, <1>6 DEF Queued
<1>8. CASE index[u] = k
  <2>1. Holders(k) = {u} /\ k \notin Queued
    BY <1>5, <1>8 DEF OwnedOnce
  <2>2. \A n \in 1..Len(q') : q'[n] = k => n = Len(q) + 1
    BY <1>2, <1>6, <2>1 DEF Queued
  <2>3. QED BY <1>4, <1>7, <1>8, <2>1, <2>2 DEF OwnedOnce
<1>9. CASE index[u] # k
  <2>1. \A n \in 1..Len(q') : q'[n] = k => n \in 1..Len(q)
    BY <1>2, <1>6, <1>9
  <2>2. Holders(k)' = Holders(k)
    BY <1>4, <1>5, <1>9
  <2>3. QED BY <1>2, <1>7, <1>9, <2>1, <2>2 DEF OwnedOnce
<1>10. QED BY <1>8, <1>9

(* No index is ever held by two clients, held and free, or lost.            *)
THEOREM Ownership == Spec => []OneOwner
<1> USE DEF OneOwner
<1>1. Init => OneOwner
  <2> SUFFICES ASSUME Init, NEW k \in Indices PROVE OwnedOnce(k)
    BY DEF OwnedOnce
  <2>1. /\ Len(available_indices_) = MaxClients
        /\ \A n \in 1..MaxClients : available_indices_[n] = n - 1
    BY ClientManagerAssumption DEF Init
  <2>2. Holders(k) = {}
    BY DEF Init, Holders
  <2>3. k + 1 \in 1..MaxClients /\ available_indices_[k + 1] = k
    BY <2>1, ClientManagerAssumption DEF Indices
  <2>4. k \in Queued
    BY <2>1, <2>3 DEF Queued
  <2>5. QED BY <2>1, <2>2, <2>4, ClientManagerAssumption DEF OwnedOnce, Indices
<1>2. TypeOK /\ NoStaleLookup /\ OneOwner /\ [Next]_vars => OneOwner'
  <2> SUFFICES ASSUME TypeOK, NoStaleLookup, OneOwner, [Next]_vars, NEW k \in Indices
               PROVE  OwnedOnce(k)'
    BY DEF OwnedOnce, Indices
  <2>0. OwnedOnce(k)
    BY DEF OwnedOnce
  <2>1. ASSUME NEW u \in Users, ProvideIndex(u) PROVE OwnedOnce(k)'
    BY <2>0, <2>1, TakeIndex
  <2>2. ASSUME NEW s \in Sockets, RemoveUser(s) PROVE OwnedOnce(k)'
    BY <2>0, <2>2, GiveBackIndex
  <2>3. ASSUME UNCHANGED <<available_indices_, index>>,
               \A u \in Users : stage'[u] \in {"indexed", "placed", "rejected"}
                                <=> stage[u] \in {"indexed", "placed", "rejected"}
        PROVE  OwnedOnce(k)'
    <3>1. Holders(k)' = Holders(k)
      BY <2>3 DEF Holders
    <3>2. QED BY <2>0, <2>3, <3>1 DEF OwnedOnce, Queued
  <2>4. ASSUME NEW u \in Users, Reject(u) PROVE OwnedOnce(k)'
    BY <2>3, <2>4 DEF Reject, TypeOK
  <2>5. ASSUME NEW u \in Users, NEW s \in Sockets, ProvidePlacement(u, s)
        PROVE  OwnedOnce(k)'
    BY <2>3, <2>5 DEF ProvidePlacement, TypeOK
  <2>6. CASE UNCHANGED vars
    BY <2>3, <2>6 DEF vars
  <2>7. QED BY <2>1, <2>2, <2>4, <2>5, <2>6 DEF Next
<1>3. QED BY <1>1, <1>2, TypeCorrect, NoStale, PTL DEF Spec

(* A client with an index is what get_user_by_index returns for it: others  *)
(* that come or go have other indexes.                                      *)
THEOREM FoundByIndex == Spec => []FoundByOwnIndex
<1>1. Init => FoundByOwnIndex
  BY DEF Init, FoundByOwnIndex, Placed
<1>2. TypeOK /\ NoStaleLookup /\ OneOwner /\ FoundByOwnIndex /\ [Next]_vars
        => FoundByOwnIndex'
  <2> SUFFICES ASSUME TypeOK, NoStaleLookup, OneOwner, FoundByOwnIndex, [Next]_vars
               PROVE  FoundByOwnIndex'
    OBVIOUS
  <2> USE DEF TypeOK, FoundByOwnIndex, Placed
  <2>1. \A u, v \in Placed : index[u] = index[v] /\ index[u] >= 0 => u = v
    BY DEF OneOwner, Holders, Indices, Key
  <2>2. ASSUME NEW u \in Users, ProvideIndex(u) PROVE FoundByOwnIndex'
    BY <2>2 DEF ProvideIndex, tables
  <2>3. ASSUME NEW u \in Users, Reject(u) PROVE FoundByOwnIndex'
    BY <2>3 DEF Reject, tables
  <2>4. ASSUME NEW u \in Users, NEW s \in Sockets, ProvidePlacement(u, s)
        PROVE  FoundByOwnIndex'
    <3>1. \A v \in Placed : index[v] >= 0 => index[v] # index[u]
      <4> SUFFICES ASSUME NEW v \in Placed, index[v] >= 0, index[v] = index[u] PROVE FALSE
        OBVIOUS
      <4>1. index[v] \in Indices
        BY DEF Indices, Key
      <4>2. u \in Holders(index[v]) /\ v \in Holders(index[v])
        BY <2>4 DEF ProvidePlacement, Holders
      <4>3. u = v
        BY <4>1, <4>2 DEF OneOwner
      <4>4. QED BY <2>4, <4>3 DEF ProvidePlacement
    <3>2. QED BY <2>4, <3>1 DEF ProvidePlacement
  <2>5. ASSUME NEW s \in Sockets, RemoveUser(s) PROVE FoundByOwnIndex'
    <3>1. clients_[s] \in Placed
      BY <2>5 DEF RemoveUser, NoStaleLookup
    <3>2. QED BY <2>1, <2>5, <3>1 DEF RemoveUser
  <2>6. CASE UNCHANGED vars
    BY <2>6 DEF vars, tables
  <2>7. QED BY <2>2, <2>3, <2>4, <2>5, <2>6 DEF Next
<1>3. QED BY <1>1, <1>2, TypeCorrect, NoStale, Ownership, PTL DEF Spec
-----------------------------------------------------------------------------
(* A callsign or an id is lost to a lookup in two ways: another user is     *)
(* placed over the entry, or another one that shares it is removed.  Either *)
(* way the other was placed once, and stays known as placed or removed.     *)

SharesWith(u, key) ==
  \E v \in Users \ {u} : key[v] = key[u] /\ stage[v] \in {"placed", "removed"}

LEMMA StillShared ==
  ASSUME TypeOK, [Next]_vars, NEW u \in Users
  PROVE  /\ SharesWith(u, callsign) => SharesWith(u, callsign)'
         /\ SharesWith(u, id) => SharesWith(u, id)'
<1>1. UNCHANGED <<id, callsign>>
  BY DEF Next, ProvideIndex, Reject, ProvidePlacement, RemoveUser, vars
<1>2. \A v \in Users : stage[v] \in {"placed", "removed"} => stage'[v] \in {"placed", "removed"}
  BY DEF Next, ProvideIndex, Reject, ProvidePlacement, RemoveUser, vars, TypeOK, Stage
<1> QED
  BY <1>1, <1>2 DEF SharesWith

\* A client is lost to lookups by its callsign or id only if another client used the same
\* (client_manager.h:65-67, :82-85), for any number of clients that choose any.
THEOREM Lost == Spec => []LostOnlyWhenShared
<1>1. Init => LostOnlyWhenShared
  BY DEF Init, LostOnlyWhenShared, Placed
<1>2. TypeOK /\ LostOnlyWhenShared /\ [Next]_vars => LostOnlyWhenShared'
  <2> SUFFICES ASSUME TypeOK, LostOnlyWhenShared, [Next]_vars, NEW u \in Users, stage'[u] = "placed"
               PROVE  /\ users_by_callsign'[callsign'[u]] = u \/ SharesWith(u, callsign)'
                      /\ users_by_id_'[id'[u]] = u \/ SharesWith(u, id)'
    BY DEF LostOnlyWhenShared, Placed, SharesWith
  <2>0. /\ stage[u] = "placed" => /\ users_by_callsign[callsign[u]] = u \/ SharesWith(u, callsign)'
                                  /\ users_by_id_[id[u]] = u \/ SharesWith(u, id)'
    BY StillShared DEF LostOnlyWhenShared, Placed, SharesWith
  <2>1. CASE UNCHANGED <<id, callsign, tables>> /\ stage[u] = "placed"
    BY <2>0, <2>1 DEF tables
  <2>2. ASSUME NEW x \in Users, ProvideIndex(x) \/ Reject(x)
        PROVE  UNCHANGED <<id, callsign, tables>> /\ stage[u] = "placed"
    BY <2>2 DEF ProvideIndex, Reject, TypeOK
  <2>3. CASE UNCHANGED vars
    BY <2>1, <2>3 DEF vars
  <2>4. ASSUME NEW x \in Users, NEW s \in Sockets, ProvidePlacement(x, s)
        PROVE  /\ users_by_callsign'[callsign'[u]] = u \/ SharesWith(u, callsign)'
               /\ users_by_id_'[id'[u]] = u \/ SharesWith(u, id)'
    <3>1. /\ users_by_callsign' = [users_by_callsign EXCEPT ![callsign[x]] = x]
          /\ users_by_id_' = [users_by_id_ EXCEPT ![id[x]] = x]
          /\ stage' = [stage EXCEPT ![x] = "placed"] /\ UNCHANGED <<id, callsign>>
      BY <2>4 DEF ProvidePlacement
    <3>2. CASE u = x
      BY <3>1, <3>2 DEF TypeOK
    <3>3. CASE u # x
      <4>1. stage[u] = "placed" /\ stage'[x] = "placed"
        BY <3>1, <3>3 DEF TypeOK
      <4>2. callsign[u] = callsign[x] => SharesWith(u, callsign)'
        BY <3>1, <3>3, <4>1 DEF SharesWith
      <4>3. id[u] = id[x] => SharesWith(u, id)'
        BY <3>1, <3>3, <4>1 DEF SharesWith
      <4> QED
        BY <2>0, <3>1, <4>1, <4>2, <4>3 DEF TypeOK
    <3> QED
      BY <3>2, <3>3
  <2>5. ASSUME NEW s \in Sockets, RemoveUser(s)
        PROVE  /\ users_by_callsign'[callsign'[u]] = u \/ SharesWith(u, callsign)'
               /\ users_by_id_'[id'[u]] = u \/ SharesWith(u, id)'
    <3>1. PICK x \in Users :
            /\ users_by_callsign' = [users_by_callsign EXCEPT ![callsign[x]] = NoUser]
            /\ users_by_id_' = [users_by_id_ EXCEPT ![id[x]] = NoUser]
            /\ stage' = [stage EXCEPT ![x] = "removed"] /\ UNCHANGED <<id, callsign>>
      BY <2>5 DEF RemoveUser, TypeOK
    <3>2. stage[u] = "placed" /\ stage'[x] = "removed" /\ u # x
      BY <3>1 DEF TypeOK
    <3>3. callsign[u] = callsign[x] => SharesWith(u, callsign)'
      BY <3>1, <3>2 DEF SharesWith
    <3>4. id[u] = id[x] => SharesWith(u, id)'
      BY <3>1, <3>2 DEF SharesWith
    <3> QED
      BY <2>0, <3>1, <3>2, <3>3, <3>4 DEF TypeOK
  <2> QED
    BY <2>1, <2>2, <2>3, <2>4, <2>5 DEF Next
<1> QED
  BY <1>1, <1>2, TypeCorrect, PTL DEF Spec
=============================================================================
