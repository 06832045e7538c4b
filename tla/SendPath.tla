------------------------------ MODULE SendPath ------------------------------
(***************************************************************************)
(* The output side: a packet is assembled on a BasicStream of its own       *)
(* (outgoing_packets.cpp), and write() hands it to the socket of its user   *)
(* under the user's send_data_mutex, in as many calls of send as it takes.  *)
(*                                                                          *)
(* The workers write in jobs: a ping, the handler of a packet, a pass of    *)
(* the updater.  A handler or a pass writes to many users, one after the    *)
(* other, and holds shared locks meanwhile: a pass client_mutex_, and both  *)
(* the local_mutex of a user whose table they go through.  A new user waits *)
(* for the first to be placed, and a pass that changes a table for the      *)
(* second.                                                                  *)
(*                                                                          *)
(* Any worker may write to any user that was ever placed: no table forgets  *)
(* a user when its socket is closed.  A handle that is closed is handed out *)
(* again, so that two users may have the same one, each with a mutex of its *)
(* own.                                                                     *)
(***************************************************************************)
EXTENDS Integers, Sequences, SequencesExt, Codec

CONSTANTS Users, NoUser, Handle,   \* the socket handle of each user
          Workers, NoWorker,
          Passing,                 \* the workers that run the passes; the others run the
                                   \* handlers of packets, and the pings
          Packets,                 \* what is written to users
          PreallocateSize,         \* per id: the size with which the packet's stream is made
          Memory,                  \* what the bytes of fresh memory may be
          Leaving,                 \* users whose clients may disconnect
          Deaf,                    \* users whose clients may stop reading
          SendBuffer,              \* bytes that the system takes for a client that reads none
          MaxWrites                \* bound: packets written

-----------------------------------------------------------------------------
(* Frames.  A client knows by the id what follows it: a fixed number of     *)
(* bytes, or a size in one byte (-1) or in two (-2) and as many bytes.      *)

FrameSize == [id \in {1} \cup 7..23 |->
  CASE id \in {7, 8, 20}          -> -1
    [] id \in {9, 11, 15, 17, 22} -> -2
    [] id = 1  -> 10     \* the reply to a handshake
    [] id = 10 -> 8  [] id = 12 -> 2  [] id = 13 -> 0  [] id = 14 -> 36  [] id = 16 -> 3
    [] id = 18 -> 19 [] id = 19 -> 4  [] id = 21 -> 7  [] id = 23 -> 4]

EndFrameVarSizeOfAll(out, start) ==     \* mutant: the size counts the id and itself
  [out EXCEPT ![start] = Len(out) % 256]

\* The placeholder before the start of the frame becomes its size.
EndFrameVarSize(out, start) == [out EXCEPT ![start] = (Len(out) - start) % 256]

EndFrameVarSizeWord(out, start) ==
  LET size == write_short(Len(out) - start)
  IN  [out EXCEPT ![start - 1] = size[1], ![start] = size[2]]

\* The id, and the placeholder of a size.
HeadSize(id) == IF FrameSize[id] < 0 THEN 1 - FrameSize[id] ELSE 1

Framed(id, content) ==
  CASE FrameSize[id] = -1 -> EndFrameVarSize(<<id, 0>> \o content, 2)
    [] FrameSize[id] = -2 -> EndFrameVarSizeWord(<<id, 0, 0>> \o content, 3)
    [] OTHER              -> <<id>> \o content

-----------------------------------------------------------------------------
(* Assembly.  A packet's payload is written in fields, numbers and texts,   *)
(* behind each other.  A number makes room for itself (ensure_capacity), in *)
(* a new buffer to which the size of the old one is copied; a text does not *)
(* (write_string), and goes on behind the end of the buffer.                *)

Field == [text : BOOLEAN, size : Nat]

\* at: how far a stream is written, and the size of its buffer
Grows(at, field) == ~field.text /\ at.index + field.size > at.size

Wrote(at, field) ==
  [index |-> at.index + field.size,
   size  |-> IF Grows(at, field) THEN at.size + field.size ELSE at.size]

\* The stream of a packet after each of its fields.
Writing(p) ==
  LET after[n \in 0..Len(p.fields)] ==
        IF n = 0 THEN [index |-> HeadSize(p.id), size |-> PreallocateSize[p.id]]
                 ELSE Wrote(after[n - 1], p.fields[n])
  IN  after

\* The positions that are written behind the end of the buffer.
Overrun(at) == (at.size + 1)..at.index

Fits(p) == \A n \in 0..Len(p.fields) : Overrun(Writing(p)[n]) = {}

\* Those of them that a new buffer does not get: its own memory shows there.
Lost(p) == UNION {Overrun(Writing(p)[n - 1]) :
                    n \in {k \in 1..Len(p.fields) : Grows(Writing(p)[k - 1], p.fields[k])}}

\* What the payload may be by the end.
Contents(p) ==
  {[i \in 1..Len(p.payload) |->
      IF HeadSize(p.id) + i \in Lost(p) THEN memory[HeadSize(p.id) + i] ELSE p.payload[i]] :
    memory \in [Lost(p) -> Memory]}

\* The frames that the assembly of a packet may end in.
Assembled(p) == {Framed(p.id, content) : content \in Contents(p)}

\* What is handed to write(): a packet as it was assembled.
Written     == UNION {[packet : {p}, frame : Assembled(p)] : p \in Packets}
Overrunning == {x \in Written : ~Fits(x.packet)}

ASSUME SendPathAssumption ==
  /\ NoUser \notin Users /\ NoWorker \notin Workers
  /\ Deaf \subseteq Users /\ Passing \subseteq Workers
  /\ Packets \subseteq [id : DOMAIN FrameSize, payload : Seq(0..255), fields : Seq(Field)]
  /\ \A p \in Packets :                                  \* the fields are the payload
       Writing(p)[Len(p.fields)].index = HeadSize(p.id) + Len(p.payload)
  /\ PreallocateSize \in [DOMAIN FrameSize -> Nat]
  /\ \A id \in DOMAIN FrameSize : PreallocateSize[id] >= HeadSize(id)
  /\ Memory \subseteq 0..255 /\ Memory # {}
  /\ SendBuffer \in Nat \ {0} /\ MaxWrites \in Nat

-----------------------------------------------------------------------------
(* The client's side.                                                       *)

\* What it has decoded, and the bytes that it has not.  It takes a packet from them when all
\* of it is there.
Take(d) ==
  LET s    == d.left
      size == IF s # <<>> /\ s[1] \in DOMAIN FrameSize THEN FrameSize[s[1]] ELSE 0
      head == IF size < 0 THEN 1 - size ELSE 1            \* the id and the size
      n    == CASE size = -1 -> s[2] [] size = -2 -> read_unsigned_short(Tail(s)) [] OTHER -> size
  IN  IF Len(s) < head \/ Len(s) < head + n THEN d
      ELSE [packets |-> Append(d.packets, [id |-> s[1], payload |-> SubSeq(s, head + 1, head + n)]),
            left    |-> SubSeq(s, head + n + 1, Len(s))]

\* The packets that a sequence of bytes begins with: no more than it has bytes.
Decode(s) ==
  LET taken[n \in 0..Len(s)] ==
        IF n = 0 THEN [packets |-> <<>>, left |-> s] ELSE Take(taken[n - 1])
  IN  taken[Len(s)].packets

-----------------------------------------------------------------------------
VARIABLES placed,     \* the users that others know of
          conn,       \* per handle: the user whose connection is open on it, or NoUser
          stream,     \* per user: what its connection has taken, bytes with their addressee
          unread,     \* per user: how many of them its client has not read
          mutex,      \* per user: the worker that holds its send_data_mutex
          sender,     \* per worker: its job, and its progress through it
          begun,      \* history: per user, what was written to it, as the mutex ordered it
          writes,     \* counter for the bound
          placing     \* the user that waits for client_mutex_, or NoUser

network == <<conn, stream, unread>>
sending == <<mutex, sender, begun, writes>>
lock    == <<placed, placing>>
vars    == <<network, sending, lock>>

Handles  == {Handle[u] : u \in Users}
NoPacket == [packet |-> NoUser, frame |-> <<>>]

\* job: nothing, a ping, the handler of a packet, or a phase of a pass.  about: the user whose
\* table the worker goes through or changes.  to, written, total_sent: write(), send_data().
Idle  == [job |-> "none", pc |-> "idle", about |-> NoUser,
          to |-> NoUser, written |-> NoPacket, total_sent |-> 0]
Ended == [Idle EXCEPT !.pc = "ended"]

Init == /\ placed = {}
        /\ conn = [h \in Handles |-> NoUser]
        /\ stream = [u \in Users |-> <<>>] /\ unread = [u \in Users |-> 0]
        /\ mutex = [u \in Users |-> NoWorker]
        /\ sender = [w \in Workers |-> Idle]
        /\ begun = [u \in Users |-> <<>>] /\ writes = 0
        /\ placing = NoUser

-----------------------------------------------------------------------------
(* Clients.                                                                 *)

HasEnded == \E w \in Workers : sender[w].pc = "ended"

\* A handshake on a new connection, up to where it waits to be placed.  (Its reply is written
\* before, when no other worker knows of the user.)
Connect(u) ==
  /\ u \notin placed /\ placing = NoUser
  /\ conn[Handle[u]] = NoUser /\ ~HasEnded
  /\ conn' = [conn EXCEPT ![Handle[u]] = u]
  /\ placing' = u
  /\ UNCHANGED <<stream, unread, sending, placed>>

Read(u) ==
  /\ unread[u] > 0
  /\ unread' = [unread EXCEPT ![u] = 0]
  /\ UNCHANGED <<conn, stream, sending, lock>>

\* ClientDisconnect: the socket is closed, and nothing else.
Close(u) ==
  /\ u \in Leaving \cap placed /\ conn[Handle[u]] = u
  /\ conn' = [conn EXCEPT ![Handle[u]] = NoUser]
  /\ UNCHANGED <<stream, unread, sending, lock>>

-----------------------------------------------------------------------------
(* client_mutex_: shared locks queue behind a placement that waits.         *)

Place ==
  /\ placing # NoUser /\ \A w \in Workers : sender[w].job # "pass"
  /\ placed' = placed \cup {placing} /\ placing' = NoUser
  /\ UNCHANGED <<network, sending>>

-----------------------------------------------------------------------------
(* Jobs.  One that writes no packet holds back nobody, and is left out; what *)
(* a job does from the end of one write to the next packet is one step.      *)

\* A packet of a job comes in the table that it goes through, or outside of any, or it is the
\* first in the next table.  A handler goes through one, its user's, and ends with it.
NextTables(job, x) ==
  CASE job = "ping"                       -> {NoUser}
    [] job = "handler" /\ x # NoUser      -> {x}
    [] OTHER                              -> placed \cup {NoUser}

\* The next packet of a job is assembled, before any mutex of its user is locked.
NextPacket(w, job, x) ==
  /\ writes < MaxWrites /\ writes' = writes + 1
  /\ \E u \in placed, y \in NextTables(job, x), written \in Written :
       sender' = [sender EXCEPT ![w] =
                    [job |-> job, pc |-> IF y \in {x, NoUser} THEN "locking" ELSE "entering",
                     about |-> y, to |-> u, written |-> written, total_sent |-> 0]]

EndJob(w) == sender' = [sender EXCEPT ![w] = Idle] /\ UNCHANGED writes

\* A pass needs client_mutex_, shared, and has it up to the end; a handler needs it to find its
\* user.
Begin(w, job) ==
  /\ sender[w] = Idle
  /\ job = "pass" <=> w \in Passing
  /\ job # "ping" => placing = NoUser
  /\ NextPacket(w, job, NoUser)
  /\ UNCHANGED <<network, mutex, begun, lock>>

Iterates(w, x) == sender[w].about = x /\ sender[w].pc \in {"locking", "sending"}
Changes(w, x)  == sender[w].about = x /\ sender[w].pc = "changing"

\* iterateLocalUsers: a change that waits for local_mutex is before it.
Enter(w) ==
  /\ sender[w].pc = "entering"
  /\ \A v \in Workers : ~Changes(v, sender[w].about)
  /\ sender' = [sender EXCEPT ![w].pc = "locking"]
  /\ UNCHANGED <<network, mutex, begun, writes, lock>>

\* local_users.emplace or erase, with local_mutex for a moment.
Change(w) ==
  /\ sender[w].pc = "changing"
  /\ \A v \in Workers : ~Iterates(v, sender[w].about)
  /\ EndJob(w) \/ NextPacket(w, "pass", NoUser)
  /\ UNCHANGED <<network, mutex, begun, lock>>

-----------------------------------------------------------------------------
(* write() and send_data().                                                 *)

BeginSending(w) ==
  /\ sender' = [sender EXCEPT ![w].pc = "sending"]
  /\ begun' = [begun EXCEPT ![sender[w].to] = Append(@, sender[w].written)]
  /\ UNCHANGED <<network, writes, lock>>

LockNothing(w) ==                       \* mutant: write() without send_data_mutex
  /\ sender[w].pc = "locking"
  /\ UNCHANGED mutex
  /\ BeginSending(w)

Lock(w) ==
  /\ sender[w].pc = "locking" /\ mutex[sender[w].to] = NoWorker
  /\ mutex' = [mutex EXCEPT ![sender[w].to] = w]
  /\ BeginSending(w)

Peer(w)  == conn[Handle[sender[w].to]]      \* whoever is at the other end by now
Frame(w) == sender[w].written.frame
Rest(w)  == SubSeq(Frame(w), sender[w].total_sent + 1, Len(Frame(w)))
Room(u)  == SendBuffer - unread[u]

RestFromStart(w) ==                     \* mutant: send(clientSocket, buffer.data(), ...)
  SubSeq(Frame(w), 1, Len(Frame(w)) - sender[w].total_sent)

\* What the next call of send is given.
Offered(w) == Rest(w)

\* send takes as much as it has room for, or less.  Without any room it fails, and is tried
\* again 100 ms later: nothing changes.
SendSome(w) ==
  /\ sender[w].pc = "sending" /\ Rest(w) # <<>> /\ Peer(w) # NoUser
  /\ \E n \in 1..Len(Rest(w)) :
       /\ n <= Room(Peer(w))
       /\ stream' = [stream EXCEPT ![Peer(w)] =
                       @ \o [i \in 1..n |-> [to |-> sender[w].to, byte |-> Offered(w)[i]]]]
       /\ unread' = [unread EXCEPT ![Peer(w)] = @ + n]
       /\ sender' = [sender EXCEPT ![w].total_sent = @ + n]
  /\ UNCHANGED <<conn, mutex, begun, writes, lock>>

RetryAll(w) == FALSE                    \* mutant: a send that fails is always tried again

\* Any other error ends the loop: the handle is not open.
GivesUp(w) == Rest(w) # <<>> /\ Peer(w) = NoUser

\* All is sent, or there is no connection: the mutex is released, and the job goes on or is
\* over.  In a pass a change of the addressee's table may be next: it follows its packets.
EndWrite(w) ==
  LET s == sender[w] IN
  /\ s.pc = "sending" /\ (Rest(w) = <<>> \/ GivesUp(w))
  /\ mutex' = [mutex EXCEPT ![s.to] = NoWorker]
  /\ \/ EndJob(w)
     \/ s.job # "ping" /\ NextPacket(w, s.job, s.about)
     \/ /\ s.job = "pass" /\ s.about = NoUser
        /\ sender' = [sender EXCEPT ![w] = [Idle EXCEPT !.job = "pass", !.pc = "changing",
                                                        !.about = s.to]]
        /\ UNCHANGED writes
  /\ UNCHANGED <<network, begun, lock>>

-----------------------------------------------------------------------------
\* A packet that did not fit its buffer was written over memory of something else.
Damaged ==
  \/ \E w \in Workers : sender[w].written \in Overrunning
  \/ \E u \in Users : \E n \in DOMAIN begun[u] : begun[u][n] \in Overrunning

\* From then on the process may end at any time.  (What else the damage may do is left out.)
Crash ==
  /\ Damaged /\ ~HasEnded
  /\ sender' = [w \in Workers |-> Ended]
  /\ mutex' = [u \in Users |-> NoWorker]
  /\ conn' = [h \in Handles |-> NoUser]
  /\ placing' = NoUser
  /\ UNCHANGED <<stream, unread, begun, writes, placed>>

\* What a worker goes on with by itself.
Progress(w) == Enter(w) \/ Lock(w) \/ SendSome(w) \/ EndWrite(w) \/ Change(w)

Next == \/ \E u \in Users : Connect(u) \/ Read(u) \/ Close(u)
        \/ Place
        \/ \E w \in Workers : \/ Progress(w)
                              \/ \E job \in {"ping", "handler", "pass"} : Begin(w, job)
        \/ Crash

\* Threads are scheduled, and clients read but for those that may be deaf.  Nobody has to
\* connect, to close or to write.
Fairness ==
  /\ \A u \in Users \ Deaf : WF_vars(Read(u))
  /\ WF_vars(Place)
  /\ \A w \in Workers : WF_vars(Progress(w))

Spec == Init /\ [][Next]_vars /\ Fairness

-----------------------------------------------------------------------------
Bytes == [to : Users, byte : 0..255]

TypeOK ==
  /\ placed \subseteq Users /\ placing \in (Users \ placed) \cup {NoUser}
  /\ conn \in [Handles -> placed \cup {placing, NoUser}]
  /\ stream \in [Users -> Seq(Bytes)]
  /\ \A u \in Users : unread[u] \in 0..SendBuffer
  /\ mutex \in [Users -> Workers \cup {NoWorker}]
  /\ \A w \in Workers :
       /\ sender[w].job \in {"none", "ping", "handler", "pass"}
       /\ sender[w].pc \in {"idle", "entering", "locking", "sending", "changing", "ended"}
       /\ sender[w].job = "none" <=> sender[w].pc \in {"idle", "ended"}
       /\ sender[w].pc \in {"entering", "locking", "sending"} <=> sender[w].to # NoUser
       /\ sender[w].pc = "sending" <=> \E u \in Users : mutex[u] = w /\ u = sender[w].to
  /\ begun \in [Users -> Seq(Written)] /\ writes \in 0..MaxWrites

BytesOf(s)  == [i \in 1..Len(s) |-> s[i].byte]
BytesFor(u, s) ==       \* those of them that are addressed to u
  FlattenSeq([i \in 1..Len(s) |-> IF s[i].to = u THEN <<s[i].byte>> ELSE <<>>])
Own(u)      == BytesFor(u, stream[u])
IsOpen(u)   == conn[Handle[u]] = u

FramesOf(ws)  == FlattenSeq([n \in 1..Len(ws) |-> ws[n].frame])
PacketsOf(ws) ==
  [n \in 1..Len(ws) |-> [id |-> ws[n].packet.id, payload |-> ws[n].packet.payload]]

\* What is written to a user reaches its client in the order of the mutex, without a gap and
\* without two packets mixed, whoever writes at a time and however send cuts them; and while
\* the connection is open nothing but the end of the last packet is missing
\* (outgoing_packets.cpp:228-258).
OwnBytesInOrder ==
  \A u \in Users :
    LET own == Own(u) IN
    /\ IsPrefix(own, FramesOf(begun[u]))
    /\ IsOpen(u) /\ begun[u] # <<>> => Len(own) >= Len(FramesOf(Front(begun[u])))

\* As long as what is written fits the buffers that it is assembled on, or these grow in time,
\* a client that is sent nothing but its own decodes what was written, packet by packet: the
\* sizes that end_frame_var_size fills in agree with what follows (basic_stream.cpp:229-306).
\* Another's bytes come when an old user's handle was handed out again.
ClientDecodes ==
  ~Damaged => \A u \in Users : (\A i \in 1..Len(stream[u]) : stream[u][i].to = u) =>
                IsPrefix(Decode(BytesOf(stream[u])), PacketsOf(begun[u]))

Served == {u \in Users : \A v \in Deaf : Handle[v] # Handle[u]}

\* Writes to a handle whose clients may not read, or waits for a table that such a write holds.
Blocked(w) == sender[w].pc \in {"locking", "sending"} /\ sender[w].to \notin Served
Stuck(w)   ==
  \/ Blocked(w)
  \/ /\ sender[w].pc \in {"entering", "changing"}
     /\ \E v \in Workers : Iterates(v, sender[w].about) /\ Blocked(v)

\* A client that does not read holds back the jobs that write to it, with all that they have
\* left to write to others, and through local_mutex those that want the table that such a job
\* goes through.  Every other job ends, whatever locks it shares with them: after the last
\* that MaxWrites allows, each worker is out of its job or stuck for good
\* (outgoing_packets.cpp:229, :242-257, user.h:73-80, client_updater.cpp:90, :98).
JobsEnd == <>[](\A w \in Workers : sender[w].job = "none" \/ Stuck(w))

\* A new user is placed, unless a pass is stuck (client_manager.h:58-68, :98-104).
HeldUp == \E w \in Workers : sender[w].job = "pass" /\ Stuck(w)
PlacementsEnd == placing # NoUser ~> (placing = NoUser \/ []HeldUp)
=============================================================================
