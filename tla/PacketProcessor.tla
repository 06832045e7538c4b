--------------------------- MODULE PacketProcessor ---------------------------
(***************************************************************************)
(* The input side of one connection: packet_handler.cpp (handle_client,     *)
(* PacketProcessor::processStream) over the BasicStream of the socket.      *)
(* Bytes arrive in chunks of any size; a poll appends what has arrived and  *)
(* then takes whole packets off the front of the stream.                    *)
(*                                                                          *)
(* A step is one call on the stream, because nothing makes two polls of one *)
(* socket exclude each other: the timer queues the next poll whether or not *)
(* the last one has ended, and process_clients holds its mutex only shared. *)
(* Workers is the set of threads that may be polling this socket at a time. *)
(*                                                                          *)
(* Of a handler this module has what it reads; its user, whom the handshake *)
(* put in the registry, is there.  What a text says is left out, also that   *)
(* of a text without a NUL, which runs on into memory behind the stream.    *)
(***************************************************************************)
EXTENDS Integers, Sequences, SequencesExt, Codec

CONSTANTS Workers,
          Packets,    \* what this client may send
          MaxSent     \* bound: packets sent on one connection

ASSUME PacketProcessorAssumption ==
  /\ Workers # {}
  /\ Packets \subseteq [id : Byte, payload : Seq(Byte)]
  /\ MaxSent \in Nat

-----------------------------------------------------------------------------
(* The packet table.  TempDataRemove (15) has a handler and a size but is   *)
(* not registered.                                                          *)

Registered == (1..14) \cup {45}

\* -1: one size byte follows the id; -2: two size bytes follow it.
PacketSize(id) ==
  CASE id \in {1, 2, 3, 7}         -> -1
    [] id \in {6, 10, 12, 14, 45}  -> -2
    [] id = 4  -> 0
    [] id = 5  -> 11
    [] id = 8  -> 3
    [] id = 9  -> 1
    [] id = 11 -> 4
    [] id = 13 -> 7
    [] id = 15 -> 4

-----------------------------------------------------------------------------
(* What the handlers read.  A handler is not told the size of its packet: it *)
(* takes its fields off the stream, whatever follows them there.  A field is *)
(* a number of n > 0 bytes, or a text, which reaches to the next NUL or, if   *)
(* there is none, to the end of the stream.                                 *)

Text == 0

\* The fields that a handler reads first.
Fields(id) ==
  CASE id = 1  -> <<8, 8, 8, 2, 8>>
    [] id \in {2, 14} -> <<Text>>
    [] id = 3  -> <<8, 8>>
    [] id = 4  -> <<>>
    [] id = 5  -> <<2, 1, 8>>
    [] id = 6  -> <<Text, 3, Text>>
    [] id = 7  -> <<2, Text>>
    [] id \in {8, 9}  -> <<1>>
    [] id = 10 -> <<2, 2, 1, Text, Text, Text, Text, Text, Text, Text, Text, Text>>
    [] id = 11 -> <<2, 2>>
    [] id = 12 -> <<Text, Text>>
    [] id = 13 -> <<1, 3, 3>>
    [] id = 45 -> <<4, Text, Text, Text, Text, 8, 8, 8, 2, 1, 3, 3>>

\* What a letter of a script stands for: 's', 'l' or another.
LetterField(c) == CASE c = 115 -> Text [] c = 108 -> 8 [] OTHER -> 4

\* What a controller or a pilot adds at the handshake.
TypeFields(type) ==
  CASE type = 0 -> <<1, 1>> [] type = 1 -> <<1, Text, Text, 1, 8>> [] OTHER -> <<>>

\* The fields that the first n bytes call for: those of a script's letters, the last first, and
\* its number; those of the type, six bytes before.
FurtherFields(id, bs, n) ==
  IF id = 14 THEN [k \in 1..(n - 1) |-> LetterField(bs[n - k])] \o <<4>>
  ELSE IF id = 45 THEN TypeFields(bs[n - 6])
  ELSE <<>>

\* read_string: how many bytes of bs are read after a text that starts behind the first `from'.
AfterText(bs, from) ==
  LET nuls == {k \in (from + 1)..Len(bs) : bs[k] = 0}
  IN  IF nuls = {} THEN Len(bs) ELSE CHOOSE k \in nuls : \A l \in nuls : k <= l

\* More than Len(bs) when the field is not all there, and the read throws.
AfterField(bs, from, field) ==
  IF field # Text THEN from + field
  ELSE IF from < Len(bs) THEN AfterText(bs, from) ELSE from + 1

AfterFields(bs, from, fields) ==
  LET after[n \in 0..Len(fields)] ==
        IF n = 0 THEN from ELSE AfterField(bs, after[n - 1], fields[n])
  IN  after[Len(fields)]

\* The number of bytes that the handler of an id takes from a stream that goes on with bs.
HandlerReads(id, bs) ==
  LET n == AfterFields(bs, 0, Fields(id))
  IN  IF n > Len(bs) THEN n ELSE AfterFields(bs, n, FurtherFields(id, bs, n))

Closes(id) == id = 9                     \* ClientDisconnect: closesocket

\* The client's side: a packet as it goes over the wire.
Header(p) ==
  LET n == Len(p.payload)
  IN  CASE PacketSize(p.id) = -1 -> <<p.id, n>>
        [] PacketSize(p.id) = -2 -> <<p.id>> \o write_short(n)
        [] OTHER -> <<p.id>>

Encode(p) == Header(p) \o p.payload

\* A packet as the client is to send it: its payload is as long as its size says, or as its size
\* bytes can say, and its handler takes just the payload, though a byte follows that ends no text.
\* No payload of ClientMode is: its handler takes one byte of three.
WellFormed(p) ==
  LET n == Len(p.payload) IN
  /\ p.id \in Registered
  /\ PacketSize(p.id) = -1 => n \in Byte
  /\ PacketSize(p.id) = -2 => n \in Short
  /\ PacketSize(p.id) >= 0 => n = PacketSize(p.id)
  /\ HandlerReads(p.id, p.payload \o <<1>>) = n

EncodeAll(ps) == FlattenSeq([n \in 1..Len(ps) |-> Encode(ps[n])])

-----------------------------------------------------------------------------
VARIABLES sent,      \* history: packets sent on this connection
          wire,      \* their bytes that have not been received yet
          data,      \* BasicStream::data, its first data_size bytes
          index,     \* BasicStream::index
          mark,      \* BasicStream::mark, NoMark for SIZE_MAX
          pc,        \* per worker: where it is in handle_client; all "dead": the process is
          packet,    \* per worker: the locals packet_id and packet_size
          handled,   \* history: packets handed to their handlers, on this connection
          closed,    \* the socket was closed
          stale      \* history: this connection began with bytes of an earlier one

vars == <<sent, wire, data, index, mark, pc, packet, handled, closed, stale>>

NoMark == -1

available == IF index < Len(data) THEN Len(data) - index ELSE 0

Init == /\ sent = <<>> /\ wire = <<>>
        /\ data = <<>> /\ index = 0 /\ mark = NoMark
        /\ pc = [w \in Workers |-> "idle"]
        /\ packet = [w \in Workers |-> [id |-> 0, size |-> 0]]
        /\ handled = <<>>
        /\ closed = FALSE /\ stale = FALSE

Goto(w, l) == pc' = [pc EXCEPT ![w] = l]

\* An exception leaves a worker, or a null packet is used: the process ends.
Crash == pc' = [w \in Workers |-> "dead"]

CanRead(n) == index + n <= Len(data)
Bytes(n)   == SubSeq(data, index + 1, index + n)

\* stream.reset(); break
ResetAndWait(w) ==
  \/ /\ mark # NoMark
     /\ index' = mark /\ mark' = NoMark
     /\ Goto(w, "idle")
  \/ /\ mark = NoMark
     /\ Crash /\ UNCHANGED <<index, mark>>

-----------------------------------------------------------------------------
Send(p) ==
  /\ ~closed
  /\ Len(sent) < MaxSent
  /\ sent' = Append(sent, p)
  /\ wire' = wire \o Encode(p)
  /\ UNCHANGED <<data, index, mark, pc, packet, handled, closed, stale>>

\* process_clients found the socket readable; buf.add_data takes what has arrived.
Receive(w) ==
  /\ pc[w] = "idle" /\ ~closed
  /\ \E n \in 1..Len(wire) :
        /\ data' = data \o SubSeq(wire, 1, n)
        /\ wire' = SubSeq(wire, n + 1, Len(wire))
  /\ Goto(w, "loop")
  /\ UNCHANGED <<sent, index, mark, packet, handled, closed, stale>>

\* The peer has closed (recv returns 0) or recv fails: the buffer is processed all the same.
ReceiveNothing(w) ==
  /\ pc[w] = "idle" /\ ~closed
  /\ wire = <<>>
  /\ Goto(w, "loop")
  /\ UNCHANGED <<sent, wire, data, index, mark, packet, handled, closed, stale>>

MarkPosition(w) ==
  /\ pc[w] = "loop"
  /\ \/ available = 0 /\ Goto(w, "idle") /\ UNCHANGED mark
     \/ available > 0 /\ mark' = index /\ Goto(w, "id")
  /\ UNCHANGED <<sent, wire, data, index, packet, handled, closed, stale>>

ReadId(w) ==
  /\ pc[w] = "id"
  /\ \/ available < 1 /\ ResetAndWait(w) /\ UNCHANGED packet
     \/ /\ available >= 1
        /\ index' = index + 1
        /\ LET i == data[index + 1] IN
             \/ /\ i \notin Registered
                /\ Crash /\ UNCHANGED packet
             \/ /\ i \in Registered
                /\ packet' = [packet EXCEPT ![w] = [id |-> i, size |-> PacketSize(i)]]
                /\ Goto(w, IF PacketSize(i) < 0 THEN "size" ELSE "payload")
        /\ UNCHANGED mark
  /\ UNCHANGED <<sent, wire, data, handled, closed, stale>>

ReadSizeFromOneByte(w) ==                \* mutant: the test for 2 bytes asks for 1
  /\ pc[w] = "size"
  /\ LET n == -packet[w].size IN
       \/ available < 1 /\ ResetAndWait(w) /\ UNCHANGED packet
       \/ /\ available >= 1
          /\ \/ ~CanRead(n) /\ Crash /\ UNCHANGED <<index, packet>>
             \/ /\ CanRead(n)
                /\ index' = index + n
                /\ packet' = [packet EXCEPT ![w].size = IF n = 1 THEN Bytes(1)[1]
                                                     ELSE read_unsigned_short(Bytes(2))]
                /\ Goto(w, "payload")
          /\ UNCHANGED mark
  /\ UNCHANGED <<sent, wire, data, handled, closed, stale>>

\* One or two bytes, the most significant first.
ReadSize(w) ==
  /\ pc[w] = "size"
  /\ LET n == -packet[w].size IN
       \/ available < n /\ ResetAndWait(w) /\ UNCHANGED packet
       \/ /\ available >= n
          /\ index' = index + n
          /\ packet' = [packet EXCEPT ![w].size = IF n = 1 THEN Bytes(1)[1]
                                               ELSE read_unsigned_short(Bytes(2))]
          /\ Goto(w, "payload")
          /\ UNCHANGED mark
  /\ UNCHANGED <<sent, wire, data, handled, closed, stale>>

AwaitPayloadWithoutReset(w) ==           \* mutant: break without stream.reset()
  /\ pc[w] = "payload"
  /\ \/ available < packet[w].size /\ mark' = NoMark /\ Goto(w, "idle")
     \/ available >= packet[w].size /\ Goto(w, "handle") /\ UNCHANGED mark
  /\ UNCHANGED <<sent, wire, data, index, packet, handled, closed, stale>>

AwaitPayload(w) ==
  /\ pc[w] = "payload"
  /\ \/ available < packet[w].size /\ ResetAndWait(w)
     \/ /\ available >= packet[w].size
        /\ Goto(w, "handle") /\ UNCHANGED <<index, mark>>
  /\ UNCHANGED <<sent, wire, data, packet, handled, closed, stale>>

\* packet->handle: the handler reads its fields off the stream.
Handle(w) ==
  /\ pc[w] = "handle"
  /\ LET n == HandlerReads(packet[w].id, SubSeq(data, index + 1, Len(data))) IN
       \/ ~CanRead(n) /\ Crash /\ UNCHANGED <<index, handled, closed>>
       \/ /\ CanRead(n)
          /\ index' = index + n
          /\ handled' = Append(handled, [id |-> packet[w].id, payload |-> Bytes(n)])
          /\ closed' = (closed \/ Closes(packet[w].id))
          /\ Goto(w, "delete")
  /\ UNCHANGED <<sent, wire, data, mark, packet, stale>>

DeleteAndReturn(w) ==                    \* mutant: one packet per poll
  /\ pc[w] = "delete"
  /\ \/ mark = NoMark /\ Crash /\ UNCHANGED <<data, index, mark>>
     \/ /\ mark # NoMark
        /\ data' = SubSeq(data, 1, mark) \o SubSeq(data, index + 1, Len(data))
        /\ index' = mark /\ mark' = NoMark
        /\ Goto(w, "idle")
  /\ UNCHANGED <<sent, wire, packet, handled, closed, stale>>

DeleteKeepingIndex(w) ==                 \* mutant: index not moved back with the data
  /\ pc[w] = "delete"
  /\ \/ mark = NoMark /\ Crash /\ UNCHANGED <<data, index, mark>>
     \/ /\ mark # NoMark
        /\ data' = SubSeq(data, 1, mark) \o SubSeq(data, index + 1, Len(data))
        /\ mark' = NoMark
        /\ Goto(w, "loop") /\ UNCHANGED index
  /\ UNCHANGED <<sent, wire, packet, handled, closed, stale>>

DeleteWithoutMoving(w) ==                \* mutant: the rest is not moved to the mark
  /\ pc[w] = "delete"
  /\ \/ mark = NoMark /\ Crash /\ UNCHANGED <<data, index, mark>>
     \/ /\ mark # NoMark
        /\ data' = SubSeq(data, 1, Len(data) - (index - mark))
        /\ index' = mark /\ mark' = NoMark
        /\ Goto(w, "loop")
  /\ UNCHANGED <<sent, wire, packet, handled, closed, stale>>

\* delete_marked_block: what lies between mark and index goes, the rest moves to mark.
DeleteMarkedBlock(w) ==
  /\ pc[w] = "delete"
  /\ \/ mark = NoMark /\ Crash /\ UNCHANGED <<data, index, mark>>
     \/ /\ mark # NoMark
        /\ data' = SubSeq(data, 1, mark) \o SubSeq(data, index + 1, Len(data))
        /\ index' = mark /\ mark' = NoMark
        /\ Goto(w, "loop")
  /\ UNCHANGED <<sent, wire, packet, handled, closed, stale>>

\* What the stream still has to offer: all that follows the mark, but not the packet that
\* was handled and is about to be deleted.
Unhandled ==
  LET from == IF mark = NoMark \/ \E w \in Workers : pc[w] = "delete" THEN index ELSE mark
  IN  SubSeq(data, from + 1, Len(data))

\* The accept loop is given the handle of the closed socket again, at any point of a poll of the
\* old connection.  byte_data still holds the old stream, and checkClientData leaves it alone:
\* bytes that the client sent behind its ClientDisconnect now go before those of the next.
Accept ==
  /\ closed /\ \A w \in Workers : pc[w] # "dead"
  /\ closed' = FALSE
  /\ sent' = <<>> /\ wire' = <<>> /\ handled' = <<>>
  /\ stale' = (Unhandled # <<>>)
  /\ UNCHANGED <<data, index, mark, pc, packet>>

-----------------------------------------------------------------------------
Process(w) == \/ MarkPosition(w) \/ ReadId(w) \/ ReadSize(w) \/ AwaitPayload(w)
              \/ Handle(w) \/ DeleteMarkedBlock(w)

Next == \/ \E p \in Packets : Send(p)
        \/ \E w \in Workers : Receive(w) \/ ReceiveNothing(w) \/ Process(w)
        \/ Accept

\* The timer polls every socket again and again, TCP delivers what was sent, and a poll
\* that began runs to its end.  No client has to send and no connection has to come.
Fairness == \A w \in Workers : WF_vars(Receive(w)) /\ WF_vars(Process(w))

Spec == Init /\ [][Next]_vars /\ Fairness

-----------------------------------------------------------------------------
TypeOK ==
  /\ sent \in Seq(Packets) /\ Len(sent) <= MaxSent
  /\ wire \in Seq(Byte) /\ data \in Seq(Byte)
  /\ index \in 0..Len(data)
  /\ mark \in -1..index
  /\ pc \in [Workers -> {"idle", "loop", "id", "size", "payload", "handle", "delete", "dead"}]
  /\ packet \in [Workers -> [id : Byte, size : {-2, -1} \cup Short]]
  /\ closed \in BOOLEAN /\ stale \in BOOLEAN

\* No byte is lost, duplicated or handled under another packet, wherever the chunks end, on a
\* connection that did not begin with bytes of another: handled packets, buffer and wire together
\* are what the client sent (packet_handler.cpp:46-97).
NothingLost == ~stale => EncodeAll(handled) \o Unhandled \o wire = EncodeAll(sent)

\* On such a connection a poll that is over leaves no packet that could have been handled: the
\* buffer holds less than the next packet of the client (the while of packet_handler.cpp:47).
OnlyIncompleteWaits ==
  ~stale /\ (\A w \in Workers : pc[w] = "idle") /\ Len(handled) < Len(sent) =>
     Len(data) < Len(Encode(sent[Len(handled) + 1]))

\* Nor do its packets stop the server: no handler reads a field that is not there, nothing resets
\* or deletes without a mark, no id is unknown (basic_stream.cpp:66-183, :354-377).
NeverCrashes == ~stale => \A w \in Workers : pc[w] # "dead"

\* The connection is the channel of PacketChannel: in order, once, whole, in the end, and garbled
\* only when the connection before it was closed ahead of packets that its client had sent.
ChannelOf == INSTANCE PacketChannel
               WITH delivered <- handled, Closing <- {p \in Packets : Closes(p.id)}
ImplementsPacketChannel == ChannelOf!Spec

\* "Not enough data for packet size, wait for more data" (packet_handler.cpp:64, :72, :87):
\* a poll that has to wait puts the stream back to the start of the packet it waits for.
WaitKeepsPacket ==
  [][ \A w \in Workers :
        pc[w] \in {"id", "size", "payload"} /\ pc'[w] = "idle" => index' = 0 ]_vars
=============================================================================
