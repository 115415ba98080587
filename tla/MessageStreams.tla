----------------------------- MODULE MessageStreams -----------------------------
(* The two ends of a byte stream that carries TDS messages: an                  *)
(* OutgoingMessageStream that cuts messages into packets, the connection under  *)
(* it, which hands over bytes in chunks of any size, and an                     *)
(* IncomingMessageStream that puts messages together again, each with the       *)
(* back-pressure of Node's streams.  The client writes with the first and reads *)
(* with the second; the other end of each is the server, which frames messages  *)
(* the same way (the test servers of tedious are built from the same two        *)
(* classes), so one channel stands for both directions.                         *)
(*                                                                              *)
(* A buffer is a sequence of bytes.  In a header the 16-bit length is one byte  *)
(* here, and the SPID and the window, constants of the code, are left out.      *)
EXTENDS Integers, Sequences, FiniteSets

CONSTANTS
  Plan,        \* the messages to send: [type, reset, writes], the last the bytes there are after each write
  PacketSizes, \* the packet sizes the server may ask for, the first one included
  FirstSize,   \* the packet size of the configuration
  HighWater,   \* bytes a Node stream holds before it pushes back (highWaterMark)
  IdModulus    \* packet numbers are written modulo this (256 in packet.ts)

HeaderLength == 4

ASSUME PlanAssumption ==
  /\ Plan \in Seq([type : Nat, reset : BOOLEAN, writes : Seq(Nat)])
  /\ \A m \in DOMAIN Plan : \A i, j \in DOMAIN Plan[m].writes : i <= j => Plan[m].writes[i] <= Plan[m].writes[j]
  /\ FirstSize \in PacketSizes
  /\ \A n \in PacketSizes : n \in Nat /\ n > HeaderLength
  /\ HighWater \in Nat \ {0} /\ IdModulus \in Nat \ {0}

Status == [EOM |-> 1, IGNORE |-> 2, RESETCONNECTION |-> 8]

Messages == DOMAIN Plan

\* The bytes of message m: in messages of less than a hundred bytes no two are alike.
Byte(m, i) == 100 * m + i
Size(m, n) == IF n = 0 THEN 0 ELSE Plan[m].writes[n]
DataOf(m, n) == [i \in 1 .. Size(m, n) |-> Byte(m, i)]

\* How many bytes some of the chunks of a buffer hold.
HeldIn(chunks, some) == Cardinality(UNION {{i} \X DOMAIN chunks[i] : i \in some})
Held(chunks) == HeldIn(chunks, DOMAIN chunks)

VARIABLES
  msg,    \* per message: opened, chunks written, what its stream buffers, ended, finished, ignore
  out,    \* OutgoingMessageStream: the message in _write, its packet limit and number, bl, back-pressure
  wire,   \* bytes on their way
  inc,    \* IncomingMessageStream: bl, currentMessage (0: none), and what processBufferedData waits for
  got,    \* the messages pushed to the reader: type, buffered chunks, ended by the stream, read so far, seen to end
  log     \* every packet made so far, and how many bytes of its message went before it (history)

vars == <<msg, out, wire, inc, got, log>>

Init ==
  /\ msg = [m \in Messages |-> [opened |-> FALSE, n |-> 0, buffer |-> <<>>, ended |-> FALSE,
                            finished |-> FALSE, ignore |-> FALSE]]
  /\ out = [current |-> 0, next |-> 1, size |-> FirstSize, limit |-> 0, number |-> 0,
            bl |-> <<>>, paused |-> FALSE, ready |-> <<>>]
  /\ wire = <<>>
  /\ inc = [bl |-> <<>>, current |-> 0, at |-> "idle"]
  /\ got = <<>>
  /\ log = <<>>

(****************************** packets (packet.ts) ******************************)

HasBit(status, bit) == (status \div bit) % 2 = 1

\* The buffer a Packet ends up with after packetId, resetConnection, last, ignore and addData.
Packet(m, number, last, data) ==
  LET status == (IF Plan[m].reset THEN Status.RESETCONNECTION ELSE 0)
              + (IF last THEN Status.EOM ELSE 0)
              + (IF last /\ msg[m].ignore THEN Status.IGNORE ELSE 0)
  IN <<Plan[m].type, status, HeaderLength + Len(data), number % IdModulus>> \o data

PacketLength(buffer) == buffer[3]
IsLast(buffer) == HasBit(buffer[2], Status.EOM)
PacketData(buffer) == SubSeq(buffer, HeaderLength + 1, Len(buffer))

(***************************** the writer of a message ***************************)

\* outgoingMessageStream.write(message): queued behind the messages before it.
OpenMessage(m) ==
  /\ ~msg[m].opened
  /\ m > 1 => msg[m - 1].opened
  /\ msg' = [msg EXCEPT ![m].opened = TRUE]
  /\ UNCHANGED <<out, wire, inc, got, log>>

\* The payload is piped into the message: a write waits while the message holds too much.
WriteChunk(m) ==
  /\ msg[m].opened /\ ~msg[m].ended
  /\ msg[m].n < Len(Plan[m].writes)
  /\ Held(msg[m].buffer) < HighWater
  /\ msg' = [msg EXCEPT ![m].n = @ + 1,
                        ![m].buffer = Append(@, SubSeq(DataOf(m, msg[m].n + 1),
                                                       Size(m, msg[m].n) + 1, Size(m, msg[m].n + 1)))]
  /\ UNCHANGED <<out, wire, inc, got, log>>

EndMessage(m) ==
  /\ msg[m].opened /\ ~msg[m].ended
  /\ msg[m].n = Len(Plan[m].writes)
  /\ msg' = [msg EXCEPT ![m].ended = TRUE]
  /\ UNCHANGED <<out, wire, inc, got, log>>

\* 'finish' of the message: from now on a cancel no longer touches it.
FinishMessage(m) ==
  /\ msg[m].ended /\ ~msg[m].finished
  /\ msg' = [msg EXCEPT ![m].finished = TRUE]
  /\ UNCHANGED <<out, wire, inc, got, log>>

\* onCancel, or an error of the payload: the rest is not written, the message is ended and to be ignored.
GiveUpMessage(m) ==
  /\ msg[m].opened /\ ~msg[m].finished /\ ~msg[m].ignore
  /\ msg' = [msg EXCEPT ![m].ended = TRUE, ![m].ignore = TRUE]
  /\ UNCHANGED <<out, wire, inc, got, log>>

\* A packet size ENVCHANGE. Messages already in _write keep the limit they started with.
SetPacketSize(n) ==
  /\ n # out.size
  /\ out' = [out EXCEPT !.size = n]
  /\ UNCHANGED <<msg, wire, inc, got, log>>

(**************************** OutgoingMessageStream ******************************)

\* Mutant: the packets are numbered by the stream, not by the message.
StartMessageGoesOnCounting ==
  /\ out.current = 0
  /\ out.next \in Messages /\ msg[out.next].opened
  /\ out' = [out EXCEPT !.current = out.next, !.next = @ + 1, !.paused = FALSE, !.limit = out.size - HeaderLength]
  /\ UNCHANGED <<msg, wire, inc, got, log>>

\* _write: takes the next message and listens to its data and its end.
StartMessage ==
  /\ out.current = 0
  /\ out.next \in Messages /\ msg[out.next].opened
  /\ out' = [out EXCEPT !.current = out.next, !.next = @ + 1, !.number = 0, !.paused = FALSE,
                        !.limit = out.size - HeaderLength]
  /\ UNCHANGED <<msg, wire, inc, got, log>>

FullPackets(bl, limit) == IF bl = <<>> THEN 0 ELSE (Len(bl) - 1) \div limit

\* Mutant: push() never says that the stream is full.
NeverFull(packets) == FALSE

Full(packets) == Held(out.ready \o packets) >= HighWater

Push(packets) ==
  /\ log' = log \o [i \in DOMAIN packets |-> [m |-> out.current, limit |-> out.limit, buffer |-> packets[i],
                                              from |-> (out.number + i - 1) * out.limit]]

OnData ==
  LET m == out.current
      chunk == Head(msg[m].buffer)
      bl == out.bl \o chunk
      n == FullPackets(bl, out.limit)
      packets == [i \in 1 .. n |->
                    Packet(m, out.number + i, FALSE, SubSeq(bl, (i - 1) * out.limit + 1, i * out.limit))]
  IN
  /\ m # 0 /\ ~out.paused /\ msg[m].buffer # <<>>
  /\ msg' = [msg EXCEPT ![m].buffer = Tail(@)]
  /\ IF msg[m].ignore
     THEN UNCHANGED <<out, log>>
     ELSE /\ out' = [out EXCEPT !.bl = SubSeq(bl, n * out.limit + 1, Len(bl)),
                                !.number = @ + n,
                                !.ready = @ \o packets,
                                !.paused = n > 0 /\ Full(packets)]
          /\ Push(packets)
  /\ UNCHANGED <<wire, inc, got>>

OnEnd ==
  LET m == out.current
      packet == Packet(m, out.number + 1, TRUE, out.bl)
  IN
  /\ m # 0 /\ ~out.paused /\ msg[m].buffer = <<>> /\ msg[m].finished
  /\ out' = [out EXCEPT !.bl = <<>>, !.ready = Append(@, packet), !.current = 0]
  /\ Push(<<packet>>)
  /\ UNCHANGED <<msg, wire, inc, got>>

\* Mutant: _read does not resume a message that waits with all its data read.
SocketReadsOnly ==
  /\ out.ready # <<>>
  /\ Len(wire) < HighWater
  /\ wire' = wire \o Head(out.ready)
  /\ out' = [out EXCEPT !.ready = Tail(@),
                        !.paused = @ /\ (Held(Tail(out.ready)) >= HighWater \/ msg[out.current].buffer = <<>>)]
  /\ UNCHANGED <<msg, inc, got, log>>

\* The socket reads on; once the stream holds little enough Node calls _read, which resumes the message.
SocketReads ==
  /\ out.ready # <<>>
  /\ Len(wire) < HighWater
  /\ wire' = wire \o Head(out.ready)
  /\ out' = [out EXCEPT !.ready = Tail(@), !.paused = @ /\ Held(Tail(out.ready)) >= HighWater]
  /\ UNCHANGED <<msg, inc, got, log>>

(**************************** IncomingMessageStream ******************************)

\* _transform: a chunk of any size, taken only when the callback of the one before was called.
Transform(n) ==
  /\ inc.at = "idle"
  /\ n \in 1 .. Len(wire)
  /\ inc' = [inc EXCEPT !.bl = @ \o SubSeq(wire, 1, n), !.at = "loop"]
  /\ wire' = SubSeq(wire, n + 1, Len(wire))
  /\ UNCHANGED <<msg, out, got, log>>

\* One round of the loop of processBufferedData. While "at" is "loop" nothing else of this end runs.
HasPacket == Len(inc.bl) >= HeaderLength /\ Len(inc.bl) >= PacketLength(inc.bl)

ProcessPacket ==
  LET length == PacketLength(inc.bl)
      packet == SubSeq(inc.bl, 1, length)
      opened == IF inc.current # 0 THEN got
                ELSE Append(got, [type |-> packet[1], buffer |-> <<>>, ended |-> FALSE, read |-> <<>>, done |-> FALSE])
      cur == IF inc.current # 0 THEN inc.current ELSE Len(opened)
      held == IF PacketData(packet) = <<>> THEN opened[cur].buffer
              ELSE Append(opened[cur].buffer, PacketData(packet))
  IN
  /\ inc.at = "loop" /\ HasPacket /\ length >= HeaderLength
  /\ got' = [opened EXCEPT ![cur].buffer = held, ![cur].ended = IsLast(packet)]
  /\ inc' = [bl |-> SubSeq(inc.bl, length + 1, Len(inc.bl)),
             current |-> cur,
             at |-> CASE IsLast(packet) -> "end"
                      [] ~IsLast(packet) /\ Held(held) >= HighWater -> "drain"
                      [] OTHER -> "loop"]
  /\ UNCHANGED <<msg, out, wire, log>>

\* Not enough for a packet: callback(), with an error when the header is broken.
WaitForChunk ==
  /\ inc.at = "loop" /\ ~HasPacket
  /\ inc' = [inc EXCEPT !.at = IF Len(inc.bl) >= HeaderLength /\ PacketLength(inc.bl) < HeaderLength
                               THEN "failed" ELSE "idle"]
  /\ UNCHANGED <<msg, out, wire, got, log>>

(**************************** the reader of messages *****************************)

\* readMessage() hands out the message pushed last, which the reader then reads chunk by chunk.
Reading == Len(got)
ReaderRuns == inc.at # "loop" /\ Reading # 0

ReadChunk ==
  /\ ReaderRuns /\ got[Reading].buffer # <<>>
  /\ got' = [got EXCEPT ![Reading].buffer = Tail(@), ![Reading].read = @ \o Head(got[Reading].buffer)]
  /\ UNCHANGED <<msg, out, wire, inc, log>>

Drained ==
  /\ inc.at = "drain" /\ Held(got[inc.current].buffer) < HighWater
  /\ inc' = [inc EXCEPT !.at = "loop"]
  /\ UNCHANGED <<msg, out, wire, got, log>>

\* Mutant: the next message is begun when the last packet came, not when its message was read.
MessageEndsUnread ==
  /\ inc.at = "end"
  /\ inc' = [inc EXCEPT !.current = 0, !.at = "loop"]
  /\ got' = [got EXCEPT ![inc.current].done = TRUE]
  /\ UNCHANGED <<msg, out, wire, log>>

\* 'end' of the message: only now the stream goes on with the next one.
MessageEnds ==
  /\ inc.at = "end" /\ got[inc.current].buffer = <<>>
  /\ got' = [got EXCEPT ![inc.current].done = TRUE]
  /\ inc' = [inc EXCEPT !.current = 0, !.at = "loop"]
  /\ UNCHANGED <<msg, out, wire, log>>

Next ==
  \/ \E m \in Messages : OpenMessage(m) \/ WriteChunk(m) \/ EndMessage(m) \/ FinishMessage(m) \/ GiveUpMessage(m)
  \/ \E n \in PacketSizes : SetPacketSize(n)
  \/ StartMessage \/ OnData \/ OnEnd \/ SocketReads
  \/ \E n \in 1 .. Len(wire) : Transform(n)
  \/ ProcessPacket \/ WaitForChunk
  \/ ReadChunk \/ Drained \/ MessageEnds

\* Node serves both streams, the network delivers, the writer ends what it began and the reader reads on.
Fairness ==
  /\ WF_vars(StartMessage) /\ WF_vars(OnData) /\ WF_vars(OnEnd) /\ WF_vars(SocketReads)
  /\ WF_vars(\E n \in 1 .. Len(wire) : Transform(n))
  /\ WF_vars(ProcessPacket) /\ WF_vars(WaitForChunk)
  /\ WF_vars(ReadChunk) /\ WF_vars(Drained) /\ WF_vars(MessageEnds)
  /\ \A m \in Messages : WF_vars(WriteChunk(m)) /\ WF_vars(EndMessage(m)) /\ WF_vars(FinishMessage(m))

Spec == Init /\ [][Next]_vars /\ Fairness

(********************************** properties **********************************)

(* The two streams together are a queue of messages: one at a time, in order,   *)
(* nothing lost, repeated or moved from one message into the next however the   *)
(* bytes are cut, and no end before the last byte unless the writer gave up.    *)
Opened == {m \in Messages : msg[m].opened}
Fifo == INSTANCE MessageFifo WITH
  written <- [k \in Opened |->
                [type |-> Plan[k].type, data |-> DataOf(k, msg[k].n),
                 is |-> IF ~msg[k].finished THEN "open" ELSE IF msg[k].ignore THEN "abandoned" ELSE "closed"]],
  read <- [k \in DOMAIN got |-> [type |-> got[k].type, data |-> got[k].read, ended |-> got[k].done]]

ImplementsFifo == Fifo!Spec

(* Packets are what the server expects: those of a message are consecutive and  *)
(* numbered from one, all but the last are full, only the last ends the message *)
(* and only it can say ignore, and it says so unless the end was already made   *)
(* when the writer gave up; the reset bit is on every packet or on none.        *)
WellFramed ==
  \A i \in DOMAIN log :
    LET p == log[i]
        first == i = 1 \/ log[i - 1].m # p.m
        dataLength == Len(PacketData(p.buffer))
    IN /\ i > 1 => log[i - 1].m <= p.m
       /\ ~first => /\ ~IsLast(log[i - 1].buffer)
                    /\ p.buffer[4] = (log[i - 1].buffer[4] + 1) % IdModulus
       /\ first => /\ p.buffer[4] = 1 % IdModulus
                   /\ i > 1 => IsLast(log[i - 1].buffer)
       /\ PacketLength(p.buffer) = Len(p.buffer) /\ dataLength <= p.limit
       /\ IsLast(p.buffer) \/ dataLength = p.limit
       /\ HasBit(p.buffer[2], Status.IGNORE) => IsLast(p.buffer)
       /\ IsLast(p.buffer) => (HasBit(p.buffer[2], Status.IGNORE) <=> msg[p.m].ignore)
       /\ HasBit(p.buffer[2], Status.RESETCONNECTION) <=> Plan[p.m].reset

(* Back-pressure holds on both ends: however slow the socket is, the packets of *)
(* the message being sent that wait are below the high-water mark but for what  *)
(* one more of its writes makes, and however slow the reader is, what it has    *)
(* not read is below it but for one more packet.                                *)
WaitingOf(m) == {i \in DOMAIN out.ready : log[Len(log) - Len(out.ready) + i].m = m}
Burst(bytes, limit) == ((limit + bytes - 1) \div limit) * (limit + HeaderLength)
BoundedBuffers ==
  /\ out.current # 0 =>
       \/ HeldIn(out.ready, WaitingOf(out.current)) < HighWater
       \/ \E i \in DOMAIN Plan[out.current].writes :
            HeldIn(out.ready, WaitingOf(out.current)) <
              HighWater + Burst(Size(out.current, i) - Size(out.current, i - 1), out.limit)
  /\ \A m \in DOMAIN got : \E n \in PacketSizes : Held(got[m].buffer) < HighWater + n - HeaderLength

(* No wake-up is lost between pause and _read, write and drain, end and the     *)
(* next message: whatever was opened is finally read to its end.                *)
EveryMessageArrives ==
  \A m \in Messages : msg[m].opened ~> (m \in DOMAIN got /\ got[m].done)
=================================================================================
