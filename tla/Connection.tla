----------------------------- MODULE Connection -----------------------------
(***************************************************************************)
(* One client connection (internal/connection/conn.go), from the threads   *)
(* that call WriteMessage to the messages the other end's Run loop hands   *)
(* to its handlers: the queue and its write loop, CloseAfterFlush, the     *)
(* byte stream, the packets in it, and the codec of MessageCodec.          *)
(*                                                                         *)
(* Both ends of a connection speak this codec; a peer of a newer version   *)
(* may also write a field that this one does not know.  TCP delivers the   *)
(* stream in order and in segments that know nothing of packets.           *)
(***************************************************************************)
EXTENDS MessageCodec

CONSTANTS
    Threads,      \* threads that call WriteMessage, once each
    Loads,        \* [send |-> [Threads -> SUBSET messages], flush, active]: what
                  \* is written, whether CloseAfterFlush is called, and whether
                  \* the reading end has authenticated.  A message is a type,
                  \* its fields, and a field that is unknown to us
    QueueCap,     \* capacity of writeCh
    MaxPayload,   \* protocol.MaxPayloadSize
    Segment       \* bytes that arrive at a time

VARIABLES
    load,         \* what this behaviour writes
    at,           \* [Threads -> [pc: "idle", "offer" or "done", req]]
    queue,        \* Conn.writeCh
    pending,      \* Conn.pending
    taken,        \* the request the write loop holds: <<>> or <<request>>
    open,         \* the connection is not closed at the writing end
    broken,       \* a write has failed: TCP and TLS fail every later one too
    flush,        \* CloseAfterFlush: "no", "waiting", "flushed", "timeout"
    due,          \* ghost: messages accepted before CloseAfterFlush was called
    accepted,     \* ghost: the messages WriteMessage accepted, in queue order
    written,      \* ghost: how many of them reached the socket
    pipe,         \* bytes on their way
    inbox,        \* bytes that have arrived and were not read
    active,       \* the reading end left StateAuthenticating
    reading,      \* its Run loop goes on
    packets,      \* ghost: packets it has read
    handled       \* messages given to a handler, with the packet's number

connVars == <<load, broken, at, queue, pending, taken, open, flush, due, accepted, written,
              pipe, inbox, active, reading, packets, handled>>

ConnInit ==
    /\ load \in Loads
    /\ at = [t \in Threads |-> [pc |-> "idle", req |-> <<>>]]
    /\ queue = <<>> /\ pending = 0 /\ taken = <<>>
    /\ open = TRUE /\ broken = FALSE /\ flush = "no" /\ due = 0
    /\ accepted = <<>> /\ written = 0
    /\ pipe = <<>> /\ inbox = <<>>
    /\ active = load.active /\ reading = TRUE /\ packets = 0 /\ handled = <<>>

\* The payload, with the unknown field after the first `after' fields.
Payload(req) ==
    LET rows == TableOf(req.type)
        k    == req.after
    IN  Marshal(SubSeq(rows, 1, k), req.msg) \o req.unknown
            \o Marshal(SubSeq(rows, k + 1, Len(rows)), req.msg)

(***************************************************************************)
(* The writing end.                                                        *)
(***************************************************************************)
\* enqueue counts the message before it offers it to the queue.
Count(t, req) ==
    /\ at[t].pc = "idle" /\ open
    /\ at' = [at EXCEPT ![t] = [pc |-> "offer", req |-> <<req>>]]
    /\ pending' = pending + 1
    /\ UNCHANGED <<load, broken, queue, taken, open, flush, due, accepted, written,
                   pipe, inbox, active, reading, packets, handled>>

Offer(t) ==
    /\ at[t].pc = "offer"
    /\ IF Len(queue) < QueueCap
       THEN queue' = queue \o at[t].req /\ accepted' = accepted \o at[t].req /\ UNCHANGED pending
       ELSE pending' = pending - 1 /\ UNCHANGED <<queue, accepted>>
    /\ at' = [at EXCEPT ![t] = [pc |-> "done", req |-> <<>>]]
    /\ UNCHANGED <<load, broken, taken, open, flush, due, written,
                   pipe, inbox, active, reading, packets, handled>>

\* Fault: the message is no longer pending once the loop has it.
LoopTakeUncounted ==
    /\ taken = <<>> /\ queue # <<>>
    /\ taken' = <<Head(queue)>> /\ queue' = Tail(queue) /\ pending' = pending - 1
    /\ UNCHANGED <<load, broken, at, open, flush, due, accepted, written,
                   pipe, inbox, active, reading, packets, handled>>

\* writeLoop: when the connection is closed too, the select may still choose
\* the request.
LoopTake ==
    /\ taken = <<>> /\ queue # <<>>
    /\ taken' = <<Head(queue)>> /\ queue' = Tail(queue)
    /\ UNCHANGED <<load, broken, at, pending, open, flush, due, accepted, written,
                   pipe, inbox, active, reading, packets, handled>>

\* writeOne.  The header or the payload may fail to be written, for good, on a
\* closed socket they do, and nobody looks.
WriteOne ==
    /\ taken # <<>>
    /\ LET packet == WritePacket(taken[1].type, Payload(taken[1]))
       IN  \/ /\ open /\ ~broken
              /\ pipe' = pipe \o packet /\ written' = written + 1 /\ UNCHANGED broken
           \/ /\ open /\ ~broken
              /\ \E sent \in {0, HeaderSize} : sent < Len(packet) /\ pipe' = pipe \o SubSeq(packet, 1, sent)
              /\ broken' = TRUE /\ UNCHANGED written
           \/ ~(open /\ ~broken) /\ UNCHANGED <<pipe, written, broken>>
    /\ taken' = <<>>
    /\ pending' = pending - 1
    /\ UNCHANGED <<load, at, queue, open, flush, due, accepted,
                   inbox, active, reading, packets, handled>>

CloseAfterFlush ==
    /\ load.flush /\ flush = "no"
    /\ flush' = "waiting" /\ due' = Len(accepted)
    /\ UNCHANGED <<load, broken, at, queue, pending, taken, open, accepted, written,
                   pipe, inbox, active, reading, packets, handled>>

\* Nothing pending, or flushTimeout.
CloseFlushed ==
    /\ flush = "waiting" /\ open
    /\ \/ pending <= 0 /\ flush' = "flushed"
       \/ pending > 0 /\ flush' = "timeout"
    /\ open' = FALSE
    /\ UNCHANGED <<load, broken, at, queue, pending, taken, due, accepted, written,
                   pipe, inbox, active, reading, packets, handled>>

(***************************************************************************)
(* The reading end.                                                        *)
(***************************************************************************)
Arrive ==
    /\ pipe # <<>>
    /\ LET n == IF Len(pipe) < Segment THEN Len(pipe) ELSE Segment
       IN  inbox' = inbox \o SubSeq(pipe, 1, n) /\ pipe' = After(pipe, n)
    /\ UNCHANGED <<load, broken, at, queue, pending, taken, open, flush, due, accepted, written,
                   active, reading, packets, handled>>

\* Authentication ends with SetActive, in a handler.
SetActive ==
    /\ ~active /\ active' = TRUE
    /\ UNCHANGED <<load, broken, at, queue, pending, taken, open, flush, due, accepted, written,
                   pipe, inbox, reading, packets, handled>>

\* ReadPacket refuses a payload for its announced length, or has waited 30 s
\* for the rest of a packet; either ends Run.
ReadFails ==
    /\ reading
    /\ \/ Len(inbox) >= HeaderSize /\ PacketLength(inbox) > MaxPayload
       \/ Len(inbox) < HeaderSize
       \/ Len(inbox) >= HeaderSize /\ Len(inbox) < HeaderSize + PacketLength(inbox)
    /\ reading' = FALSE
    /\ UNCHANGED <<load, broken, at, queue, pending, taken, open, flush, due, accepted, written,
                   pipe, inbox, active, packets, handled>>

\* Run passes the packet on (a Ping to replyPing, any other to its handler):
\* before authentication only Version and Authenticate, and a payload that
\* does not parse is dropped.
ReadOne ==
    LET size == HeaderSize + PacketLength(inbox)
        type == PacketType(inbox)
        got  == Unmarshal(TableOf(type), SubSeq(inbox, HeaderSize + 1, size), Blank(TableOf(type)))
    IN  /\ reading /\ Len(inbox) >= HeaderSize
        /\ PacketLength(inbox) <= MaxPayload /\ Len(inbox) >= size
        /\ inbox' = After(inbox, size)
        /\ packets' = packets + 1
        /\ handled' = IF (active \/ type \in {VersionType, AuthenticateType}) /\ got.ok
                      THEN Append(handled, [number |-> packets + 1, type |-> type, msg |-> got.msg])
                      ELSE handled
        /\ UNCHANGED <<load, broken, at, queue, pending, taken, open, flush, due, accepted, written,
                       pipe, active, reading>>

ConnNext ==
    \/ \E t \in Threads : Offer(t) \/ \E req \in load.send[t] : Count(t, req)
    \/ LoopTake \/ WriteOne \/ CloseAfterFlush \/ CloseFlushed
    \/ Arrive \/ SetActive \/ ReadFails \/ ReadOne

(***************************************************************************)
(* Properties.                                                             *)
(***************************************************************************)
\* What a message is after the wire: a field written because its value is not
\* zero counts as present, ChannelState.Parent is zero without its bit, an
\* empty VoiceTarget target is gone, and ACL.InheritACLs reads false even when
\* it was true, because Unmarshal does not know that field's proto2 default.
Received(type, m) ==
    LET rows == TableOf(type)
        row(f) == rows[CHOOSE i \in DOMAIN rows : rows[i].name = f]
    IN  [f \in DOMAIN m |->
            IF f = "has"
            THEN m.has \cup {rows[i].name : i \in {j \in DOMAIN rows :
                                rows[j].rule = "has" /\ m[rows[j].name] # Zero(rows[j])}}
            ELSE IF row(f).rule = "given" /\ f \notin m.has THEN Zero(row(f))
            ELSE IF row(f).rule = "false" THEN FALSE
            ELSE IF row(f).rule = "eachFilled"
            THEN SelectSeq(m[f], LAMBDA e : e # Blank(Nested[row(f).kind]))
            ELSE m[f]]

\* The handlers of the reading end are given the messages that were accepted
\* for writing, in that order, each once and each with the values and the
\* presence bits it was written with, whatever the segments, the unknown
\* fields and the numbers of bytes their values take (Marshal, Unmarshal,
\* WritePacket, ReadPacket, writeLoop).
MessagesArrive ==
    /\ \A i \in DOMAIN handled :
        LET n == handled[i].number
        IN  /\ n <= written
            /\ handled[i].type = accepted[n].type
            /\ handled[i].msg = Received(accepted[n].type, accepted[n].msg)
            /\ i > 1 => handled[i - 1].number < n
    /\ load.active => Len(handled) = packets
    /\ reading /\ pipe = <<>> /\ inbox = <<>> => packets = written

\* CloseAfterFlush closes the connection after everything that was accepted
\* before the call has reached the socket, unless its time is up or the socket
\* refuses what is written: a kick or a ban reason is not dropped behind the
\* loop's back (conn.go:227).
FlushedBeforeClose == flush = "flushed" /\ ~broken => written >= due
=============================================================================
