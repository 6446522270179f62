------------------------------ MODULE EdgeLink ------------------------------
(***************************************************************************)
(* The link between the core and one remote edge: RemoteEdgeServer with    *)
(* its edgeWireConn (internal/cluster), the remote half of Server          *)
(* (internal/mumble/remoteedge.go) and the edges of Registry at the core;  *)
(* RemoteCoreClient and EdgeRuntime (internal/edge) at the edge.           *)
(*                                                                         *)
(* The edge connects again after a loss: link l is its l-th connection and *)
(* l is the generation the core gives it.  A client connects to the edge   *)
(* and authenticates once, so that its session bears its name.  A queue    *)
(* and the TCP stream behind it are one sequence: `out' is the edge's      *)
(* queue, which outlives its links, down[l] the core's queue of link l.    *)
(*                                                                         *)
(* ReconnectMin (250 ms) separates a loss from the next dial: a sender     *)
(* that saw the old connection has finished with the queue by then.        *)
(***************************************************************************)
EXTENDS Naturals, Sequences, FiniteSets

CONSTANTS Clients,    \* client connections accepted by the edge
          MaxOpen,    \* bound: clients connected at one time
          MaxLinks,   \* bound: connections of the edge to the core
          QueueSize,  \* QueueSize of the edge's queue
          DownSize    \* QueueSize of the core's queues

ASSUME MaxLinksAssumption == MaxLinks \in Nat

Links == 1 .. MaxLinks

VARIABLES
  (* the core *)
  edgeGen,    \* Registry.edges[id]: the registered link, 0 when there is none
  instance,   \* RemoteEdgeServer.instances[id], 0 when there is none
  serve,      \* serve(): where each link's goroutine is
  old,        \* serve(): the instance it found
  closing,    \* edgeWireConn.close(): how far its once is
  todo,       \* EdgeDisconnected: the sessions still to clean up
  auth,       \* handle(): the AuthRequest the read loop is at
  sessions,   \* edgeWireConn.sessions
  entry,      \* Registry.sessions: state of the session
  users,      \* Manager: the users present
  sync,       \* TransportReadyRemote, or the kick, of a session
  flushWait,  \* edgeWireConn.flushWait: flush IDs with their sessions
  nextID,     \* edgeWireConn.nextID
  voice,      \* Dispatcher: the voice transport of the edge
  down,       \* edgeWireConn.out and the wire behind it
  (* the edge *)
  dialed,     \* connections made so far
  core,       \* connectAndServe: where the goroutine of Start is
  conn,       \* RemoteCoreClient.conn, 0 when nil
  out,        \* RemoteCoreClient.out and the wire behind it
  pending,    \* RemoteCoreClient.pending
  answer,     \* what the pending channel of a client holds
  drops,      \* CoreDisconnected: connections still to close
  thief,      \* a writeLoop that drop() has not stopped
  pc,         \* handleAuthenticate of each connection
  open,       \* connections that are not Closed
  active,     \* connections SetActive was called on
  conns,      \* EdgeRuntime.conns
  bySession,  \* EdgeRuntime.bySession and sessions
  flushing,   \* CloseSession: connections in CloseAfterFlush
  said,       \* connections that have sent their message or voice packet
  (* history *)
  by,         \* the link whose AuthenticateRemote admitted a session
  wrote,      \* sessions whose ServerConfig reached their client
  announced   \* sessions that became Active

regVars == <<edgeGen, instance, voice>>
serveVars == <<serve, old, todo, auth, sessions>>
userVars == <<entry, users>>
waitVars == <<sync, nextID>>
closeVars == <<closing, flushWait>>
coreVars == <<regVars, serveVars, userVars, waitVars, closeVars>>
reqVars == <<pending, answer>>
dialVars == <<dialed, core, conn, drops, thief>>
linkVars == <<reqVars, dialVars>>
connVars == <<pc, open, active, conns, bySession, flushing, said>>
edgeVars == <<linkVars, connVars>>
history == <<by, wrote, announced>>
queues == <<down, out>>
vars == <<coreVars, queues, edgeVars, history>>

None == "none"
Init ==
  /\ edgeGen = 0 /\ instance = 0 /\ voice = 0
  /\ serve = [l \in Links |-> None] /\ old = [l \in Links |-> 0]
  /\ closing = [l \in Links |-> "open"] /\ todo = [l \in Links |-> {}]
  /\ auth = [l \in Links |-> << >>] /\ sessions = [l \in Links |-> {}]
  /\ entry = [c \in Clients |-> None] /\ users = {}
  /\ sync = [c \in Clients |-> None]
  /\ flushWait = [l \in Links |-> {}] /\ nextID = [l \in Links |-> 0]
  /\ down = [l \in Links |-> << >>]
  /\ dialed = 0 /\ core = "idle" /\ conn = 0 /\ out = << >>
  /\ pending = {} /\ answer = [c \in Clients |-> None]
  /\ drops = {} /\ thief = "no"
  /\ pc = [c \in Clients |-> "new"] /\ open = Clients /\ active = {}
  /\ conns = {} /\ bySession = {} /\ flushing = {} /\ said = {}
  /\ by = [c \in Clients |-> 0] /\ wrote = {} /\ announced = {}

-----------------------------------------------------------------------------
(* The core: accepting a link, and giving it up.                           *)

(* edgeWireConn.send: refused on a closed link and by a full queue.        *)
MaySend(l, n) == closing[l] = "open" /\ Len(down[l]) + n <= DownSize
Sent(l, ms) == [down EXCEPT ![l] = @ \o ms]

(* close(): its first step, of whichever goroutine comes first, closes the *)
(* socket and fails everyone who waits for a flush.                        *)
CloseLink(l) ==
  /\ closing' = [closing EXCEPT ![l] = IF @ = "open" THEN "closing" ELSE @]
  /\ flushWait' = [flushWait EXCEPT ![l] = {}]

Serve(l, from, to) == serve[l] = from /\ serve' = [serve EXCEPT ![l] = to]

(* serve(): a Hello is given the next generation and the instance found is *)
(* closed, by this goroutine unless another one is at it already.          *)
ServeHello(l) ==
  /\ Serve(l, "dialed", "hello")
  /\ old' = [old EXCEPT ![l] = instance]
  /\ UNCHANGED <<edgeVars, history, regVars, userVars, waitVars, closeVars,
                 queues, todo, auth, sessions>>

CloseOld(l) ==
  /\ serve[l] = "hello" /\ old[l] # 0 /\ closing[old[l]] = "open"
  /\ CloseLink(old[l])
  /\ UNCHANGED <<edgeVars, serveVars, regVars, history, userVars, waitVars,
                 queues>>

(* RegisterEdge is refused while another generation is registered;         *)
(* otherwise the link becomes the instance.                                *)
RegisterEdge(l) ==
  /\ old[l] # 0 => closing[old[l]] = "done"
  /\ IF edgeGen \in {0, l}
     THEN Serve(l, "hello", "instance") /\ edgeGen' = l /\ instance' = l
     ELSE Serve(l, "hello", "ended") /\ UNCHANGED <<edgeGen, instance>>
  /\ UNCHANGED <<edgeVars, history, userVars, waitVars, closeVars, queues, old,
                 todo, auth, sessions, voice>>

(* EdgeConnected: the generation is checked, then the transport stored.    *)
EdgeConnected(l) ==
  /\ Serve(l, "instance", IF edgeGen = l THEN "checked" ELSE "connected")
  /\ UNCHANGED <<edgeVars, history, regVars, userVars, waitVars, closeVars,
                 queues, old, todo, auth, sessions>>

RegisterVoiceTransport(l) ==
  /\ Serve(l, "checked", "connected") /\ voice' = l
  /\ UNCHANGED <<edgeVars, history, userVars, waitVars, closeVars, queues,
                 edgeGen, instance, old, todo, auth, sessions>>

(* The HelloAck, and the read loop of a link that is still the instance.   *)
HelloAck(l) ==
  /\ IF MaySend(l, 1) /\ instance = l
     THEN /\ Serve(l, "connected", "run")
          /\ down' = Sent(l, <<[t |-> "ack"]>>)
          /\ UNCHANGED closeVars
     ELSE /\ Serve(l, "connected", "ended") /\ CloseLink(l)
          /\ UNCHANGED down
  /\ UNCHANGED <<edgeVars, regVars, history, userVars, waitVars, old, todo,
                 auth, sessions, out>>

(* run(): a read error or a heartbeat timeout, at any moment.              *)
CoreLoses(l) ==
  /\ serve[l] = "run" /\ closing[l] = "open" /\ CloseLink(l)
  /\ UNCHANGED <<edgeVars, serveVars, regVars, history, userVars, waitVars,
                 queues>>

Closing(l, from, to) ==
  closing[l] = from /\ closing' = [closing EXCEPT ![l] = to]

(* Fault: RemoveEdge runs first, and no session is found.                  *)
SessionsForNoEdge(l) == {}

(* ... then the link is no instance any more, and EdgeDisconnected cleans  *)
(* up the sessions of exactly this incarnation, one after the other.       *)
SessionsForEdge(l) == IF edgeGen = l THEN {c \in Clients : entry[c] # None} ELSE {}

EdgeDisconnected(l) ==
  /\ Closing(l, "closing", "listed")
  /\ instance' = IF instance = l THEN 0 ELSE instance
  /\ todo' = [todo EXCEPT ![l] = SessionsForEdge(l)]
  /\ UNCHANGED <<edgeVars, history, userVars, waitVars, queues, flushWait,
                 edgeGen, voice, serve, old, auth, sessions>>

CleanupRemote(c) ==
  /\ entry' = [entry EXCEPT ![c] = None] /\ users' = users \ {c}

CleanupOne(l, c) ==
  /\ closing[l] = "listed" /\ c \in todo[l]
  /\ todo' = [todo EXCEPT ![l] = @ \ {c}] /\ CleanupRemote(c)
  /\ UNCHANGED <<edgeVars, history, regVars, waitVars, closeVars, queues,
                 serve, old, auth, sessions>>

(* At last the voice transport and the registration go, and with it what   *)
(* is still bound to the edge.                                             *)
RemoveEdge(l) ==
  /\ todo[l] = {} /\ Closing(l, "listed", "done") /\ voice' = 0
  /\ IF edgeGen = l
     THEN edgeGen' = 0 /\ entry' = [c \in Clients |-> None]
     ELSE UNCHANGED <<edgeGen, entry>>
  /\ UNCHANGED <<edgeVars, serveVars, history, waitVars, queues, flushWait,
                 instance, users>>

-----------------------------------------------------------------------------
(* The core: handle(), one message of the link at a time.                  *)

Owned(l, c) == edgeGen = l /\ entry[c] # None

(* A message the edge's writeLoop sends and the core's read loop takes.    *)
Receive(l, t) ==
  /\ serve[l] = "run" /\ closing[l] = "open" /\ auth[l] = << >>
  /\ conn = l /\ out # << >> /\ Head(out).t = t /\ out' = Tail(out)

(* The error handle() returns for a stale message ends the read loop.      *)
Accepted(l, ok) ==
  IF ok THEN UNCHANGED closeVars ELSE CloseLink(l)

Reply(l, c, ok) ==
  IF MaySend(l, 1)
  THEN /\ down' = Sent(l, <<[t |-> "result", c |-> c, ok |-> ok]>>)
       /\ UNCHANGED closeVars
  ELSE CloseLink(l) /\ UNCHANGED down

(* AuthenticateRemote: the edge's generation is checked first; then come   *)
(* ban list, name, limit and the identity authority, which takes its time. *)
HandleAuthRequest(l) ==
  /\ Receive(l, "auth")
  /\ LET c == Head(out).c IN
     \/ /\ edgeGen = l /\ auth' = [auth EXCEPT ![l] = <<c, "checked">>]
        /\ UNCHANGED <<closeVars, down>>
     \/ Reply(l, c, FALSE) /\ UNCHANGED auth
  /\ UNCHANGED <<edgeVars, regVars, history, userVars, waitVars, serve, old,
                 todo, sessions>>

AuthAdd(l) ==
  /\ auth[l] # << >> /\ auth[l][2] = "checked"
  /\ LET c == auth[l][1] IN
     \/ /\ users' = users \cup {c}
        /\ auth' = [auth EXCEPT ![l] = <<c, "added">>]
        /\ UNCHANGED <<closeVars, down>>
     \/ /\ Reply(l, c, FALSE) /\ auth' = [auth EXCEPT ![l] = << >>]
        /\ UNCHANGED users
  /\ UNCHANGED <<edgeVars, regVars, history, waitVars, serve, old, todo,
                 sessions, entry, out>>

(* Registry.Bind asks that the edge ID is registered, by whichever link.   *)
AuthBind(l) ==
  /\ auth[l] # << >> /\ auth[l][2] = "added"
  /\ auth' = [auth EXCEPT ![l] = << >>]
  /\ LET c == auth[l][1] IN
     IF edgeGen # 0
     THEN /\ entry' = [entry EXCEPT ![c] = "Syncing"]
          /\ by' = [by EXCEPT ![c] = l]
          /\ sessions' = [sessions EXCEPT ![l] = @ \cup {c}]
          /\ Reply(l, c, TRUE) /\ UNCHANGED users
     ELSE /\ users' = users \ {c} /\ Reply(l, c, FALSE)
          /\ UNCHANGED <<entry, by, sessions>>
  /\ UNCHANGED <<edgeVars, regVars, waitVars, serve, old, todo, out, wrote,
                 announced>>

HandleTransportReady(l) ==
  /\ Receive(l, "ready")
  /\ LET c == Head(out).c IN
     /\ Accepted(l, c \in sessions[l])
     /\ sync' = IF c \in sessions[l] THEN [sync EXCEPT ![c] = "ready"] ELSE sync
  /\ UNCHANGED <<edgeVars, serveVars, regVars, history, userVars, nextID,
                 down>>

HandleControlUp(l) ==
  /\ Receive(l, "control")
  /\ LET c == Head(out).c IN Accepted(l, c \in sessions[l] /\ Owned(l, c))
  /\ UNCHANGED <<edgeVars, serveVars, regVars, history, userVars, waitVars,
                 down>>

HandleVoiceUp(l) ==
  /\ Receive(l, "voice")
  /\ LET c == Head(out).c IN Accepted(l, Owned(l, c) /\ entry[c] = "Active")
  /\ UNCHANGED <<edgeVars, serveVars, regVars, history, userVars, waitVars,
                 down>>

HandleDisconnect(l) ==
  /\ Receive(l, "disconnect")
  /\ LET c == Head(out).c IN
     /\ sessions' = [sessions EXCEPT ![l] = @ \ {c}]
     /\ IF Owned(l, c) THEN CleanupRemote(c) ELSE UNCHANGED <<entry, users>>
  /\ UNCHANGED <<edgeVars, history, regVars, waitVars, closeVars, serve, old,
                 todo, auth, down>>

Acked(s) == IF s = "flushing" THEN "acked" ELSE "kicked"
HandleControlFlushed(l) ==
  /\ Receive(l, "flushed")
  /\ LET w == {x \in flushWait[l] : x[1] = Head(out).id} IN
     IF w = {} THEN CloseLink(l) /\ UNCHANGED sync
     ELSE /\ flushWait' = [flushWait EXCEPT ![l] = @ \ w]
          /\ sync' = [c \in Clients |-> IF \E x \in w : x[2] = c
                                        THEN Acked(sync[c]) ELSE sync[c]]
          /\ UNCHANGED closing
  /\ UNCHANGED <<edgeVars, serveVars, regVars, history, userVars, nextID,
                 down>>

-----------------------------------------------------------------------------
(* The core: the sync of a remote session and its kick.                    *)

Flush(c, l) == [t |-> "flush", c |-> c, id |-> nextID[l] + 1]
AwaitFlush(c, l) ==
  /\ nextID' = [nextID EXCEPT ![l] = @ + 1]
  /\ flushWait' = [flushWait EXCEPT ![l] = @ \cup {<<nextID[l] + 1, c>>}]
Forget(c) == flushWait' = [l \in Links |-> {x \in flushWait[l] : x[2] # c}]
CloseSink(c, l) ==
  down' = IF MaySend(l, 1) THEN Sent(l, <<[t |-> "close", c |-> c]>>) ELSE down

(* TransportReadyRemote, in a goroutine of its own: the initial messages,  *)
(* ServerConfig the last of them, then the flush the commit waits for.     *)
SyncBegin(c) ==
  LET l == by[c] IN
  /\ sync[c] = "ready"
  /\ IF ~(Owned(l, c) /\ c \in users /\ entry[c] = "Syncing")
     THEN sync' = [sync EXCEPT ![c] = "over"]
          /\ UNCHANGED <<entry, users, down, nextID, flushWait>>
     ELSE IF MaySend(l, 2)
     THEN /\ sync' = [sync EXCEPT ![c] = "flushing"] /\ AwaitFlush(c, l)
          /\ down' = Sent(l, <<[t |-> "config", c |-> c], Flush(c, l)>>)
          /\ UNCHANGED <<entry, users>>
     ELSE /\ sync' = [sync EXCEPT ![c] = "over"] /\ CleanupRemote(c)
          /\ CloseSink(c, l) /\ UNCHANGED <<nextID, flushWait>>
  /\ UNCHANGED <<edgeVars, serveVars, history, regVars, closing, out>>

(* The barrier's deadline, or a link closed under it: closeFailedSync.     *)
SyncGivesUp(c) ==
  /\ sync[c] = "flushing" /\ sync' = [sync EXCEPT ![c] = "over"]
  /\ Forget(c) /\ CleanupRemote(c) /\ CloseSink(c, by[c])
  /\ UNCHANGED <<edgeVars, serveVars, history, regVars, closing, nextID, out>>

(* Fault: the commit does not wait for the flush.                          *)
MayCommitEarly(c) == sync[c] \in {"flushing", "acked"}

MayCommit(c) == sync[c] = "acked"
SyncCommit(c) ==
  /\ MayCommit(c)
  /\ IF entry[c] = "Syncing"
     THEN /\ entry' = [entry EXCEPT ![c] = "Active"]
          /\ announced' = announced \cup {c}
          /\ sync' = [sync EXCEPT ![c] = "active"] /\ UNCHANGED <<users, down>>
     ELSE /\ CleanupRemote(c) /\ CloseSink(c, by[c])
          /\ sync' = [sync EXCEPT ![c] = "over"] /\ UNCHANGED announced
  /\ UNCHANGED <<edgeVars, serveVars, regVars, closeVars, nextID, out, by,
                 wrote>>

(* KickSessionRef of an Active session: its last message and a flush, and  *)
(* when that is confirmed or overdue the sink and the session end.         *)
Kick(c) ==
  LET l == by[c] IN
  /\ sync[c] = "active" /\ entry[c] = "Active"
  /\ entry' = [entry EXCEPT ![c] = "Closing"]
  /\ IF MaySend(l, 1)
     THEN /\ sync' = [sync EXCEPT ![c] = "kicking"] /\ AwaitFlush(c, l)
          /\ down' = Sent(l, <<Flush(c, l)>>)
     ELSE /\ sync' = [sync EXCEPT ![c] = "kicked"]
          /\ UNCHANGED <<nextID, flushWait, down>>
  /\ UNCHANGED <<edgeVars, serveVars, history, regVars, closing, users, out>>

KickEnds(c) ==
  /\ sync[c] \in {"kicking", "kicked"} /\ sync' = [sync EXCEPT ![c] = "over"]
  /\ Forget(c) /\ CleanupRemote(c) /\ CloseSink(c, by[c])
  /\ UNCHANGED <<edgeVars, serveVars, history, regVars, closing, nextID, out>>

-----------------------------------------------------------------------------
(* The edge: RemoteCoreClient.                                             *)

(* Start and connectAndServe: after a backoff, the next connection.        *)
Dial ==
  /\ core = "idle" /\ dialed < MaxLinks
  /\ \A c \in Clients : pc[c] \notin {"authsend", "readysend"}
  /\ dialed' = dialed + 1 /\ core' = "dialing"
  /\ serve' = [serve EXCEPT ![dialed + 1] = "dialed"]
  /\ UNCHANGED <<connVars, history, regVars, userVars, waitVars, closeVars,
                 reqVars, queues, old, todo, auth, sessions, conn, drops,
                 thief>>

DialFails ==
  /\ core = "dialing" /\ core' = "idle"
  /\ UNCHANGED <<coreVars, connVars, history, reqVars, queues, dialed, conn,
                 drops, thief>>

Connected ==
  /\ core = "dialing" /\ down[dialed] # << >>
  /\ core' = "serving" /\ conn' = dialed
  /\ down' = [down EXCEPT ![dialed] = Tail(@)]
  /\ UNCHANGED <<coreVars, connVars, history, reqVars, dialed, drops, thief,
                 out>>

(* Fault: only the clients that have a session are closed.                 *)
DropReady ==
  /\ core' = "closing" /\ drops' = conns \cap bySession
  /\ conn' = 0

(* drop(): there is no connection any more, and CoreDisconnected closes    *)
(* the clients it finds.                                                   *)
Drop ==
  /\ core' = "closing" /\ drops' = conns /\ conn' = 0

(* A read or write error, at any moment.                                   *)
EdgeLoses ==
  /\ core = "serving" /\ Drop
  /\ UNCHANGED <<coreVars, connVars, history, reqVars, queues, dialed,
                 thief>>

(* A heartbeat that finds the queue full leaves without closing connDone:  *)
(* the writeLoop of the old connection waits for one more message.         *)
HeartbeatFails ==
  /\ core = "serving" /\ Len(out) = QueueSize /\ Drop
  /\ thief' = "waits"
  /\ UNCHANGED <<coreVars, connVars, history, reqVars, queues, dialed>>

(* ... which it takes from the next connection and fails to write.         *)
Steal ==
  /\ thief = "waits" /\ out # << >> /\ out' = Tail(out)
  /\ thief' = IF Head(out).t = "auth" THEN "stole" ELSE "no"
  /\ UNCHANGED <<coreVars, connVars, history, reqVars, down, dialed, core,
                 conn, drops>>

(* Fault: the requests are left waiting.                                   *)
DrainKeeping ==
  /\ core = "closing" /\ drops = {} /\ core' = "idle" /\ conn' = 0
  /\ out' = << >> /\ down' = [down EXCEPT ![dialed] = << >>]
  /\ UNCHANGED <<coreVars, connVars, history, reqVars, dialed, drops, thief>>

(* Then the queue is emptied and every request fails.                      *)
Drain ==
  /\ core = "closing" /\ drops = {} /\ core' = "idle" /\ conn' = 0
  /\ out' = << >> /\ pending' = {}
  /\ answer' = [c \in Clients |-> IF c \in pending THEN "failed" ELSE answer[c]]
  /\ down' = [down EXCEPT ![dialed] = << >>]
  /\ UNCHANGED <<coreVars, connVars, history, dialed, drops, thief>>

(* send: enqueued, or refused by a full queue.                             *)
Room == Len(out) < QueueSize
Enqueue(t, c) == out' = Append(out, [t |-> t, c |-> c])

(* readLoop, one message from the core.                                    *)
Reading(t) ==
  /\ core = "serving" /\ down[dialed] # << >> /\ Head(down[dialed]).t = t
  /\ down' = [down EXCEPT ![dialed] = Tail(@)]
Msg == Head(down[dialed])

ReadAuthResult ==
  /\ Reading("result") /\ pending' = pending \ {Msg.c}
  /\ answer' = IF Msg.c \in pending
               THEN [answer EXCEPT ![Msg.c] = IF Msg.ok THEN "ok" ELSE "rejected"]
               ELSE answer
  /\ UNCHANGED <<coreVars, connVars, dialVars, history, out>>

(* EdgeRuntime.DeliverControl                                              *)
DeliverControl ==
  /\ Reading("config")
  /\ LET d == {Msg.c} \cap bySession \cap conns \cap open IN
     active' = active \cup d /\ wrote' = wrote \cup d
  /\ UNCHANGED <<coreVars, linkVars, out, pc, open, conns, bySession, flushing,
                 said, by, announced>>

(* FlushControl fails for a session that is gone, and for a client that    *)
(* does not take what was written to it within a second.                   *)
FlushControl ==
  /\ Reading("flush")
  /\ \/ Drop /\ UNCHANGED out
     \/ /\ Msg.c \in bySession \cap conns \cap open
        /\ IF Room
           THEN /\ out' = Append(out, [t |-> "flushed", id |-> Msg.id])
                /\ UNCHANGED <<core, conn, drops>>
           ELSE Drop /\ UNCHANGED out
  /\ UNCHANGED <<coreVars, connVars, history, reqVars, dialed, thief>>

CloseSession ==
  /\ Reading("close")
  /\ flushing' = flushing \cup ({Msg.c} \cap bySession \cap conns)
  /\ UNCHANGED <<coreVars, linkVars, history, out, pc, open, active, conns,
                 bySession, said>>

-----------------------------------------------------------------------------
(* The edge: EdgeRuntime's client connections.                             *)

Step(c, from, to) == pc[c] = from /\ pc' = [pc EXCEPT ![c] = to]

(* handleAuthenticate: the connection gets its reference, the request its  *)
(* place in pending, and send looks for a connection to the core before it *)
(* queues the request.                                                     *)
Authenticate(c) ==
  /\ c \in open /\ Cardinality(conns) < MaxOpen /\ conns' = conns \cup {c}
  /\ Step(c, "new", IF conn # 0 THEN "authsend" ELSE "rejected")
  /\ pending' = IF conn # 0 THEN pending \cup {c} ELSE pending
  /\ UNCHANGED <<coreVars, history, queues, answer, dialVars, open, active,
                 bySession, flushing, said>>

AuthSend(c) ==
  /\ Step(c, "authsend", IF Room THEN "waiting" ELSE "rejected")
  /\ IF Room THEN Enqueue("auth", c) /\ UNCHANGED pending
             ELSE pending' = pending \ {c} /\ UNCHANGED out
  /\ UNCHANGED <<coreVars, dialVars, history, down, answer, open, active,
                 conns, bySession, flushing, said>>

(* The answer: CryptSetup cannot be written to a closed connection.        *)
Answered(c) ==
  /\ answer[c] # None /\ answer' = [answer EXCEPT ![c] = None]
  /\ Step(c, "waiting", IF answer[c] = "ok" /\ c \in open THEN "accepted"
                        ELSE "rejected")
  /\ UNCHANGED <<coreVars, dialVars, history, queues, pending, open, active,
                 conns, bySession, flushing, said>>

(* The session is recorded, then the core told, by a reliable send.        *)
Record(c) ==
  /\ Step(c, "accepted", IF conn # 0 THEN "readysend" ELSE "rejected")
  /\ bySession' = bySession \cup {c}
  /\ UNCHANGED <<coreVars, linkVars, history, queues, open, active, conns,
                 flushing, said>>

ReadySend(c) ==
  /\ Step(c, "readysend", IF Room THEN "ready" ELSE "rejected")
  /\ IF Room THEN Enqueue("ready", c) ELSE UNCHANGED out
  /\ UNCHANGED <<coreVars, linkVars, history, down, open, active, conns,
                 bySession, flushing, said>>

(* No handler of the connection runs: a TransportReady has been written.   *)
Idle(c) ==
  /\ pc[c] \in {"rejected", "ready"}
  /\ \A i \in 1 .. Len(out) : out[i] # [t |-> "ready", c |-> c]

(* HandleCoreMessage, handleUDPTunnel: one message of each client.         *)
Say(c, t) ==
  /\ Idle(c) /\ pc[c] = "ready" /\ c \in open \cap conns /\ c \notin said
  /\ t = "voice" => c \in active
  /\ conn # 0 /\ Room /\ Enqueue(t, c) /\ said' = said \cup {c}
  /\ UNCHANGED <<coreVars, linkVars, history, down, pc, open, active, conns,
                 bySession, flushing>>

(* Conn.Close and OnClose: the core hears of it if there is a session.     *)
Close(c) ==
  /\ open' = open \ {c} /\ conns' = conns \ {c} /\ bySession' = bySession \ {c}
  /\ active' = active \ {c} /\ flushing' = flushing \ {c}
  /\ IF c \in bySession \cap conns /\ conn # 0 /\ Room
     THEN Enqueue("disconnect", c) ELSE UNCHANGED out

DropClose(c) ==
  /\ core = "closing" /\ c \in drops /\ drops' = drops \ {c} /\ Close(c)
  /\ UNCHANGED <<coreVars, history, reqVars, down, dialed, core, conn, thief,
                 pc, said>>

(* The client leaves; its connection is read while no handler runs.        *)
Leave(c) ==
  /\ c \in open \cap conns /\ Idle(c) /\ Close(c)
  /\ UNCHANGED <<coreVars, linkVars, history, down, pc, said>>

CloseAfterFlush(c) ==
  /\ c \in flushing \cap open /\ Close(c)
  /\ UNCHANGED <<coreVars, linkVars, history, down, pc, said>>

-----------------------------------------------------------------------------
LinkStep(l) ==
  \/ ServeHello(l) \/ CloseOld(l) \/ RegisterEdge(l)
  \/ EdgeConnected(l) \/ RegisterVoiceTransport(l) \/ HelloAck(l)
  \/ EdgeDisconnected(l) \/ RemoveEdge(l)
  \/ \E c \in Clients : CleanupOne(l, c)
  \/ HandleAuthRequest(l) \/ AuthAdd(l) \/ AuthBind(l) \/ HandleTransportReady(l)
  \/ HandleControlUp(l) \/ HandleVoiceUp(l) \/ HandleDisconnect(l)
  \/ HandleControlFlushed(l)

EdgeStep ==
  \/ Connected \/ Drain
  \/ ReadAuthResult \/ DeliverControl \/ FlushControl \/ CloseSession

ClientStep(c) ==
  \/ AuthSend(c) \/ Answered(c) \/ Record(c) \/ ReadySend(c)
  \/ DropClose(c) \/ CloseAfterFlush(c)

Next ==
  \/ \E l \in Links : LinkStep(l) \/ CoreLoses(l)
  \/ \E c \in Clients : SyncBegin(c) \/ SyncGivesUp(c) \/ SyncCommit(c)
                        \/ Kick(c) \/ KickEnds(c)
  \/ EdgeStep \/ Dial \/ DialFails \/ EdgeLoses \/ HeartbeatFails \/ Steal
  \/ \E c \in Clients : ClientStep(c) \/ Authenticate(c) \/ Leave(c)
                        \/ Say(c, "control") \/ Say(c, "voice")

Spec == Init /\ [][Next]_vars

(* Goroutines run; a peer that has closed its end is noticed.              *)
FairSpec ==
  /\ Spec /\ WF_vars(EdgeStep)
  /\ \A l \in Links :
       WF_vars(LinkStep(l)) /\ WF_vars(conn # l /\ CoreLoses(l))
  /\ \A c \in Clients : WF_vars(ClientStep(c))
  /\ WF_vars(dialed # 0 /\ closing[dialed] # "open" /\ EdgeLoses)

-----------------------------------------------------------------------------
(* Properties.                                                             *)

(* Fail closed: once a loss has been dealt with, every open client whose   *)
(* session is recorded was admitted by the connection in use now, however  *)
(* authentications and losses overlap.                                     *)
FailClosed ==
  core \in {"idle", "dialing", "serving"} =>
    \A c \in open \cap bySession : conn # 0 /\ by[c] = conn

(* The core makes a remote session Active, and announces it, only after    *)
(* the edge has written the last message of its sync to its client.        *)
ActiveConfirmed == announced \subseteq wrote

(* When the core has finished with a lost link, no session that was Active *)
(* through it is bound or has a user record, though its sync, a kick or a  *)
(* disconnect was running at the time.                                     *)
LossEndsSessions ==
  \A c \in announced :
    closing[by[c]] = "done" => entry[c] = None /\ c \notin users

(* A client that waits for the core's answer gets one or is refused,       *)
(* whatever happens to the connection, unless a writeLoop that was left    *)
(* behind by a failed heartbeat has taken the request.                     *)
AuthAnswered ==
  \A c \in Clients : pc[c] = "waiting" ~> (pc[c] # "waiting" \/ thief = "stole")

(* The registry binds only sessions that the registered incarnation of the *)
(* edge has admitted (registry.go: SessionsForEdge).                       *)
BoundByCurrent == \A c \in Clients : entry[c] # None => by[c] = edgeGen

=============================================================================
