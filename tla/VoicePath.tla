----------------------------- MODULE VoicePath -----------------------------
(***************************************************************************)
(* One voice packet's way through the server while sessions come and go:   *)
(* HandleUDP recognises the sender of a datagram by its address or by      *)
(* trial decryption, RouteRef picks the recipients (through the sender's   *)
(* voice target when the packet whispers), SendVoice and DispatchVoice     *)
(* filter them, and localVoiceTransport.DeliverVoice looks each one up     *)
(* again before it writes.  Between any two of these steps a session may   *)
(* end and its session ID be given to another connection.                  *)
(*                                                                         *)
(* A connection stands for its own generation: a SessionRef is the         *)
(* connection, its SessionID is sidOf.  A connection has a key (secure or  *)
(* legacy mode) or none (lite mode), and without one it "opens" every      *)
(* datagram.  Whether a recipient is deaf, permitted or in the right group *)
(* only removes recipients, so any subset may remain.                      *)
(***************************************************************************)
EXTENDS Naturals, FiniteSets, Sequences

CONSTANTS
  Conns,     \* connections
  Lite,      \* those of them in lite mode
  Sids,      \* session IDs
  Addrs,     \* UDP addresses
  Nobody,    \* no connection, no session ID, no address
  Requests,  \* the VoiceTarget messages: sets of session IDs, and channel or not
  Seats,     \* the sessions there are at first: connection -> session ID
  Workers,   \* packets being handled at once
  MaxPackets,   \* bound on the packets that arrive
  MaxDepartures \* bound on the sessions that end

ASSUME VoiceAssumption ==
  /\ Nobody \notin Conns \cup Sids \cup Addrs
  /\ Lite \subseteq Conns
  /\ DOMAIN Seats \subseteq Conns
  /\ \A c \in DOMAIN Seats : Seats[c] \in Sids
  /\ \A c, d \in DOMAIN Seats : Seats[c] = Seats[d] => c = d
  /\ \A r \in Requests : r.ids \subseteq Sids /\ r.channels \in BOOLEAN

VARIABLES
  holder,        \* user manager: session ID -> connection (Nobody: free)
  bound,         \* registry: session ID -> [conn, state]
  conns,         \* Server.conns: session ID -> connection (or Nobody)
  sidOf,         \* a connection's session ID
  stage,         \* how far the connection's authentication is
  leave,         \* what is left of the connection's removal, in order
  addrBySession, sessionByAddr,
  voiceTargets,  \* session ID -> the owner's voice target, <<>> for none
  job,           \* worker -> the packet it is handling
  named,         \* connections the owner's last VoiceTarget meant
  arrived,       \* packets that arrived so far
  heard          \* addresses the connection's own datagrams came from

sessVars == <<holder, bound, conns, sidOf, stage, leave>>
addrVars == <<addrBySession, sessionByAddr>>
voiceVars == <<sessVars, addrVars, voiceTargets, job, named, arrived, heard>>

Unbound == [conn |-> Nobody, state |-> "none"]
NoJob == [pc |-> "idle"]

SeatedAt(s) == {c \in DOMAIN Seats : Seats[c] = s}
VoiceInit ==
  /\ holder = [s \in Sids |-> CHOOSE c \in Conns \cup {Nobody} :
                 IF SeatedAt(s) = {} THEN c = Nobody ELSE c \in SeatedAt(s)]
  /\ bound = [s \in Sids |-> IF SeatedAt(s) = {} THEN Unbound
                              ELSE [conn |-> holder[s], state |-> "active"]]
  /\ conns = holder
  /\ sidOf = [c \in Conns |-> IF c \in DOMAIN Seats THEN Seats[c] ELSE Nobody]
  /\ stage = [c \in Conns |-> IF c \in DOMAIN Seats THEN "active" ELSE "new"]
  /\ leave = [c \in Conns |-> <<>>]
  /\ addrBySession = [c \in Conns |-> Nobody]
  /\ sessionByAddr = [a \in Addrs |-> Nobody]
  /\ voiceTargets = [s \in Sids |-> <<>>]
  /\ job = [w \in Workers |-> NoJob]
  /\ named = [c \in Conns |-> {}]
  /\ arrived = 0
  /\ heard = [c \in Conns |-> {}]

(* Registry.Snapshot and Registry.Active of a SessionRef.                  *)
Bound(c) == sidOf[c] # Nobody /\ bound[sidOf[c]].conn = c
ActiveRef(c) == Bound(c) /\ bound[sidOf[c]].state = "active"

(* Conn.State() = StateActive: set by the commit, lost when the removal    *)
(* closes the connection.                                                  *)
ConnActive(c) == stage[c] = "active"

-----------------------------------------------------------------------------
(* Authentication: the user manager hands out a free session ID, the       *)
(* registry binds it, sendSync enters the connection into conns, the       *)
(* commit makes both the registry entry and the connection active.         *)
Enter(c) ==
  /\ stage[c] = "new"
  /\ \E s \in Sids :
       /\ holder[s] = Nobody
       /\ holder' = [holder EXCEPT ![s] = c]
       /\ sidOf' = [sidOf EXCEPT ![c] = s]
  /\ stage' = [stage EXCEPT ![c] = "entered"]
  /\ UNCHANGED <<bound, conns, leave, addrVars, voiceTargets, job, named, arrived, heard>>

(* Bind refuses an ID another session still holds; the user goes again.    *)
BindRef(c) ==
  /\ stage[c] = "entered"
  /\ LET s == sidOf[c]
         ok == bound[s] = Unbound
     IN  /\ bound' = IF ok THEN [bound EXCEPT ![s] = [conn |-> c, state |-> "syncing"]]
                           ELSE bound
         /\ holder' = IF ok THEN holder ELSE [holder EXCEPT ![s] = Nobody]
         /\ stage' = [stage EXCEPT ![c] = IF ok THEN "bound" ELSE "closed"]
  /\ UNCHANGED <<conns, sidOf, leave, addrVars, voiceTargets, job, named, arrived, heard>>

(* A worker between RLock and RUnlock of connMu keeps writers out.         *)
Unlocked == \A w \in Workers : job[w].pc # "remember"

(* registerConnOnly asks nothing: the session may already be going.        *)
MapConn(c) ==
  /\ Unlocked
  /\ stage[c] \in {"bound", "leaving"}
  /\ conns' = [conns EXCEPT ![sidOf[c]] = c]
  /\ stage' = [stage EXCEPT ![c] = IF @ = "bound" THEN "mapped" ELSE "closed"]
  /\ UNCHANGED <<holder, bound, sidOf, leave, addrVars, voiceTargets, job, named, arrived, heard>>

Commit(c) ==
  /\ stage[c] = "mapped" /\ Bound(c) /\ bound[sidOf[c]].state = "syncing"
  /\ bound' = [bound EXCEPT ![sidOf[c]].state = "active"]
  /\ stage' = [stage EXCEPT ![c] = "active"]
  /\ UNCHANGED <<holder, conns, sidOf, leave, addrVars, voiceTargets, job, named, arrived, heard>>

(* The ways a session ends: a kick or a ban closes the registry entry and  *)
(* the connection, removes the user and then unregisters; a connection     *)
(* that breaks, or fails to synchronise, unregisters first.                *)
Unregister == <<"close", "address", "unmap", "forget", "unbind">>
Depart(c) ==
  /\ stage[c] \in {"bound", "mapped", "active"}
  /\ Cardinality({d \in Conns : stage[d] \in {"leaving", "closed"}}) < MaxDepartures
  /\ stage' = [stage EXCEPT ![c] = IF @ = "bound" THEN "leaving" ELSE "closed"]
  /\ \/ /\ bound' = [bound EXCEPT ![sidOf[c]].state = "closing"]
        /\ leave' = [leave EXCEPT ![c] = <<"remove">> \o Unregister]
     \/ /\ leave' = [leave EXCEPT ![c] = Append(Unregister, "remove")]
        /\ UNCHANGED bound
  /\ UNCHANGED <<holder, conns, sidOf, addrVars, voiceTargets, job, named, arrived, heard>>

(* removeVoiceTargetsLocked: the session's own targets, and every mention  *)
(* of its ID in the targets of others.                                     *)
Mentions(t, s) == t # <<>> /\ s \in DOMAIN t[1].sessions
Without(t, s) ==
  LET left == [i \in DOMAIN t[1].sessions \ {s} |-> t[1].sessions[i]]
  IN  IF DOMAIN left = {} /\ ~t[1].channels THEN <<>>
      ELSE <<[t[1] EXCEPT !.sessions = left]>>
removeVoiceTargets(s) ==
  voiceTargets' = [o \in Sids |->
    IF o = s THEN <<>>
    ELSE IF Mentions(voiceTargets[o], s) THEN Without(voiceTargets[o], s)
    ELSE voiceTargets[o]]

(* One step of UnregisterConn, or RemoveIfGeneration.                      *)
LeaveStep(c) ==
  /\ leave[c] # <<>>
  /\ leave' = [leave EXCEPT ![c] = Tail(@)]
  /\ LET step == Head(leave[c])
         s == sidOf[c]
     IN  /\ step = "unmap" => Unlocked
         /\ holder' = IF step = "remove" /\ holder[s] = c
                      THEN [holder EXCEPT ![s] = Nobody] ELSE holder
         /\ bound' = IF step = "close" THEN [bound EXCEPT ![s].state = "closing"]
                     ELSE IF step = "unbind" THEN [bound EXCEPT ![s] = Unbound]
                     ELSE bound
         /\ sessionByAddr' = [a \in Addrs |->
              IF step = "address" /\ addrBySession[c] = a /\ sessionByAddr[a] = c
              THEN Nobody ELSE sessionByAddr[a]]
         /\ conns' = IF step = "unmap" THEN [conns EXCEPT ![s] = Nobody] ELSE conns
         /\ IF step = "unmap" THEN removeVoiceTargets(s) ELSE UNCHANGED voiceTargets
         /\ addrBySession' = IF step = "forget" THEN [addrBySession EXCEPT ![c] = Nobody]
                             ELSE addrBySession
  /\ UNCHANGED <<sidOf, stage, job, named, arrived, heard>>

-----------------------------------------------------------------------------
(* handleVoiceTarget: the session IDs of the message become the            *)
(* connections that hold them now, a channel target stays a channel.       *)
storeVoiceTarget(c, ids, channels) ==
  /\ Unlocked /\ ConnActive(c)
  /\ holder[sidOf[c]] = c /\ Bound(c)
  /\ LET live == {s \in ids : holder[s] # Nobody /\ Bound(holder[s])}
         spec == [owner |-> c, sessions |-> [s \in live |-> holder[s]],
                  channels |-> channels]
     IN  voiceTargets' = [voiceTargets EXCEPT ![sidOf[c]] =
                            IF live = {} /\ ~channels THEN <<>> ELSE <<spec>>]
  /\ named' = [named EXCEPT ![c] = {holder[s] : s \in ids} \ {Nobody}]
  /\ UNCHANGED <<sessVars, addrVars, job, arrived, heard>>

-----------------------------------------------------------------------------
Work(w, pc) == job[w].pc = pc
Then(w, j) == job' = [job EXCEPT ![w] = j]
Drop(w) == Then(w, NoJob)
UnchangedButJob == UNCHANGED <<sessVars, addrVars, voiceTargets, named, arrived, heard>>

(* A datagram of c arrives, sealed with its key or, in lite mode, plain;   *)
(* the network may deliver it long after c has left.                       *)
Receive(w, c, a) ==
  /\ Work(w, "idle")
  /\ stage[c] \in {"mapped", "active", "closed"} /\ sidOf[c] # Nobody
  /\ Then(w, [pc |-> "cached", key |-> c, addr |-> a])
  /\ arrived < MaxPackets /\ arrived' = arrived + 1
  /\ heard' = [heard EXCEPT ![c] = @ \cup {a}]
  /\ UNCHANGED <<sessVars, addrVars, voiceTargets, named>>

(* handleUDPTunnel: the packet came over the connection itself.            *)
Tunnel(w, c) ==
  /\ Work(w, "idle") /\ ConnActive(c)
  /\ arrived < MaxPackets /\ arrived' = arrived + 1
  /\ Then(w, [pc |-> "route", key |-> c, ref |-> c])
  /\ UNCHANGED <<sessVars, addrVars, voiceTargets, named, heard>>

(* Decrypt: a key opens what it sealed, unless it is late or repeated; a   *)
(* lite session opens anything.                                            *)
Opens(c, j) == c \in Lite \/ c = j.key
MayRefuse(c) == c \notin Lite
Identified(j, s, c) ==
  [pc |-> "identified", key |-> j.key, addr |-> j.addr, sid |-> s, crypt |-> c]

(* HandleUDP, the cached address: its session must still be the one in     *)
(* conns, and must open the datagram, or the entry is dropped.             *)
Cached(w) ==
  /\ Work(w, "cached")
  /\ LET j == job[w]
         c == sessionByAddr[j.addr]
         tried == c # Nobody /\ conns[sidOf[c]] = c /\ ConnActive(c)
         trial == Then(w, [j EXCEPT !.pc = "trial"])
     IN  \/ tried /\ Opens(c, j) /\ Then(w, Identified(j, sidOf[c], c)) /\ UNCHANGED sessionByAddr
         \/ tried /\ MayRefuse(c) /\ trial /\ sessionByAddr' = [sessionByAddr EXCEPT ![j.addr] = Nobody]
         \/ ~tried /\ trial /\ UNCHANGED sessionByAddr
  /\ UNCHANGED <<sessVars, addrBySession, voiceTargets, named, arrived, heard>>

(* HandleUDP, every active connection in turn under connMu, first those    *)
(* with a key; what none of them opens goes to any in lite mode.           *)
Trial(w) ==
  /\ Work(w, "trial")
  /\ LET j == job[w]
         opens == {s \in Sids : conns[s] \in Conns /\ ConnActive(conns[s]) /\ Opens(conns[s], j)}
     IN  \/ \E s \in opens : Then(w, Identified(j, s, conns[s]))
         \/ (\A s \in opens : MayRefuse(conns[s])) /\ Drop(w)
  /\ UnchangedButJob

(* Fault: any active connection under the session ID will do.              *)
AdoptBySid(w) ==
  /\ Work(w, "identified")
  /\ LET c == conns[job[w].sid]
     IN  IF c = Nobody THEN Drop(w)
         ELSE IF ~ConnActive(c) THEN Drop(w)
         ELSE Then(w, [pc |-> "adopted", key |-> job[w].key,
                       addr |-> job[w].addr, ref |-> c])
  /\ UnchangedButJob

(* The connection now under the session ID must be the one whose key       *)
(* opened the datagram.                                                    *)
Adopt(w) ==
  /\ Work(w, "identified")
  /\ LET c == conns[job[w].sid]
     IN  IF c = job[w].crypt /\ ConnActive(c)
         THEN Then(w, [pc |-> "adopted", key |-> job[w].key,
                       addr |-> job[w].addr, ref |-> c])
         ELSE Drop(w)
  /\ UnchangedButJob

(* Under connMu: still in conns and active in the registry ...             *)
Confirm(w) ==
  /\ Work(w, "adopted")
  /\ LET c == job[w].ref
     IN  IF conns[sidOf[c]] = c /\ ActiveRef(c)
         THEN Then(w, [job[w] EXCEPT !.pc = "remember"])
         ELSE Drop(w)
  /\ UnchangedButJob

(* ... then the address is stored both ways.  A ping is answered here.     *)
Remember(w) ==
  /\ Work(w, "remember")
  /\ addrBySession' = [addrBySession EXCEPT ![job[w].ref] = job[w].addr]
  /\ sessionByAddr' = [sessionByAddr EXCEPT ![job[w].addr] = job[w].ref]
  /\ \/ Then(w, [pc |-> "route", key |-> job[w].key, ref |-> job[w].ref])
     \/ Drop(w)
  /\ UNCHANGED <<sessVars, voiceTargets, named, arrived, heard>>

-----------------------------------------------------------------------------
(* A packet with its recipients.  "meant" is what the sender's own last    *)
(* VoiceTarget allows: anyone when it names a channel.                     *)
Routed(j, recipients, meant) ==
  [pc |-> "send", key |-> j.key, ref |-> j.ref, to |-> recipients, meant |-> meant]

(* resolveVoiceTarget, under connMu: the owner's target, the connections   *)
(* it names that are active and still hold their IDs, and whoever is in    *)
(* the channels it names.                                                  *)
Named(spec) == {spec.sessions[s] : s \in DOMAIN spec.sessions}
Current(c) == ActiveRef(c) /\ holder[sidOf[c]] = c
Recipients(t) ==
  {c \in IF t[1].channels THEN Conns ELSE Named(t[1]) : Current(c)}
Whisper(w) ==
  /\ Work(w, "route")
  /\ LET j == job[w]
         t == voiceTargets[sidOf[j.ref]]
     IN  \/ /\ t # <<>>
            /\ ActiveRef(t[1].owner)
            /\ \E to \in SUBSET {c \in Recipients(t) : sidOf[c] # sidOf[j.ref]} :
                 Then(w, Routed(j, to, IF t[1].channels THEN Conns
                                       ELSE named[j.ref]))
         \/ t = <<>> /\ Drop(w)
         \/ t # <<>> /\ ~ActiveRef(t[1].owner) /\ Drop(w)
  /\ UnchangedButJob

(* RouteRef for a channel: session IDs first, then whoever the registry    *)
(* has under each of them (ResolveSession).                                *)
Speak(w) ==
  /\ Work(w, "route")
  /\ \E ids \in SUBSET {s \in Sids : holder[s] # Nobody /\ s # sidOf[job[w].ref]} :
       Then(w, [pc |-> "resolve", key |-> job[w].key, ref |-> job[w].ref, ids |-> ids])
  /\ UnchangedButJob
ResolveSession(w) ==
  /\ Work(w, "resolve")
  /\ Then(w, Routed(job[w], {bound[s].conn : s \in job[w].ids} \ {Nobody}, Conns))
  /\ UnchangedButJob

(* Target 31 is the sender itself.                                         *)
Loopback(w) ==
  /\ Work(w, "route")
  /\ Then(w, Routed(job[w], {job[w].ref}, {job[w].ref}))
  /\ UnchangedButJob

(* SendVoice, then DispatchVoice: each asks the registry about the sender  *)
(* and about every recipient.                                              *)
Filter(w, next) ==
  /\ IF ActiveRef(job[w].ref)
     THEN Then(w, [job[w] EXCEPT !.pc = next, !.to = {c \in @ : ActiveRef(c)}])
     ELSE Drop(w)
  /\ UnchangedButJob
SendVoice(w) == Work(w, "send") /\ Filter(w, "dispatch")
DispatchVoice(w) == Work(w, "dispatch") /\ Filter(w, "deliver")

(* DeliverVoice for one recipient: the registry, then conns and the        *)
(* address under connMu, then the write on the connection found.           *)
Deliver(w) ==
  /\ Work(w, "deliver")
  /\ \/ \E c \in job[w].to :
          Then(w, IF ActiveRef(c)
                  THEN [pc |-> "lookup", key |-> job[w].key, ref |-> job[w].ref,
                        to |-> job[w].to \ {c}, meant |-> job[w].meant, cur |-> c]
                  ELSE [job[w] EXCEPT !.to = @ \ {c}])
     \/ job[w].to = {} /\ Drop(w)
  /\ UnchangedButJob

Found(j, conn) ==
  [pc |-> "write", key |-> j.key, ref |-> j.ref, to |-> j.to, meant |-> j.meant,
   conn |-> conn, addr |-> addrBySession[j.cur]]
Skip(j) ==
  [pc |-> "deliver", key |-> j.key, ref |-> j.ref, to |-> j.to, meant |-> j.meant]

(* Fault: the connection found is not compared with the recipient.         *)
LookupBySid(w) ==
  /\ Work(w, "lookup")
  /\ LET j == job[w]
         conn == conns[sidOf[j.cur]]
     IN  Then(w, IF conn # Nobody THEN Found(j, conn) ELSE Skip(j))
  /\ UnchangedButJob

Lookup(w) ==
  /\ Work(w, "lookup")
  /\ LET j == job[w]
         conn == conns[sidOf[j.cur]]
     IN  Then(w, IF conn = j.cur THEN Found(j, conn) ELSE Skip(j))
  /\ UnchangedButJob

(* sendAudioTo: by UDP to the address, or through the connection when      *)
(* there is none or the channel mixes crypto modes.                        *)
WriteVoice(w) == Work(w, "write") /\ Then(w, Skip(job[w])) /\ UnchangedButJob

-----------------------------------------------------------------------------
Life(c) == Enter(c) \/ BindRef(c) \/ MapConn(c) \/ Commit(c) \/ Depart(c) \/ LeaveStep(c)
VoiceNext ==
  \/ \E c \in Conns : Life(c)
  \/ \E c \in Conns, r \in Requests : storeVoiceTarget(c, r.ids, r.channels)
  \/ \E w \in Workers, c \in Conns, a \in Addrs : Receive(w, c, a)
  \/ \E w \in Workers, c \in Conns : Tunnel(w, c)
  \/ \E w \in Workers :
       \/ Cached(w) \/ Trial(w) \/ Adopt(w) \/ Confirm(w) \/ Remember(w)
       \/ Whisper(w) \/ Speak(w) \/ Loopback(w) \/ ResolveSession(w)
       \/ SendVoice(w) \/ DispatchVoice(w)
       \/ Deliver(w) \/ Lookup(w) \/ WriteVoice(w)

VoiceSpec == VoiceInit /\ [][VoiceNext]_voiceVars

-----------------------------------------------------------------------------
(* HandleUDP never attributes a packet to a session that has a key and did *)
(* not seal it, although the session ID it found may belong to another     *)
(* connection by the time it looks again, and the address may be           *)
(* another's.  A session in lite mode has no key and is given any datagram *)
(* that no key opens, or that comes from its address: of what is           *)
(* attributed to such a session nothing is claimed.                        *)
SpeakerHasKey ==
  \A w \in Workers :
    /\ job[w].pc \notin {"idle", "cached", "trial", "identified"}
    /\ job[w].ref \notin Lite
    => job[w].ref = job[w].key

(* A whisper is written only on a connection the sender's own voice target *)
(* named when it was stored, never on one that got the session ID later    *)
(* ("bound to the connection identity, must not move when the session is   *)
(* reused", voicetarget.go), and, if that connection has a key, by UDP     *)
(* only to an address its own datagrams came from.                         *)
WhisperReachesNamed ==
  \A w \in Workers :
    job[w].pc = "write" =>
      /\ job[w].conn \in job[w].meant
      /\ job[w].addr # Nobody /\ job[w].conn \notin Lite => job[w].addr \in heard[job[w].conn]
=============================================================================
