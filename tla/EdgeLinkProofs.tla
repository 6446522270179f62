--------------------------- MODULE EdgeLinkProofs ---------------------------
(***************************************************************************)
(* Proofs about EdgeLink, for every set of clients, any number of links    *)
(* and queues of any size.  The invariants build on each other: types and  *)
(* queues, who admitted a session (AdmitInv), and on top of that one       *)
(* invariant for each of the three properties.                             *)
(***************************************************************************)
EXTENDS EdgeLink, TLAPS

-----------------------------------------------------------------------------
(* Queues: what a message taken, or messages added, do to what is in them. *)

In(q, m) == \E i \in 1 .. Len(q) : q[i] = m
Once(q, m) == \A i, j \in 1 .. Len(q) : q[i] = m /\ q[j] = m => i = j

(* A flush of c comes after the last message of c's sync.                  *)
Config(c) == [t |-> "config", c |-> c]
FlushOf(m, c) == m.t = "flush" /\ m.c = c
Ordered(q, c) ==
  \A i \in 1 .. Len(q) : FlushOf(q[i], c) => \E j \in 1 .. i - 1 : q[j] = Config(c)

LEMMA TailElements ==
  ASSUME NEW S, NEW q \in Seq(S), q # << >>
  PROVE  /\ Tail(q) \in Seq(S) /\ Len(q) \in Nat \ {0} /\ Head(q) = q[1]
         /\ q[1] \in S /\ Len(Tail(q)) = Len(q) - 1
         /\ \A i \in 1 .. Len(q) - 1 : Tail(q)[i] = q[i + 1]
  OBVIOUS

LEMMA JoinOneElements ==
  ASSUME NEW S, NEW q \in Seq(S), NEW x \in S
  PROVE  /\ q \o <<x>> \in Seq(S) /\ Len(q) \in Nat
         /\ Len(q \o <<x>>) = Len(q) + 1 /\ (q \o <<x>>)[Len(q) + 1] = x
         /\ \A i \in 1 .. Len(q) : (q \o <<x>>)[i] = q[i]
  OBVIOUS

LEMMA JoinTwoElements ==
  ASSUME NEW S, NEW q \in Seq(S), NEW x \in S, NEW y \in S
  PROVE  /\ q \o <<x, y>> \in Seq(S) /\ Len(q) \in Nat
         /\ Len(q \o <<x, y>>) = Len(q) + 2
         /\ (q \o <<x, y>>)[Len(q) + 1] = x /\ (q \o <<x, y>>)[Len(q) + 2] = y
         /\ \A i \in 1 .. Len(q) : (q \o <<x, y>>)[i] = q[i]
  OBVIOUS

LEMMA AppendElements ==
  ASSUME NEW S, NEW q \in Seq(S), NEW x \in S
  PROVE  /\ Append(q, x) \in Seq(S) /\ Len(q) \in Nat
         /\ Len(Append(q, x)) = Len(q) + 1 /\ Append(q, x)[Len(q) + 1] = x
         /\ \A i \in 1 .. Len(q) : Append(q, x)[i] = q[i]
  OBVIOUS

LEMMA UpTo ==
  ASSUME NEW a \in Nat, NEW b \in Nat, NEW c \in Nat, a <= b
  PROVE  (b <= c => a <= c) /\ a # b + 1
  OBVIOUS

LEMMA NextUp ==
  ASSUME NEW n \in Nat, NEW W, \A x \in W : x[1] \in Nat /\ x[1] <= n, NEW c
  PROVE  /\ \A x \in W \cup {<<n + 1, c>>} : x[1] = n + 1 => x[2] = c
         /\ n + 1 <= n + 1
  OBVIOUS

(* What a queue holds after a message was taken from it.                   *)
LEMMA TakeIn ==
  ASSUME NEW S, NEW q \in Seq(S), q # << >>, NEW m
  PROVE  /\ In(Tail(q), m) => In(q, m)
         /\ Once(q, m) => Once(Tail(q), m)
         /\ Once(q, m) /\ Head(q) = m => ~In(Tail(q), m)
         /\ In(q, Head(q))
<1>1. Tail(q) \in Seq(S) /\ Len(q) \in Nat \ {0} /\ Head(q) = q[1]
      /\ Len(Tail(q)) = Len(q) - 1 /\ \A i \in 1 .. Len(q) - 1 : Tail(q)[i] = q[i + 1]
  BY TailElements, Zenon
<1> DEFINE r == Tail(q)  n == Len(q)
<1>2. n \in Nat \ {0} /\ Len(r) = n - 1 /\ \A i \in 1 .. n - 1 : r[i] = q[i + 1]
  BY <1>1, Zenon
<1> HIDE DEF r, n
<1>3. In(r, m) => In(q, m)
  BY <1>2 DEF In, n
<1>4. Once(q, m) => Once(r, m)
  BY <1>2, SMTT(30) DEF Once, n
<1>5. Once(q, m) /\ q[1] = m => ~In(r, m)
  BY <1>2, SMTT(30) DEF Once, In, n
<1>6. In(q, q[1])
  BY <1>2 DEF In, n
<1> QED  BY <1>1, <1>3, <1>4, <1>5, <1>6, Zenon DEF r

LEMMA AddIn ==
  ASSUME NEW S, NEW q \in Seq(S), NEW x \in S, NEW m
  PROVE  /\ In(Append(q, x), m) => In(q, m) \/ m = x
         /\ Once(q, m) /\ m # x => Once(Append(q, x), m)
         /\ ~In(q, m) => Once(Append(q, x), m)
<1> DEFINE r == Append(q, x)  n == Len(q)
<1>1. n \in Nat /\ Len(r) = n + 1 /\ r[n + 1] = x /\ \A i \in 1 .. n : r[i] = q[i]
  BY AppendElements
<1> HIDE DEF r, n
<1>2. In(r, m) => In(q, m) \/ m = x
  BY <1>1 DEF In, n
<1>3. Once(q, m) /\ m # x => Once(r, m)
  BY <1>1 DEF Once, n
<1>4. ~In(q, m) => Once(r, m)
  BY <1>1 DEF Once, In, n
<1> QED  BY <1>2, <1>3, <1>4, Zenon DEF r

LEMMA EmptyIn ==
  ASSUME NEW m PROVE ~In(<< >>, m) /\ Once(<< >>, m)
  BY DEF In, Once

LEMMA JoinIn ==
  ASSUME NEW S, NEW q \in Seq(S), NEW x \in S, NEW y \in S, NEW m
  PROVE  /\ In(q \o <<x>>, m) => In(q, m) \/ m = x
         /\ In(q \o <<x, y>>, m) => In(q, m) \/ m = x \/ m = y
<1> DEFINE r == q \o <<x>>  s == q \o <<x, y>>  n == Len(q)
<1>1. n \in Nat /\ Len(r) = n + 1 /\ r[n + 1] = x /\ \A i \in 1 .. n : r[i] = q[i]
  BY JoinOneElements
<1>2. n \in Nat /\ Len(s) = n + 2 /\ s[n + 1] = x /\ s[n + 2] = y /\ \A i \in 1 .. n : s[i] = q[i]
  BY JoinTwoElements
<1> HIDE DEF r, s, n
<1>3. In(r, m) => In(q, m) \/ m = x
  BY <1>1 DEF In, n
<1>4. In(s, m) => In(q, m) \/ m = x \/ m = y
  BY <1>2 DEF In, n
<1> QED  BY <1>3, <1>4, Zenon DEF r, s

(* ... and what becomes of the order of sync and flush.                    *)
LEMMA TakeOrdered ==
  ASSUME NEW S, NEW q \in Seq(S), q # << >>, NEW c, Ordered(q, c), Head(q) # Config(c)
  PROVE  Ordered(Tail(q), c)
<1> DEFINE r == Tail(q)  n == Len(q)
<1>1. n \in Nat \ {0} /\ Len(r) = n - 1 /\ Head(q) = q[1] /\ \A i \in 1 .. n - 1 : r[i] = q[i + 1]
  BY TailElements, Zenon
<1> HIDE DEF r, n
<1>2. SUFFICES ASSUME NEW i \in 1 .. Len(r), FlushOf(r[i], c)
               PROVE  \E j \in 1 .. i - 1 : r[j] = Config(c)
  BY Zenon DEF Ordered, r
<1>3. PICK j \in 1 .. i : q[j] = Config(c)
  <2>1. i + 1 \in 1 .. n /\ r[i] = q[i + 1]
    BY <1>1
  <2>2. \E j \in 1 .. (i + 1) - 1 : q[j] = Config(c)
    BY <1>2, <2>1, Zenon DEF Ordered, n
  <2> QED  BY <2>2
<1>4. j # 1
  BY <1>1, <1>3, Zenon
<1>5. j - 1 \in 1 .. i - 1 /\ r[j - 1] = q[j]
  BY <1>1, <1>3, <1>4
<1> QED  BY <1>3, <1>5, Zenon

LEMMA JoinOrdered ==
  ASSUME NEW S, NEW q \in Seq(S), NEW x \in S, NEW y \in S, NEW c, Ordered(q, c)
  PROVE  /\ ~FlushOf(x, c) => Ordered(q \o <<x>>, c)
         /\ ~FlushOf(x, c) /\ ~FlushOf(y, c) => Ordered(q \o <<x, y>>, c)
         /\ x = Config(c) => Ordered(q \o <<x, y>>, c)
<1> DEFINE r == q \o <<x>>  s == q \o <<x, y>>  n == Len(q)
<1>1. n \in Nat /\ Len(r) = n + 1 /\ r[n + 1] = x /\ \A i \in 1 .. n : r[i] = q[i]
  BY JoinOneElements
<1>2. n \in Nat /\ Len(s) = n + 2 /\ s[n + 1] = x /\ s[n + 2] = y /\ \A i \in 1 .. n : s[i] = q[i]
  BY JoinTwoElements
<1> HIDE DEF r, s, n
<1>3. ~FlushOf(x, c) => Ordered(r, c)
  BY <1>1 DEF Ordered, n
<1>4. ~FlushOf(x, c) /\ ~FlushOf(y, c) => Ordered(s, c)
  BY <1>2 DEF Ordered, n
<1>5. ASSUME x = Config(c) PROVE Ordered(s, c)
  <2>1. ~FlushOf(x, c)
    BY <1>5, Zenon DEF FlushOf, Config
  <2> QED  BY <1>2, <1>5, <2>1 DEF Ordered, n
<1> QED  BY <1>3, <1>4, <1>5, Zenon DEF r, s

-----------------------------------------------------------------------------
(* Types.                                                                  *)

UpMsg ==
  [t : {"auth", "ready", "control", "voice", "disconnect"}, c : Clients]
  \cup [t : {"flushed"}, id : Nat]

DownMsg ==
  [t : {"ack"}] \cup [t : {"result"}, c : Clients, ok : BOOLEAN]
  \cup [t : {"config", "close"}, c : Clients]
  \cup [t : {"flush"}, c : Clients, id : Nat]

Gens == 0 .. MaxLinks

(* The variables of the core that the properties depend on.                *)
CoreType ==
  /\ edgeGen \in Gens
  /\ closing \in [Links -> {"open", "closing", "listed", "done"}]
  /\ todo \in [Links -> SUBSET Clients]
  /\ sessions \in [Links -> SUBSET Clients]
  /\ auth \in [Links -> {<< >>} \cup (Clients \X {"checked", "added"})]
  /\ entry \in [Clients -> {None, "Syncing", "Active", "Closing"}]
  /\ users \in SUBSET Clients
  /\ sync \in [Clients -> {None, "ready", "flushing", "acked", "active",
                           "kicking", "kicked", "over"}]
  /\ flushWait \in [Links -> SUBSET (Nat \X Clients)]
  /\ nextID \in [Links -> Nat]
  /\ by \in [Clients -> Gens]
  /\ announced \in SUBSET Clients

(* ... and those of the edge: it serves the connection it dialed last.     *)
EdgeType ==
  /\ dialed \in Gens
  /\ core \in {"idle", "dialing", "serving", "closing"}
  /\ core # "idle" => dialed # 0
  /\ conn = IF core = "serving" THEN dialed ELSE 0
  /\ pending \in SUBSET Clients
  /\ answer \in [Clients -> {None, "ok", "rejected", "failed"}]
  /\ drops \in SUBSET Clients
  /\ pc \in [Clients -> {"new", "authsend", "waiting", "accepted", "readysend",
                         "ready", "rejected"}]
  /\ open \in SUBSET Clients /\ conns \in SUBSET Clients
  /\ bySession \in SUBSET Clients /\ wrote \in SUBSET Clients

QueueType == out \in Seq(UpMsg) /\ down \in [Links -> Seq(DownMsg)]

TypeOK == CoreType /\ EdgeType /\ QueueType

USE DEF None, regVars, serveVars, userVars, waitVars, closeVars, coreVars,
        reqVars, dialVars, linkVars, connVars, edgeVars, history, queues

LEMMA LinksAreGens == \A n : n \in Gens /\ n # 0 <=> n \in Links
  BY MaxLinksAssumption DEF Gens, Links

LEMMA InitType == Init => TypeOK
  BY LinksAreGens, MaxLinksAssumption
  DEF Init, TypeOK, CoreType, EdgeType, QueueType, Gens, Links

(* The core's steps leave the edge alone.                                  *)
CoreStep ==
  \/ \E l \in Links : LinkStep(l) \/ CoreLoses(l)
  \/ \E c \in Clients : SyncBegin(c) \/ SyncGivesUp(c) \/ SyncCommit(c)
                        \/ Kick(c) \/ KickEnds(c)

(* The edge's steps leave the core alone; only a dial starts a goroutine.  *)
EdgeSideStep ==
  \/ EdgeStep \/ Dial \/ DialFails \/ EdgeLoses \/ HeartbeatFails \/ Steal
  \/ \E c \in Clients : ClientStep(c) \/ Authenticate(c) \/ Leave(c)
                        \/ Say(c, "control") \/ Say(c, "voice")

LEMMA CoreKeepsEdge == CoreStep => UNCHANGED <<edgeVars, wrote>>
<1>1. ASSUME NEW l \in Links, LinkStep(l) \/ CoreLoses(l)
      PROVE  UNCHANGED <<edgeVars, wrote>>
  BY <1>1, Zenon DEF LinkStep, CoreLoses, ServeHello, CloseOld, RegisterEdge, EdgeConnected,
     RegisterVoiceTransport, HelloAck, EdgeDisconnected, RemoveEdge, CleanupOne,
     HandleAuthRequest, AuthAdd, AuthBind, HandleTransportReady, HandleControlUp,
     HandleVoiceUp, HandleDisconnect, HandleControlFlushed
<1>2. ASSUME NEW c \in Clients,
             SyncBegin(c) \/ SyncGivesUp(c) \/ SyncCommit(c) \/ Kick(c) \/ KickEnds(c)
      PROVE  UNCHANGED <<edgeVars, wrote>>
  BY <1>2, Zenon DEF SyncBegin, SyncGivesUp, SyncCommit, Kick, KickEnds
<1> QED  BY <1>1, <1>2, Zenon DEF CoreStep

coreOnly == <<regVars, userVars, waitVars, closeVars, old, todo, auth, sessions,
              by, announced>>

LEMMA EdgeKeepsCore == EdgeSideStep => UNCHANGED coreOnly
<1> USE DEF coreOnly
<1>1. EdgeStep \/ Dial \/ DialFails \/ EdgeLoses \/ HeartbeatFails \/ Steal
      => UNCHANGED coreOnly
  BY Zenon DEF EdgeStep, Connected, Drain, ReadAuthResult, DeliverControl, FlushControl,
     CloseSession, Dial, DialFails, EdgeLoses, HeartbeatFails, Steal
<1>2. ASSUME NEW c \in Clients,
             ClientStep(c) \/ Authenticate(c) \/ Leave(c) \/ Say(c, "control") \/ Say(c, "voice")
      PROVE  UNCHANGED coreOnly
  BY <1>2, Zenon DEF ClientStep, AuthSend, Answered, Record, ReadySend, DropClose,
     CloseAfterFlush, Authenticate, Leave, Say
<1> QED  BY <1>1, <1>2, Zenon DEF EdgeSideStep

LEMMA CloseLinkType ==
  ASSUME CoreType, NEW l, CloseLink(l) \/ UNCHANGED closeVars
  PROVE  /\ closing' \in [Links -> {"open", "closing", "listed", "done"}]
         /\ flushWait' \in [Links -> SUBSET (Nat \X Clients)]
<1>1. /\ closing \in [Links -> {"open", "closing", "listed", "done"}]
      /\ flushWait \in [Links -> SUBSET (Nat \X Clients)]
  BY Zenon DEF CoreType
<1>2. closing' \in [Links -> {"open", "closing", "listed", "done"}]
  BY <1>1, Zenon DEF CloseLink
<1>3. flushWait' \in [Links -> SUBSET (Nat \X Clients)]
  BY <1>1, Zenon DEF CloseLink
<1> QED  BY <1>2, <1>3, Zenon

LEMMA CoreTypeLink ==
  ASSUME TypeOK, NEW l \in Links, LinkStep(l) \/ CoreLoses(l) PROVE CoreType'
<1>1. CASE ServeHello(l) \/ CloseOld(l) \/ RegisterEdge(l) \/ EdgeConnected(l)
           \/ RegisterVoiceTransport(l) \/ HelloAck(l) \/ CoreLoses(l)
  <2>1. UNCHANGED <<todo, sessions, auth, entry, users, sync, nextID, by, announced>>
    BY <1>1, Zenon DEF ServeHello, CloseOld, RegisterEdge, EdgeConnected, CoreLoses,
                RegisterVoiceTransport, HelloAck
  <2>2. edgeGen' \in {edgeGen, l} /\ (UNCHANGED closeVars \/ \E k : CloseLink(k))
    BY <1>1, Zenon DEF ServeHello, CloseOld, RegisterEdge, EdgeConnected, CoreLoses,
                RegisterVoiceTransport, HelloAck
  <2> QED  BY <2>1, <2>2, CloseLinkType, LinksAreGens DEF TypeOK, CoreType
<1>2. CASE EdgeDisconnected(l)
  BY <1>2, Zenon DEF EdgeDisconnected, Closing, SessionsForEdge, TypeOK, CoreType
<1>3. CASE \E c \in Clients : CleanupOne(l, c)
  BY <1>3 DEF CleanupOne, CleanupRemote, TypeOK, CoreType
<1>4. CASE RemoveEdge(l)
  BY <1>4, MaxLinksAssumption DEF RemoveEdge, Closing, Gens, TypeOK, CoreType
<1>5. CASE HandleAuthRequest(l) \/ AuthAdd(l) \/ AuthBind(l)
  <2>1. HandleAuthRequest(l) => Head(out).c \in Clients
    <3>1. HandleAuthRequest(l) => out # << >> /\ Head(out).t = "auth"
      BY Zenon DEF HandleAuthRequest, Receive
    <3>2. out # << >> => Head(out) \in UpMsg
      BY TailElements DEF TypeOK, QueueType
    <3> QED  BY <3>1, <3>2, Zenon DEF UpMsg
  <2>2. auth[l] # << >> => auth[l][1] \in Clients
    BY Zenon DEF TypeOK, CoreType
  <2>3. /\ UNCHANGED <<edgeGen, todo, sync, nextID, announced>>
        /\ UNCHANGED closeVars \/ CloseLink(l)
    BY <1>5, Zenon DEF HandleAuthRequest, AuthAdd, AuthBind, Reply
  <2>4. \/ UNCHANGED auth
        \/ \E x \in {<< >>} \cup (Clients \X {"checked", "added"}) : auth' = [auth EXCEPT ![l] = x]
    BY <1>5, <2>1, <2>2, Zenon DEF HandleAuthRequest, AuthAdd, AuthBind
  <2>5. \/ UNCHANGED <<entry, by, sessions>>
        \/ \E c \in Clients : /\ entry' = [entry EXCEPT ![c] = "Syncing"]
                              /\ by' = [by EXCEPT ![c] = l]
                              /\ sessions' = [sessions EXCEPT ![l] = @ \cup {c}]
    BY <1>5, <2>2, Zenon DEF HandleAuthRequest, AuthAdd, AuthBind
  <2>6. users' \in SUBSET Clients
    <3>1. UNCHANGED users \/ \E c \in Clients : users' \in {users \cup {c}, users \ {c}}
      BY <1>5, <2>2, Zenon DEF HandleAuthRequest, AuthAdd, AuthBind
    <3>2. users \in SUBSET Clients
      BY Zenon DEF TypeOK, CoreType
    <3> QED  BY <3>1, <3>2, Zenon
  <2>7. auth' \in [Links -> {<< >>} \cup (Clients \X {"checked", "added"})]
    BY <2>4, ZenonT(30) DEF TypeOK, CoreType
  <2>8. /\ entry' \in [Clients -> {None, "Syncing", "Active", "Closing"}]
        /\ by' \in [Clients -> Gens] /\ sessions' \in [Links -> SUBSET Clients]
    <3>1. /\ entry \in [Clients -> {None, "Syncing", "Active", "Closing"}]
          /\ by \in [Clients -> Gens] /\ sessions \in [Links -> SUBSET Clients]
          /\ l \in Gens
      BY LinksAreGens, Zenon DEF TypeOK, CoreType
    <3> QED  BY <2>5, <3>1
  <2> QED  BY <2>3, <2>6, <2>7, <2>8, CloseLinkType, Zenon DEF TypeOK, CoreType
<1>6. CASE HandleTransportReady(l) \/ HandleControlUp(l) \/ HandleVoiceUp(l)
  <2>1. /\ UNCHANGED <<edgeGen, todo, sessions, auth, entry, users, nextID, by, announced>>
        /\ UNCHANGED closeVars \/ CloseLink(l)
        /\ UNCHANGED sync \/ \E c : sync' = [sync EXCEPT ![c] = "ready"]
    BY <1>6, Zenon DEF HandleTransportReady, HandleControlUp, HandleVoiceUp, Accepted
  <2> QED  BY <2>1, CloseLinkType DEF TypeOK, CoreType
<1>7. CASE HandleDisconnect(l)
  BY <1>7, Zenon DEF HandleDisconnect, CleanupRemote, TypeOK, CoreType
<1>8. CASE HandleControlFlushed(l)
  <2> DEFINE w == {x \in flushWait[l] : x[1] = Head(out).id}
  <2>1. /\ UNCHANGED <<edgeGen, todo, sessions, auth, entry, users, nextID, by, announced>>
        /\ \/ CloseLink(l) /\ UNCHANGED sync
           \/ /\ flushWait' = [flushWait EXCEPT ![l] = @ \ w] /\ UNCHANGED closing
              /\ sync' = [c \in Clients |-> IF \E x \in w : x[2] = c
                                            THEN Acked(sync[c]) ELSE sync[c]]
    BY <1>8, Zenon DEF HandleControlFlushed
  <2> HIDE DEF w
  <2>2. sync' \in [Clients -> {None, "ready", "flushing", "acked", "active",
                               "kicking", "kicked", "over"}]
    <3>1. sync \in [Clients -> {None, "ready", "flushing", "acked", "active",
                                "kicking", "kicked", "over"}]
      BY Zenon DEF TypeOK, CoreType
    <3> QED  BY <2>1, <3>1, Zenon DEF Acked
  <2>3. flushWait' \in [Links -> SUBSET (Nat \X Clients)]
    <3>1. flushWait \in [Links -> SUBSET (Nat \X Clients)]
      BY Zenon DEF TypeOK, CoreType
    <3>2. CASE flushWait' = [flushWait EXCEPT ![l] = @ \ w]
      BY <3>1, <3>2, Zenon
    <3> QED  BY <2>1, <3>2, CloseLinkType, Zenon DEF TypeOK
  <2>4. closing' \in [Links -> {"open", "closing", "listed", "done"}]
    BY <2>1, CloseLinkType, Zenon DEF TypeOK, CoreType
  <2> QED  BY <2>1, <2>2, <2>3, <2>4, Zenon DEF TypeOK, CoreType
<1> QED  BY <1>1, <1>2, <1>3, <1>4, <1>5, <1>6, <1>7, <1>8, Zenon DEF LinkStep

LEMMA CoreTypeSync ==
  ASSUME TypeOK, NEW c \in Clients,
         SyncBegin(c) \/ SyncGivesUp(c) \/ SyncCommit(c) \/ Kick(c) \/ KickEnds(c)
  PROVE  CoreType'
<1>1. UNCHANGED <<edgeGen, closing, todo, sessions, auth, by>>
  BY Zenon DEF SyncBegin, SyncGivesUp, SyncCommit, Kick, KickEnds
<1>2. \E x \in {"flushing", "over", "active", "kicking", "kicked"} :
        sync' = [sync EXCEPT ![c] = x]
  BY Zenon DEF SyncBegin, SyncGivesUp, SyncCommit, Kick, KickEnds
<1>3. \/ UNCHANGED entry
      \/ \E x \in {None, "Active", "Closing"} : entry' = [entry EXCEPT ![c] = x]
  BY Zenon DEF SyncBegin, SyncGivesUp, SyncCommit, Kick, KickEnds, CleanupRemote
<1>4. /\ UNCHANGED users \/ users' = users \ {c}
      /\ UNCHANGED announced \/ announced' = announced \cup {c}
  BY Zenon DEF SyncBegin, SyncGivesUp, SyncCommit, Kick, KickEnds, CleanupRemote
<1>5. \/ UNCHANGED <<nextID, flushWait>>
      \/ AwaitFlush(c, by[c])
      \/ UNCHANGED nextID /\ Forget(c)
  BY Zenon DEF SyncBegin, SyncGivesUp, SyncCommit, Kick, KickEnds
<1>6. nextID' \in [Links -> Nat] /\ flushWait' \in [Links -> SUBSET (Nat \X Clients)]
  <2> DEFINE l == by[c]
  <2>1. nextID \in [Links -> Nat] /\ flushWait \in [Links -> SUBSET (Nat \X Clients)]
    BY Zenon DEF TypeOK, CoreType
  <2>2. CASE AwaitFlush(c, l)
    <3>1. l \in Links => <<nextID[l] + 1, c>> \in Nat \X Clients
      BY <2>1
    <3> HIDE DEF l
    <3> QED  BY <2>1, <2>2, <3>1, Zenon DEF AwaitFlush
  <2> QED  BY <1>5, <2>1, <2>2 DEF Forget
<1>7. sync' \in [Clients -> {None, "ready", "flushing", "acked", "active",
                             "kicking", "kicked", "over"}]
  BY <1>2, Zenon DEF TypeOK, CoreType
<1>8. /\ entry' \in [Clients -> {None, "Syncing", "Active", "Closing"}]
      /\ users' \in SUBSET Clients /\ announced' \in SUBSET Clients
  BY <1>3, <1>4, SMTT(30) DEF TypeOK, CoreType
<1> QED  BY <1>1, <1>6, <1>7, <1>8, Zenon DEF TypeOK, CoreType

LEMMA EdgeTypeStep == ASSUME TypeOK, EdgeSideStep PROVE EdgeType'
<1> USE DEF TypeOK, EdgeType
<1>1. CASE Dial \/ DialFails
  BY <1>1, MaxLinksAssumption DEF Dial, DialFails, Gens
<1>2. CASE EdgeLoses \/ HeartbeatFails \/ Steal
  BY <1>2, Zenon DEF EdgeLoses, HeartbeatFails, Steal, Drop
<1>3. CASE EdgeStep
  BY <1>3, Zenon DEF EdgeStep, Connected, Drain, ReadAuthResult, DeliverControl, FlushControl,
              CloseSession, Reading, Drop
<1>4. ASSUME NEW c \in Clients, ClientStep(c) PROVE EdgeType'
  BY <1>4, Zenon DEF ClientStep, AuthSend, Answered, Record, ReadySend, DropClose,
              CloseAfterFlush, Close, Step
<1>5. ASSUME NEW c \in Clients,
             Authenticate(c) \/ Leave(c) \/ Say(c, "control") \/ Say(c, "voice")
      PROVE  EdgeType'
  BY <1>5 DEF Authenticate, Leave, Say, Close, Step
<1> QED  BY <1>1, <1>2, <1>3, <1>4, <1>5, Zenon DEF EdgeSideStep

-----------------------------------------------------------------------------
(* What a step does to the queues.                                         *)

Auth(c) == [t |-> "auth", c |-> c]
Ready(c) == [t |-> "ready", c |-> c]
Flushed(n) == [t |-> "flushed", id |-> n]
Result(c) == [t |-> "result", c |-> c, ok |-> TRUE]

OutTakes == UNCHANGED out \/ (out # << >> /\ out' = Tail(out)) \/ out' = << >>
OutAdds(m) == out' = Append(out, m)

(* The messages that neither end acts on in a way that matters here.       *)
PlainUp == [t : {"control", "voice", "disconnect"}, c : Clients]
PlainDown ==
  [t : {"ack"}] \cup [t : {"result"}, c : Clients, ok : {FALSE}]
  \cup [t : {"close"}, c : Clients]

OutStep ==
  \/ OutTakes
  \/ \E m \in PlainUp : OutAdds(m)
  \/ \E c \in Clients : AuthSend(c) /\ OutAdds(Auth(c))
  \/ \E c \in Clients : ReadySend(c) /\ Room /\ OutAdds(Ready(c))
  \/ FlushControl /\ OutAdds(Flushed(Msg.id)) /\ UNCHANGED core
     /\ Msg.c \in bySession \cap conns \cap open

DownStep ==
  \/ UNCHANGED down
  \/ \E l \in Links, m \in PlainDown : down' = Sent(l, <<m>>)
  \/ \E l \in Links : AuthBind(l) /\ auth[l] # << >> /\ by' = [by EXCEPT ![auth[l][1]] = l]
                      /\ down' = Sent(l, <<Result(auth[l][1])>>)
  \/ \E c \in Clients : SyncBegin(c) /\ AwaitFlush(c, by[c])
                        /\ down' = Sent(by[c], <<Config(c), Flush(c, by[c])>>)
  \/ \E c \in Clients : Kick(c) /\ AwaitFlush(c, by[c])
                        /\ down' = Sent(by[c], <<Flush(c, by[c])>>)
  \/ /\ core \in {"dialing", "serving"} /\ down[dialed] # << >>
     /\ down' = [down EXCEPT ![dialed] = Tail(@)]
     /\ Connected \/ ReadAuthResult \/ DeliverControl \/ FlushControl \/ CloseSession
  \/ Drain /\ core = "closing" /\ down' = [down EXCEPT ![dialed] = << >>]

LEMMA NextCases == Next <=> CoreStep \/ EdgeSideStep
  BY Zenon DEF Next, CoreStep, EdgeSideStep

LEMMA OutSteps == ASSUME TypeOK, Next PROVE OutStep
<1>1. ASSUME NEW l \in Links, LinkStep(l) \/ CoreLoses(l) PROVE OutTakes
  BY <1>1, Zenon DEF LinkStep, CoreLoses, ServeHello, CloseOld, RegisterEdge, EdgeConnected,
     RegisterVoiceTransport, HelloAck, EdgeDisconnected, RemoveEdge, CleanupOne,
     HandleAuthRequest, AuthAdd, AuthBind, HandleTransportReady, HandleControlUp,
     HandleVoiceUp, HandleDisconnect, HandleControlFlushed, Receive, OutTakes
<1>2. ASSUME NEW c \in Clients,
             SyncBegin(c) \/ SyncGivesUp(c) \/ SyncCommit(c) \/ Kick(c) \/ KickEnds(c)
      PROVE  OutTakes
  BY <1>2, Zenon DEF SyncBegin, SyncGivesUp, SyncCommit, Kick, KickEnds, OutTakes
<1>3. CASE Dial \/ DialFails \/ EdgeLoses \/ HeartbeatFails \/ Steal
           \/ Connected \/ Drain \/ ReadAuthResult \/ DeliverControl \/ CloseSession
  BY <1>3, Zenon DEF Connected, Drain, ReadAuthResult, DeliverControl, CloseSession,
     Dial, DialFails, EdgeLoses, HeartbeatFails, Steal, OutTakes, OutStep
<1>4. CASE FlushControl
  BY <1>4, Zenon DEF FlushControl, OutStep, OutTakes, OutAdds, Flushed
<1>5. ASSUME NEW c \in Clients,
             Answered(c) \/ Record(c) \/ Authenticate(c)
      PROVE  OutTakes
  BY <1>5, Zenon DEF Answered, Record, Authenticate, OutTakes
<1>6. ASSUME NEW c \in Clients, DropClose(c) \/ Leave(c) \/ CloseAfterFlush(c)
      PROVE  OutTakes \/ \E m \in PlainUp : OutAdds(m)
  <2>1. UNCHANGED out \/ OutAdds([t |-> "disconnect", c |-> c])
    BY <1>6, Zenon DEF DropClose, Leave, CloseAfterFlush, Close, Enqueue, OutAdds
  <2>2. [t |-> "disconnect", c |-> c] \in PlainUp
    BY Zenon DEF PlainUp
  <2> QED  BY <2>1, <2>2, Zenon DEF OutTakes
<1>7. ASSUME NEW c \in Clients, Say(c, "control") \/ Say(c, "voice")
      PROVE  \E m \in PlainUp : OutAdds(m)
  <2>1. OutAdds([t |-> "control", c |-> c]) \/ OutAdds([t |-> "voice", c |-> c])
    BY <1>7, Zenon DEF Say, Enqueue, OutAdds
  <2>2. [t |-> "control", c |-> c] \in PlainUp /\ [t |-> "voice", c |-> c] \in PlainUp
    BY Zenon DEF PlainUp
  <2> QED  BY <2>1, <2>2, Zenon
<1>8. ASSUME NEW c \in Clients, AuthSend(c) \/ ReadySend(c) PROVE OutStep
  BY <1>8, Zenon DEF AuthSend, ReadySend, Enqueue, OutStep, OutTakes, OutAdds, Auth, Ready
<1> QED  BY <1>1, <1>2, <1>3, <1>4, <1>5, <1>6, <1>7, <1>8, Zenon
         DEF Next, EdgeStep, ClientStep, OutStep

LEMMA DownSteps ==
  ASSUME TypeOK, Next, \A c \in Clients : sync[c] # None => by[c] \in Links PROVE DownStep
<1>1. ASSUME NEW l \in Links,
             \/ ServeHello(l) \/ CloseOld(l) \/ RegisterEdge(l) \/ EdgeConnected(l)
             \/ RegisterVoiceTransport(l) \/ EdgeDisconnected(l) \/ RemoveEdge(l)
             \/ (\E c \in Clients : CleanupOne(l, c)) \/ HandleTransportReady(l)
             \/ HandleControlUp(l) \/ HandleVoiceUp(l) \/ HandleDisconnect(l)
             \/ HandleControlFlushed(l) \/ CoreLoses(l)
      PROVE  UNCHANGED down
  BY <1>1, Zenon DEF CoreLoses, ServeHello, CloseOld, RegisterEdge, EdgeConnected,
     RegisterVoiceTransport, EdgeDisconnected, RemoveEdge, CleanupOne,
     HandleTransportReady, HandleControlUp, HandleVoiceUp, HandleDisconnect,
     HandleControlFlushed
<1>2. ASSUME NEW l \in Links, HelloAck(l) PROVE DownStep
  <2>1. [t |-> "ack"] \in PlainDown
    BY Zenon DEF PlainDown
  <2> QED  BY <1>2, <2>1, Zenon DEF HelloAck, DownStep
<1>3. ASSUME NEW l \in Links, HandleAuthRequest(l) \/ AuthAdd(l) \/ AuthBind(l)
      PROVE  DownStep
  <2>1. HandleAuthRequest(l) => Head(out).c \in Clients
    <3>1. HandleAuthRequest(l) => out # << >> /\ Head(out).t = "auth"
      BY Zenon DEF HandleAuthRequest, Receive
    <3>2. out # << >> => Head(out) \in UpMsg
      BY TailElements DEF TypeOK, QueueType
    <3> QED  BY <3>1, <3>2, Zenon DEF UpMsg
  <2>2. auth[l] # << >> => auth[l][1] \in Clients
    BY Zenon DEF TypeOK, CoreType
  <2>3. \A c \in Clients : [t |-> "result", c |-> c, ok |-> FALSE] \in PlainDown
    BY Zenon DEF PlainDown
  <2>4. ASSUME NEW c \in Clients, Reply(l, c, FALSE) PROVE DownStep
    BY <2>3, <2>4, Zenon DEF Reply, DownStep
  <2>5. CASE HandleAuthRequest(l)
    BY <2>1, <2>4, <2>5, Zenon DEF HandleAuthRequest, DownStep
  <2>6. CASE AuthAdd(l)
    BY <2>2, <2>4, <2>6, Zenon DEF AuthAdd, DownStep
  <2>7. CASE AuthBind(l)
    <3>1. auth[l] # << >> /\ (Reply(l, auth[l][1], FALSE)
            \/ (Reply(l, auth[l][1], TRUE) /\ by' = [by EXCEPT ![auth[l][1]] = l]))
      BY <2>7, Zenon DEF AuthBind
    <3>2. CASE Reply(l, auth[l][1], TRUE) /\ by' = [by EXCEPT ![auth[l][1]] = l]
      BY <2>7, <3>1, <3>2, Zenon DEF Reply, DownStep, Result
    <3> QED  BY <2>2, <2>4, <3>1, <3>2, Zenon
  <2> QED  BY <1>3, <2>5, <2>6, <2>7, Zenon
<1>4. ASSUME NEW c \in Clients,
             SyncBegin(c) \/ SyncGivesUp(c) \/ SyncCommit(c) \/ Kick(c) \/ KickEnds(c)
      PROVE  DownStep
  <2>1. by[c] \in Links
    BY <1>4, Zenon DEF SyncBegin, SyncGivesUp, SyncCommit, Kick, KickEnds, MayCommit
  <2>2. [t |-> "close", c |-> c] \in PlainDown
    BY Zenon DEF PlainDown
  <2>3. CloseSink(c, by[c]) => DownStep
    BY <2>1, <2>2, Zenon DEF CloseSink, DownStep
  <2>4. CASE SyncBegin(c)
    <3>1. \/ UNCHANGED down \/ CloseSink(c, by[c])
          \/ AwaitFlush(c, by[c]) /\ down' = Sent(by[c], <<Config(c), Flush(c, by[c])>>)
      BY <2>4, Zenon DEF SyncBegin, Config
    <3> QED  BY <2>3, <2>4, <3>1, Zenon DEF DownStep
  <2>5. CASE Kick(c)
    <3>1. \/ UNCHANGED down
          \/ AwaitFlush(c, by[c]) /\ down' = Sent(by[c], <<Flush(c, by[c])>>)
      BY <2>5, Zenon DEF Kick
    <3> QED  BY <2>5, <3>1, Zenon DEF DownStep
  <2>6. CASE SyncGivesUp(c) \/ SyncCommit(c) \/ KickEnds(c)
    <3>1. UNCHANGED down \/ CloseSink(c, by[c])
      BY <2>6, Zenon DEF SyncGivesUp, SyncCommit, KickEnds
    <3> QED  BY <2>3, <3>1, Zenon DEF DownStep
  <2> QED  BY <1>4, <2>4, <2>5, <2>6, Zenon
<1>5. CASE EdgeStep
  BY <1>5, ZenonT(30) DEF EdgeStep, Connected, Drain, ReadAuthResult, DeliverControl, FlushControl,
              CloseSession, Reading, DownStep
<1>6. CASE Dial \/ DialFails \/ EdgeLoses \/ HeartbeatFails \/ Steal
  BY <1>6, Zenon DEF Dial, DialFails, EdgeLoses, HeartbeatFails, Steal, DownStep
<1>7. ASSUME NEW c \in Clients,
             ClientStep(c) \/ Authenticate(c) \/ Leave(c) \/ Say(c, "control") \/ Say(c, "voice")
      PROVE  UNCHANGED down
  BY <1>7, Zenon DEF ClientStep, AuthSend, Answered, Record, ReadySend, DropClose,
     CloseAfterFlush, Authenticate, Leave, Say
<1> QED  BY <1>1, <1>2, <1>3, <1>4, <1>5, <1>6, <1>7, Zenon DEF Next, LinkStep, DownStep

LEMMA MessageTypes ==
  /\ PlainUp \subseteq UpMsg /\ PlainDown \subseteq DownMsg
  /\ \A c \in Clients : /\ Auth(c) \in UpMsg /\ Ready(c) \in UpMsg
                        /\ Config(c) \in DownMsg /\ Result(c) \in DownMsg
                        /\ \A n \in Nat : [t |-> "flush", c |-> c, id |-> n] \in DownMsg
  /\ \A n \in Nat : Flushed(n) \in UpMsg
  /\ \A m \in DownMsg : m.t = "flush" => m.id \in Nat /\ m.c \in Clients
<1>1. PlainUp \subseteq UpMsg
  BY Zenon DEF PlainUp, UpMsg
<1>2. PlainDown \subseteq DownMsg
  BY Zenon DEF PlainDown, DownMsg
<1> QED  BY <1>1, <1>2, Zenon DEF UpMsg, DownMsg, Auth, Ready, Config, Result, Flushed

LEMMA QueueTypeStep ==
  ASSUME TypeOK, Next, \A c \in Clients : sync[c] # None => by[c] \in Links
  PROVE  QueueType'
<1>1. out \in Seq(UpMsg) /\ down \in [Links -> Seq(DownMsg)]
  BY Zenon DEF TypeOK, QueueType
<1>2. out' \in Seq(UpMsg)
  <2>1. OutTakes => out' \in Seq(UpMsg)
    <3>1. << >> \in Seq(UpMsg)
      OBVIOUS
    <3>2. out # << >> => Tail(out) \in Seq(UpMsg)
      BY <1>1, TailElements, Zenon
    <3> QED  BY <1>1, <3>1, <3>2, Zenon DEF OutTakes
  <2>2. ASSUME NEW m \in UpMsg, OutAdds(m) PROVE out' \in Seq(UpMsg)
    BY <1>1, <2>2, AppendElements, Zenon DEF OutAdds
  <2>3. FlushControl => Msg.id \in Nat
    <3>1. FlushControl => dialed \in Links /\ down[dialed] # << >> /\ Msg.t = "flush"
      BY LinksAreGens, Zenon DEF FlushControl, Reading, Msg, TypeOK, EdgeType
    <3>2. FlushControl => Msg \in DownMsg
      BY <1>1, <3>1, TailElements DEF Msg
    <3> QED  BY <3>1, <3>2, MessageTypes, Zenon
  <2> QED  BY <2>1, <2>2, <2>3, OutSteps, MessageTypes, Zenon DEF OutStep
<1>3. down' \in [Links -> Seq(DownMsg)]
  <2>1. ASSUME NEW l \in Links, NEW q \in Seq(DownMsg), down' = [down EXCEPT ![l] = q]
        PROVE  down' \in [Links -> Seq(DownMsg)]
    BY <1>1, <2>1, Zenon
  <2>2. ASSUME NEW l \in Links, NEW m \in DownMsg, down' = Sent(l, <<m>>)
        PROVE  down' \in [Links -> Seq(DownMsg)]
    <3>1. down[l] \o <<m>> \in Seq(DownMsg)
      BY <1>1, JoinOneElements, Zenon
    <3> QED  BY <2>1, <2>2, <3>1, Zenon DEF Sent
  <2>3. ASSUME NEW l \in Links, NEW m \in DownMsg, NEW n \in DownMsg,
               down' = Sent(l, <<m, n>>)
        PROVE  down' \in [Links -> Seq(DownMsg)]
    <3>1. down[l] \o <<m, n>> \in Seq(DownMsg)
      BY <1>1, JoinTwoElements, Zenon
    <3> QED  BY <2>1, <2>3, <3>1, Zenon DEF Sent
  <2>4. ASSUME NEW c \in Clients, SyncBegin(c) \/ Kick(c)
        PROVE  by[c] \in Links /\ Config(c) \in DownMsg /\ Flush(c, by[c]) \in DownMsg
    <3>1. by[c] \in Links
      BY <2>4, Zenon DEF SyncBegin, Kick
    <3>2. nextID[by[c]] + 1 \in Nat
      BY <3>1 DEF TypeOK, CoreType
    <3> QED  BY <3>1, <3>2, MessageTypes, Zenon DEF Flush
  <2>5. \A l \in Links : auth[l] # << >> => auth[l][1] \in Clients
    BY Zenon DEF TypeOK, CoreType
  <2>6. core # "idle" => dialed \in Links
    BY LinksAreGens, Zenon DEF TypeOK, EdgeType
  <2>7. \A l \in Links : down[l] # << >> => Tail(down[l]) \in Seq(DownMsg)
    BY <1>1, TailElements, Zenon
  <2>8. << >> \in Seq(DownMsg)
    OBVIOUS
  <2>9. CASE UNCHANGED down
    BY <1>1, <2>9, Zenon
  <2>10. CASE \E l \in Links, m \in PlainDown : down' = Sent(l, <<m>>)
    BY <2>2, <2>10, MessageTypes, Zenon
  <2>11. CASE \E l \in Links : AuthBind(l) /\ auth[l] # << >>
                      /\ by' = [by EXCEPT ![auth[l][1]] = l]
                      /\ down' = Sent(l, <<Result(auth[l][1])>>)
    <3>1. PICK l \in Links : auth[l] # << >> /\ down' = Sent(l, <<Result(auth[l][1])>>)
      BY <2>11, Zenon
    <3>2. Result(auth[l][1]) \in DownMsg
      BY <2>5, <3>1, MessageTypes, Zenon
    <3> QED  BY <2>2, <3>1, <3>2, Zenon
  <2>12. CASE \E c \in Clients : SyncBegin(c) /\ AwaitFlush(c, by[c])
                        /\ down' = Sent(by[c], <<Config(c), Flush(c, by[c])>>)
    BY <2>3, <2>4, <2>12, Zenon
  <2>13. CASE \E c \in Clients : Kick(c) /\ AwaitFlush(c, by[c])
                        /\ down' = Sent(by[c], <<Flush(c, by[c])>>)
    BY <2>2, <2>4, <2>13, Zenon
  <2>14. CASE core \in {"dialing", "serving"} /\ down[dialed] # << >>
              /\ down' = [down EXCEPT ![dialed] = Tail(@)]
    BY <2>1, <2>6, <2>7, <2>14, Zenon
  <2>15. CASE core = "closing" /\ down' = [down EXCEPT ![dialed] = << >>]
    BY <2>1, <2>6, <2>8, <2>15, Zenon
  <2> QED  BY <2>9, <2>10, <2>11, <2>12, <2>13, <2>14, <2>15, DownSteps, Zenon DEF DownStep
<1> QED  BY <1>2, <1>3, Zenon DEF QueueType

-----------------------------------------------------------------------------
(* A session is admitted once.                                             *)

InAuth(l, c) == auth[l] # << >> /\ auth[l][1] = c

(* A client's request is in one place, and only before it is admitted.     *)
AskedOnce(c) ==
  /\ Once(out, Auth(c))
  /\ In(out, Auth(c)) => /\ by[c] = 0 /\ pc[c] \notin {"new", "authsend"}
                         /\ \A l \in Links : ~InAuth(l, c)
  /\ \A l \in Links :
       InAuth(l, c) => /\ by[c] = 0 /\ pc[c] \notin {"new", "authsend"}
                       /\ \A k \in Links : InAuth(k, c) => k = l
  /\ pc[c] \in {"new", "authsend"} => by[c] = 0

(* The core is at work for a session, or was.                              *)
Marked(c) ==
  \/ sync[c] # None \/ c \in announced
  \/ \E l \in Links : \E x \in flushWait[l] : x[2] = c

(* What a link knows of a session, it admitted.                            *)
AdmittedBy(c) ==
  /\ \A l \in Links : c \in sessions[l] => by[c] = l
  /\ Marked(c) => by[c] \in Links
  /\ \A l \in Links : In(down[l], Result(c)) => by[c] = l

AdmitInv == TypeOK /\ \A c \in Clients : AskedOnce(c) /\ AdmittedBy(c)

LEMMA InitAdmit == Init => AdmitInv
<1> SUFFICES ASSUME Init PROVE AdmitInv
  OBVIOUS
<1>1. \A c \in Clients : AskedOnce(c)
  BY EmptyIn, Zenon DEF Init, AskedOnce, InAuth
<1>2. \A c \in Clients : AdmittedBy(c)
  BY EmptyIn, Zenon DEF Init, AdmittedBy, Marked
<1> QED  BY <1>1, <1>2, InitType, Zenon DEF AdmitInv

(* What is added to the edge's queue is a request only in AuthSend.        *)
OutFrom(m) ==
  \/ In(out, m) \/ m \in PlainUp
  \/ \E c \in Clients : AuthSend(c) /\ m = Auth(c)
  \/ \E c \in Clients : ReadySend(c) /\ Room /\ m = Ready(c)
  \/ FlushControl /\ m = Flushed(Msg.id) /\ UNCHANGED core
     /\ Msg.c \in bySession \cap conns \cap open

LEMMA OutHolds ==
  ASSUME TypeOK, Next, NEW m
  PROVE  /\ In(out', m) => OutFrom(m)
         /\ (~\E c \in Clients : AuthSend(c)) =>
              \A c \in Clients : Once(out, Auth(c)) => Once(out', Auth(c))
<1> USE DEF OutFrom
<1>1. out \in Seq(UpMsg)
  BY Zenon DEF TypeOK, QueueType
<1>2. CASE OutTakes
  BY <1>1, <1>2, TakeIn, EmptyIn, ZenonT(30) DEF OutTakes
<1>3. ASSUME NEW x \in UpMsg, OutAdds(x), NEW n
      PROVE  /\ In(out', n) => In(out, n) \/ n = x
             /\ Once(out, n) /\ n # x => Once(out', n)
  BY <1>1, <1>3, AddIn, Zenon DEF OutAdds
<1>4. \A c \in Clients : /\ \A x \in PlainUp : Auth(c) # x
                         /\ \A d \in Clients : Auth(c) # Ready(d)
                         /\ \A n : Auth(c) # Flushed(n)
  BY DEF Auth, PlainUp, Ready, Flushed
<1>5. CASE \E x \in PlainUp : OutAdds(x)
  BY <1>3, <1>4, <1>5, MessageTypes, ZenonT(30)
<1>6. CASE \E c \in Clients : AuthSend(c) /\ OutAdds(Auth(c))
  BY <1>3, <1>6, MessageTypes, Zenon
<1>7. CASE \E c \in Clients : ReadySend(c) /\ Room /\ OutAdds(Ready(c))
  BY <1>3, <1>4, <1>7, MessageTypes
<1>8. CASE FlushControl /\ OutAdds(Flushed(Msg.id)) /\ UNCHANGED core
           /\ Msg.c \in bySession \cap conns \cap open
  <2>1. dialed \in Links /\ down[dialed] # << >> /\ Msg.t = "flush"
    BY <1>8, LinksAreGens, Zenon DEF FlushControl, Reading, Msg, TypeOK, EdgeType
  <2>2. Msg \in DownMsg
    BY <2>1, TailElements, ZenonT(30) DEF Msg, TypeOK, QueueType
  <2>3. Flushed(Msg.id) \in UpMsg
    BY <2>1, <2>2, MessageTypes, Zenon
  <2> QED  BY <1>3, <1>4, <1>8, <2>3, Zenon
<1> QED  BY <1>2, <1>5, <1>6, <1>7, <1>8, OutSteps, Zenon DEF OutStep

(* The steps that do not move a request.                                   *)
LEMMA AskedQuiet ==
  ASSUME AdmitInv, Next, UNCHANGED <<auth, by>>, ~\E c \in Clients : AuthSend(c),
         \A c \in Clients : pc'[c] \in {"new", "authsend"} => pc[c] \in {"new", "authsend"}
  PROVE  \A c \in Clients : AskedOnce(c)'
<1> SUFFICES ASSUME NEW c \in Clients PROVE AskedOnce(c)'
  OBVIOUS
<1>1. AskedOnce(c) /\ TypeOK
  BY Zenon DEF AdmitInv
<1>2. Once(out', Auth(c))
  BY <1>1, OutHolds, Zenon DEF AskedOnce
<1>3. In(out', Auth(c)) => In(out, Auth(c))
  <2>1. /\ Auth(c) \notin PlainUp /\ \A d \in Clients : Auth(c) # Ready(d)
        /\ \A n : Auth(c) # Flushed(n)
    BY Zenon DEF Auth, PlainUp, Ready, Flushed
  <2>2. In(out', Auth(c)) => OutFrom(Auth(c))
    BY <1>1, OutHolds, Zenon
  <2> QED  BY <2>1, <2>2, Zenon DEF OutFrom
<1>4. \A l \in Links : InAuth(l, c)' <=> InAuth(l, c)
  BY Zenon DEF InAuth
<1> QED  BY <1>1, <1>2, <1>3, <1>4, Zenon DEF AskedOnce

LEMMA AskedStep ==
  ASSUME AdmitInv, Next PROVE \A c \in Clients : AskedOnce(c)'
<1>1. ASSUME NEW d \in Clients, AuthSend(d) PROVE \A c \in Clients : AskedOnce(c)'
  <2> SUFFICES ASSUME NEW c \in Clients PROVE AskedOnce(c)'
    OBVIOUS
  <2>1. /\ UNCHANGED <<auth, by>> /\ pc[d] = "authsend" /\ out \in Seq(UpMsg)
        /\ pc' = [pc EXCEPT ![d] = IF Room THEN "waiting" ELSE "rejected"]
        /\ out' = Append(out, Auth(d)) \/ UNCHANGED out
    BY <1>1, Zenon DEF AuthSend, Step, Enqueue, Auth, AdmitInv, TypeOK, QueueType
  <2>2. AskedOnce(c) /\ AskedOnce(d) /\ pc \in [Clients -> {"new", "authsend", "waiting",
           "accepted", "readysend", "ready", "rejected"}]
    BY Zenon DEF AdmitInv, TypeOK, EdgeType
  <2>3. Auth(d) \in UpMsg
    BY MessageTypes, Zenon
  <2>4. ~In(out, Auth(d)) /\ by[d] = 0 /\ \A l \in Links : ~InAuth(l, d)
    BY <2>1, <2>2, Zenon DEF AskedOnce
  <2>5. Once(out', Auth(c)) /\ (In(out', Auth(c)) => In(out, Auth(c)) \/ Auth(c) = Auth(d))
    <3>1. ~In(out, Auth(c)) => Once(Append(out, Auth(d)), Auth(c))
      BY <2>1, <2>3, AddIn, Zenon
    <3>2. Auth(c) # Auth(d) => Once(Append(out, Auth(d)), Auth(c))
      BY <2>1, <2>2, <2>3, AddIn DEF AskedOnce
    <3>3. In(Append(out, Auth(d)), Auth(c)) => In(out, Auth(c)) \/ Auth(c) = Auth(d)
      BY <2>1, <2>3, AddIn, Zenon
    <3> QED  BY <2>1, <2>2, <2>4, <3>1, <3>2, <3>3, Zenon DEF AskedOnce
  <2>6. Auth(c) = Auth(d) => c = d
    BY Zenon DEF Auth
  <2>7. pc'[c] \in {"new", "authsend"} => pc[c] \in {"new", "authsend"} /\ c # d
    BY <2>1, <2>2, Zenon
  <2>8. \A l \in Links : InAuth(l, c)' <=> InAuth(l, c)
    BY <2>1, Zenon DEF InAuth
  <2> QED  BY <2>1, <2>2, <2>4, <2>5, <2>6, <2>7, <2>8, Zenon DEF AskedOnce
<1>2. ASSUME NEW l \in Links, HandleAuthRequest(l) PROVE \A c \in Clients : AskedOnce(c)'
  <2> SUFFICES ASSUME NEW c \in Clients PROVE AskedOnce(c)'
    OBVIOUS
  <2> DEFINE d == Head(out).c
  <2>1. /\ out \in Seq(UpMsg) /\ out # << >> /\ out' = Tail(out) /\ Head(out).t = "auth"
        /\ auth[l] = << >> /\ UNCHANGED <<by, pc>>
        /\ UNCHANGED auth \/ auth' = [auth EXCEPT ![l] = <<d, "checked">>]
    BY <1>2, Zenon DEF HandleAuthRequest, Receive, AdmitInv, TypeOK, QueueType
  <2>2. Head(out) = Auth(d) /\ d \in Clients
    <3>1. Head(out) \in UpMsg
      BY <2>1, TailElements
    <3> QED  BY <2>1, <3>1, Zenon DEF UpMsg, Auth
  <2>3. AskedOnce(c) /\ AskedOnce(d)
    BY <2>2, Zenon DEF AdmitInv
  <2>4. In(out, Auth(d)) /\ ~In(out', Auth(d))
    BY <2>1, <2>2, <2>3, TakeIn, Zenon DEF AskedOnce
  <2>5. Once(out', Auth(c)) /\ (In(out', Auth(c)) => In(out, Auth(c)))
    BY <2>1, <2>3, TakeIn, Zenon DEF AskedOnce
  <2>6. \A k \in Links : InAuth(k, c)' => InAuth(k, c) \/ (k = l /\ c = d)
    <3>1. auth \in [Links -> {<< >>} \cup (Clients \X {"checked", "added"})]
      BY Zenon DEF AdmitInv, TypeOK, CoreType
    <3> HIDE DEF d
    <3> QED  BY <2>1, <3>1 DEF InAuth
  <2> HIDE DEF d
  <2>7. c = d => ~In(out', Auth(c)) /\ by[c] = 0 /\ pc[c] \notin {"new", "authsend"}
                 /\ \A k \in Links : ~InAuth(k, c)
    BY <2>3, <2>4, Zenon DEF AskedOnce
  <2>8. CASE c = d
    BY <2>1, <2>5, <2>6, <2>7, <2>8, Zenon DEF AskedOnce
  <2>9. CASE c # d
    <3>1. \A k \in Links : InAuth(k, c)' => InAuth(k, c)
      BY <2>6, <2>9, Zenon
    <3> QED  BY <2>1, <2>3, <2>5, <3>1, Zenon DEF AskedOnce
  <2> QED  BY <2>8, <2>9, Zenon
<1>3. ASSUME NEW l \in Links, AuthAdd(l) \/ AuthBind(l)
      PROVE  \A c \in Clients : AskedOnce(c)'
  <2> SUFFICES ASSUME NEW c \in Clients PROVE AskedOnce(c)'
    OBVIOUS
  <2> DEFINE d == auth[l][1]
  <2>1. auth \in [Links -> {<< >>} \cup (Clients \X {"checked", "added"})]
    BY Zenon DEF AdmitInv, TypeOK, CoreType
  <2>2. /\ auth[l] # << >> /\ UNCHANGED <<out, pc>>
        /\ \/ UNCHANGED by /\ auth' = [auth EXCEPT ![l] = <<d, "added">>]
           \/ UNCHANGED by /\ auth' = [auth EXCEPT ![l] = << >>]
           \/ by' = [by EXCEPT ![d] = l] /\ auth' = [auth EXCEPT ![l] = << >>]
    BY <1>3, Zenon DEF AuthAdd, AuthBind
  <2>3. AskedOnce(c) /\ by \in [Clients -> Gens]
    BY Zenon DEF AdmitInv, TypeOK, CoreType
  <2>4. InAuth(l, d)
    BY <2>2, Zenon DEF InAuth
  <2>5. \A k \in Links : InAuth(k, c)' => InAuth(k, c)
    BY <2>1, <2>2 DEF InAuth
  <2>6. by'[c] = by[c] \/ (c = d /\ auth' = [auth EXCEPT ![l] = << >>])
    <3> HIDE DEF d
    <3> QED  BY <2>2, <2>3, Zenon
  <2>7. c = d => ~In(out, Auth(c)) /\ pc[c] \notin {"new", "authsend"}
                 /\ \A k \in Links : InAuth(k, c) => k = l
    BY <2>3, <2>4, Zenon DEF AskedOnce
  <2>8. auth' = [auth EXCEPT ![l] = << >>] => ~InAuth(l, c)'
    BY <2>1, Zenon DEF InAuth
  <2> HIDE DEF d
  <2>9. CASE by'[c] = by[c]
    BY <2>2, <2>3, <2>5, <2>9, Zenon DEF AskedOnce
  <2>10. CASE c = d /\ auth' = [auth EXCEPT ![l] = << >>]
    <3>1. \A k \in Links : ~InAuth(k, c)'
      BY <2>5, <2>7, <2>8, <2>10, Zenon
    <3> QED  BY <2>2, <2>3, <2>7, <2>10, <3>1, Zenon DEF AskedOnce
  <2> QED  BY <2>6, <2>9, <2>10, Zenon
<1>4. ASSUME ~\E c \in Clients : AuthSend(c),
             ~\E l \in Links : HandleAuthRequest(l) \/ AuthAdd(l) \/ AuthBind(l)
      PROVE  \A c \in Clients : AskedOnce(c)'
  <2>1. UNCHANGED <<auth, by>>
    <3>1. ASSUME NEW l \in Links, LinkStep(l) \/ CoreLoses(l) PROVE UNCHANGED <<auth, by>>
      BY <1>4, <3>1, Zenon DEF LinkStep, CoreLoses, ServeHello, CloseOld, RegisterEdge,
         EdgeConnected, RegisterVoiceTransport, HelloAck, EdgeDisconnected, RemoveEdge,
         CleanupOne, HandleTransportReady, HandleControlUp, HandleVoiceUp,
         HandleDisconnect, HandleControlFlushed
    <3>2. ASSUME NEW c \in Clients,
                 SyncBegin(c) \/ SyncGivesUp(c) \/ SyncCommit(c) \/ Kick(c) \/ KickEnds(c)
          PROVE  UNCHANGED <<auth, by>>
      BY <3>2, Zenon DEF SyncBegin, SyncGivesUp, SyncCommit, Kick, KickEnds
    <3> QED  BY <3>1, <3>2, NextCases, EdgeKeepsCore, Zenon DEF CoreStep, coreOnly
  <2>2. \A c \in Clients : pc'[c] \in {"new", "authsend"} => pc[c] \in {"new", "authsend"}
    <3>1. pc \in [Clients -> {"new", "authsend", "waiting", "accepted", "readysend",
                              "ready", "rejected"}]
      BY Zenon DEF AdmitInv, TypeOK, EdgeType
    <3>2. UNCHANGED pc \/ \E c \in Clients : \E x, y : Step(c, x, y) /\
             (x = "new" \/ y \in {"waiting", "rejected", "accepted", "readysend", "ready"})
      <4>1. CoreStep => UNCHANGED pc
        BY CoreKeepsEdge, Zenon
      <4>2. EdgeStep \/ Dial \/ DialFails \/ EdgeLoses \/ HeartbeatFails \/ Steal
            => UNCHANGED pc
        BY Zenon DEF EdgeStep, Connected, Drain, ReadAuthResult, DeliverControl, FlushControl,
           CloseSession, Dial, DialFails, EdgeLoses, HeartbeatFails, Steal
      <4>3. ASSUME NEW c \in Clients,
                   DropClose(c) \/ CloseAfterFlush(c) \/ Leave(c) \/ Say(c, "control") \/ Say(c, "voice")
            PROVE  UNCHANGED pc
        BY <4>3, Zenon DEF DropClose, CloseAfterFlush, Leave, Say
      <4>4. ASSUME NEW c \in Clients,
                   AuthSend(c) \/ Answered(c) \/ Record(c) \/ ReadySend(c) \/ Authenticate(c)
            PROVE  \E x, y : Step(c, x, y) /\
                     (x = "new" \/ y \in {"waiting", "rejected", "accepted", "readysend", "ready"})
        BY <4>4, Zenon DEF AuthSend, Answered, Record, ReadySend, Authenticate
      <4> QED  BY <4>1, <4>2, <4>3, <4>4, NextCases, Zenon DEF EdgeSideStep, ClientStep
    <3> QED  BY <3>1, <3>2, Zenon DEF Step
  <2> QED  BY <1>4, <2>1, <2>2, AskedQuiet, Zenon
<1> QED  BY <1>1, <1>2, <1>3, <1>4, Zenon

(* The link that admitted a session stays the one that did.                *)
LEMMA AdmittedOnce ==
  ASSUME AdmitInv, Next, NEW c \in Clients, by[c] # 0 PROVE by'[c] = by[c]
<1>1. ASSUME NEW l \in Links, AuthBind(l) PROVE by'[c] = by[c]
  <2>1. auth[l] # << >> /\ (UNCHANGED by \/ by' = [by EXCEPT ![auth[l][1]] = l])
    BY <1>1, Zenon DEF AuthBind
  <2>2. auth[l][1] # c
    BY <2>1, Zenon DEF AdmitInv, AskedOnce, InAuth
  <2> QED  BY <2>1, <2>2, Zenon DEF AdmitInv, TypeOK, CoreType
<1>2. ASSUME ~\E l \in Links : AuthBind(l) PROVE UNCHANGED by
  <2>1. ASSUME NEW l \in Links, LinkStep(l) \/ CoreLoses(l) PROVE UNCHANGED by
    BY <1>2, <2>1, Zenon DEF LinkStep, CoreLoses, ServeHello, CloseOld, RegisterEdge,
       EdgeConnected, RegisterVoiceTransport, HelloAck, EdgeDisconnected, RemoveEdge,
       CleanupOne, HandleAuthRequest, AuthAdd, HandleTransportReady, HandleControlUp,
       HandleVoiceUp, HandleDisconnect, HandleControlFlushed
  <2>2. ASSUME NEW d \in Clients,
               SyncBegin(d) \/ SyncGivesUp(d) \/ SyncCommit(d) \/ Kick(d) \/ KickEnds(d)
        PROVE  UNCHANGED by
    BY <2>2, Zenon DEF SyncBegin, SyncGivesUp, SyncCommit, Kick, KickEnds
  <2> QED  BY <2>1, <2>2, NextCases, EdgeKeepsCore, Zenon DEF CoreStep, coreOnly
<1> QED  BY <1>1, <1>2, Zenon

(* What is added to the core's queues is an acceptance only in AuthBind.   *)
DownFrom(l, m) ==
  \/ In(down[l], m) \/ m \in PlainDown
  \/ AuthBind(l) /\ auth[l] # << >> /\ m = Result(auth[l][1])
     /\ by' = [by EXCEPT ![auth[l][1]] = l]
  \/ \E c \in Clients : SyncBegin(c) /\ l = by[c] /\ m \in {Config(c), Flush(c, l)}
                        /\ AwaitFlush(c, l)
  \/ \E c \in Clients : Kick(c) /\ l = by[c] /\ m = Flush(c, l) /\ AwaitFlush(c, l)

LEMMA DownHolds ==
  ASSUME AdmitInv, Next, NEW l \in Links, NEW m
  PROVE  In(down'[l], m) => DownFrom(l, m)
<1> USE DEF DownFrom
<1>1. down \in [Links -> Seq(DownMsg)]
  BY Zenon DEF AdmitInv, TypeOK, QueueType
<1>2. ASSUME NEW k \in Links, NEW x \in DownMsg, down' = Sent(k, <<x>>)
      PROVE  In(down'[l], m) => In(down[l], m) \/ (l = k /\ m = x)
  <2>1. In(down[k] \o <<x>>, m) => In(down[k], m) \/ m = x
    BY <1>1, JoinIn, Zenon
  <2> QED  BY <1>1, <1>2, <2>1, Zenon DEF Sent
<1>3. ASSUME NEW k \in Links, NEW x \in DownMsg, NEW y \in DownMsg, down' = Sent(k, <<x, y>>)
      PROVE  In(down'[l], m) => In(down[l], m) \/ (l = k /\ m \in {x, y})
  <2>1. In(down[k] \o <<x, y>>, m) => In(down[k], m) \/ m = x \/ m = y
    BY <1>1, JoinIn, Zenon
  <2> QED  BY <1>1, <1>3, <2>1, Zenon DEF Sent
<1>4. ASSUME NEW c \in Clients, SyncBegin(c) \/ Kick(c)
      PROVE  by[c] \in Links /\ Config(c) \in DownMsg /\ Flush(c, by[c]) \in DownMsg
  <2>1. by[c] \in Links
    BY <1>4, Zenon DEF SyncBegin, Kick, AdmitInv, AdmittedBy, Marked
  <2>2. nextID[by[c]] + 1 \in Nat
    BY <2>1 DEF AdmitInv, TypeOK, CoreType
  <2> QED  BY <2>1, <2>2, MessageTypes, Zenon DEF Flush
<1>5. CASE \E k \in Links, x \in PlainDown : down' = Sent(k, <<x>>)
  BY <1>2, <1>5, MessageTypes, Zenon
<1>6. CASE \E k \in Links : AuthBind(k) /\ auth[k] # << >>
                      /\ by' = [by EXCEPT ![auth[k][1]] = k]
                      /\ down' = Sent(k, <<Result(auth[k][1])>>)
  <2>1. PICK k \in Links : AuthBind(k) /\ auth[k] # << >>
                      /\ by' = [by EXCEPT ![auth[k][1]] = k]
                      /\ down' = Sent(k, <<Result(auth[k][1])>>)
    BY <1>6, Zenon
  <2>2. auth[k][1] \in Clients
    BY <2>1, Zenon DEF AdmitInv, TypeOK, CoreType
  <2>3. Result(auth[k][1]) \in DownMsg
    BY <2>2, MessageTypes, Zenon
  <2> QED  BY <1>2, <2>1, <2>3, Zenon
<1>7. CASE \E c \in Clients : SyncBegin(c) /\ AwaitFlush(c, by[c])
                        /\ down' = Sent(by[c], <<Config(c), Flush(c, by[c])>>)
  BY <1>3, <1>4, <1>7, Zenon
<1>8. CASE \E c \in Clients : Kick(c) /\ AwaitFlush(c, by[c])
                        /\ down' = Sent(by[c], <<Flush(c, by[c])>>)
  BY <1>2, <1>4, <1>8, Zenon
<1>9. CASE core \in {"dialing", "serving"} /\ down[dialed] # << >>
           /\ down' = [down EXCEPT ![dialed] = Tail(@)]
  <2>1. dialed \in Links
    BY <1>9, LinksAreGens, Zenon DEF AdmitInv, TypeOK, EdgeType
  <2>2. In(Tail(down[dialed]), m) => In(down[dialed], m)
    BY <1>1, <1>9, <2>1, TakeIn, Zenon
  <2> QED  BY <1>1, <1>9, <2>1, <2>2, Zenon
<1>10. CASE core = "closing" /\ down' = [down EXCEPT ![dialed] = << >>]
  BY <1>1, <1>10, EmptyIn, Zenon
<1>11. \A c \in Clients : sync[c] # None => by[c] \in Links
  BY Zenon DEF AdmitInv, AdmittedBy, Marked
<1>12. TypeOK
  BY Zenon DEF AdmitInv
<1> QED  BY <1>5, <1>6, <1>7, <1>8, <1>9, <1>10, <1>11, <1>12, DownSteps, Zenon DEF DownStep

(* The edge has recorded a session and told the core.                      *)
Told(c) == \E l \in Links : c \in sessions[l] /\ In(out, Ready(c))

(* It begins with a TransportReady, of a session the link knows.           *)
LEMMA MarkedFrom ==
  ASSUME AdmitInv, Next, NEW c \in Clients PROVE Marked(c)' => Marked(c) \/ Told(c)
<1>1. sync \in [Clients -> {None, "ready", "flushing", "acked", "active",
                           "kicking", "kicked", "over"}]
      /\ flushWait \in [Links -> SUBSET (Nat \X Clients)]
  BY Zenon DEF AdmitInv, TypeOK, CoreType
<1>2. ASSUME UNCHANGED <<sync, announced>>,
             UNCHANGED flushWait \/ \E k : flushWait' = [flushWait EXCEPT ![k] = {}]
      PROVE  Marked(c)' => Marked(c) \/ Told(c)
  BY <1>1, <1>2, Zenon DEF Marked
<1>3. ASSUME NEW l \in Links,
             \/ ServeHello(l) \/ CloseOld(l) \/ RegisterEdge(l) \/ EdgeConnected(l)
             \/ RegisterVoiceTransport(l) \/ HelloAck(l) \/ EdgeDisconnected(l)
             \/ RemoveEdge(l) \/ (\E d \in Clients : CleanupOne(l, d)) \/ CoreLoses(l)
      PROVE  Marked(c)' => Marked(c) \/ Told(c)
  <2>1. /\ UNCHANGED <<sync, announced>>
        /\ UNCHANGED flushWait \/ \E k : flushWait' = [flushWait EXCEPT ![k] = {}]
    BY <1>3, Zenon DEF ServeHello, CloseOld, RegisterEdge, EdgeConnected, CoreLoses, CloseLink,
       RegisterVoiceTransport, HelloAck, EdgeDisconnected, RemoveEdge, CleanupOne
  <2> QED  BY <1>2, <2>1, Zenon
<1>4. ASSUME NEW l \in Links,
             \/ HandleAuthRequest(l) \/ AuthAdd(l) \/ AuthBind(l) \/ HandleControlUp(l)
             \/ HandleVoiceUp(l) \/ HandleDisconnect(l)
      PROVE  Marked(c)' => Marked(c) \/ Told(c)
  <2>1. /\ UNCHANGED <<sync, announced>>
        /\ UNCHANGED flushWait \/ \E k : flushWait' = [flushWait EXCEPT ![k] = {}]
    BY <1>4, Zenon DEF HandleAuthRequest, AuthAdd, AuthBind, HandleControlUp, HandleVoiceUp,
       HandleDisconnect, Reply, Accepted, CloseLink
  <2> QED  BY <1>2, <2>1, Zenon
<1>5. ASSUME NEW l \in Links, HandleTransportReady(l) PROVE Marked(c)' => Marked(c) \/ Told(c)
  <2> DEFINE d == Head(out).c
  <2>1. /\ UNCHANGED announced /\ out # << >> /\ Head(out).t = "ready"
        /\ UNCHANGED flushWait \/ flushWait' = [flushWait EXCEPT ![l] = {}]
        /\ UNCHANGED sync \/ (d \in sessions[l] /\ sync' = [sync EXCEPT ![d] = "ready"])
    BY <1>5, Zenon DEF HandleTransportReady, Receive, Accepted, CloseLink
  <2>2. Head(out) \in UpMsg /\ In(out, Head(out))
    BY <2>1, TailElements, TakeIn DEF AdmitInv, TypeOK, QueueType
  <2>3. Head(out) = Ready(d)
    BY <2>1, <2>2, Zenon DEF UpMsg, Ready
  <2> HIDE DEF d
  <2>4. sync'[c] # None => sync[c] # None \/ Told(c)
    BY <1>1, <2>1, <2>2, <2>3, Zenon DEF Told
  <2>5. (\E k \in Links : \E x \in flushWait'[k] : x[2] = c)
        => \E k \in Links : \E x \in flushWait[k] : x[2] = c
    BY <1>1, <2>1, Zenon
  <2> QED  BY <2>1, <2>4, <2>5, Zenon DEF Marked
<1>6. ASSUME NEW l \in Links, HandleControlFlushed(l) PROVE Marked(c)' => Marked(c) \/ Told(c)
  <2> DEFINE w == {x \in flushWait[l] : x[1] = Head(out).id}
  <2>1. /\ UNCHANGED announced
        /\ \/ CloseLink(l) /\ UNCHANGED sync
           \/ /\ flushWait' = [flushWait EXCEPT ![l] = @ \ w]
              /\ sync' = [d \in Clients |-> IF \E x \in w : x[2] = d
                                            THEN Acked(sync[d]) ELSE sync[d]]
    BY <1>6, Zenon DEF HandleControlFlushed
  <2>2. w \subseteq flushWait[l]
    OBVIOUS
  <2> HIDE DEF w
  <2>3. CASE CloseLink(l) /\ UNCHANGED sync
    <3>1. flushWait' = [flushWait EXCEPT ![l] = {}]
      BY <2>3, Zenon DEF CloseLink
    <3> QED  BY <1>2, <2>1, <2>3, <3>1, Zenon
  <2>4. CASE /\ flushWait' = [flushWait EXCEPT ![l] = @ \ w]
             /\ sync' = [d \in Clients |-> IF \E x \in w : x[2] = d
                                           THEN Acked(sync[d]) ELSE sync[d]]
    <3>1. sync'[c] # None => sync[c] # None \/ \E x \in w : x[2] = c
      BY <2>4, Zenon
    <3>2. \A k \in Links : flushWait'[k] \subseteq flushWait[k]
      BY <1>1, <2>4, Zenon
    <3> QED  BY <2>1, <2>2, <3>1, <3>2, Zenon DEF Marked
  <2> QED  BY <2>1, <2>3, <2>4, Zenon
<1>7. ASSUME NEW d \in Clients,
             SyncBegin(d) \/ SyncGivesUp(d) \/ SyncCommit(d) \/ Kick(d) \/ KickEnds(d)
      PROVE  Marked(c)' => Marked(c) \/ Told(c)
  <2>1. /\ sync[d] # None
        /\ \E y : sync' = [sync EXCEPT ![d] = y]
        /\ announced' \subseteq announced \cup {d}
    BY <1>7, Zenon DEF SyncBegin, SyncGivesUp, SyncCommit, Kick, KickEnds, MayCommit
  <2>2. UNCHANGED flushWait \/ AwaitFlush(d, by[d]) \/ Forget(d)
    BY <1>7, Zenon DEF SyncBegin, SyncGivesUp, SyncCommit, Kick, KickEnds
  <2>3. ASSUME NEW l \in Links, NEW x \in flushWait'[l]
        PROVE  x \in flushWait[l] \/ x[2] = d
    BY <1>1, <2>2, <2>3 DEF AwaitFlush, Forget
  <2> QED  BY <1>1, <2>1, <2>3, Zenon DEF Marked
<1>8. EdgeSideStep => (Marked(c)' => Marked(c) \/ Told(c))
  BY EdgeKeepsCore, Zenon DEF coreOnly, Marked
<1> QED  BY <1>3, <1>4, <1>5, <1>6, <1>7, <1>8, NextCases, Zenon DEF CoreStep, LinkStep

LEMMA AdmittedStep ==
  ASSUME AdmitInv, Next, NEW c \in Clients PROVE AdmittedBy(c)'
<1>1. AdmittedBy(c) /\ by \in [Clients -> Gens] /\ sync \in [Clients -> {None, "ready",
         "flushing", "acked", "active", "kicking", "kicked", "over"}]
      /\ sessions \in [Links -> SUBSET Clients]
      /\ flushWait \in [Links -> SUBSET (Nat \X Clients)]
  BY Zenon DEF AdmitInv, TypeOK, CoreType
<1>2. by[c] \in Links => by'[c] = by[c]
  BY AdmittedOnce, LinksAreGens, Zenon
<1>3. \A l \in Links : In(down'[l], Result(c)) => by'[c] = l
  <2> SUFFICES ASSUME NEW l \in Links, In(down'[l], Result(c)) PROVE by'[c] = l
    OBVIOUS
  <2>1. CASE In(down[l], Result(c))
    BY <1>1, <1>2, <2>1, Zenon DEF AdmittedBy
  <2>2. CASE auth[l] # << >> /\ Result(c) = Result(auth[l][1])
             /\ by' = [by EXCEPT ![auth[l][1]] = l]
    <3>1. c = auth[l][1]
      BY <2>2, Zenon DEF Result
    <3> QED  BY <1>1, <2>2, <3>1, Zenon
  <2>3. /\ Result(c) \notin PlainDown
        /\ \A d, k : Result(c) # Config(d) /\ Result(c) # Flush(d, k)
    BY Zenon DEF Result, PlainDown, Config, Flush
  <2>4. DownFrom(l, Result(c))
    BY DownHolds, Zenon
  <2> QED  BY <2>1, <2>2, <2>3, <2>4, Zenon DEF DownFrom
<1>4. ASSUME NEW l \in Links, c \in sessions'[l] PROVE by'[c] = l
  <2>1. CASE c \in sessions[l]
    BY <1>1, <1>2, <2>1, Zenon DEF AdmittedBy
  <2>2. ASSUME c \notin sessions[l]
        PROVE  AuthBind(l) /\ auth[l][1] = c /\ by' = [by EXCEPT ![c] = l]
    <3>1. ASSUME NEW k \in Links, AuthBind(k)
          PROVE  AuthBind(l) /\ auth[l][1] = c /\ by' = [by EXCEPT ![c] = l]
      <4>1. UNCHANGED sessions
            \/ (by' = [by EXCEPT ![auth[k][1]] = k]
                /\ sessions' = [sessions EXCEPT ![k] = @ \cup {auth[k][1]}])
        BY <3>1, Zenon DEF AuthBind
      <4>2. k = l /\ auth[k][1] = c
        BY <1>1, <1>4, <2>2, <4>1
      <4> QED  BY <1>4, <2>2, <3>1, <4>1, <4>2, Zenon
    <3>2. ASSUME ~\E k \in Links : AuthBind(k) PROVE c \in sessions[l]
      <4>1. ASSUME NEW k \in Links, LinkStep(k) \/ CoreLoses(k)
            PROVE  UNCHANGED sessions \/ \E d : sessions' = [sessions EXCEPT ![k] = @ \ {d}]
        BY <3>2, <4>1, Zenon DEF LinkStep, CoreLoses, ServeHello, CloseOld, RegisterEdge,
           EdgeConnected, RegisterVoiceTransport, HelloAck, EdgeDisconnected, RemoveEdge,
           CleanupOne, HandleAuthRequest, AuthAdd, HandleTransportReady,
           HandleControlUp, HandleVoiceUp, HandleDisconnect, HandleControlFlushed
      <4>2. ASSUME NEW d \in Clients,
                   SyncBegin(d) \/ SyncGivesUp(d) \/ SyncCommit(d) \/ Kick(d) \/ KickEnds(d)
            PROVE  UNCHANGED sessions
        BY <4>2, Zenon DEF SyncBegin, SyncGivesUp, SyncCommit, Kick, KickEnds
      <4>3. UNCHANGED sessions
            \/ \E k \in Links : \E d : sessions' = [sessions EXCEPT ![k] = @ \ {d}]
        BY <4>1, <4>2, NextCases, EdgeKeepsCore, Zenon DEF CoreStep, coreOnly
      <4> QED  BY <1>1, <1>4, <4>3
    <3> QED  BY <2>2, <3>1, <3>2, Zenon
  <2> QED  BY <1>1, <2>1, <2>2, Zenon
<1>5. Marked(c)' => by[c] \in Links
  <2>1. Marked(c)' => Marked(c) \/ Told(c)
    BY MarkedFrom, Zenon
  <2> QED  BY <1>1, <2>1, Zenon DEF AdmittedBy, Told
<1> QED  BY <1>2, <1>3, <1>4, <1>5, Zenon DEF AdmittedBy

LEMMA AdmitStep == AdmitInv /\ [Next]_vars => AdmitInv'
<1>1. ASSUME AdmitInv, Next PROVE AdmitInv'
  <2>1. CoreType' /\ EdgeType'
    <3>1. CoreStep => CoreType'
      BY <1>1, CoreTypeLink, CoreTypeSync, Zenon DEF CoreStep, AdmitInv
    <3>2. EdgeSideStep => CoreType'
      BY <1>1, EdgeKeepsCore, ZenonT(30) DEF AdmitInv, TypeOK, CoreType, coreOnly
    <3>3. CoreStep => EdgeType'
      BY <1>1, CoreKeepsEdge, Zenon DEF AdmitInv, TypeOK, EdgeType
    <3>4. EdgeSideStep => EdgeType'
      BY <1>1, EdgeTypeStep, Zenon DEF AdmitInv
    <3> QED  BY <1>1, <3>1, <3>2, <3>3, <3>4, NextCases, Zenon
  <2>2. QueueType'
    BY <1>1, QueueTypeStep, Zenon DEF AdmitInv, AdmittedBy, Marked
  <2> QED  BY <1>1, <2>1, <2>2, AskedStep, AdmittedStep, Zenon DEF AdmitInv, TypeOK
<1>2. ASSUME AdmitInv, UNCHANGED vars PROVE AdmitInv'
  <2>1. CoreType' /\ EdgeType' /\ QueueType'
    BY <1>2, Zenon DEF vars, AdmitInv, TypeOK, CoreType, EdgeType, QueueType
  <2>2. \A c \in Clients : AskedOnce(c)' /\ AdmittedBy(c)'
    BY <1>2, ZenonT(30) DEF vars, AdmitInv, AskedOnce, AdmittedBy, Marked, InAuth
  <2> QED  BY <2>1, <2>2, Zenon DEF AdmitInv, TypeOK
<1> QED  BY <1>1, <1>2, Zenon

-----------------------------------------------------------------------------
(* The edge fails closed.                                                  *)

(* A client is safe while the link that admitted it serves, or while the   *)
(* loss that is being dealt with is about to close it.                     *)
Safe(c) == (core = "serving" /\ by[c] = conn) \/ (core = "closing" /\ c \in drops)

Trusted(c) == c \in open /\ (pc[c] = "accepted" \/ answer[c] = "ok" \/ c \in bySession)

(* A client whose session was accepted is safe, and one that has begun to  *)
(* authenticate is among those a loss closes.                              *)
FailInv ==
  \A c \in Clients :
    /\ Trusted(c) => Safe(c)
    /\ c \in open /\ pc[c] # "new" => c \in conns
    /\ pc[c] = "new" => answer[c] = None /\ c \notin bySession \cup pending

LEMMA FailCore == ASSUME AdmitInv, FailInv, CoreStep PROVE FailInv'
<1> SUFFICES ASSUME NEW c \in Clients
             PROVE  (/\ Trusted(c) => Safe(c)
                     /\ c \in open /\ pc[c] # "new" => c \in conns
                     /\ pc[c] = "new" => answer[c] = None /\ c \notin bySession \cup pending)'
  BY Zenon DEF FailInv
<1>1. UNCHANGED <<core, conn, drops, open, pc, answer, bySession, conns, pending>>
  BY CoreKeepsEdge, Zenon
<1>2. Safe(c) => Safe(c)'
  <2>1. core = "serving" => conn # 0
    BY Zenon DEF AdmitInv, TypeOK, EdgeType
  <2>2. by[c] # 0 => by'[c] = by[c]
    BY AdmittedOnce, NextCases, Zenon
  <2> QED  BY <1>1, <2>1, <2>2, Zenon DEF Safe
<1>3. Trusted(c)' <=> Trusted(c)
  BY <1>1, Zenon DEF Trusted
<1> QED  BY <1>1, <1>2, <1>3, Zenon DEF FailInv

LEMMA FailEdge ==
  ASSUME AdmitInv, FailInv,
         EdgeStep \/ Dial \/ DialFails \/ EdgeLoses \/ HeartbeatFails \/ Steal
  PROVE  FailInv'
<1> SUFFICES ASSUME NEW c \in Clients
             PROVE  (/\ Trusted(c) => Safe(c)
                     /\ c \in open /\ pc[c] # "new" => c \in conns
                     /\ pc[c] = "new" => answer[c] = None /\ c \notin bySession \cup pending)'
  BY Zenon DEF FailInv
<1>1. /\ Trusted(c) => Safe(c)
      /\ c \in open /\ pc[c] # "new" => c \in conns
      /\ pc[c] = "new" => answer[c] = None /\ c \notin bySession \cup pending
  BY Zenon DEF FailInv
<1>2. UNCHANGED <<open, pc, bySession, conns, by>>
  BY Zenon DEF EdgeStep, Connected, Drain, ReadAuthResult, DeliverControl, FlushControl,
     CloseSession, Dial, DialFails, EdgeLoses, HeartbeatFails, Steal
<1>3. Trusted(c) => pc[c] # "new"
  BY <1>1, Zenon DEF Trusted
<1>4. CASE Drop /\ UNCHANGED <<pending, answer>>
  <2>1. Trusted(c)' => Trusted(c)
    BY <1>2, <1>4, Zenon DEF Trusted
  <2>2. Trusted(c) => c \in drops' /\ core' = "closing"
    BY <1>1, <1>3, <1>4, Zenon DEF Trusted, Drop
  <2> QED  BY <1>1, <1>2, <1>4, <2>1, <2>2, Zenon DEF Safe
<1>5. CASE UNCHANGED <<core, conn, drops, pending, answer>>
  <2>1. (Trusted(c)' <=> Trusted(c)) /\ (Safe(c)' <=> Safe(c))
    BY <1>2, <1>5, Zenon DEF Trusted, Safe
  <2> QED  BY <1>1, <1>2, <1>5, <2>1, Zenon
<1>6. CASE Dial \/ DialFails \/ Connected
  <2>1. UNCHANGED <<pending, answer>> /\ core \in {"idle", "dialing"}
    BY <1>6, Zenon DEF Dial, DialFails, Connected
  <2>2. ~Trusted(c)
    BY <1>1, <2>1, Zenon DEF Safe
  <2>3. ~Trusted(c)'
    BY <1>2, <2>1, <2>2, Zenon DEF Trusted
  <2> QED  BY <1>1, <1>2, <2>1, <2>3, Zenon
<1>7. CASE Drain
  <2>1. /\ core = "closing" /\ drops = {} /\ pending' = {}
        /\ answer' = [d \in Clients |-> IF d \in pending THEN "failed" ELSE answer[d]]
    BY <1>7, Zenon DEF Drain
  <2>2. ~Trusted(c)
    BY <1>1, <2>1, Zenon DEF Safe
  <2>3. ~Trusted(c)'
    BY <1>2, <2>1, <2>2, Zenon DEF Trusted
  <2> QED  BY <1>1, <1>2, <2>1, <2>3, Zenon
<1>8. CASE ReadAuthResult
  <2>1. /\ core = "serving" /\ down[dialed] # << >> /\ Msg.t = "result"
        /\ pending' = pending \ {Msg.c} /\ UNCHANGED <<core, conn, drops>>
        /\ answer' = IF Msg.c \in pending
                     THEN [answer EXCEPT ![Msg.c] = IF Msg.ok THEN "ok" ELSE "rejected"]
                     ELSE answer
    BY <1>8, Zenon DEF ReadAuthResult, Reading, Msg
  <2>2. dialed \in Links /\ conn = dialed /\ answer \in [Clients -> {None, "ok", "rejected", "failed"}]
        /\ down \in [Links -> Seq(DownMsg)]
    BY <2>1, LinksAreGens, Zenon DEF AdmitInv, TypeOK, EdgeType, QueueType
  <2>3. Msg \in DownMsg /\ In(down[dialed], Msg)
    BY <2>1, <2>2, TailElements, TakeIn DEF Msg
  <2>4. Msg.c = c /\ Msg.ok => by[c] = conn
    <3>1. Msg.c = c /\ Msg.ok => Msg = Result(c)
      BY <2>1, <2>3, Zenon DEF DownMsg, Result
    <3>2. In(down[dialed], Result(c)) => by[c] = dialed
      BY <2>2, Zenon DEF AdmitInv, AdmittedBy
    <3> QED  BY <2>2, <2>3, <3>1, <3>2, Zenon
  <2>5. /\ answer'[c] = "ok" => answer[c] = "ok" \/ (Msg.c = c /\ Msg.ok)
        /\ pc[c] = "new" => answer'[c] = None
    BY <1>1, <2>1, <2>2, Zenon
  <2>6. Safe(c) => Safe(c)'
    BY <1>2, <2>1, Zenon DEF Safe
  <2>7. Trusted(c)' => Trusted(c) \/ (Msg.c = c /\ Msg.ok)
    BY <1>2, <2>5, Zenon DEF Trusted
  <2>8. Trusted(c)' => Safe(c)'
    BY <1>1, <1>2, <2>1, <2>4, <2>6, <2>7, Zenon DEF Safe
  <2> QED  BY <1>1, <1>2, <2>1, <2>5, <2>8, Zenon
<1>9. CASE EdgeLoses \/ HeartbeatFails \/ FlushControl
  <2>1. \/ Drop /\ UNCHANGED <<pending, answer>>
        \/ UNCHANGED <<core, conn, drops, pending, answer>>
    BY <1>9, Zenon DEF EdgeLoses, HeartbeatFails, FlushControl
  <2> QED  BY <1>4, <1>5, <2>1, Zenon
<1>10. CASE Steal \/ DeliverControl \/ CloseSession
  <2>1. UNCHANGED <<core, conn, drops, pending, answer>>
    BY <1>10, Zenon DEF Steal, DeliverControl, CloseSession
  <2> QED  BY <1>5, <2>1, Zenon
<1> QED  BY <1>6, <1>7, <1>8, <1>9, <1>10, Zenon DEF EdgeStep

LEMMA FailClient ==
  ASSUME AdmitInv, FailInv, NEW d \in Clients,
         ClientStep(d) \/ Authenticate(d) \/ Leave(d) \/ Say(d, "control") \/ Say(d, "voice")
  PROVE  FailInv'
<1> SUFFICES ASSUME NEW c \in Clients
             PROVE  (/\ Trusted(c) => Safe(c)
                     /\ c \in open /\ pc[c] # "new" => c \in conns
                     /\ pc[c] = "new" => answer[c] = None /\ c \notin bySession \cup pending)'
  BY Zenon DEF FailInv
<1>1. /\ Trusted(c) => Safe(c)
      /\ c \in open /\ pc[c] # "new" => c \in conns
      /\ pc[c] = "new" => answer[c] = None /\ c \notin bySession \cup pending
  BY Zenon DEF FailInv
<1>2. /\ pc \in [Clients -> {"new", "authsend", "waiting", "accepted", "readysend",
                            "ready", "rejected"}]
      /\ answer \in [Clients -> {None, "ok", "rejected", "failed"}]
  BY Zenon DEF AdmitInv, TypeOK, EdgeType
<1>3. UNCHANGED <<core, conn, by>>
  BY Zenon DEF ClientStep, AuthSend, Answered, Record, ReadySend, DropClose,
     CloseAfterFlush, Authenticate, Leave, Say
<1>4. CASE DropClose(d) \/ Leave(d) \/ CloseAfterFlush(d)
  <2>1. /\ UNCHANGED <<pc, pending, answer>> /\ (UNCHANGED drops \/ drops' = drops \ {d})
        /\ open' = open \ {d} /\ conns' = conns \ {d} /\ bySession' = bySession \ {d}
    BY <1>4, Zenon DEF DropClose, Leave, CloseAfterFlush, Close
  <2>2. Trusted(c)' => Trusted(c) /\ c # d
    BY <2>1, Zenon DEF Trusted
  <2>3. Safe(c) /\ c # d => Safe(c)'
    BY <1>3, <2>1, Zenon DEF Safe
  <2> QED  BY <1>1, <2>1, <2>2, <2>3, Zenon
<1>5. CASE Authenticate(d)
  <2>1. /\ pc[d] = "new" /\ (pc' = [pc EXCEPT ![d] = "authsend"] \/ pc' = [pc EXCEPT ![d] = "rejected"])
        /\ conns' = conns \cup {d} /\ UNCHANGED <<open, bySession, answer, drops>>
        /\ pending' \subseteq pending \cup {d}
    BY <1>5, Zenon DEF Authenticate, Step
  <2>2. Trusted(c)' => Trusted(c)
    BY <1>2, <2>1, Zenon DEF Trusted
  <2>3. Safe(c) => Safe(c)'
    BY <1>3, <2>1, Zenon DEF Safe
  <2>4. pc'[c] = "new" => pc[c] = "new" /\ c # d
    BY <1>2, <2>1, Zenon
  <2>5. pc'[c] # "new" => pc[c] # "new" \/ c = d
    BY <1>2, <2>1, Zenon
  <2> QED  BY <1>1, <2>1, <2>2, <2>3, <2>4, <2>5, Zenon
<1>6. CASE AuthSend(d) \/ ReadySend(d)
  <2>1. /\ pc[d] # "new" /\ (\E y \in {"waiting", "rejected", "ready"} : pc' = [pc EXCEPT ![d] = y])
        /\ UNCHANGED <<open, conns, bySession, answer, drops>> /\ pending' \subseteq pending
    BY <1>6, Zenon DEF AuthSend, ReadySend, Step
  <2>2. Trusted(c)' => Trusted(c)
    BY <1>2, <2>1, Zenon DEF Trusted
  <2>3. Safe(c) => Safe(c)'
    BY <1>3, <2>1, Zenon DEF Safe
  <2>4. pc'[c] = "new" <=> pc[c] = "new"
    BY <1>2, <2>1, Zenon
  <2> QED  BY <1>1, <2>1, <2>2, <2>3, <2>4, Zenon
<1>7. CASE Answered(d)
  <2>1. /\ pc[d] = "waiting" /\ answer' = [answer EXCEPT ![d] = None]
        /\ pc' = [pc EXCEPT ![d] = IF answer[d] = "ok" /\ d \in open THEN "accepted" ELSE "rejected"]
        /\ UNCHANGED <<open, conns, bySession, pending, drops>>
    BY <1>7, Zenon DEF Answered, Step
  <2>2. Trusted(c)' => Trusted(c)
    BY <1>2, <2>1, Zenon DEF Trusted
  <2>3. Safe(c) => Safe(c)'
    BY <1>3, <2>1, Zenon DEF Safe
  <2>4. (pc'[c] = "new" <=> pc[c] = "new") /\ (answer'[c] = answer[c] \/ answer'[c] = None)
    BY <1>2, <2>1, Zenon
  <2> QED  BY <1>1, <2>1, <2>2, <2>3, <2>4, Zenon
<1>8. CASE Record(d)
  <2>1. /\ pc[d] = "accepted" /\ bySession' = bySession \cup {d}
        /\ (\E y \in {"readysend", "rejected"} : pc' = [pc EXCEPT ![d] = y])
        /\ UNCHANGED <<open, conns, pending, answer, drops>>
    BY <1>8, Zenon DEF Record, Step
  <2>2. Trusted(c)' => Trusted(c)
    BY <1>2, <2>1, Zenon DEF Trusted
  <2>3. Safe(c) => Safe(c)'
    BY <1>3, <2>1, Zenon DEF Safe
  <2>4. (pc'[c] = "new" <=> pc[c] = "new") /\ (pc[c] = "new" => c # d)
    BY <1>2, <2>1, Zenon
  <2> QED  BY <1>1, <2>1, <2>2, <2>3, <2>4, Zenon
<1>9. CASE Say(d, "control") \/ Say(d, "voice")
  <2>1. UNCHANGED <<pc, open, conns, bySession, pending, answer, drops>>
    BY <1>9, Zenon DEF Say
  <2>2. (Trusted(c)' <=> Trusted(c)) /\ (Safe(c)' <=> Safe(c))
    BY <1>3, <2>1, Zenon DEF Trusted, Safe
  <2> QED  BY <1>1, <2>1, <2>2, Zenon
<1> QED  BY <1>4, <1>5, <1>6, <1>7, <1>8, <1>9, Zenon DEF ClientStep

(* Once a loss has been dealt with, every open client whose session is     *)
(* recorded was admitted by the connection in use now, for every number of *)
(* clients, links and queue places (EdgeRuntime, CoreDisconnected).        *)
THEOREM EdgeFailsClosed == Spec => []FailClosed
<1>1. Init => FailInv
  BY Zenon DEF Init, FailInv, Trusted
<1>2. AdmitInv /\ FailInv /\ [Next]_vars => FailInv'
  <2>1. AdmitInv /\ FailInv /\ Next => FailInv'
    BY FailCore, FailEdge, FailClient, NextCases, Zenon DEF EdgeSideStep
  <2>2. FailInv /\ UNCHANGED vars => FailInv'
    BY Zenon DEF FailInv, Trusted, Safe, vars
  <2> QED  BY <2>1, <2>2, Zenon
<1>3. AdmitInv /\ FailInv => FailClosed
  BY Zenon DEF AdmitInv, TypeOK, EdgeType, FailInv, Trusted, Safe, FailClosed
<1> QED  BY <1>1, <1>2, <1>3, InitAdmit, AdmitStep, PTL DEF Spec

-----------------------------------------------------------------------------
(* A lost link takes its sessions with it.                                 *)

Settled(c) == entry[c] = None /\ c \notin users

(* The edge is registered by the link that admitted c, and that link has   *)
(* c on its list once it has drawn it up.                                  *)
Kept(c) ==
  /\ entry[c] # None /\ edgeGen = by[c]
  /\ \/ closing[by[c]] \in {"open", "closing"}
     \/ closing[by[c]] = "listed" /\ c \in todo[by[c]]

Started(c) == c \in announced \/ sync[c] \in {"flushing", "acked"}

LossInv == \A c \in Clients : Started(c) => Settled(c) \/ Kept(c)

LEMMA ClosingOn ==
  ASSUME TypeOK, NEW l \in Links, UNCHANGED closing \/ \E k : CloseLink(k)
  PROVE  closing'[l] = closing[l] \/ (closing[l] = "open" /\ closing'[l] = "closing")
<1>1. closing \in [Links -> {"open", "closing", "listed", "done"}]
  BY Zenon DEF TypeOK, CoreType
<1> QED  BY <1>1, Zenon DEF CloseLink

(* The steps that leave the registration and the lists alone.              *)
LEMMA LossQuiet ==
  ASSUME AdmitInv, Next, NEW c \in Clients, by[c] \in Links, Settled(c) \/ Kept(c),
         UNCHANGED <<edgeGen, todo>>, UNCHANGED closing \/ \E k : CloseLink(k),
         \/ entry'[c] = entry[c] /\ (c \in users' => c \in users)
         \/ entry'[c] = None /\ c \notin users'
  PROVE  Settled(c)' \/ Kept(c)'
<1>1. by'[c] = by[c]
  BY AdmittedOnce, LinksAreGens, Zenon
<1>2. \/ closing'[by[c]] = closing[by[c]]
      \/ closing[by[c]] = "open" /\ closing'[by[c]] = "closing"
  BY ClosingOn, Zenon DEF AdmitInv
<1> QED  BY <1>1, <1>2, Zenon DEF Settled, Kept

LEMMA LossStep == ASSUME AdmitInv, LossInv, Next PROVE LossInv'
<1> SUFFICES ASSUME NEW c \in Clients, Started(c)' PROVE Settled(c)' \/ Kept(c)'
  BY Zenon DEF LossInv
<1>1. (Started(c) => by[c] \in Links /\ (Settled(c) \/ Kept(c))) /\ TypeOK
  BY Zenon DEF Started, LossInv, AdmitInv, AdmittedBy, Marked
<1>2. by[c] \in Links => by'[c] = by[c]
  BY AdmittedOnce, LinksAreGens, Zenon
<1>3. /\ closing \in [Links -> {"open", "closing", "listed", "done"}]
      /\ todo \in [Links -> SUBSET Clients]
      /\ entry \in [Clients -> {None, "Syncing", "Active", "Closing"}]
      /\ sync \in [Clients -> {None, "ready", "flushing", "acked", "active",
                               "kicking", "kicked", "over"}]
  BY <1>1, Zenon DEF TypeOK, CoreType
<1>4. ASSUME NEW l \in Links,
             \/ ServeHello(l) \/ CloseOld(l) \/ EdgeConnected(l) \/ RegisterVoiceTransport(l)
             \/ HelloAck(l) \/ CoreLoses(l) \/ HandleAuthRequest(l) \/ HandleControlUp(l)
             \/ HandleVoiceUp(l)
      PROVE  Settled(c)' \/ Kept(c)'
  <2>1. /\ UNCHANGED <<edgeGen, todo, entry, users, sync, announced>>
        /\ UNCHANGED closing \/ \E k : CloseLink(k)
    BY <1>4, Zenon DEF ServeHello, CloseOld, EdgeConnected, RegisterVoiceTransport, HelloAck,
       CoreLoses, HandleAuthRequest, HandleControlUp, HandleVoiceUp, Reply, Accepted
  <2>2. Started(c)
    BY <2>1, Zenon DEF Started
  <2> QED  BY <1>1, <2>1, <2>2, LossQuiet, Zenon
<1>5. ASSUME NEW l \in Links, RegisterEdge(l) PROVE Settled(c)' \/ Kept(c)'
  <2>1. /\ UNCHANGED <<closing, todo, entry, users, sync, announced>>
        /\ UNCHANGED edgeGen \/ (edgeGen \in {0, l} /\ edgeGen' = l)
    BY <1>5, Zenon DEF RegisterEdge
  <2>2. Started(c)
    BY <2>1, Zenon DEF Started
  <2>3. by[c] # 0
    BY <1>1, <2>2, LinksAreGens, Zenon
  <2>4. Kept(c) => Kept(c)'
    BY <1>1, <1>2, <2>1, <2>2, <2>3, Zenon DEF Kept
  <2>5. Settled(c) => Settled(c)'
    BY <2>1, Zenon DEF Settled
  <2> QED  BY <1>1, <2>2, <2>4, <2>5, Zenon
<1>6. ASSUME NEW l \in Links, EdgeDisconnected(l) PROVE Settled(c)' \/ Kept(c)'
  <2>1. /\ closing[l] = "closing" /\ closing' = [closing EXCEPT ![l] = "listed"]
        /\ todo' = [todo EXCEPT ![l] = SessionsForEdge(l)]
        /\ UNCHANGED <<edgeGen, entry, users, sync, announced>>
    BY <1>6, Zenon DEF EdgeDisconnected, Closing
  <2>2. Started(c)
    BY <2>1, Zenon DEF Started
  <2>3. Kept(c) /\ by[c] = l => c \in SessionsForEdge(l)
    BY Zenon DEF Kept, SessionsForEdge
  <2>4. Kept(c) => Kept(c)'
    <3>1. CASE by[c] = l
      BY <1>1, <1>2, <1>3, <2>1, <2>2, <2>3, <3>1, Zenon DEF Kept
    <3>2. CASE by[c] # l
      BY <1>1, <1>2, <1>3, <2>1, <2>2, <3>2, Zenon DEF Kept
    <3> QED  BY <3>1, <3>2, Zenon
  <2>5. Settled(c) => Settled(c)'
    BY <2>1, Zenon DEF Settled
  <2> QED  BY <1>1, <2>2, <2>4, <2>5, Zenon
<1>7. ASSUME NEW l \in Links, NEW d \in Clients, CleanupOne(l, d)
      PROVE  Settled(c)' \/ Kept(c)'
  <2>1. /\ todo' = [todo EXCEPT ![l] = @ \ {d}]
        /\ entry' = [entry EXCEPT ![d] = None] /\ users' = users \ {d}
        /\ UNCHANGED <<edgeGen, closing, sync, announced>>
    BY <1>7, Zenon DEF CleanupOne, CleanupRemote
  <2>2. Started(c)
    BY <2>1, Zenon DEF Started
  <2>3. CASE c = d
    BY <1>3, <2>1, <2>3, Zenon DEF Settled
  <2>4. CASE c # d
    <3>1. entry'[c] = entry[c] /\ (c \in users' <=> c \in users)
          /\ (c \in todo'[by[c]] <=> c \in todo[by[c]])
      BY <1>1, <1>3, <2>1, <2>2, <2>4, Zenon
    <3> QED  BY <1>1, <1>2, <2>1, <2>2, <3>1, Zenon DEF Settled, Kept
  <2> QED  BY <2>3, <2>4, Zenon
<1>8. ASSUME NEW l \in Links, RemoveEdge(l) PROVE Settled(c)' \/ Kept(c)'
  <2>1. /\ todo[l] = {} /\ closing[l] = "listed" /\ closing' = [closing EXCEPT ![l] = "done"]
        /\ UNCHANGED <<todo, users, sync, announced>>
        /\ IF edgeGen = l THEN entry' = [d \in Clients |-> None]
                          ELSE UNCHANGED <<edgeGen, entry>>
    BY <1>8, Zenon DEF RemoveEdge, Closing
  <2>2. Started(c)
    BY <2>1, Zenon DEF Started
  <2>3. CASE Settled(c)
    BY <2>1, <2>3, Zenon DEF Settled
  <2>4. CASE Kept(c)
    <3>1. by[c] # l /\ edgeGen # l
      BY <2>1, <2>4, Zenon DEF Kept
    <3> QED  BY <1>1, <1>2, <1>3, <2>1, <2>2, <2>4, <3>1, Zenon DEF Kept
  <2> QED  BY <1>1, <2>2, <2>3, <2>4, Zenon
<1>9. ASSUME NEW l \in Links, AuthAdd(l) \/ AuthBind(l) PROVE Settled(c)' \/ Kept(c)'
  <2> DEFINE d == auth[l][1]
  <2>1. /\ auth[l] # << >> /\ UNCHANGED <<edgeGen, todo, sync, announced>>
        /\ UNCHANGED closing \/ \E k : CloseLink(k)
        /\ UNCHANGED entry \/ entry' = [entry EXCEPT ![d] = "Syncing"]
        /\ UNCHANGED users \/ users' = users \cup {d} \/ users' = users \ {d}
    BY <1>9, Zenon DEF AuthAdd, AuthBind, Reply
  <2>2. Started(c)
    BY <2>1, Zenon DEF Started
  <2>3. d # c
    <3>1. InAuth(l, d)
      BY <2>1, Zenon DEF InAuth
    <3>2. ~InAuth(l, c)
      BY <1>1, <2>2, LinksAreGens, Zenon DEF AdmitInv, AskedOnce
    <3> QED  BY <3>1, <3>2, Zenon
  <2> HIDE DEF d
  <2>4. entry'[c] = entry[c] /\ (c \in users' => c \in users)
    BY <1>3, <2>1, <2>3, Zenon
  <2> QED  BY <1>1, <2>1, <2>2, <2>4, LossQuiet, Zenon
<1>10. ASSUME NEW l \in Links, HandleTransportReady(l) \/ HandleControlFlushed(l)
      PROVE  Settled(c)' \/ Kept(c)'
  <2>1. /\ UNCHANGED <<edgeGen, todo, entry, users, announced>>
        /\ UNCHANGED closing \/ \E k : CloseLink(k)
    BY <1>10, Zenon DEF HandleTransportReady, HandleControlFlushed, Accepted
  <2>2. Started(c)
    <3>1. CASE HandleTransportReady(l)
      <4>1. UNCHANGED sync \/ \E d : sync' = [sync EXCEPT ![d] = "ready"]
        BY <3>1, Zenon DEF HandleTransportReady
      <4> QED  BY <1>3, <2>1, <4>1, Zenon DEF Started
    <3>2. CASE HandleControlFlushed(l)
      <4>1. sync'[c] = sync[c] \/ sync'[c] = Acked(sync[c])
        BY <1>3, <3>2, ZenonT(30) DEF HandleControlFlushed
      <4> QED  BY <2>1, <4>1, Zenon DEF Started, Acked
    <3> QED  BY <1>10, <3>1, <3>2, Zenon
  <2> QED  BY <1>1, <2>1, <2>2, LossQuiet, Zenon
<1>11. ASSUME NEW l \in Links, HandleDisconnect(l) PROVE Settled(c)' \/ Kept(c)'
  <2>1. /\ UNCHANGED <<edgeGen, todo, closing, sync, announced>>
        /\ UNCHANGED <<entry, users>> \/ \E d : CleanupRemote(d)
    BY <1>11, Zenon DEF HandleDisconnect
  <2>2. Started(c)
    BY <2>1, Zenon DEF Started
  <2>3. \/ entry'[c] = entry[c] /\ (c \in users' => c \in users)
        \/ entry'[c] = None /\ c \notin users'
    BY <1>3, <2>1 DEF CleanupRemote
  <2> QED  BY <1>1, <2>1, <2>2, <2>3, LossQuiet, Zenon
<1>12. ASSUME NEW d \in Clients, SyncBegin(d) PROVE Settled(c)' \/ Kept(c)'
  <2>1. UNCHANGED <<edgeGen, todo, closing, announced, by>>
    BY <1>12, Zenon DEF SyncBegin
  <2>2. \/ sync' = [sync EXCEPT ![d] = "over"] /\ UNCHANGED <<entry, users>>
        \/ sync' = [sync EXCEPT ![d] = "over"] /\ CleanupRemote(d)
        \/ /\ sync' = [sync EXCEPT ![d] = "flushing"] /\ UNCHANGED <<entry, users>>
           /\ Owned(by[d], d) /\ closing[by[d]] = "open"
    BY <1>12, Zenon DEF SyncBegin, MaySend
  <2>3. Started(c) \/ (c = d /\ Owned(by[d], d) /\ closing[by[d]] = "open" /\ UNCHANGED <<entry, users>>)
    BY <1>3, <2>1, <2>2 DEF Started
  <2>4. \/ entry'[c] = entry[c] /\ (c \in users' => c \in users)
        \/ entry'[c] = None /\ c \notin users'
    BY <1>3, <2>2 DEF CleanupRemote
  <2>5. CASE Started(c)
    BY <1>1, <2>1, <2>4, <2>5, LossQuiet, Zenon
  <2>6. CASE c = d /\ Owned(by[d], d) /\ closing[by[d]] = "open" /\ UNCHANGED <<entry, users>>
    BY <2>1, <2>6, Zenon DEF Owned, Kept
  <2> QED  BY <2>3, <2>5, <2>6, Zenon
<1>13. ASSUME NEW d \in Clients, SyncGivesUp(d) \/ KickEnds(d)
       PROVE  Settled(c)' \/ Kept(c)'
  <2>1. /\ UNCHANGED <<edgeGen, todo, closing, announced>> /\ CleanupRemote(d)
        /\ sync' = [sync EXCEPT ![d] = "over"]
    BY <1>13, Zenon DEF SyncGivesUp, KickEnds
  <2>2. Started(c)
    BY <1>3, <2>1, Zenon DEF Started
  <2>3. \/ entry'[c] = entry[c] /\ (c \in users' => c \in users)
        \/ entry'[c] = None /\ c \notin users'
    BY <1>3, <2>1, Zenon DEF CleanupRemote
  <2> QED  BY <1>1, <2>1, <2>2, <2>3, LossQuiet, Zenon
<1>14. ASSUME NEW d \in Clients, SyncCommit(d) PROVE Settled(c)' \/ Kept(c)'
  <2>1. /\ UNCHANGED <<edgeGen, todo, closing, by>> /\ sync[d] = "acked"
        /\ \/ /\ entry[d] = "Syncing" /\ entry' = [entry EXCEPT ![d] = "Active"]
              /\ sync' = [sync EXCEPT ![d] = "active"] /\ UNCHANGED users
              /\ announced' = announced \cup {d}
           \/ CleanupRemote(d) /\ sync' = [sync EXCEPT ![d] = "over"] /\ UNCHANGED announced
    BY <1>14, Zenon DEF SyncCommit, MayCommit
  <2>2. Started(c)
    BY <1>3, <2>1 DEF Started
  <2>3. CASE entry[d] = "Syncing" /\ entry' = [entry EXCEPT ![d] = "Active"] /\ UNCHANGED users
    <3>1. (entry'[c] = None <=> entry[c] = None) /\ UNCHANGED users
      BY <1>3, <2>3, Zenon
    <3> QED  BY <1>1, <2>1, <2>2, <3>1, Zenon DEF Settled, Kept
  <2>4. CASE CleanupRemote(d)
    <3>1. \/ entry'[c] = entry[c] /\ (c \in users' => c \in users)
          \/ entry'[c] = None /\ c \notin users'
      BY <1>3, <2>4, Zenon DEF CleanupRemote
    <3> QED  BY <1>1, <2>1, <2>2, <3>1, LossQuiet, Zenon
  <2> QED  BY <2>1, <2>3, <2>4, Zenon
<1>15. ASSUME NEW d \in Clients, Kick(d) PROVE Settled(c)' \/ Kept(c)'
  <2>1. /\ UNCHANGED <<edgeGen, todo, closing, by, users, announced>> /\ entry[d] = "Active"
        /\ entry' = [entry EXCEPT ![d] = "Closing"]
        /\ \E y \in {"kicking", "kicked"} : sync' = [sync EXCEPT ![d] = y]
    BY <1>15, Zenon DEF Kick
  <2>2. Started(c)
    BY <1>3, <2>1, Zenon DEF Started
  <2>3. entry'[c] = None <=> entry[c] = None
    BY <1>3, <2>1, Zenon
  <2> QED  BY <1>1, <2>1, <2>2, <2>3, Zenon DEF Settled, Kept
<1>16. CASE EdgeSideStep
  <2>1. UNCHANGED <<edgeGen, todo, closing, entry, users, sync, announced, by>>
    BY <1>16, EdgeKeepsCore, Zenon DEF coreOnly
  <2>2. Started(c)
    BY <2>1, Zenon DEF Started
  <2> QED  BY <1>1, <2>1, <2>2, Zenon DEF Settled, Kept
<1> QED  BY <1>4, <1>5, <1>6, <1>7, <1>8, <1>9, <1>10, <1>11, <1>12, <1>13, <1>14, <1>15,
            <1>16, NextCases, Zenon DEF CoreStep, LinkStep

(* When the core has finished with a lost link, no session that was Active *)
(* through it is bound or has a user record (EdgeDisconnected and          *)
(* SessionsForEdge against syncs, kicks and disconnects in flight).        *)
THEOREM LostLinkEndsSessions == Spec => []LossEndsSessions
<1>1. Init => LossInv
  BY Zenon DEF Init, LossInv, Started
<1>2. AdmitInv /\ LossInv /\ [Next]_vars => LossInv'
  <2>1. LossInv /\ UNCHANGED vars => LossInv'
    BY Zenon DEF LossInv, Started, Settled, Kept, vars
  <2> QED  BY <2>1, LossStep, Zenon
<1>3. AdmitInv /\ LossInv => LossEndsSessions
  BY Zenon DEF AdmitInv, TypeOK, CoreType, LossInv, Started, Settled, Kept, LossEndsSessions
<1> QED  BY <1>1, <1>2, <1>3, InitAdmit, AdmitStep, PTL DEF Spec

-----------------------------------------------------------------------------
(* A session is announced only after its client has seen the last of its   *)
(* sync.                                                                   *)

Reached(c) == c \in bySession \cap conns \cap open

(* A client that is ready stays so, and can only be lost.                  *)
LEMMA ReadyStays ==
  ASSUME AdmitInv, Next, NEW c \in Clients, pc[c] = "ready"
  PROVE  pc'[c] = "ready" /\ (Reached(c)' => Reached(c))
<1>1. pc \in [Clients -> {"new", "authsend", "waiting", "accepted", "readysend",
                          "ready", "rejected"}]
  BY Zenon DEF AdmitInv, TypeOK, EdgeType
<1>2. CASE UNCHANGED <<pc, bySession, conns, open>>
  BY <1>2, Zenon DEF Reached
<1>3. CoreStep => UNCHANGED <<pc, bySession, conns, open>>
  BY CoreKeepsEdge, Zenon
<1>4. EdgeStep \/ Dial \/ DialFails \/ EdgeLoses \/ HeartbeatFails \/ Steal
      => UNCHANGED <<pc, bySession, conns, open>>
  BY Zenon DEF EdgeStep, Connected, Drain, ReadAuthResult, DeliverControl, FlushControl,
     CloseSession, Dial, DialFails, EdgeLoses, HeartbeatFails, Steal
<1>5. ASSUME NEW d \in Clients, DropClose(d) \/ CloseAfterFlush(d) \/ Leave(d)
      PROVE  pc'[c] = "ready" /\ (Reached(c)' => Reached(c))
  <2>1. UNCHANGED pc /\ bySession' = bySession \ {d} /\ conns' = conns \ {d} /\ open' = open \ {d}
    BY <1>5, Zenon DEF DropClose, CloseAfterFlush, Leave, Close
  <2> QED  BY <2>1, Zenon DEF Reached
<1>6. ASSUME NEW d \in Clients, Say(d, "control") \/ Say(d, "voice")
      PROVE  UNCHANGED <<pc, bySession, conns, open>>
  BY <1>6, Zenon DEF Say
<1>7. ASSUME NEW d \in Clients,
             AuthSend(d) \/ Answered(d) \/ Record(d) \/ ReadySend(d) \/ Authenticate(d)
      PROVE  pc'[c] = "ready" /\ (Reached(c)' => Reached(c))
  <2>1. /\ \E y : pc' = [pc EXCEPT ![d] = y]
        /\ pc[d] # "ready" /\ UNCHANGED open
        /\ UNCHANGED bySession \/ bySession' = bySession \cup {d}
        /\ UNCHANGED conns \/ conns' = conns \cup {d}
    BY <1>7, Zenon DEF AuthSend, Answered, Record, ReadySend, Authenticate, Step
  <2>2. c # d
    BY <2>1, Zenon
  <2> QED  BY <1>1, <2>1, <2>2, Zenon DEF Reached
<1> QED  BY <1>2, <1>3, <1>4, <1>5, <1>6, <1>7, NextCases, Zenon DEF EdgeSideStep, ClientStep

LEMMA WroteGrows == ASSUME Next PROVE wrote \subseteq wrote'
<1>1. CoreStep => UNCHANGED wrote
  BY CoreKeepsEdge, Zenon
<1>2. EdgeStep \/ Dial \/ DialFails \/ EdgeLoses \/ HeartbeatFails \/ Steal
      => UNCHANGED wrote \/ \E d : wrote' = wrote \cup d
  BY Zenon DEF EdgeStep, Connected, Drain, ReadAuthResult, DeliverControl, FlushControl,
     CloseSession, Dial, DialFails, EdgeLoses, HeartbeatFails, Steal
<1>3. ASSUME NEW c \in Clients,
             ClientStep(c) \/ Authenticate(c) \/ Leave(c) \/ Say(c, "control") \/ Say(c, "voice")
      PROVE  UNCHANGED wrote
  BY <1>3, Zenon DEF ClientStep, AuthSend, Answered, Record, ReadySend, DropClose,
     CloseAfterFlush, Authenticate, Leave, Say
<1>4. UNCHANGED wrote \/ \E d : wrote' = wrote \cup d
  BY <1>1, <1>2, <1>3, NextCases, Zenon DEF EdgeSideStep
<1> QED  BY <1>4, Zenon

(* A link that the edge does not serve yet has admitted no one.            *)
UnservedInv ==
  \A l \in Links : l > dialed \/ (l = dialed /\ core = "dialing") =>
    auth[l] = << >> /\ \A c \in Clients : by[c] # l

LEMMA UnservedStep == ASSUME AdmitInv, UnservedInv, Next PROVE UnservedInv'
<1>1. /\ dialed \in Nat /\ conn = (IF core = "serving" THEN dialed ELSE 0)
      /\ core \in {"idle", "dialing", "serving", "closing"}
      /\ auth \in [Links -> {<< >>} \cup (Clients \X {"checked", "added"})]
      /\ by \in [Clients -> Gens] /\ Links \subseteq Nat /\ 0 \notin Links
  BY MaxLinksAssumption DEF AdmitInv, TypeOK, CoreType, EdgeType, Gens, Links
<1>2. CASE CoreStep
  <2>1. UNCHANGED <<dialed, core>>
    BY <1>2, CoreKeepsEdge, Zenon
  <2> SUFFICES ASSUME NEW k \in Links, k > dialed \/ (k = dialed /\ core = "dialing")
               PROVE  auth'[k] = << >> /\ \A c \in Clients : by'[c] # k
    BY <2>1, Zenon DEF UnservedInv
  <2>2. auth[k] = << >> /\ (\A c \in Clients : by[c] # k) /\ conn # k
    BY <1>1 DEF UnservedInv
  <2>3. ASSUME NEW l \in Links, HandleAuthRequest(l) \/ AuthAdd(l) \/ AuthBind(l)
        PROVE  auth'[k] = << >> /\ \A c \in Clients : by'[c] # k
    <3>1. /\ l # k
          /\ UNCHANGED auth \/ \E x : auth' = [auth EXCEPT ![l] = x]
          /\ UNCHANGED by \/ \E d : by' = [by EXCEPT ![d] = l]
      BY <2>2, <2>3, Zenon DEF HandleAuthRequest, AuthAdd, AuthBind, Receive
    <3> QED  BY <1>1, <2>2, <3>1, Zenon
  <2>4. ASSUME ~\E l \in Links : HandleAuthRequest(l) \/ AuthAdd(l) \/ AuthBind(l)
        PROVE  UNCHANGED <<auth, by>>
    <3>1. ASSUME NEW l \in Links, LinkStep(l) \/ CoreLoses(l) PROVE UNCHANGED <<auth, by>>
      BY <2>4, <3>1, Zenon DEF LinkStep, CoreLoses, ServeHello, CloseOld, RegisterEdge,
         EdgeConnected, RegisterVoiceTransport, HelloAck, EdgeDisconnected, RemoveEdge,
         CleanupOne, HandleTransportReady, HandleControlUp, HandleVoiceUp,
         HandleDisconnect, HandleControlFlushed
    <3>2. ASSUME NEW c \in Clients,
                 SyncBegin(c) \/ SyncGivesUp(c) \/ SyncCommit(c) \/ Kick(c) \/ KickEnds(c)
          PROVE  UNCHANGED <<auth, by>>
      BY <3>2, Zenon DEF SyncBegin, SyncGivesUp, SyncCommit, Kick, KickEnds
    <3> QED  BY <1>2, <3>1, <3>2, Zenon DEF CoreStep
  <2> QED  BY <2>2, <2>3, <2>4, Zenon
<1>3. CASE EdgeSideStep
  <2>1. UNCHANGED <<auth, by>>
    BY <1>3, EdgeKeepsCore, Zenon DEF coreOnly
  <2>2. \/ UNCHANGED dialed /\ (core' = "dialing" => core = "dialing")
        \/ dialed' = dialed + 1
    <3>1. EdgeStep \/ Dial \/ DialFails \/ EdgeLoses \/ HeartbeatFails \/ Steal
          => \/ UNCHANGED dialed /\ (core' = "dialing" => core = "dialing")
             \/ dialed' = dialed + 1
      BY Zenon DEF EdgeStep, Connected, Drain, ReadAuthResult, DeliverControl, FlushControl,
         CloseSession, Dial, DialFails, EdgeLoses, HeartbeatFails, Steal, Drop
    <3>2. ASSUME NEW c \in Clients, ClientStep(c) \/ Authenticate(c) \/ Leave(c)
                                    \/ Say(c, "control") \/ Say(c, "voice")
          PROVE  UNCHANGED <<dialed, core>>
      BY <3>2, Zenon DEF ClientStep, AuthSend, Answered, Record, ReadySend, DropClose,
         CloseAfterFlush, Authenticate, Leave, Say
    <3> QED  BY <1>3, <3>1, <3>2, Zenon DEF EdgeSideStep
  <2>3. \A l \in Links : l > dialed' \/ (l = dialed' /\ core' = "dialing")
                         => l > dialed \/ (l = dialed /\ core = "dialing")
    BY <1>1, <2>2
  <2> QED  BY <2>1, <2>3, Zenon DEF UnservedInv
<1> QED  BY <1>2, <1>3, NextCases, Zenon

(* The core is at work only for clients that are ready.                    *)
ReadyInv == \A c \in Clients : Marked(c) \/ In(out, Ready(c)) => pc[c] = "ready"

LEMMA ReadyStep == ASSUME AdmitInv, ReadyInv, Next PROVE ReadyInv'
<1> SUFFICES ASSUME NEW c \in Clients, Marked(c)' \/ In(out', Ready(c))
             PROVE  pc'[c] = "ready"
  BY Zenon DEF ReadyInv
<1>1. CASE Marked(c) \/ In(out, Ready(c))
  BY <1>1, ReadyStays, Zenon DEF ReadyInv
<1>2. CASE \E d \in Clients : ReadySend(d) /\ Room /\ Ready(c) = Ready(d)
  <2>1. ReadySend(c) /\ Room
    BY <1>2, Zenon DEF Ready
  <2> QED  BY <2>1, Zenon DEF ReadySend, Step, AdmitInv, TypeOK, EdgeType
<1>3. Marked(c)' => Marked(c) \/ In(out, Ready(c))
  BY MarkedFrom, Zenon DEF Told
<1>4. In(out', Ready(c)) => OutFrom(Ready(c))
  BY OutHolds, Zenon DEF AdmitInv
<1>5. /\ Ready(c) \notin PlainUp /\ \A d : Ready(c) # Auth(d)
      /\ \A n : Ready(c) # Flushed(n)
  BY Zenon DEF Ready, PlainUp, Auth, Flushed
<1> QED  BY <1>1, <1>2, <1>3, <1>4, <1>5, Zenon DEF OutFrom

(* Who waits for a flush of a link: fewer, or one with a fresh number.     *)
FlushMove(l) ==
  \/ nextID'[l] = nextID[l] /\ flushWait'[l] \subseteq flushWait[l]
  \/ \E c \in Clients :
       /\ by[c] = l
       /\ SyncBegin(c) \/ Kick(c)
       /\ nextID'[l] = nextID[l] + 1
       /\ flushWait'[l] = flushWait[l] \cup {<<nextID[l] + 1, c>>}

LEMMA FlushTypes ==
  ASSUME AdmitInv, NEW l \in Links
  PROVE  /\ nextID[l] \in Nat /\ nextID[l] + 1 \in Nat
         /\ \A x \in flushWait[l] : x[1] \in Nat
<1>1. flushWait \in [Links -> SUBSET (Nat \X Clients)] /\ nextID \in [Links -> Nat]
  BY Zenon DEF AdmitInv, TypeOK, CoreType
<1> QED  BY <1>1

LEMMA FlushMoves == ASSUME AdmitInv, Next, NEW l \in Links PROVE FlushMove(l)
<1>1. flushWait \in [Links -> SUBSET (Nat \X Clients)] /\ nextID \in [Links -> Nat]
  BY Zenon DEF AdmitInv, TypeOK, CoreType
<1>2. ASSUME UNCHANGED nextID,
             UNCHANGED flushWait \/ \E k, w : flushWait' = [flushWait EXCEPT ![k] = @ \ w]
      PROVE  FlushMove(l)
  BY <1>1, <1>2, Zenon DEF FlushMove
<1>3. ASSUME NEW k \in Links, LinkStep(k) \/ CoreLoses(k) PROVE FlushMove(l)
  <2>1. ASSUME NEW k1, flushWait' = [flushWait EXCEPT ![k1] = {}], UNCHANGED nextID
        PROVE  FlushMove(l)
    BY <1>1, <2>1, Zenon DEF FlushMove
  <2>2. /\ UNCHANGED nextID
        /\ \/ UNCHANGED flushWait \/ \E k1 : flushWait' = [flushWait EXCEPT ![k1] = {}]
           \/ \E k1, w : flushWait' = [flushWait EXCEPT ![k1] = @ \ w]
    BY <1>3, Zenon DEF LinkStep, CoreLoses, ServeHello, CloseOld, RegisterEdge,
       EdgeConnected, RegisterVoiceTransport, HelloAck, EdgeDisconnected, RemoveEdge,
       CleanupOne, HandleAuthRequest, AuthAdd, AuthBind, HandleTransportReady,
       HandleControlUp, HandleVoiceUp, HandleDisconnect, HandleControlFlushed, CloseLink,
       Reply, Accepted
  <2> QED  BY <1>2, <2>1, <2>2, Zenon
<1>4. ASSUME NEW c \in Clients, SyncGivesUp(c) \/ SyncCommit(c) \/ KickEnds(c)
      PROVE  FlushMove(l)
  <2>1. UNCHANGED nextID /\ (UNCHANGED flushWait \/ Forget(c))
    BY <1>4, Zenon DEF SyncGivesUp, SyncCommit, KickEnds
  <2> QED  BY <1>1, <2>1, Zenon DEF FlushMove, Forget
<1>5. ASSUME NEW c \in Clients, SyncBegin(c) \/ Kick(c) PROVE FlushMove(l)
  <2>1. UNCHANGED <<nextID, flushWait>> \/ AwaitFlush(c, by[c])
    BY <1>5, Zenon DEF SyncBegin, Kick
  <2> QED  BY <1>1, <1>5, <2>1, Zenon DEF FlushMove, AwaitFlush
<1>6. EdgeSideStep => UNCHANGED <<nextID, flushWait>>
  BY EdgeKeepsCore, Zenon DEF coreOnly
<1> QED  BY <1>2, <1>3, <1>4, <1>5, <1>6, NextCases, Zenon DEF CoreStep

(* A flush on its way is the one that its session waits for.               *)
OnItsWay(l, m) ==
  /\ m.t = "flush" => /\ m.id <= nextID[l] /\ pc[m.c] = "ready"
                      /\ \A x \in flushWait[l] : x[1] = m.id => x[2] = m.c
  /\ m.t = "config" => by[m.c] = l
FlushInv ==
  \A l \in Links :
    /\ \A x \in flushWait[l] : x[1] <= nextID[l]
    /\ \A m \in DownMsg : In(down[l], m) => OnItsWay(l, m)

LEMMA FlushStep == ASSUME AdmitInv, ReadyInv, FlushInv, Next PROVE FlushInv'
<1> SUFFICES ASSUME NEW l \in Links
             PROVE  /\ \A x \in flushWait'[l] : x[1] <= nextID'[l]
                    /\ \A m \in DownMsg : In(down'[l], m) => OnItsWay(l, m)'
  BY Zenon DEF FlushInv
<1>1. nextID[l] \in Nat /\ \A x \in flushWait[l] : x[1] \in Nat /\ x[1] <= nextID[l]
  BY FlushTypes, Zenon DEF FlushInv
<1>2. FlushMove(l)
  BY FlushMoves, Zenon
<1>3. /\ nextID'[l] \in Nat /\ nextID[l] <= nextID'[l]
      /\ \A x \in flushWait'[l] : x[1] <= nextID'[l]
      /\ \A x \in flushWait'[l] : x \in flushWait[l] \/ x[1] = nextID[l] + 1
  <2>1. CASE nextID'[l] = nextID[l] /\ flushWait'[l] \subseteq flushWait[l]
    <3>1. nextID[l] <= nextID[l]
      BY <1>1
    <3> QED  BY <1>1, <2>1, <3>1, Zenon
  <2>2. ASSUME NEW c, nextID'[l] = nextID[l] + 1,
               flushWait'[l] = flushWait[l] \cup {<<nextID[l] + 1, c>>}
        PROVE  /\ nextID'[l] \in Nat /\ nextID[l] <= nextID'[l]
               /\ \A x \in flushWait'[l] : x[1] <= nextID'[l]
               /\ \A x \in flushWait'[l] : x \in flushWait[l] \/ x[1] = nextID[l] + 1
    <3>1. ASSUME NEW n \in Nat
          PROVE  n + 1 \in Nat /\ n <= n + 1 /\ n + 1 <= n + 1 /\ \A k \in Nat : k <= n => k <= n + 1
      OBVIOUS
    <3>2. <<nextID[l] + 1, c>>[1] = nextID[l] + 1
      OBVIOUS
    <3> QED  BY <1>1, <2>2, <3>1, <3>2, Zenon
  <2> QED  BY <1>2, <2>1, <2>2, Zenon DEF FlushMove
<1>4. ASSUME NEW m \in DownMsg, In(down[l], m) PROVE OnItsWay(l, m)'
  <2>1. OnItsWay(l, m)
    BY <1>4, Zenon DEF FlushInv
  <2>2. m.t = "flush" => m.c \in Clients /\ m.id \in Nat
    BY Zenon DEF DownMsg
  <2>3. m.t = "config" => m.c \in Clients
    BY Zenon DEF DownMsg
  <2>4. ASSUME m.t = "flush" PROVE m.id <= nextID'[l] /\ pc'[m.c] = "ready"
    <3>1. m.id \in Nat /\ m.id <= nextID[l] /\ pc[m.c] = "ready" /\ m.c \in Clients
      BY <2>1, <2>2, <2>4, Zenon DEF OnItsWay
    <3>2. m.id <= nextID'[l]
      BY <1>1, <1>3, <3>1, UpTo, Zenon
    <3> QED  BY <3>1, <3>2, ReadyStays, Zenon
  <2>5. ASSUME m.t = "flush", NEW x \in flushWait'[l], x[1] = m.id PROVE x[2] = m.c
    <3>1. /\ m.id \in Nat /\ m.id <= nextID[l]
          /\ \A y \in flushWait[l] : y[1] = m.id => y[2] = m.c
      BY <2>1, <2>2, <2>5, Zenon DEF OnItsWay
    <3>2. m.id # nextID[l] + 1
      BY <1>1, <3>1, UpTo, Zenon
    <3> QED  BY <1>3, <2>5, <3>1, <3>2, Zenon
  <2>6. m.t = "config" => by'[m.c] = l
    BY <2>1, <2>3, AdmittedOnce, LinksAreGens, Zenon DEF OnItsWay
  <2> QED  BY <2>4, <2>5, <2>6, Zenon DEF OnItsWay
<1>5. ASSUME NEW m \in DownMsg, NEW c \in Clients, SyncBegin(c) \/ Kick(c), l = by[c],
             AwaitFlush(c, l), m = Flush(c, l)
      PROVE  OnItsWay(l, m)'
  <2>1. m.t = "flush" /\ m.c = c /\ m.id = nextID[l] + 1
    BY <1>5, Zenon DEF Flush
  <2>2. pc'[c] = "ready"
    <3>1. sync[c] # None
      BY <1>5, Zenon DEF SyncBegin, Kick
    <3> QED  BY <3>1, ReadyStays, Zenon DEF ReadyInv, Marked
  <2>3. nextID'[l] = nextID[l] + 1 /\ flushWait'[l] = flushWait[l] \cup {<<nextID[l] + 1, c>>}
    BY <1>5, Zenon DEF AwaitFlush, AdmitInv, TypeOK, CoreType
  <2>4. /\ \A x \in flushWait[l] \cup {<<nextID[l] + 1, c>>} : x[1] = nextID[l] + 1 => x[2] = c
        /\ nextID[l] + 1 <= nextID[l] + 1
    BY <1>1, NextUp, Zenon
  <2> QED  BY <2>1, <2>2, <2>3, <2>4, Zenon DEF OnItsWay
<1>6. ASSUME NEW m \in DownMsg, In(down'[l], m) PROVE OnItsWay(l, m)'
  <2>1. DownFrom(l, m)
    BY <1>6, DownHolds, Zenon
  <2>2. m \in PlainDown => m.t \notin {"flush", "config"}
    BY Zenon DEF PlainDown
  <2>3. ASSUME NEW c \in Clients, SyncBegin(c), l = by[c], m = Config(c) PROVE OnItsWay(l, m)'
    BY <2>3, AdmittedOnce, LinksAreGens, Zenon DEF OnItsWay, Config
  <2>4. ASSUME NEW d, m = Result(d) PROVE m.t \notin {"flush", "config"}
    BY <2>4, Zenon DEF Result
  <2>5. m.t \notin {"flush", "config"} => OnItsWay(l, m)'
    BY Zenon DEF OnItsWay
  <2> QED  BY <1>4, <1>5, <2>1, <2>2, <2>3, <2>4, <2>5, Zenon DEF DownFrom
<1> QED  BY <1>3, <1>6, Zenon

(* What the edge confirms, and what the core holds for confirmed.          *)
Confirmed(n) ==
  /\ core \in {"serving", "closing"} /\ n <= nextID[dialed]
  /\ \A x \in flushWait[dialed] : x[1] = n => x[2] \in wrote
AckInv ==
  /\ \A c \in Clients : c \in announced \/ sync[c] \in {"acked", "active"} => c \in wrote
  /\ \A n \in Nat : In(out, Flushed(n)) => Confirmed(n)

(* The last message of a sync goes before every flush of its session.      *)
OrderInv ==
  \A l \in Links : \A c \in Clients : c \in wrote \/ ~Reached(c) \/ Ordered(down[l], c)

ConfirmInv == UnservedInv /\ ReadyInv /\ FlushInv /\ OrderInv /\ AckInv

LEMMA OrderStep == ASSUME AdmitInv, ConfirmInv, Next PROVE OrderInv'
<1> SUFFICES ASSUME NEW l \in Links, NEW c \in Clients, c \notin wrote', Reached(c)'
             PROVE  Ordered(down'[l], c)
  BY Zenon DEF OrderInv
<1>1. c \notin wrote
  BY WroteGrows, Zenon
<1>2. down \in [Links -> Seq(DownMsg)]
  BY Zenon DEF AdmitInv, TypeOK, QueueType
<1>3. Ordered(down[l], c)
  <2>1. CASE pc[c] = "ready"
    BY <1>1, <2>1, ReadyStays, Zenon DEF ConfirmInv, OrderInv
  <2>2. CASE pc[c] # "ready"
    <3> SUFFICES ASSUME NEW i \in 1 .. Len(down[l]), FlushOf(down[l][i], c) PROVE FALSE
      BY Zenon DEF Ordered
    <3>1. down[l][i] \in DownMsg /\ In(down[l], down[l][i])
      BY <1>2 DEF In
    <3> QED  BY <2>2, <3>1, Zenon DEF ConfirmInv, FlushInv, OnItsWay, FlushOf
  <2> QED  BY <2>1, <2>2, Zenon
<1>4. ASSUME NEW k \in Links, NEW m \in DownMsg, ~FlushOf(m, c), down' = Sent(k, <<m>>)
      PROVE  Ordered(down'[l], c)
  <2>1. Ordered(down[l] \o <<m>>, c)
    BY <1>2, <1>3, <1>4, JoinOrdered, Zenon
  <2> QED  BY <1>2, <1>3, <1>4, <2>1, Zenon DEF Sent
<1>5. ASSUME NEW m \in PlainDown PROVE m \in DownMsg /\ ~FlushOf(m, c)
  BY Zenon DEF PlainDown, DownMsg, FlushOf
<1>6. ASSUME NEW d \in Clients PROVE Result(d) \in DownMsg /\ ~FlushOf(Result(d), c)
  BY Zenon DEF Result, DownMsg, FlushOf
<1>7. ASSUME NEW k \in Links, NEW d \in Clients, d # c
      PROVE  /\ Config(d) \in DownMsg /\ Flush(d, k) \in DownMsg
             /\ ~FlushOf(Config(d), c) /\ ~FlushOf(Flush(d, k), c)
  <2>1. nextID[k] + 1 \in Nat
    BY FlushTypes, Zenon
  <2> QED  BY <1>7, <2>1, Zenon DEF Config, Flush, DownMsg, FlushOf
<1>8. ASSUME NEW k \in Links PROVE Config(c) \in DownMsg /\ Flush(c, k) \in DownMsg
  <2>1. nextID[k] + 1 \in Nat
    BY FlushTypes, Zenon
  <2> QED  BY <2>1, Zenon DEF Config, Flush, DownMsg
<1>9. \A d \in Clients : sync[d] # None => by[d] \in Links
  BY Zenon DEF AdmitInv, AdmittedBy, Marked
<1>10. DownStep
  BY <1>9, DownSteps, Zenon DEF AdmitInv
<1>11. CASE UNCHANGED down
  BY <1>3, <1>11, Zenon
<1>12. ASSUME NEW k \in Links, auth[k] # << >>, down' = Sent(k, <<Result(auth[k][1])>>)
       PROVE  Ordered(down'[l], c)
  <2>1. auth[k][1] \in Clients
    BY <1>12, Zenon DEF AdmitInv, TypeOK, CoreType
  <2> QED  BY <1>4, <1>6, <1>12, <2>1, Zenon
<1>13. ASSUME NEW d \in Clients, SyncBegin(d),
              down' = Sent(by[d], <<Config(d), Flush(d, by[d])>>)
       PROVE  Ordered(down'[l], c)
  <2>1. by[d] \in Links
    BY <1>9, <1>13, Zenon DEF SyncBegin
  <2>2. Ordered(down[l] \o <<Config(d), Flush(d, by[d])>>, c)
    BY <1>2, <1>3, <1>7, <1>8, <2>1, JoinOrdered, Zenon
  <2> QED  BY <1>2, <1>3, <1>13, <2>1, <2>2, Zenon DEF Sent
<1>14. ASSUME NEW d \in Clients, Kick(d), down' = Sent(by[d], <<Flush(d, by[d])>>)
       PROVE  Ordered(down'[l], c)
  <2>1. sync[d] = "active"
    BY <1>14, Zenon DEF Kick
  <2>2. by[d] \in Links /\ d # c
    BY <1>1, <1>9, <2>1, Zenon DEF ConfirmInv, AckInv
  <2> QED  BY <1>4, <1>7, <1>14, <2>2, Zenon
<1>15. CASE /\ core \in {"dialing", "serving"} /\ down[dialed] # << >>
            /\ down' = [down EXCEPT ![dialed] = Tail(@)]
            /\ Connected \/ ReadAuthResult \/ DeliverControl \/ FlushControl \/ CloseSession
  <2>1. dialed \in Links
    BY <1>15, LinksAreGens, Zenon DEF AdmitInv, TypeOK, EdgeType
  <2>2. ASSUME Head(down[dialed]) = Config(c) PROVE FALSE
    <3>1. Head(down[dialed]).t = "config" /\ Msg.c = c
      BY <2>2 DEF Config, Msg
    <3>2. DeliverControl => c \in wrote'
      <4>1. DeliverControl => /\ wrote' = wrote \cup ({Msg.c} \cap bySession \cap conns \cap open)
                              /\ UNCHANGED <<bySession, conns, open>>
        BY Zenon DEF DeliverControl
      <4> QED  BY <3>1, <4>1, Zenon DEF Reached
    <3>3. ~ReadAuthResult /\ ~FlushControl /\ ~CloseSession
      BY <3>1, Zenon DEF ReadAuthResult, FlushControl, CloseSession, Reading
    <3>4. by[c] = dialed
      <4>1. In(down[dialed], Config(c)) /\ Config(c) \in DownMsg
        BY <1>2, <1>8, <1>15, <2>1, <2>2, TakeIn, Zenon
      <4>2. Config(c).t = "config" /\ Config(c).c = c
        BY Zenon DEF Config
      <4> QED  BY <2>1, <4>1, <4>2 DEF ConfirmInv, FlushInv, OnItsWay
    <3>5. Connected => core = "dialing"
      BY Zenon DEF Connected
    <3> QED  BY <1>15, <2>1, <3>2, <3>3, <3>4, <3>5, Zenon DEF ConfirmInv, UnservedInv
  <2>3. l = dialed => Ordered(Tail(down[l]), c)
    BY <1>2, <1>3, <1>15, <2>2, TakeOrdered, Zenon
  <2> QED  BY <1>2, <1>3, <1>15, <2>3, Zenon
<1>16. CASE down' = [down EXCEPT ![dialed] = << >>]
  <2>1. Ordered(<< >>, c)
    BY DEF Ordered
  <2> QED  BY <1>2, <1>3, <1>16, <2>1, Zenon
<1> QED  BY <1>4, <1>5, <1>10, <1>11, <1>12, <1>13, <1>14, <1>15, <1>16, Zenon DEF DownStep

(* While the edge has a confirmation to send, it stays with its link.      *)
LEMMA CoreStays ==
  ASSUME Next, core \in {"serving", "closing"}, ~Drain
  PROVE  UNCHANGED dialed /\ core' \in {"serving", "closing"}
<1>1. CoreStep => UNCHANGED <<dialed, core>>
  BY CoreKeepsEdge, Zenon
<1>2. EdgeStep \/ Dial \/ DialFails \/ EdgeLoses \/ HeartbeatFails \/ Steal
      => UNCHANGED dialed /\ (UNCHANGED core \/ core' = "closing")
  <2>1. core # "idle" /\ core # "dialing"
    OBVIOUS
  <2> QED  BY <2>1, Zenon DEF EdgeStep, Connected, ReadAuthResult, DeliverControl, FlushControl,
              CloseSession, Dial, DialFails, EdgeLoses, HeartbeatFails, Steal, Drop
<1>3. ASSUME NEW c \in Clients, ClientStep(c) \/ Authenticate(c) \/ Leave(c)
                                \/ Say(c, "control") \/ Say(c, "voice")
      PROVE  UNCHANGED <<dialed, core>>
  BY <1>3, Zenon DEF ClientStep, AuthSend, Answered, Record, ReadySend, DropClose,
     CloseAfterFlush, Authenticate, Leave, Say
<1>4. UNCHANGED dialed /\ (UNCHANGED core \/ core' = "closing")
  BY <1>1, <1>2, <1>3, NextCases, Zenon DEF EdgeSideStep
<1> QED  BY <1>4, Zenon

LEMMA AnnouncedStep ==
  ASSUME AdmitInv, AckInv, Next, NEW c \in Clients,
         c \in announced' \/ sync'[c] \in {"acked", "active"}
  PROVE  c \in wrote'
<1> SUFFICES c \in wrote
  BY WroteGrows, Zenon
<1>1. sync \in [Clients -> {None, "ready", "flushing", "acked", "active",
                           "kicking", "kicked", "over"}]
  BY Zenon DEF AdmitInv, TypeOK, CoreType
<1>2. CASE UNCHANGED <<announced, sync>>
  BY <1>2, Zenon DEF AckInv
<1>3. ASSUME NEW l \in Links, HandleTransportReady(l) PROVE c \in wrote
  <2>1. UNCHANGED announced /\ (UNCHANGED sync \/ \E d : sync' = [sync EXCEPT ![d] = "ready"])
    BY <1>3, Zenon DEF HandleTransportReady
  <2> QED  BY <1>1, <2>1, Zenon DEF AckInv
<1>4. ASSUME NEW l \in Links, HandleControlFlushed(l) PROVE c \in wrote
  <2> DEFINE w == {x \in flushWait[l] : x[1] = Head(out).id}
  <2>1. /\ UNCHANGED announced
        /\ \/ UNCHANGED sync
           \/ sync' = [d \in Clients |-> IF \E x \in w : x[2] = d
                                         THEN Acked(sync[d]) ELSE sync[d]]
    BY <1>4, Zenon DEF HandleControlFlushed
  <2>2. out # << >> /\ Head(out).t = "flushed" /\ conn = l
    BY <1>4, Zenon DEF HandleControlFlushed, Receive
  <2>3. l = dialed
    BY <2>2, LinksAreGens, Zenon DEF AdmitInv, TypeOK, EdgeType
  <2>4. Head(out) \in UpMsg /\ In(out, Head(out))
    BY <2>2, TailElements, TakeIn DEF AdmitInv, TypeOK, QueueType
  <2>5. Head(out).id \in Nat /\ Head(out) = Flushed(Head(out).id)
    BY <2>2, <2>4, Zenon DEF UpMsg, Flushed
  <2>6. \A x \in w : x[2] \in wrote
    BY <2>3, <2>4, <2>5, Zenon DEF AckInv, Confirmed
  <2> HIDE DEF w
  <2>7. CASE \E x \in w : x[2] = c
    BY <2>6, <2>7, Zenon
  <2>8. CASE ~\E x \in w : x[2] = c
    BY <1>1, <2>1, <2>8, Zenon DEF AckInv
  <2> QED  BY <2>7, <2>8, Zenon
<1>5. ASSUME NEW l \in Links, LinkStep(l) \/ CoreLoses(l)
      PROVE  UNCHANGED <<announced, sync>> \/ HandleTransportReady(l) \/ HandleControlFlushed(l)
  BY <1>5, Zenon DEF LinkStep, CoreLoses, ServeHello, CloseOld, RegisterEdge,
     EdgeConnected, RegisterVoiceTransport, HelloAck, EdgeDisconnected, RemoveEdge,
     CleanupOne, HandleAuthRequest, AuthAdd, AuthBind, HandleControlUp, HandleVoiceUp,
     HandleDisconnect
<1>6. ASSUME NEW d \in Clients, SyncBegin(d) \/ SyncGivesUp(d) \/ Kick(d) \/ KickEnds(d)
      PROVE  c \in wrote
  <2>1. UNCHANGED announced /\ \E y : sync' = [sync EXCEPT ![d] = y] /\ y \notin {"acked", "active"}
    BY <1>6, Zenon DEF SyncBegin, SyncGivesUp, Kick, KickEnds
  <2> QED  BY <1>1, <2>1, Zenon DEF AckInv
<1>7. ASSUME NEW d \in Clients, SyncCommit(d) PROVE c \in wrote
  <2>1. /\ sync[d] = "acked" /\ \E y : sync' = [sync EXCEPT ![d] = y]
        /\ UNCHANGED announced \/ announced' = announced \cup {d}
    BY <1>7, Zenon DEF SyncCommit, MayCommit
  <2> QED  BY <1>1, <2>1, Zenon DEF AckInv
<1>8. EdgeSideStep => UNCHANGED <<announced, sync>>
  BY EdgeKeepsCore, Zenon DEF coreOnly
<1> QED  BY <1>2, <1>3, <1>4, <1>5, <1>6, <1>7, <1>8, NextCases, Zenon DEF CoreStep

LEMMA ConfirmedStep ==
  ASSUME AdmitInv, ConfirmInv, Next, NEW n \in Nat, In(out', Flushed(n)) PROVE Confirmed(n)'
<1>1. OutFrom(Flushed(n))
  BY OutHolds, Zenon DEF AdmitInv
<1>2. core # "idle" => dialed \in Links
  BY LinksAreGens, Zenon DEF AdmitInv, TypeOK, EdgeType
<1>3. /\ Flushed(n) \notin PlainUp
      /\ \A c : Flushed(n) # Auth(c) /\ Flushed(n) # Ready(c)
  BY Zenon DEF Flushed, PlainUp, Auth, Ready
<1>4. CASE In(out, Flushed(n))
  <2>1. Confirmed(n)
    BY <1>4, Zenon DEF ConfirmInv, AckInv
  <2>2. ~Drain
    <3>1. Drain => out' = << >>
      BY Zenon DEF Drain
    <3> QED  BY <3>1, EmptyIn, Zenon
  <2>3. UNCHANGED dialed /\ core' \in {"serving", "closing"}
    BY <2>1, <2>2, CoreStays, Zenon DEF Confirmed
  <2>4. dialed \in Links
    BY <1>2, <2>1, Zenon DEF Confirmed
  <2>5. FlushMove(dialed) /\ nextID[dialed] \in Nat /\ flushWait[dialed] \in SUBSET (Nat \X Clients)
    BY <2>4, FlushMoves, Zenon DEF AdmitInv, TypeOK, CoreType
  <2>6. n <= nextID'[dialed] /\ \A x \in flushWait'[dialed] : x[1] = n => x \in flushWait[dialed]
    BY <2>1, <2>5 DEF FlushMove, Confirmed
  <2> QED  BY <2>1, <2>3, <2>6, WroteGrows, Zenon DEF Confirmed
<1>5. CASE FlushControl /\ Flushed(n) = Flushed(Msg.id) /\ UNCHANGED core
           /\ Msg.c \in bySession \cap conns \cap open
  <2>1. n = Msg.id
    BY <1>5, Zenon DEF Flushed
  <2>2. /\ core = "serving" /\ down[dialed] # << >> /\ Msg.t = "flush"
        /\ UNCHANGED <<nextID, flushWait, dialed, wrote>>
    BY <1>5, Zenon DEF FlushControl, Reading, Msg
  <2>3. dialed \in Links /\ down[dialed] \in Seq(DownMsg)
    BY <1>2, <2>2, Zenon DEF AdmitInv, TypeOK, QueueType
  <2>4. Msg \in DownMsg /\ In(down[dialed], Msg) /\ Msg = down[dialed][1] /\ Len(down[dialed]) >= 1
    BY <2>2, <2>3, TailElements, TakeIn DEF Msg
  <2>5. Msg.c \in Clients
    BY <2>2, <2>4, Zenon DEF DownMsg
  <2>6. Msg.c \in wrote
    <3>1. ~Ordered(down[dialed], Msg.c)
      BY <2>2, <2>4 DEF Ordered, FlushOf
    <3> QED  BY <1>5, <2>3, <2>5, <3>1, Zenon DEF ConfirmInv, OrderInv, Reached
  <2>7. OnItsWay(dialed, Msg)
    BY <2>3, <2>4, Zenon DEF ConfirmInv, FlushInv
  <2> QED  BY <1>5, <2>1, <2>2, <2>6, <2>7, Zenon DEF OnItsWay, Confirmed
<1> QED  BY <1>1, <1>3, <1>4, <1>5, Zenon DEF OutFrom

(* The core makes a remote session Active, and announces it, only after    *)
(* the edge has written the last message of its sync to its client: the    *)
(* flush barrier of TransportReadyRemote, whatever flushes of other        *)
(* sessions, kicks, closes and losses come between.                        *)
THEOREM ActiveOnlyConfirmed == Spec => []ActiveConfirmed
<1>1. Init => ConfirmInv
  <2> SUFFICES ASSUME Init PROVE ConfirmInv
    OBVIOUS
  <2>1. /\ \A m : ~In(out, m) /\ \A l \in Links : ~In(down[l], m)
        /\ \A l \in Links, c \in Clients : Ordered(down[l], c)
    BY EmptyIn DEF Init, Ordered
  <2>2. UnservedInv
    BY MaxLinksAssumption DEF Init, UnservedInv, Links
  <2>3. ReadyInv /\ FlushInv
    BY <2>1, Zenon DEF Init, ReadyInv, Marked, FlushInv
  <2>4. OrderInv /\ AckInv
    BY <2>1, Zenon DEF Init, OrderInv, AckInv
  <2> QED  BY <2>2, <2>3, <2>4, Zenon DEF ConfirmInv
<1>2. AdmitInv /\ ConfirmInv /\ [Next]_vars => ConfirmInv'
  <2>1. ASSUME ConfirmInv, UNCHANGED vars PROVE ConfirmInv'
    <3>1. UNCHANGED <<coreVars, queues, edgeVars, history>>
      BY <2>1, Zenon DEF vars
    <3>2. UnservedInv' /\ ReadyInv'
      BY <2>1, <3>1, Zenon DEF ConfirmInv, UnservedInv, ReadyInv, Marked, In
    <3>3. FlushInv'
      BY <2>1, <3>1, ZenonT(30) DEF ConfirmInv, FlushInv, OnItsWay, In
    <3>4. OrderInv' /\ AckInv'
      BY <2>1, <3>1, Zenon DEF ConfirmInv, OrderInv, Ordered, Reached, AckInv, Confirmed, In
    <3> QED  BY <3>2, <3>3, <3>4, Zenon DEF ConfirmInv
  <2>2. ASSUME AdmitInv, ConfirmInv, Next PROVE ConfirmInv'
    <3>1. UnservedInv' /\ ReadyInv' /\ FlushInv' /\ OrderInv'
      BY <2>2, UnservedStep, ReadyStep, FlushStep, OrderStep, Zenon DEF ConfirmInv
    <3>2. AckInv'
      BY <2>2, AnnouncedStep, ConfirmedStep, Zenon DEF ConfirmInv, AckInv
    <3> QED  BY <3>1, <3>2, Zenon DEF ConfirmInv
  <2> QED  BY <2>1, <2>2, Zenon
<1>3. AdmitInv /\ ConfirmInv => ActiveConfirmed
  BY Zenon DEF AdmitInv, TypeOK, CoreType, ConfirmInv, AckInv, ActiveConfirmed
<1> QED  BY <1>1, <1>2, <1>3, InitAdmit, AdmitStep, PTL DEF Spec
=============================================================================
