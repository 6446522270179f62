--------------------------- MODULE VirtualServer ---------------------------
(***************************************************************************)
(* The shared state of one virtual server and the handlers that change it: *)
(* the channel tree and its rows (internal/channel/manager.go), where each *)
(* user is and their voice flags (handlers.go, voicestate.go), channel     *)
(* listeners (listeners.go), the per-channel crypto mode, and the normal   *)
(* voice route over it (audio/router.go).                                  *)
(*                                                                         *)
(* Every manager has a lock of its own and no handler holds one across two *)
(* calls, so a handler is a sequence of atomic steps that interleaves with *)
(* the handlers of the other connections and of the REST API.  Sessions    *)
(* stay connected here: joining and leaving are SessionLifecycle's.        *)
(*                                                                         *)
(* A request that is malformed, not permitted or refused by a full channel *)
(* or a rate limit changes nothing, and is a stuttering step; so does one   *)
(* whose database write fails, where no alternative says more.  The answer *)
(* of a permission check other than Speak is a free choice; Speak is state *)
(* (`speak'), because the suppress flag is derived from it and the voice   *)
(* route asks for it again, for this sender in every channel it scans.     *)
(***************************************************************************)
EXTENDS Naturals, Sequences, FiniteSets

CONSTANTS
    Users,         \* connected sessions
    Rest,          \* the REST API, whose requests run one at a time here
    MaxId,         \* bound on channel identifiers
    SavedRows,     \* possible contents of the channels table at start-up
    Mode,          \* [Users -> the crypto mode the session negotiated]
    Workloads,     \* [kinds, actors, messages]: the requests of one behaviour;
                   \* a UserState message's presence bits are its DOMAIN
    PerUser,       \* cfg.MaxListenersPerUser, 0 for no limit
    PerChannel     \* cfg.MaxChannelListeners, 0 for no limit

ASSUME UsersAssumption == IsFiniteSet(Users) /\ Rest \notin Users
ASSUME LimitsAssumption == MaxId \in Nat /\ PerUser \in Nat /\ PerChannel \in Nat
ASSUME ModeAssumption == Mode \in [Users -> {"lite", "legacy", "secure"}]

VARIABLES
    tree,          \* Manager.tree: live channels, with parent, temp and links
    rows,          \* the channels table
    nextId,        \* the table's AUTOINCREMENT sequence
    user,          \* user.Manager: channel and voice flags
    view,          \* self flags as a connected client saw them broadcast
    listening,     \* listenerManager: pairs <<session, channel>>
    crypto,        \* Server.channelCrypto
    speak,         \* who may Speak where: pairs <<session, channel>>
    h,             \* where each handler is, and its local variables
    work           \* the workload of this behaviour

vars == <<tree, rows, nextId, user, view, listening, crypto, speak, h, work>>

Ids   == 0..MaxId
Procs == Users \cup {Rest}
None  == MaxId + 1
Idle  == [pc |-> "idle"]

\* The table holds a tree, whose root has no parent; Create gives a channel a
\* greater identifier than its parent's, and nothing changes a parent.
SavedTree(r) ==
    /\ DOMAIN r \subseteq Ids
    /\ r \in [DOMAIN r -> [parent : Ids \cup {None}, temp : BOOLEAN, links : SUBSET Ids]]
    /\ \E root \in DOMAIN r :
        /\ r[root].parent = None
        /\ \A c \in DOMAIN r \ {root} : root < c /\ r[c].parent \in DOMAIN r /\ r[c].parent < c

ASSUME SavedAssumption == \A r \in SavedRows : SavedTree(r)

\* Manager.fixRootID: the row without a parent moves to 0, and its children
\* with it, unless a row is at 0 already.
FixRootID(r) ==
    LET roots == {i \in DOMAIN r : r[i].parent = None}
        old   == CHOOSE i \in roots : TRUE
    IN  IF roots = {} \/ 0 \in DOMAIN r THEN r
        ELSE [i \in (DOMAIN r \ {old}) \cup {0} |->
                IF i = 0 THEN r[old]
                ELSE [r[i] EXCEPT !.parent = IF @ = old THEN 0 ELSE @]]

\* Manager.load: root reports parent 0, like its children.
Load(r) == [i \in DOMAIN r |-> [r[i] EXCEPT !.parent = IF @ = None THEN 0 ELSE @]]

Flags == {"mute", "deaf", "selfMute", "selfDeaf", "suppress", "priority"}

SelfFields == {"selfMute", "selfDeaf"}

\* A UserState message: any of the flags, and a channel to move to.
IsMessage(us) ==
    /\ us = [f \in DOMAIN us |-> us[f]] /\ DOMAIN us \subseteq Flags \cup {"channel"}
    /\ \A f \in DOMAIN us : IF f = "channel" THEN us[f] \in Ids ELSE us[f] \in BOOLEAN

ASSUME WorkloadsAssumption == \A w \in Workloads :
    IsFiniteSet(w.actors) /\ \A us \in w.messages : IsMessage(us)

\* A map with one more entry.
With(f, k, v) == [x \in DOMAIN f \cup {k} |-> IF x = k THEN v ELSE f[x]]

Members(c) == {u \in Users : user[u].channel = c}

\* UpdateChannelCrypto's aggregate over the users of a channel.
Aggregate(c) ==
    LET modes == {Mode[u] : u \in Members(c)}
    IN  IF Cardinality(modes) > 1 THEN {"mixed"} ELSE modes

Init ==
    /\ \E r \in SavedRows :
        /\ rows = FixRootID(r)
        /\ nextId = 1 + CHOOSE m \in DOMAIN r : \A i \in DOMAIN r : i <= m
    /\ tree = Load(rows)
    /\ user = [u \in Users |-> [f \in Flags \cup {"channel"} |-> IF f = "channel" THEN 0 ELSE FALSE]]
    /\ view = [u \in Users |-> [f \in SelfFields |-> FALSE]]
    /\ listening = {}
    /\ crypto = [c \in Ids |-> Aggregate(c)]
    /\ speak = Users \X Ids
    /\ h = [p \in Procs |-> Idle]
    /\ work \in Workloads

Starts(p, kind) == h[p] = Idle /\ p \in work.actors /\ kind \in work.kinds
Goto(p, s)      == h' = [h EXCEPT ![p] = s]
At(p, pc)       == h[p].pc = pc

\* CleanEmptyTempChannels keeps Manager.mu from one removal to the next.
TreeFree == \A p \in Procs : ~At(p, "cleaning")

(***************************************************************************)
(* The channel tree.                                                       *)
(***************************************************************************)
Live        == DOMAIN tree
Children(c) == {i \in Live \ {0} : tree[i].parent = c /\ i # c}
Without(f, c) == [i \in DOMAIN f \ {c} |-> f[i]]

\* Manager.Create, from handleChannelState and the REST CreateChannel.
Create(p, parent, temp) ==
    /\ Starts(p, "create") /\ TreeFree
    /\ parent \in Live
    /\ nextId <= MaxId
    /\ LET node == [parent |-> parent, temp |-> temp, links |-> {}]
       IN  rows' = With(rows, nextId, node) /\ tree' = With(tree, nextId, node)
    /\ nextId' = nextId + 1
    /\ UNCHANGED <<user, view, listening, crypto, speak, h, work>>

\* Manager.Update writes the node before the row, so a failed write leaves
\* the two apart in that field.
Update(p, c, temp) ==
    /\ Starts(p, "update") /\ TreeFree
    /\ c \in Live
    /\ p = Rest \/ temp      \* the protocol message can only set the flag
    /\ tree' = [tree EXCEPT ![c].temp = temp]
    /\ \/ rows' = [rows EXCEPT ![c].temp = temp]
       \/ UNCHANGED rows
    /\ UNCHANGED <<nextId, user, view, listening, crypto, speak, h, work>>

\* handleChannelState reads the channel and works out the links it wants.
LinkRead(p, c, add, remove) ==
    /\ Starts(p, "link") /\ TreeFree
    /\ p # Rest
    /\ c \in Live
    /\ c \notin add \ tree[c].links
    /\ Goto(p, [pc |-> "link", ch |-> c, want |-> (tree[c].links \cup add) \ remove])
    /\ UNCHANGED <<tree, rows, nextId, user, view, listening, crypto, speak, work>>

\* Fault: only the channel the request names is rewritten.
RelinkOneSide(c, want) ==
    [i \in Live |-> IF i = c THEN [tree[i] EXCEPT !.links = want] ELSE tree[i]]

\* The links UpdateLinks leaves: `want' at c, and c at the other end of each.
\* Dead links of every channel it rewrites are dropped.
Relink(c, want) ==
    LET inbound == {i \in Live : c \in tree[i].links}
        touched == {c} \cup (tree[c].links \cap Live) \cup want \cup inbound
        kept(i) == (tree[i].links \cap Live) \ {i, c}
    IN  [i \in Live |->
            IF i = c THEN [tree[i] EXCEPT !.links = want]
            ELSE IF i \in touched
            THEN [tree[i] EXCEPT !.links = kept(i) \cup {x \in {c} : i \in want}]
            ELSE tree[i]]

\* Nothing is written when the links already are the ones asked for.
LinksStable(c, want) ==
    /\ (tree[c].links \cap Live) \ {c} = want
    /\ \A i \in Live \ {c} : c \in tree[i].links <=> i \in want

UpdateLinks(c, want) ==
    IF c \in Live /\ want \subseteq Live \ {c} /\ ~LinksStable(c, want)
    THEN /\ tree' = Relink(c, want)
         /\ rows' = [i \in DOMAIN rows |-> [rows[i] EXCEPT !.links = Relink(c, want)[i].links]]
    ELSE UNCHANGED <<tree, rows>>

LinkWrite(p) ==
    /\ At(p, "link") /\ TreeFree
    /\ \/ UpdateLinks(h[p].ch, h[p].want)
       \/ UNCHANGED <<tree, rows>>
    /\ Goto(p, Idle)
    /\ UNCHANGED <<nextId, user, view, listening, crypto, speak, work>>

\* REST UpdateChannel replaces the links outright.
LinkRest(c, want) ==
    /\ Starts(Rest, "link") /\ TreeFree
    /\ c \in Live
    /\ UpdateLinks(c, want)
    /\ UNCHANGED <<nextId, user, view, listening, crypto, speak, h, work>>

\* Fault: the emptiness of the subtree is not looked at.
MayRemoveAny(c) == c \in Live \ {0}

MayRemove(c) == c \in Live \ {0} /\ Children(c) = {}

\* Manager.Remove: the row first, so a failed delete leaves the node.
Remove(c) ==
    IF MayRemove(c)
    THEN tree' = Without(tree, c) /\ rows' = Without(rows, c)
    ELSE UNCHANGED <<tree, rows>>

\* REST DeleteChannel: Manager.Remove and the broadcast, nothing else.
DeleteChannel(c) ==
    /\ Starts(Rest, "delete") /\ TreeFree
    /\ MayRemove(c)
    /\ Remove(c)
    /\ UNCHANGED <<nextId, user, view, listening, crypto, speak, h, work>>

\* CleanEmptyTempChannels, which UnregisterConn runs when some session ends.
\* The head count is taken under user.Manager's lock, not the tree's.
CleanPick(p, c) ==
    /\ \/ Starts(p, "clean") /\ TreeFree
       \/ At(p, "cleaning") /\ h[p].ch = None
    /\ c \in Live \ {0}
    /\ tree[c].temp /\ Children(c) = {} /\ Members(c) = {}
    /\ Goto(p, [pc |-> "cleaning", ch |-> c])
    /\ UNCHANGED <<tree, rows, nextId, user, view, listening, crypto, speak, work>>

CleanRemove(p) ==
    /\ At(p, "cleaning") /\ h[p].ch # None
    /\ Remove(h[p].ch)
    /\ Goto(p, [pc |-> "cleaning", ch |-> None])
    /\ UNCHANGED <<nextId, user, view, listening, crypto, speak, work>>

CleanDone(p) ==
    /\ At(p, "cleaning") /\ h[p].ch = None
    /\ \A c \in Live \ {0} : ~(tree[c].temp /\ Children(c) = {} /\ Members(c) = {})
    /\ Goto(p, Idle)
    /\ UNCHANGED <<tree, rows, nextId, user, view, listening, crypto, speak, work>>

(***************************************************************************)
(* Voice state.                                                            *)
(***************************************************************************)
Has(us, f)      == f \in DOMAIN us
Overlay(vs, us) == [f \in DOMAIN vs |-> IF Has(us, f) THEN us[f] ELSE vs[f]]

\* Fault: un-muting does not synthesise the un-deafen.
CascadeOneWay(us, deaf, mute) ==
    IF Has(us, deaf) /\ us[deaf] THEN With(us, mute, TRUE) ELSE us

\* applySelfVoiceState and applyAdminVoiceState: deafening asks for a mute
\* too, and the request that un-mutes then asks for an un-deafen too.
Cascade(us, deaf, mute) ==
    LET deafened == IF Has(us, deaf) /\ us[deaf] THEN With(us, mute, TRUE) ELSE us
    IN  IF Has(deafened, mute) /\ ~deafened[mute]
        THEN With(deafened, deaf, FALSE)
        ELSE deafened

\* The message after both helpers have rewritten it.
Rewritten(us) == Cascade(Cascade(us, "selfDeaf", "selfMute"), "deaf", "mute")

\* Fault: the message is broadcast as the client sent it.
DeltaAsSent(us) == us

\* The delta that is broadcast: the rewritten message, never a snapshot.
Delta(us) == Rewritten(us)

\* applyChannelEnterEffects.
EnterEffects(vs, maySpeak) ==
    [vs EXCEPT !.priority = FALSE, !.suppress = ~maySpeak]

Recompute(todo, next) == [pc |-> "crypto", todo |-> todo, next |-> next]

\* UpdateChannelCrypto takes the users first and stores the mode later.
CryptoRead(p) ==
    /\ At(p, "crypto")
    /\ h[p].todo # <<>>
    /\ Goto(p, [pc |-> "store", mode |-> Aggregate(Head(h[p].todo)),
                todo |-> h[p].todo, next |-> h[p].next])
    /\ UNCHANGED <<tree, rows, nextId, user, view, listening, crypto, speak, work>>

CryptoStore(p) ==
    /\ At(p, "store")
    /\ crypto' = [crypto EXCEPT ![Head(h[p].todo)] = h[p].mode]
    /\ Goto(p, IF Tail(h[p].todo) = <<>> THEN h[p].next
               ELSE Recompute(Tail(h[p].todo), h[p].next))
    /\ UNCHANGED <<tree, rows, nextId, user, view, listening, speak, work>>

\* Fault: only the channel that was left is looked at again.
MoveTouchesOld(old, new) == <<old>>

MoveTouches(old, new) == <<old, new>>

\* handleUserState: the snapshot of the target, and the checks.  Self fields
\* are for oneself only; a client may clear suppress, never set it.
UserState(p, t, us) ==
    /\ Starts(p, "state")
    /\ p # Rest
    /\ p = t \/ DOMAIN us \cap SelfFields = {}
    /\ ~(Has(us, "suppress") /\ us.suppress)
    /\ Has(us, "channel") =>
        TreeFree /\ us.channel \in Live /\ us.channel # user[t].channel
    /\ Goto(p, [pc |-> IF Has(us, "channel") THEN "move" ELSE "apply",
                us |-> us, who |-> t, old |-> user[t].channel, may |-> TRUE])
    /\ UNCHANGED <<tree, rows, nextId, user, view, listening, crypto, speak, work>>

\* Rows may name those inside or outside a channel, so where u may speak can
\* change with a move; where nobody edits ACLs there are no such rows.
Regrant(u) ==
    IF "acl" \in work.kinds
    THEN \E mine \in SUBSET Ids : speak' = {g \in speak : g[1] # u} \cup ({u} \X mine)
    ELSE UNCHANGED speak

\* users.SetChannel, then the crypto mode of both channels.
MoveUser(p) ==
    /\ At(p, "move")
    /\ user' = [user EXCEPT ![h[p].who].channel = h[p].us.channel]
    /\ Goto(p, Recompute(MoveTouches(h[p].old, h[p].us.channel), [h[p] EXCEPT !.pc = "maySpeak"]))
    /\ Regrant(h[p].who)
    /\ UNCHANGED <<tree, rows, nextId, view, listening, crypto, work>>

MaySpeak(p) ==
    /\ At(p, "maySpeak")
    /\ Goto(p, [h[p] EXCEPT !.pc = "apply", !.may = <<h[p].who, h[p].us.channel>> \in speak])
    /\ UNCHANGED <<tree, rows, nextId, user, view, listening, crypto, speak, work>>

\* users.UpdateUser.
Apply(p) ==
    /\ At(p, "apply")
    /\ LET t     == h[p].who
           flags == Overlay([f \in Flags |-> user[t][f]], Rewritten(h[p].us))
           final == IF Has(h[p].us, "channel") THEN EnterEffects(flags, h[p].may) ELSE flags
       IN  user' = [user EXCEPT ![t] = Overlay(@, final)]
    /\ Goto(p, [h[p] EXCEPT !.pc = "echo"])
    /\ UNCHANGED <<tree, rows, nextId, view, listening, crypto, speak, work>>

\* The broadcast, which every client's control queue keeps in this order.
Echo(p) ==
    /\ At(p, "echo")
    /\ view' = [view EXCEPT ![h[p].who] = Overlay(@, Delta(h[p].us))]
    /\ Goto(p, Idle)
    /\ UNCHANGED <<tree, rows, nextId, user, listening, crypto, speak, work>>

\* REST MuteSession.
MuteSession(t, mute) ==
    /\ Starts(Rest, "mute")
    /\ user' = [user EXCEPT ![t] = Overlay(@, Cascade([mute |-> mute], "deaf", "mute"))]
    /\ UNCHANGED <<tree, rows, nextId, view, listening, crypto, speak, h, work>>

\* An ACL edit over REST, after which Speak is granted to whom and where the
\* rows then say, and the RefreshSuppressStates that follows it: a snapshot of
\* all users, then permission and flag for one after the other.
EditACL(granted) ==
    /\ Starts(Rest, "acl")
    /\ speak' = granted
    /\ Goto(Rest, [pc |-> "refresh", todo |-> [u \in Users |-> user[u].channel]])
    /\ UNCHANGED <<tree, rows, nextId, user, view, listening, crypto, work>>

RefreshRead(u) ==
    /\ At(Rest, "refresh")
    /\ u \in DOMAIN h[Rest].todo
    /\ Goto(Rest, [pc |-> "suppress", todo |-> h[Rest].todo, who |-> u,
                   may |-> <<u, h[Rest].todo[u]>> \in speak])
    /\ UNCHANGED <<tree, rows, nextId, user, view, listening, crypto, speak, work>>

RefreshApply ==
    /\ At(Rest, "suppress")
    /\ user' = [user EXCEPT ![h[Rest].who].suppress = ~h[Rest].may]
    /\ LET left == Without(h[Rest].todo, h[Rest].who)
       IN  Goto(Rest, IF DOMAIN left = {} THEN Idle ELSE [pc |-> "refresh", todo |-> left])
    /\ UNCHANGED <<tree, rows, nextId, view, listening, crypto, speak, work>>

(***************************************************************************)
(* handleChannelRemove: the members, one by one; the listeners; the node.  *)
(***************************************************************************)
RemoveRead(p, c) ==
    /\ Starts(p, "remove") /\ TreeFree
    /\ p # Rest
    /\ c \in Live
    /\ Goto(p, [pc |-> "evict", ch |-> c, parent |-> tree[c].parent, todo |-> Members(c)])
    /\ UNCHANGED <<tree, rows, nextId, user, view, listening, crypto, speak, work>>

Evict(p, u) ==
    /\ At(p, "evict")
    /\ u \in h[p].todo
    /\ user' = [user EXCEPT ![u].channel = h[p].parent]
    /\ Goto(p, [pc |-> "evicted", ch |-> h[p].ch, parent |-> h[p].parent, who |-> u,
                todo |-> h[p].todo \ {u}, may |-> <<u, h[p].parent>> \in speak])
    /\ Regrant(u)
    /\ UNCHANGED <<tree, rows, nextId, view, listening, crypto, work>>

EvictApply(p) ==
    /\ At(p, "evicted")
    /\ user' = [user EXCEPT ![h[p].who] = EnterEffects(@, h[p].may)]
    /\ Goto(p, [pc |-> "evict", ch |-> h[p].ch, parent |-> h[p].parent, todo |-> h[p].todo])
    /\ UNCHANGED <<tree, rows, nextId, view, listening, crypto, speak, work>>

\* listenerManager.RemoveChannel.
RemoveListeners(p) ==
    /\ At(p, "evict")
    /\ h[p].todo = {}
    /\ listening' = {l \in listening : l[2] # h[p].ch}
    /\ Goto(p, [pc |-> "remove", ch |-> h[p].ch, parent |-> h[p].parent])
    /\ UNCHANGED <<tree, rows, nextId, user, view, crypto, speak, work>>

RemoveNode(p) ==
    /\ At(p, "remove") /\ TreeFree
    /\ \/ Remove(h[p].ch)
       \/ UNCHANGED <<tree, rows>>
    /\ Goto(p, Recompute(<<h[p].parent>>, Idle))
    /\ UNCHANGED <<nextId, user, view, listening, crypto, speak, work>>

(***************************************************************************)
(* applyListening: the limits are read before the pair is added.           *)
(***************************************************************************)
Listens(u) == {c \in Ids : <<u, c>> \in listening}

\* Fault: the limit is compared without the pair about to be added.
MayListenLoosely(u, c) == PerUser > 0 => Cardinality(Listens(u)) <= PerUser

MayListen(u, c) ==
    /\ PerChannel > 0 => Cardinality({v \in Users : <<v, c>> \in listening}) + 1 <= PerChannel
    /\ PerUser > 0 => Cardinality(Listens(u)) + 1 <= PerUser

ListenCheck(u, c) ==
    /\ Starts(u, "listen") /\ TreeFree
    /\ c \in Live
    /\ MayListen(u, c)
    /\ Goto(u, [pc |-> "listen", ch |-> c])
    /\ UNCHANGED <<tree, rows, nextId, user, view, listening, crypto, speak, work>>

ListenAdd(u) ==
    /\ At(u, "listen")
    /\ listening' = listening \cup {<<u, h[u].ch>>}
    /\ Goto(u, Idle)
    /\ UNCHANGED <<tree, rows, nextId, user, view, crypto, speak, work>>

ListenRemove(u, c) ==
    /\ Starts(u, "listen")
    /\ <<u, c>> \in listening
    /\ listening' = listening \ {<<u, c>>}
    /\ UNCHANGED <<tree, rows, nextId, user, view, crypto, speak, h, work>>

(***************************************************************************)
(* Normal voice (target 0), as routed at one moment.                       *)
(***************************************************************************)
\* Fault: links are followed only in the direction they are stored.
AdjacentOneWay(a, b) == b \in tree[a].links

Adjacent(a, b) == a # b /\ (b \in tree[a].links \/ a \in tree[b].links)

\* Manager.ConnectedChannelIDs: breadth first, one round of links at a time.
ConnectedChannelIDs(c) ==
    LET seen[n \in 0..MaxId] ==
            IF n = 0 THEN {c}
            ELSE seen[n - 1] \cup {i \in Live : \E j \in seen[n - 1] : Adjacent(j, i)}
    IN  IF c \in Live THEN seen[MaxId] ELSE {}

CanSenderSpeak(s) == ~user[s].mute /\ ~user[s].suppress /\ ~user[s].selfMute

\* The channels RouteRef scans: the sender's own and the ones linked to it,
\* each if this sender may speak in it.
Scanned(s) ==
    {c \in {user[s].channel} \cup ConnectedChannelIDs(user[s].channel) : <<s, c>> \in speak}

Occupants(s) ==
    IF CanSenderSpeak(s)
    THEN {r \in Users \ {s} : user[r].channel \in Scanned(s)}
    ELSE {}

\* RouteRef's recipients: occupants and listeners who are not deafened.
Hearers(s) ==
    LET listeners == {r \in Users \ {s} : CanSenderSpeak(s) /\ Listens(r) \cap Scanned(s) # {}}
    IN  {r \in Occupants(s) \cup listeners : ~user[r].deaf /\ ~user[r].selfDeaf}

(***************************************************************************)
TreeStep(p) ==
    \/ \E c \in Ids, temp \in BOOLEAN : Create(p, c, temp) \/ Update(p, c, temp)
    \/ \E c \in Ids, add, remove \in {{}} \cup {{i} : i \in Ids} : LinkRead(p, c, add, remove)
    \/ \E c \in Ids : CleanPick(p, c) \/ RemoveRead(p, c)
    \/ LinkWrite(p) \/ CleanRemove(p) \/ CleanDone(p)
    \/ \E u \in Users : Evict(p, u)
    \/ EvictApply(p) \/ RemoveListeners(p) \/ RemoveNode(p)

StateStep(p) ==
    \/ \E t \in Users, us \in work.messages : UserState(p, t, us)
    \/ MoveUser(p) \/ MaySpeak(p) \/ Apply(p) \/ Echo(p)
    \/ CryptoRead(p) \/ CryptoStore(p)

RestStep ==
    \/ \E c \in Ids : DeleteChannel(c)
    \/ \E granted \in SUBSET (Users \X Ids) : EditACL(granted)
    \/ \E c \in Ids, want \in SUBSET Ids : LinkRest(c, want)
    \/ \E u \in Users : RefreshRead(u) \/ \E mute \in BOOLEAN : MuteSession(u, mute)
    \/ RefreshApply

ListenStep == \E u \in Users :
    \/ ListenAdd(u)
    \/ \E c \in Ids : ListenCheck(u, c) \/ ListenRemove(u, c)

Next == (\E p \in Procs : TreeStep(p) \/ StateStep(p)) \/ RestStep \/ ListenStep

Spec == Init /\ [][Next]_vars

(***************************************************************************)
(* Properties.                                                             *)
(***************************************************************************)
\* A restart at any moment finds the tree clients were shown: root at 0, every
\* other channel below it, and the same parents and links as in memory (Create,
\* Remove, UpdateLinks and fixRootID write row and node together).
RestartFindsTree ==
    /\ DOMAIN rows = Live /\ 0 \in Live
    /\ \A c \in Live :
        /\ Load(FixRootID(rows))[c].parent = tree[c].parent
        /\ rows[c].links = tree[c].links
        /\ c # 0 => tree[c].parent \in Live /\ tree[c].parent < c

\* A link stored at both ends, or at neither, is never left at one end: every
\* writer goes through UpdateLinks, which also may only repair the one-sided
\* rows an older version wrote.
LinksNeverSplit ==
    [][LET even(t, a, b) == b \in t[a].links <=> a \in t[b].links
       IN  \A a, b \in Live \cap DOMAIN tree' : even(tree, a, b) => even(tree', a, b)]_vars

\* Whoever is deafened is muted, for both kinds of flag, whatever mixture of
\* client, administrator and REST requests set them (voicestate.go).
DeafIsMuted == \A u \in Users :
    /\ user[u].deaf => user[u].mute
    /\ user[u].selfDeaf => user[u].selfMute

\* Once a client's own request is done, every client that applied the deltas
\* broadcast so far knows its self-mute and self-deafen flags exactly.
SelfViewSettles == \A u \in Users :
    h[u] = Idle => \A f \in SelfFields : view[u][f] = user[u][f]

\* No session listens to more channels than the per-user limit, when there is
\* one, although the limit is checked under one lock and the pair added under
\* another.
ListenerLimit == PerUser > 0 => \A u \in Users : Cardinality(Listens(u)) <= PerUser

\* When requests come one after the other, a channel whose users have different
\* crypto modes is recorded as mixed, so its voice is tunnelled.
MixedIsRecorded ==
    (Cardinality(work.actors) = 1 /\ \A p \in Procs : h[p] = Idle) =>
        \A c \in Live : Aggregate(c) = {"mixed"} => crypto[c] = {"mixed"}

\* Two users who may each speak in the other's channel reach each other or not
\* at all, even over links stored at one end only (ConnectedChannelIDs is
\* undirected).  RouteRef asks Speak of the sender, in the channel that hears:
\* between users who are not muted, only unequal grants make a link one-way.
ReachIsMutual == \A s, r \in Users :
    /\ CanSenderSpeak(s) /\ <<s, user[r].channel>> \in speak
    /\ CanSenderSpeak(r) /\ <<r, user[s].channel>> \in speak
    => (r \in Occupants(s) <=> s \in Occupants(r))

\* channel-tree-pattern.md on removing a channel: "Move all users to the parent
\* channel."  When no handler is running every user is in a channel of the tree.
UsersInTree ==
    (\A p \in Procs : h[p] = Idle) => \A u \in Users : user[u].channel \in Live

\* The linked-channel plan's result: without Speak in the channel the sender is
\* in, the whole packet is dropped, so nobody hears it.
DeniedHereUnheard ==
    (\A p \in Procs : h[p] = Idle) =>
        \A u \in Users : <<u, user[u].channel>> \notin speak => Hearers(u) = {}
=============================================================================
