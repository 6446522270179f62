--------------------------- MODULE AccessControl ---------------------------
(***************************************************************************)
(* Channel permissions (internal/acl): the evaluation of ACL rows, groups  *)
(* and selectors along a channel's path, and the evaluator's cache.        *)
(*                                                                         *)
(* permissions() holds no lock while it evaluates.  It notes the           *)
(* evaluator's generation, reads the user, the path and the rows of each   *)
(* channel one after the other, and keeps its result only if the           *)
(* generation is still the same.  Whoever changes the tree, the rows or a  *)
(* user makes the change first and invalidates afterwards.                 *)
(*                                                                         *)
(* Permissions are sets of names.  A row's selector is given parsed.  A    *)
(* user is a set: empty when a subject has no connection.                  *)
(***************************************************************************)
EXTENDS Integers, Sequences, FiniteSets, Functions

CONSTANTS
    Callers,      \* threads that call Check or EffectivePermissions
    Worlds,       \* first states: [tree, acls, people, admins, callers, budget]
    TreeChoices,  \* trees that a change may lead to
    PutChoices,   \* what a PUT may store for a channel: [rows, groups]
    Profiles,     \* what authorizationChanged compares of a user
    ApiIDs,       \* user IDs of API accounts (IsAPIUserID)
    Sessions,     \* session IDs, not 0
    Targets,      \* channels that are asked about
    AccountIDs,   \* accounts that are asked about without a session
    Group         \* name of the group with temporary members

ASSUME AclAssumption ==
    /\ 0 \notin Sessions /\ 0 \notin ApiIDs
    /\ \A w \in Worlds : DOMAIN w.people \subseteq Sessions

VARIABLES
    tree,        \* channel.Manager.tree: ID -> [parent, inherit]
    acls,        \* rows of channel_acls and channel_groups: ID -> [rows, groups]
    people,      \* user.Manager.bySession: session -> [gen, rev, profile]
    temporary,   \* Evaluator.temporary: channel -> [users, sessions] of Group
    admins,      \* API accounts whose role is admin
    cache,       \* Evaluator.cache
    epoch,       \* Evaluator.generation
    pendingInv,  \* changes whose invalidation has not run yet
    calls,       \* the call of each thread
    swap,        \* ReplaceTemporaryMembers
    born,        \* ghost: generations given to users
    budget       \* bound: changes still to come

aclVars == <<tree, acls, people, temporary, admins, cache, epoch, pendingInv, calls, swap, born, budget>>

RootID == 0
RootPermissions == {"Kick", "Ban", "Register", "SelfRegister", "ResetUser"}
DefaultPermissions == {"Traverse", "Enter", "Speak", "Whisper", "TextMessage", "Listen"}
WritePermissions == {"Traverse", "Enter", "MuteDeafen", "Move", "MakeChannel", "LinkChannel",
                     "TextMessage", "MakeTempChannel", "Listen"}
AllPermissions == RootPermissions \cup DefaultPermissions \cup WritePermissions \cup {"Write"}

(***************************************************************************)
(* Paths, groups and selectors.                                            *)
(***************************************************************************)
\* A chain leads from a channel upwards; rows and channels are taken in turn.
Top(chain) == chain[Len(chain)]
Downward(chain) == [i \in DOMAIN chain |-> chain[Len(chain) + 1 - i]]
InTurn(step(_, _), first, s) ==
    LET after[i \in 0..Len(s)] == IF i = 0 THEN first ELSE step(after[i - 1], s[i])
    IN  after[Len(s)]

\* From the channel up to the root, or as far as the parents lead.
OneUp(t, s) ==
    IF s = <<>> \/ Top(s) = RootID \/ t[Top(s)].parent \notin DOMAIN t \ Range(s) THEN s
    ELSE Append(s, t[Top(s)].parent)
AncestorChain(t, c) ==
    LET up[n \in 0..Cardinality(DOMAIN t)] ==
            IF n > 0 THEN OneUp(t, up[n - 1]) ELSE IF c \in DOMAIN t THEN <<c>> ELSE <<>>
    IN  up[Cardinality(DOMAIN t)]

Complete(chain) == chain # <<>> /\ Top(chain) = RootID

TemporaryMatch(w, c, id, u) ==
    /\ c \in DOMAIN w.temporary
    /\ \/ id # 0 /\ id \in w.temporary[c].users
       \/ \E x \in u : <<x.session, x.gen>> \in w.temporary[c].sessions

HasGroup(w, c, name) == name \in DOMAIN w.acls[c].groups \/ (name = Group /\ c \in DOMAIN w.temporary)

\* The group's row, or a row of defaults for one with temporary members only.
GroupAt(w, c, name) ==
    IF name \in DOMAIN w.acls[c].groups THEN w.acls[c].groups[name]
    ELSE [inherit |-> TRUE, inheritable |-> TRUE, add |-> {}, remove |-> {}]

\* The groups that count are those up to the first that does not inherit and
\* below the first, other than the context's own, that is not inheritable.
Stack(g) == {i \in DOMAIN g : /\ \A j \in DOMAIN g : j <= i => (j = 1 \/ g[j].inheritable)
                              /\ \A j \in DOMAIN g : j < i => g[j].inherit}
GroupsOn(w, chain, name) ==
    [i \in {i \in DOMAIN chain : HasGroup(w, chain[i], name)} |-> GroupAt(w, chain[i], name)]

\* The innermost group that names the user decides, and it removes last.
Says(w, g, i, c, id, name, u) ==
    IF id # 0 /\ id \in g[i].remove THEN "remove"
    ELSE IF \/ id # 0 /\ id \in g[i].add
            \/ name = Group /\ TemporaryMatch(w, c, id, u) THEN "add" ELSE "nothing"
Adds(says) == \E i \in DOMAIN says :
    says[i] = "add" /\ \A j \in DOMAIN says : says[j] # "nothing" => i <= j
InGroups(w, g, chain, id, name, u) == Adds([i \in Stack(g) |-> Says(w, g, i, chain[i], id, name, u)])
MemberAlong(w, chain, id, name, u) == InGroups(w, GroupsOn(w, chain, name), chain, id, name, u)
StoredGroup(w, id, name, context, u) == MemberAlong(w, AncestorChain(w.tree, context), id, name, u)

\* "sub,min,lo,hi": the user is lo to hi levels below the channel that lies
\* min levels under the context on the path to the target.
Below(path, home, at, s) ==
    \E req \in {IF at - 1 + s.min < 0 THEN 0 ELSE at - 1 + s.min} :
        /\ req < Len(path) /\ path[req + 1] \in Range(home)
        /\ Len(home) - 1 \in (req + s.lo)..(req + s.hi)
MatchSub(w, s, target, context, u) ==
    \E x \in u, path \in {Downward(AncestorChain(w.tree, target))} :
        \E at \in {i \in DOMAIN path : path[i] = context} :
            Below(path, AncestorChain(w.tree, x.profile.channel), at, s)

\* definition is the channel that has the row.  A row without a name matches
\* nobody, inverted or not.
MatchSelector(w, s, id, target, definition, u) ==
    LET context == IF s.here THEN definition ELSE target
        match == CASE s.kind \in {"none", "empty"} -> FALSE
                   [] s.kind = "all"    -> TRUE
                   [] s.kind = "auth"   -> id # 0
                   [] s.kind = "token"  -> \E x \in u : s.name \in x.profile.tokens
                   [] s.kind = "cert"   -> \E x \in u : s.name = x.profile.cert
                   [] s.kind = "strong" -> \E x \in u : x.profile.verified
                   [] s.kind = "in"     -> \E x \in u : x.profile.channel = context
                   [] s.kind = "out"    -> \A x \in u : x.profile.channel # context
                   [] s.kind = "sub"    -> MatchSub(w, s, target, context, u)
                   [] s.kind = "user"   -> id # 0 /\ s.name = id
                   [] s.kind = "group"  ->
                        \/ \E x \in u : s.name \in x.profile.external
                        \/ IF s.name = "admin" /\ id \in ApiIDs THEN w.admin
                           ELSE StoredGroup(w, id, s.name, context, u)
    IN  s.kind # "empty" /\ match # s.invert

\* A group is looked up on the path of a channel that is gone.
SelectorFails(w, s, id, target, definition, u) ==
    /\ s.kind = "group"
    /\ ~\E x \in u : s.name \in x.profile.external
    /\ ~(s.name = "admin" /\ id \in ApiIDs)
    /\ ~Complete(AncestorChain(w.tree, IF s.here THEN definition ELSE target))

(***************************************************************************)
(* evaluate, over the path from the root.  view[c] is what was read when   *)
(* it was channel c's turn; def are the permissions everybody starts with. *)
(***************************************************************************)
\* Fault: a row that is inherited only also applies to its own channel.
ApplyRowWidely(acc, row, c, target) ==
    LET apply == (c = target /\ (row.here \/ row.subs)) \/ (c # target /\ row.subs)
        flag(old, p) == IF ~apply THEN old
                        ELSE IF p \in row.deny THEN FALSE ELSE IF p \in row.grant THEN TRUE ELSE old
    IN  [acc EXCEPT !.traverse = flag(@, "Traverse"), !.write = flag(@, "Write"),
                    !.granted = IF apply THEN (@ \cup row.grant) \ row.deny ELSE @]

ApplyRow(acc, row, c, target) ==
    LET self == c = target /\ row.here
        inherited == c # target /\ row.subs
        apply == self \/ inherited
        flag(old, p, on) ==
            IF ~on THEN old
            ELSE IF p \in row.deny THEN FALSE ELSE IF p \in row.grant THEN TRUE ELSE old
        grant == (IF c = RootID /\ self THEN row.grant \cap RootPermissions ELSE {})
                 \cup (IF apply THEN row.grant \ RootPermissions ELSE {})
    IN  [acc EXCEPT !.traverse = flag(@, "Traverse", inherited \/ row.here),
                    !.write = flag(@, "Write", apply),
                    !.granted = (@ \cup grant) \ (IF apply THEN row.deny ELSE {})]

\* One channel: `status' is "denied" once neither Traverse nor Write is left,
\* "error" if a channel is gone.
Judged(acc) == IF ~acc.traverse /\ ~acc.write THEN [acc EXCEPT !.status = "denied"] ELSE acc
Channel(acc, w, c, id, target, u, def) ==
    IF acc.status # "go" THEN acc
    ELSE IF \/ c \notin DOMAIN w.tree
            \/ \E row \in Range(w.acls[c].rows) : SelectorFails(w, row.who, id, target, c, u)
    THEN [acc EXCEPT !.status = "error"]
    ELSE Judged(InTurn(LAMBDA a, row : IF MatchSelector(w, row.who, id, target, c, u)
                                       THEN ApplyRow(a, row, c, target) ELSE a,
                       IF w.tree[c].inherit THEN acc ELSE [acc EXCEPT !.granted = def],
                       w.acls[c].rows))

\* Write brings the other permissions of a channel, at the root all of them.
WithWrite(granted, target) ==
    granted \cup (IF "Write" \in granted THEN WritePermissions ELSE {})
            \cup (IF "Write" \in granted /\ target = RootID THEN RootPermissions ELSE {})
Outcome(acc, target) ==
    [ok |-> acc.status # "error",
     perms |-> IF acc.status = "go" THEN WithWrite(acc.granted, target) ELSE {}]
Walk(view, chain, id, target, u, def) ==
    InTurn(LAMBDA a, c : Channel(a, view[c], c, id, target, u, def),
           [granted |-> def, traverse |-> TRUE, write |-> "Write" \in def, status |-> "go"],
           Downward(chain))
Defaults(admin) == DefaultPermissions \cup IF admin THEN {"Write"} ELSE {}
Evaluate(view, chain, id, target, u) ==
    Outcome(Walk(view, chain, id, target, u, Defaults(view[RootID].admin)), target)

(***************************************************************************)
(* The evaluator's state.                                                  *)
(***************************************************************************)
\* What is read at a channel's turn for a subject with this user ID.
World(id) == [tree |-> tree, acls |-> acls, temporary |-> temporary,
              admin |-> id \in ApiIDs /\ id \in admins]

Person(s) == [session |-> s, gen |-> people[s].gen, rev |-> people[s].rev, profile |-> people[s].profile]
SubjectOf(s) == [session |-> s, id |-> people[s].profile.id, gen |-> people[s].gen]
SubjectForUserID(id) == [session |-> 0, id |-> id, gen |-> 0]

\* resolveUser: a subject with a session needs the very connection, or one of
\* the same user ID if it names no generation.
Known(sub) ==
    \/ sub.session = 0
    \/ /\ sub.session \in DOMAIN people /\ sub.id = people[sub.session].profile.id
       /\ sub.gen \in {0, people[sub.session].gen}
Resolved(sub) == IF sub.session = 0 THEN {} ELSE {Person(sub.session)}

\* A connected subject is cached under the generation that was found.
Key(sub, target, u) ==
    [subject |-> IF u = {} THEN sub
                 ELSE CHOOSE of \in {[session |-> x.session, id |-> x.profile.id, gen |-> x.gen] : x \in u} : TRUE,
     channel |-> target, rev |-> {x.rev : x \in u}]

NoCall == [pc |-> "idle"]
Absent == [pc |-> "absent"]   \* a thread that calls nothing
NoSwap == [pc |-> "idle"]

AclStart(w) ==
    /\ tree = w.tree /\ acls = w.acls /\ budget = w.budget /\ admins = w.admins
    /\ people = [s \in DOMAIN w.people |-> [gen |-> s, rev |-> 1, profile |-> w.people[s]]]
    /\ calls = [t \in Callers |-> IF t \in w.callers THEN NoCall ELSE Absent]
    /\ temporary = [c \in {} |-> {}]
    /\ born = Cardinality(DOMAIN people)
    /\ cache = [k \in {} |-> {}] /\ epoch = 0 /\ pendingInv = {}
    /\ swap = NoSwap
AclInit == \E w \in Worlds : AclStart(w)

(***************************************************************************)
(* permissions.  `clean' is a ghost: no change, and no invalidation still  *)
(* to come, since the call began.                                          *)
(***************************************************************************)
Call(t, sub, target, useCache) ==
    /\ calls[t].pc \in {"idle", "done"}
    /\ calls' = [calls EXCEPT ![t] =
           [pc |-> "resolve", sub |-> sub, target |-> target,
            cached |-> useCache /\ sub.id \notin ApiIDs, epoch |-> epoch,
            user |-> {}, chain |-> <<>>, view |-> [c \in {} |-> {}], answer |-> {},
            clean |-> pendingInv = {}]]
    /\ UNCHANGED <<tree, acls, people, temporary, admins, cache, epoch, pendingInv, swap, born, budget>>

Answer(t, perms) == [calls[t] EXCEPT !.pc = "done", !.answer = perms]
Again(t) == [calls[t] EXCEPT !.pc = "resolve", !.epoch = epoch, !.user = {}, !.chain = <<>>,
                             !.view = [c \in {} |-> {}]]

\* The superuser has everything but the voice permissions.
ResolveUser(t) ==
    LET call == calls[t]
        u == Resolved(call.sub)
    IN  /\ call.pc = "resolve"
        /\ calls' = [calls EXCEPT ![t] =
               IF ~Known(call.sub) THEN Answer(t, {})
               ELSE IF \E x \in u : x.profile.super THEN Answer(t, AllPermissions \ {"Speak", "Whisper"})
               ELSE [call EXCEPT !.pc = IF call.cached THEN "lookup" ELSE "chain", !.user = u]]
        /\ UNCHANGED <<tree, acls, people, temporary, admins, cache, epoch, pendingInv, swap, born, budget>>

LookUp(t) ==
    LET call == calls[t]
        key == Key(call.sub, call.target, call.user)
    IN  /\ call.pc = "lookup"
        /\ calls' = [calls EXCEPT ![t] =
               IF call.epoch # epoch THEN Again(t)
               ELSE IF key \in DOMAIN cache THEN Answer(t, cache[key])
               ELSE [call EXCEPT !.pc = "chain"]]
        /\ UNCHANGED <<tree, acls, people, temporary, admins, cache, epoch, pendingInv, swap, born, budget>>

ReadChain(t) ==
    LET call == calls[t]
        chain == AncestorChain(tree, call.target)
    IN  /\ call.pc = "chain"
        /\ calls' = [calls EXCEPT ![t] =
               IF ~Complete(chain) THEN Answer(t, {})
               ELSE [call EXCEPT !.pc = "read", !.chain = chain]]
        /\ UNCHANGED <<tree, acls, people, temporary, admins, cache, epoch, pendingInv, swap, born, budget>>

\* The rows of the next channel, from the root down.  (After an early denial
\* the code reads no further; what would be read does not matter then.)
ReadChannel(t, c) ==
    LET call == calls[t]
    IN  /\ call.pc = "read"
        /\ c \in Range(call.chain) \ DOMAIN call.view
        /\ \A i, j \in DOMAIN call.chain :
               call.chain[i] = c /\ i < j => call.chain[j] \in DOMAIN call.view
        /\ calls' = [calls EXCEPT ![t].view =
               [d \in DOMAIN call.view \cup {c} |-> IF d = c THEN World(call.sub.id) ELSE call.view[d]]]
        /\ UNCHANGED <<tree, acls, people, temporary, admins, cache, epoch, pendingInv, swap, born, budget>>

Evaluated(call) == Evaluate(call.view, call.chain, call.sub.id, call.target, call.user)
CacheWith(key, perms) ==
    cache' = [k \in DOMAIN cache \cup {key} |-> IF k = key THEN perms ELSE cache[k]]
AllRead(call) == call.pc = "read" /\ DOMAIN call.view = Range(call.chain)

\* Fault: the result is kept whatever happened during the evaluation.
KeepAlways(t, r) ==
    /\ calls' = [calls EXCEPT ![t] = Answer(t, r.perms)]
    /\ IF r.ok /\ calls[t].cached
       THEN CacheWith(Key(calls[t].sub, calls[t].target, calls[t].user), r.perms) ELSE UNCHANGED cache

Settle(t, r) ==
    /\ calls' = [calls EXCEPT ![t] = IF r.ok /\ calls[t].epoch # epoch THEN Again(t) ELSE Answer(t, r.perms)]
    /\ IF r.ok /\ calls[t].epoch = epoch /\ calls[t].cached
       THEN CacheWith(Key(calls[t].sub, calls[t].target, calls[t].user), r.perms) ELSE UNCHANGED cache

StoreResult(t) ==
    /\ AllRead(calls[t])
    /\ Settle(t, Evaluated(calls[t]))
    /\ UNCHANGED <<tree, acls, people, temporary, admins, epoch, pendingInv, swap, born, budget>>

(***************************************************************************)
(* The changes, and the invalidation that follows each of them.            *)
(***************************************************************************)
Changed == [t \in Callers |-> IF calls[t].pc \in {"idle", "absent"} THEN calls[t] ELSE [calls[t] EXCEPT !.clean = FALSE]]

Change == budget > 0 /\ budget' = budget - 1 /\ calls' = Changed
Owe(what) == pendingInv' = pendingInv \cup {<<what, budget>>}

\* PUT of a channel's ACL: one transaction, then OnACLChange.
PutACL(c, choice) ==
    /\ Change /\ acls' = [acls EXCEPT ![c] = choice] /\ Owe(<<"rows">>)
    /\ UNCHANGED <<tree, people, temporary, admins, cache, epoch, swap, born>>

\* Create, Update and Remove of channel.Manager, then its listeners.
ChangeTree(to) ==
    /\ Change /\ to # tree /\ tree' = to /\ Owe(<<"tree">>)
    /\ UNCHANGED <<acls, people, temporary, admins, cache, epoch, swap, born>>

\* user.Manager: a new session has a new generation, and nobody is told.
AddUser(s, profile) ==
    /\ Change /\ s \notin DOMAIN people
    /\ people' = [x \in DOMAIN people \cup {s} |->
                     IF x = s THEN [gen |-> born + 1, rev |-> 1, profile |-> profile] ELSE people[x]]
    /\ born' = born + 1
    /\ UNCHANGED <<tree, acls, temporary, admins, cache, epoch, pendingInv, swap>>

ChangeUser(s, profile) ==
    /\ Change /\ s \in DOMAIN people /\ people[s].profile # profile
    /\ people' = [people EXCEPT ![s].profile = profile, ![s].rev = @ + 1]
    /\ Owe(<<"user">>)
    /\ UNCHANGED <<tree, acls, temporary, admins, cache, epoch, swap, born>>

RemoveUser(s) ==
    /\ Change /\ s \in DOMAIN people
    /\ people' = [x \in DOMAIN people \ {s} |-> people[x]]
    /\ Owe(<<"gone", s, people[s].gen>>)
    /\ UNCHANGED <<tree, acls, temporary, admins, cache, epoch, swap, born>>

\* UpdateUserRole of an API account: such subjects are not cached.
SetRole(id) ==
    /\ Change /\ admins' = IF id \in admins THEN admins \ {id} ELSE admins \cup {id}
    /\ UNCHANGED <<tree, acls, people, temporary, cache, epoch, pendingInv, swap, born>>

\* The listeners: NewEvaluator, ClearSessionMembers.
Keep(what, c) == what[1] = "tree" => c \in DOMAIN tree
Cleared(what, members) ==
    IF what[1] = "gone" THEN [members EXCEPT !.sessions = @ \ {<<what[2], what[3]>>}] ELSE members

Invalidate(p) ==
    LET left == [c \in DOMAIN temporary |-> Cleared(p[1], temporary[c])]
    IN  /\ p \in pendingInv /\ pendingInv' = pendingInv \ {p}
        /\ temporary' = [c \in {d \in DOMAIN left :
                             /\ Keep(p[1], d)
                             /\ p[1][1] = "gone" => left[d].users # {} \/ left[d].sessions # {}} |-> left[c]]
        /\ epoch' = epoch + 1 /\ cache' = [k \in {} |-> {}]
        /\ UNCHANGED <<tree, acls, people, admins, calls, swap, born, budget>>

\* InvalidateCache by those who do not wait for a listener: an authentication,
\* a move, a channel removal, a change of an API account (invalidateACLCache,
\* OnAuthorizationChange).
InvalidateCache ==
    /\ budget > 0 /\ budget' = budget - 1
    /\ epoch' = epoch + 1 /\ cache' = [k \in {} |-> {}]
    /\ UNCHANGED <<tree, acls, people, temporary, admins, pendingInv, calls, swap, born>>

(***************************************************************************)
(* ReplaceTemporaryMembers.                                                *)
(***************************************************************************)
SwapStart(c, ids, sessions) ==
    /\ swap.pc = "idle" /\ budget > 0 /\ budget' = budget - 1
    /\ swap' = [pc |-> "bind", channel |-> c, ids |-> ids, who |-> {SubjectOf(s) : s \in sessions},
                epoch |-> epoch, sessions |-> {}]
    /\ UNCHANGED <<tree, acls, people, temporary, admins, cache, epoch, pendingInv, calls, born>>

SwapBind ==
    /\ swap.pc = "bind"
    /\ swap' = IF swap.channel \in DOMAIN tree /\ \A sub \in swap.who : sub.session # 0 /\ Known(sub)
               THEN [swap EXCEPT !.pc = "write", !.sessions = {<<sub.session, people[sub.session].gen>> : sub \in swap.who}]
               ELSE NoSwap
    /\ UNCHANGED <<tree, acls, people, temporary, admins, cache, epoch, pendingInv, calls, born, budget>>

\* Fault: the generation is not compared.
SwapWriteAlways ==
    /\ swap.pc = "write"
    /\ temporary' = [c \in DOMAIN temporary \cup {swap.channel} |->
                        IF c = swap.channel THEN [users |-> swap.ids \ {0}, sessions |-> swap.sessions]
                        ELSE temporary[c]]
    /\ epoch' = epoch + 1 /\ cache' = [k \in {} |-> {}]
    /\ calls' = Changed /\ swap' = NoSwap
    /\ UNCHANGED <<tree, acls, people, admins, pendingInv, born, budget>>

SwapWrite ==
    /\ swap.pc = "write"
    /\ IF swap.epoch # epoch
       THEN /\ swap' = [swap EXCEPT !.pc = "bind", !.epoch = epoch, !.sessions = {}]
            /\ UNCHANGED <<temporary, epoch, cache, calls>>
       ELSE /\ temporary' = [c \in DOMAIN temporary \cup {swap.channel} |->
                  IF c = swap.channel THEN [users |-> swap.ids \ {0}, sessions |-> swap.sessions]
                  ELSE temporary[c]]
            /\ epoch' = epoch + 1 /\ cache' = [k \in {} |-> {}]
            /\ calls' = Changed /\ swap' = NoSwap
    /\ UNCHANGED <<tree, acls, people, admins, pendingInv, born, budget>>

\* canSenderSpeakInChannel names no generation.
AnyGeneration(s) == [SubjectOf(s) EXCEPT !.gen = 0]
Subjects == UNION {{SubjectOf(s), AnyGeneration(s)} : s \in DOMAIN people}
            \cup {SubjectForUserID(id) : id \in AccountIDs}

AclNext ==
    \/ \E t \in Callers, sub \in Subjects, target \in Targets, useCache \in BOOLEAN :
          Call(t, sub, target, useCache)
    \/ \E t \in Callers : \/ ResolveUser(t) \/ LookUp(t) \/ ReadChain(t) \/ StoreResult(t)
                          \/ \E c \in DOMAIN acls : ReadChannel(t, c)
    \/ \E c \in DOMAIN acls, choice \in PutChoices : PutACL(c, choice)
    \/ \E to \in TreeChoices : ChangeTree(to)
    \/ \E s \in Sessions, p \in Profiles : AddUser(s, p) \/ ChangeUser(s, p)
    \/ \E s \in Sessions : RemoveUser(s)
    \/ \E id \in ApiIDs : SetRole(id)
    \/ \E p \in pendingInv : Invalidate(p)
    \/ InvalidateCache
    \/ \E c \in DOMAIN acls, S \in SUBSET DOMAIN people : SwapStart(c, {}, S)
    \/ SwapBind \/ SwapWrite

AclSpec == AclInit /\ [][AclNext]_aclVars

(***************************************************************************)
(* Properties.                                                             *)
(***************************************************************************)
\* The permissions as they are now, evaluated with nothing in between.
Fresh(sub, target) ==
    LET u == Resolved(sub)
        chain == AncestorChain(tree, target)
    IN  IF ~Known(sub) THEN {}
        ELSE IF \E x \in u : x.profile.super THEN AllPermissions \ {"Speak", "Whisper"}
        ELSE IF ~Complete(chain) THEN {}
        ELSE Evaluate([c \in Range(chain) |-> World(sub.id)], chain, sub.id, target, u).perms

\* A call that began when every earlier change had been invalidated, and
\* during which nothing changed, gives the permissions as they are: no
\* interleaving of evaluations, changes and invalidations leaves an outdated
\* answer in the cache (permissions, invalidateLocked).
AnswersFresh ==
    \A t \in Callers :
        calls[t].pc = "done" /\ calls[t].clean => calls[t].answer = Fresh(calls[t].sub, calls[t].target)

\* A temporary group member is a connected session, of that very generation,
\* or the listener that will drop it has yet to run: the clean-up of a
\* disconnect cannot run ahead of a replacement that still adds the session
\* (ReplaceTemporaryMembers: group.go:242).
TemporaryMembersLive ==
    \A c \in DOMAIN temporary : \A m \in temporary[c].sessions :
        \/ m[1] \in DOMAIN people /\ people[m[1]].gen = m[2]
        \/ \E p \in pendingInv : p[1] = <<"gone", m[1], m[2]>>

\* The rule evaluate is written for, stated without a walk: of the rows that
\* match, in order from the root, the last one that mentions a permission
\* decides it.
RulePath(target) == Downward(AncestorChain(tree, target))
Matching(path, sub, target, u) ==
    UNION {{[level |-> i, index |-> j, row |-> acls[path[i]].rows[j]] :
               j \in {k \in DOMAIN acls[path[i]].rows :
                        MatchSelector(World(sub.id), acls[path[i]].rows[k].who, sub.id, target, path[i], u)}} :
           i \in DOMAIN path}
NotAfter(x, y) == x.level < y.level \/ (x.level = y.level /\ x.index <= y.index)
Decides(S) == {x \in S : \A y \in S : NotAfter(y, x)}
Mentioning(S, p) == {x \in S : p \in x.row.grant \cup x.row.deny}
LastAllows(S, p, otherwise) ==
    \/ Mentioning(S, p) = {} /\ otherwise
    \/ \E x \in Decides(Mentioning(S, p)) : p \notin x.row.deny

\* Rows in force at the target, the last level of a path of n; and those of
\* them on the chain that starts at the last channel that does not inherit,
\* the only ones that count in docs/patterns/acl-evaluation-pattern.md:55-59.
InForce(rows, n) == {x \in rows : IF x.level = n THEN x.row.here ELSE x.row.subs}
OnChain(rows, path) ==
    {x \in InForce(rows, Len(path)) : \A i \in DOMAIN path : ~tree[path[i]].inherit => i <= x.level}

\* Where the code departs from that chain, as its comment has it ("InheritACL
\* must not be implemented by cutting the ancestors off"): the rows of the
\* whole path decide Traverse and Write, and where neither is left nothing is.
Passable(rows, n, i, def) ==
    \/ LastAllows({x \in rows : x.level <= i /\ (x.row.here \/ (x.level < n /\ x.row.subs))}, "Traverse", TRUE)
    \/ LastAllows({x \in InForce(rows, n) : x.level <= i}, "Write", "Write" \in def)
\* A server-wide permission can be granted at the root only, but denied anywhere.
GrantedBy(rows, path, def) ==
    {p \in AllPermissions \ RootPermissions : LastAllows(OnChain(rows, path), p, p \in def)}
    \cup {p \in RootPermissions : Len(path) = 1 /\ LastAllows(InForce(rows, 1), p, FALSE)}
RuleOn(rows, path, target, def) ==
    IF path = <<>> \/ path[1] # RootID \/ \E i \in DOMAIN path : ~Passable(rows, Len(path), i, def) THEN {}
    ELSE WithWrite(GrantedBy(rows, path, def), target)
Rule(sub, target) ==
    RuleOn(Matching(RulePath(target), sub, target, Resolved(sub)), RulePath(target), target,
           Defaults(World(sub.id).admin))

\* evaluate computes that rule, for every subject and channel.  It is the rule
\* of the code and of the comment above evaluate, and departs from the
\* repository's documents in three places: a denial of Traverse and Write above
\* a channel that does not inherit still counts below it
\* (acl-evaluation-pattern.md:55 cuts the path there); the server-wide
\* permissions come from the root's own rows only; and Write brings neither
\* Speak nor Whisper (docs/protocol/permissions.md:15 and 42: "all other").
\* A call under way changes nothing the rule reads, so it is stated between
\* calls.
EvaluateFollowsRule ==
    (\A t \in Callers : calls[t].pc \in {"idle", "absent"}) =>
    \A sub \in Subjects : \A target \in DOMAIN acls :
        (Known(sub) /\ \A x \in Resolved(sub) : ~x.profile.super) => Fresh(sub, target) = Rule(sub, target)
=============================================================================
