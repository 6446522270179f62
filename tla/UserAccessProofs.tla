-------------------------- MODULE UserAccessProofs --------------------------
(***************************************************************************)
(* Proofs about the two registries of the server: who is connected         *)
(* (UserManager) and what they may do (AccessControl).                     *)
(*                                                                         *)
(* AccessControl, for every set of callers, every tree, every set of rows  *)
(* and profiles, and any number of changes: the members of temporary       *)
(* groups are live, and the cache never gives an outdated answer.  How     *)
(* permissions are evaluated does not matter for either, so Evaluate and   *)
(* AncestorChain are never expanded.                                       *)
(*                                                                         *)
(* UserManager, for any names, grants and number of users: the inductive   *)
(* invariant adds one fact to the invariants TLC checks, that the pool has *)
(* never drawn more than MaxUsers fresh IDs.  A fresh ID is drawn only     *)
(* when the free list is empty; then every ID drawn before is in use, and  *)
(* there are fewer than MaxUsers of these when Add lets a user in.         *)
(***************************************************************************)
EXTENDS AccessControl, UserManager, FiniteSetTheorems, TLAPS

(***************************************************************************)
(* Temporary members.                                                      *)
(***************************************************************************)
\* A member that is connected, or whose clean-up has yet to run.
Accounted(m) ==
    \/ m[1] \in DOMAIN people /\ people[m[1]].gen = m[2]
    \/ \E p \in pendingInv : p[1] = <<"gone", m[1], m[2]>>

PeopleShape == \A s \in DOMAIN people : s \in Sessions /\ DOMAIN people[s] = {"gen", "rev", "profile"}

TemporaryShape ==
    \A c \in DOMAIN temporary :
        /\ DOMAIN temporary[c] = {"users", "sessions"}
        /\ \A m \in temporary[c].sessions : m = <<m[1], m[2]>>

SwapShape ==
    /\ epoch \in Nat
    /\ \/ swap = NoSwap
       \/ /\ DOMAIN swap = {"pc", "channel", "ids", "who", "epoch", "sessions"}
          /\ swap.pc \in {"bind", "write"} /\ swap.epoch \in Nat /\ swap.epoch <= epoch
          /\ \A m \in swap.sessions : m = <<m[1], m[2]>>

\* What a replacement is about to write is accounted for as long as its
\* generation is the evaluator's: a clean-up that has run has moved on the
\* generation.
SwapCurrent == swap.pc = "write" /\ swap.epoch = epoch => \A m \in swap.sessions : Accounted(m)

TemporaryInv ==
    /\ PeopleShape /\ TemporaryShape /\ SwapShape /\ SwapCurrent
    /\ \A c \in DOMAIN temporary : \A m \in temporary[c].sessions : Accounted(m)

LEMMA TemporaryInit == AclInit => TemporaryInv
<1>1. SUFFICES ASSUME NEW w \in Worlds, AclStart(w) PROVE TemporaryInv
  BY Zenon DEF AclInit
<1>2. PeopleShape
  BY <1>1, AclAssumption, Zenon DEF AclStart, PeopleShape
<1>3. TemporaryShape /\ SwapShape /\ SwapCurrent /\ DOMAIN temporary = {}
  BY <1>1, Zenon DEF AclStart, TemporaryShape, SwapShape, SwapCurrent, NoSwap
<1>. QED  BY <1>2, <1>3, Zenon DEF TemporaryInv

\* The steps that touch neither the users nor the groups nor the replacement.
LEMMA TemporaryFrame ==
    ASSUME TemporaryInv, UNCHANGED <<people, temporary, swap, epoch>>, pendingInv \subseteq pendingInv'
    PROVE  TemporaryInv'
<1>1. \A m : Accounted(m) => Accounted(m)'
  BY Zenon DEF Accounted
<1>2. SwapCurrent'
  BY <1>1, Zenon DEF TemporaryInv, SwapCurrent
<1>3. PeopleShape' /\ TemporaryShape' /\ SwapShape'
  BY Zenon DEF TemporaryInv, PeopleShape, TemporaryShape, SwapShape
<1>4. \A c \in DOMAIN temporary' : \A m \in temporary'[c].sessions : Accounted(m)'
  BY <1>1, Zenon DEF TemporaryInv
<1>. QED  BY <1>2, <1>3, <1>4, Zenon DEF TemporaryInv

\* A change of the users that leaves every account accounted for.
LEMMA TemporaryPeople ==
    ASSUME TemporaryInv, UNCHANGED <<temporary, swap, epoch>>, PeopleShape',
           \A m : Accounted(m) => Accounted(m)'
    PROVE  TemporaryInv'
<1>1. SwapCurrent'
  BY Zenon DEF TemporaryInv, SwapCurrent
<1>2. TemporaryShape' /\ SwapShape'
  BY Zenon DEF TemporaryInv, TemporaryShape, SwapShape
<1>3. \A c \in DOMAIN temporary' : \A m \in temporary'[c].sessions : Accounted(m)'
  BY Zenon DEF TemporaryInv
<1>. QED  BY <1>1, <1>2, <1>3, Zenon DEF TemporaryInv

LEMMA TemporaryAddUser ==
    ASSUME TemporaryInv, NEW s \in Sessions, NEW profile, AddUser(s, profile)
    PROVE  TemporaryInv'
<1>1. PeopleShape'
  BY Zenon DEF TemporaryInv, PeopleShape, AddUser
<1>2. \A m : Accounted(m) => Accounted(m)'
  BY Zenon DEF AddUser, Accounted
<1>. QED  BY <1>1, <1>2, TemporaryPeople, Zenon DEF AddUser

LEMMA TemporaryChangeUser ==
    ASSUME TemporaryInv, NEW s \in Sessions, NEW profile, ChangeUser(s, profile)
    PROVE  TemporaryInv'
<1>1. DOMAIN people' = DOMAIN people
  BY Zenon DEF ChangeUser
<1>2. \A x \in DOMAIN people : DOMAIN people'[x] = DOMAIN people[x] /\ people'[x].gen = people[x].gen
  BY Zenon DEF ChangeUser, TemporaryInv, PeopleShape
<1>3. PeopleShape'
  BY <1>1, <1>2, Zenon DEF TemporaryInv, PeopleShape
<1>4. \A m : Accounted(m) => Accounted(m)'
  BY <1>1, <1>2, Zenon DEF ChangeUser, Owe, Accounted
<1>. QED  BY <1>3, <1>4, TemporaryPeople, Zenon DEF ChangeUser

LEMMA TemporaryRemoveUser ==
    ASSUME TemporaryInv, NEW s \in Sessions, RemoveUser(s)
    PROVE  TemporaryInv'
<1>1. PeopleShape'
  BY Zenon DEF TemporaryInv, PeopleShape, RemoveUser
<1>2. <<<<"gone", s, people[s].gen>>, budget>> \in pendingInv' /\ pendingInv \subseteq pendingInv'
  BY Zenon DEF RemoveUser, Owe
<1>3. ASSUME NEW m, Accounted(m) PROVE Accounted(m)'
  <2>1. CASE m[1] = s /\ people[s].gen = m[2]
    BY <1>2, <2>1, Zenon DEF Accounted
  <2>2. CASE ~(m[1] = s /\ people[s].gen = m[2])
    BY <1>2, <1>3, <2>2, Zenon DEF Accounted, RemoveUser
  <2>. QED  BY <2>1, <2>2, Zenon
<1>. QED  BY <1>1, <1>3, TemporaryPeople, Zenon DEF RemoveUser

LEMMA TemporaryInvalidate ==
    ASSUME TemporaryInv, NEW p \in pendingInv, Invalidate(p)
    PROVE  TemporaryInv'
<1>1. PeopleShape' /\ SwapShape' /\ SwapCurrent'
  BY DEF TemporaryInv, PeopleShape, SwapShape, SwapCurrent, Invalidate, NoSwap
<1>2. \A c \in DOMAIN temporary' : /\ c \in DOMAIN temporary
                                   /\ temporary'[c] = Cleared(p[1], temporary[c])
  BY Zenon DEF Invalidate
<1>3. ASSUME NEW c \in DOMAIN temporary'
      PROVE  /\ DOMAIN temporary'[c] = {"users", "sessions"}
             /\ \A m \in temporary'[c].sessions :
                    m \in temporary[c].sessions /\ p[1] # <<"gone", m[1], m[2]>>
  BY <1>2, <1>3 DEF Cleared, TemporaryInv, TemporaryShape
<1>4. TemporaryShape'
  BY <1>2, <1>3, Zenon DEF TemporaryInv, TemporaryShape
<1>5. ASSUME NEW c \in DOMAIN temporary', NEW m \in temporary'[c].sessions
      PROVE  Accounted(m)'
  <2>1. Accounted(m) /\ p[1] # <<"gone", m[1], m[2]>>
    BY <1>2, <1>3, Zenon DEF TemporaryInv
  <2>2. people' = people /\ pendingInv' = pendingInv \ {p}
    BY Zenon DEF Invalidate
  <2>. QED  BY <2>1, <2>2, Zenon DEF Accounted
<1>. QED  BY <1>1, <1>4, <1>5, Zenon DEF TemporaryInv

LEMMA TemporarySwap ==
    ASSUME TemporaryInv, SwapBind \/ SwapWrite \/ \E c \in DOMAIN acls, S \in SUBSET DOMAIN people : SwapStart(c, {}, S)
    PROVE  TemporaryInv'
<1>1. UNCHANGED <<people, pendingInv>>
  BY Zenon DEF SwapBind, SwapWrite, SwapStart
<1>2. PeopleShape' /\ \A m : Accounted(m) <=> Accounted(m)'
  BY <1>1, Zenon DEF TemporaryInv, PeopleShape, Accounted
<1>3. CASE \E c \in DOMAIN acls, S \in SUBSET DOMAIN people : SwapStart(c, {}, S)
  <2>1. temporary' = temporary /\ SwapShape' /\ SwapCurrent'
    BY <1>3 DEF TemporaryInv, SwapStart, SwapShape, SwapCurrent
  <2>. QED  BY <1>2, <2>1, Zenon DEF TemporaryInv, TemporaryShape
<1>4. CASE SwapBind
  <2>1. temporary' = temporary /\ SwapShape'
    BY <1>4 DEF TemporaryInv, SwapBind, SwapShape, NoSwap
  <2>2. SwapCurrent'
    <3>1. SUFFICES ASSUME swap'.pc = "write", NEW m \in swap'.sessions PROVE Accounted(m)
      BY <1>2, Zenon DEF SwapCurrent
    <3>2. PICK sub \in swap.who : /\ m = <<sub.session, people[sub.session].gen>>
                                  /\ sub.session # 0 /\ Known(sub)
      BY <1>4, <3>1 DEF SwapBind, NoSwap, TemporaryInv, SwapShape
    <3>3. sub.session \in DOMAIN people
      BY <3>2 DEF Known
    <3>. QED  BY <3>2, <3>3, Zenon DEF Accounted
  <2>. QED  BY <1>2, <2>1, <2>2, Zenon DEF TemporaryInv, TemporaryShape
<1>5. CASE SwapWrite
  <2>1. SwapShape' /\ SwapCurrent'
    <3>1. CASE swap.epoch # epoch
      <4>1. /\ swap.pc = "write" /\ epoch' = epoch
            /\ swap' = [swap EXCEPT !.pc = "bind", !.epoch = epoch, !.sessions = {}]
        BY <1>5, <3>1, Zenon DEF SwapWrite
      <4>2. /\ DOMAIN swap = {"pc", "channel", "ids", "who", "epoch", "sessions"}
            /\ epoch \in Nat
        BY <4>1 DEF TemporaryInv, SwapShape, NoSwap
      <4>3. /\ DOMAIN swap' = {"pc", "channel", "ids", "who", "epoch", "sessions"}
            /\ swap'.pc = "bind" /\ swap'.epoch = epoch /\ swap'.sessions = {}
        BY <4>1, <4>2, Zenon
      <4>. QED  BY <4>1, <4>2, <4>3 DEF SwapShape, SwapCurrent
    <3>2. CASE swap.epoch = epoch
      BY <1>5, <3>2 DEF TemporaryInv, SwapWrite, SwapShape, SwapCurrent, NoSwap
    <3>. QED  BY <3>1, <3>2, Zenon
  <2>2. CASE temporary' = temporary
    BY <1>2, <2>1, <2>2, Zenon DEF TemporaryInv, TemporaryShape
  <2>3. CASE temporary' # temporary
    <3>1. /\ swap.epoch = epoch /\ swap.pc = "write"
          /\ \A c \in DOMAIN temporary' :
                \/ DOMAIN temporary'[c] = {"users", "sessions"} /\ temporary'[c].sessions = swap.sessions
                \/ c \in DOMAIN temporary /\ temporary'[c] = temporary[c]
      BY <1>5, <2>3 DEF SwapWrite
    <3>2. \A m \in swap.sessions : Accounted(m) /\ m = <<m[1], m[2]>>
      BY <3>1 DEF TemporaryInv, SwapCurrent, SwapShape, NoSwap
    <3>3. TemporaryShape'
      BY <3>1, <3>2, Zenon DEF TemporaryInv, TemporaryShape
    <3>4. \A c \in DOMAIN temporary' : \A m \in temporary'[c].sessions : Accounted(m)'
      BY <1>2, <3>1, <3>2, Zenon DEF TemporaryInv
    <3>. QED  BY <1>2, <2>1, <3>3, <3>4, Zenon DEF TemporaryInv
  <2>. QED  BY <2>2, <2>3, Zenon
<1>. QED  BY <1>3, <1>4, <1>5, Zenon

\* The members of temporary groups are connected, or their clean-up is still
\* to come, whatever replacements, disconnects and clean-ups overlap.
THEOREM TemporaryMembers == AclSpec => []TemporaryMembersLive
<1>1. ASSUME TemporaryInv, [AclNext]_aclVars PROVE TemporaryInv'
  <2>1. CASE UNCHANGED aclVars
    BY <1>1, <2>1, TemporaryFrame, Zenon DEF aclVars
  <2>2. CASE \E t \in Callers, sub \in Subjects, target \in Targets, useCache \in BOOLEAN :
                 Call(t, sub, target, useCache)
    BY <1>1, <2>2, TemporaryFrame, Zenon DEF Call
  <2>3. CASE \E t \in Callers : \/ ResolveUser(t) \/ LookUp(t) \/ ReadChain(t) \/ StoreResult(t)
                                \/ \E c \in DOMAIN acls : ReadChannel(t, c)
    BY <1>1, <2>3, TemporaryFrame, Zenon DEF ResolveUser, LookUp, ReadChain, StoreResult, ReadChannel
  <2>4. CASE \/ \E c \in DOMAIN acls, choice \in PutChoices : PutACL(c, choice)
             \/ \E to \in TreeChoices : ChangeTree(to)
             \/ \E id \in ApiIDs : SetRole(id)
    BY <1>1, <2>4, TemporaryFrame, Zenon DEF PutACL, ChangeTree, SetRole, Owe
  <2>5. CASE \E s \in Sessions, p \in Profiles : AddUser(s, p) \/ ChangeUser(s, p)
    BY <1>1, <2>5, TemporaryAddUser, TemporaryChangeUser, Zenon
  <2>6. CASE \E s \in Sessions : RemoveUser(s)
    BY <1>1, <2>6, TemporaryRemoveUser, Zenon
  <2>7. CASE \E p \in pendingInv : Invalidate(p)
    BY <1>1, <2>7, TemporaryInvalidate, Zenon
  <2>8. CASE InvalidateCache
    <3>1. UNCHANGED <<people, temporary, swap, pendingInv>> /\ epoch' = epoch + 1
      BY <2>8, Zenon DEF InvalidateCache
    <3>2. SwapShape' /\ SwapCurrent'
      BY <1>1, <3>1 DEF TemporaryInv, SwapShape, SwapCurrent, NoSwap
    <3>3. PeopleShape' /\ TemporaryShape' /\ \A m : Accounted(m) => Accounted(m)'
      BY <1>1, <3>1, Zenon DEF TemporaryInv, PeopleShape, TemporaryShape, Accounted
    <3>. QED  BY <1>1, <3>1, <3>2, <3>3, Zenon DEF TemporaryInv
  <2>9. CASE \/ SwapBind \/ SwapWrite
             \/ \E c \in DOMAIN acls, S \in SUBSET DOMAIN people : SwapStart(c, {}, S)
    BY <1>1, <2>9, TemporarySwap, Zenon
  <2>. QED  BY <1>1, <2>1, <2>2, <2>3, <2>4, <2>5, <2>6, <2>7, <2>8, <2>9, Zenon DEF AclNext
<1>2. TemporaryInv => TemporaryMembersLive
  BY Zenon DEF TemporaryInv, TemporaryMembersLive, Accounted
<1>. QED  BY <1>1, <1>2, TemporaryInit, PTL DEF AclSpec

(***************************************************************************)
(* The cache.                                                              *)
(***************************************************************************)
CallFields == {"pc", "sub", "target", "cached", "epoch", "user", "chain", "view", "answer", "clean"}

CallShape(c) ==
    /\ DOMAIN c = CallFields
    /\ c.pc \in {"resolve", "lookup", "chain", "read", "done"}
    /\ c.epoch \in Nat /\ c.clean \in BOOLEAN
    /\ c.cached => c.sub.id \notin ApiIDs
    /\ c.pc \in {"resolve", "lookup", "chain"} => c.view = [d \in {} |-> {}]

\* What a call has read is what there is now if nothing changed since it
\* began, and, for the subjects that are cached, also if every change was
\* made before it noted the generation that still is the evaluator's.
UpToDate(c) == c.clean \/ (c.sub.id \notin ApiIDs /\ c.epoch = epoch /\ pendingInv = {})

Current(c) ==
    /\ c.pc \in {"lookup", "chain", "read"} =>
           /\ Known(c.sub) /\ c.user = Resolved(c.sub) /\ \A x \in c.user : ~x.profile.super
    /\ c.pc = "read" =>
           /\ c.chain = AncestorChain(tree, c.target) /\ Complete(c.chain)
           /\ c.view = [d \in DOMAIN c.view |-> World(c.sub.id)]

CallGood(c) ==
    /\ CallShape(c) /\ c.epoch <= epoch
    /\ c.clean => pendingInv = {}
    /\ UpToDate(c) => Current(c)
    /\ c.pc = "done" /\ c.clean => c.answer = Fresh(c.sub, c.target)

CallsGood ==
    /\ DOMAIN calls = Callers
    /\ \A t \in Callers : \A c : calls[t] = c => c = NoCall \/ c = Absent \/ CallGood(c)

\* With no invalidation outstanding every entry is right.
CacheGood ==
    pendingInv = {} =>
        \A k \in DOMAIN cache :
            k.subject.id \notin ApiIDs /\ Known(k.subject) /\ cache[k] = Fresh(k.subject, k.channel)

CacheInv == epoch \in Nat /\ CallsGood /\ CacheGood

LEMMA CacheInit == AclInit => CacheInv
<1>1. SUFFICES ASSUME NEW w \in Worlds, AclStart(w) PROVE CacheInv
  BY Zenon DEF AclInit
<1>2. epoch \in Nat /\ CallsGood
  BY <1>1, Zenon DEF AclStart, CallsGood
<1>3. CacheGood
  BY <1>1, Zenon DEF AclStart, CacheGood
<1>. QED  BY <1>2, <1>3, Zenon DEF CacheInv

\* Fresh depends on the tree and on what is known of the subject.
LEMMA FreshSame ==
    ASSUME NEW sub, NEW target, tree' = tree, Known(sub), Known(sub)', Resolved(sub)' = Resolved(sub),
           World(sub.id)' = World(sub.id)
    PROVE  Fresh(sub, target)' = Fresh(sub, target)
BY Zenon DEF Fresh

\* The key a result is kept under stands for the subject it was asked for,
\* named with its generation or without.
LEMMA KeyStands ==
    ASSUME NEW sub, NEW target, NEW u, u = Resolved(sub), Known(sub), NEW k, k = Key(sub, target, u)
    PROVE  /\ k.channel = target /\ k.subject.id = sub.id /\ Known(k.subject)
           /\ Fresh(k.subject, target) = Fresh(sub, target)
<1>1. k.channel = target
  BY Zenon DEF Key
<1>2. CASE sub.session = 0
  <2>1. k.subject = sub
    BY <1>2, Zenon DEF Key, Resolved
  <2>. QED  BY <1>1, <2>1, Zenon
<1>3. CASE sub.session # 0
  <2>1. sub.session \in DOMAIN people /\ sub.id = people[sub.session].profile.id
    BY <1>3, Zenon DEF Known
  <2>2. PICK p : p = Person(sub.session)
    OBVIOUS
  <2>3. p.session = sub.session /\ p.profile = people[sub.session].profile /\ p.gen = people[sub.session].gen
    BY <2>2, Zenon DEF Person
  <2>4. Resolved(sub) = {p}
    BY <1>3, <2>2, Zenon DEF Resolved
  <2>5. {[session |-> x.session, id |-> x.profile.id, gen |-> x.gen] : x \in Resolved(sub)}
          = {[session |-> p.session, id |-> p.profile.id, gen |-> p.gen]}
    BY <2>4, Zenon
  <2>6. k.subject \in {[session |-> x.session, id |-> x.profile.id, gen |-> x.gen] : x \in Resolved(sub)}
    BY <2>4, <2>5, Zenon DEF Key
  <2>7. k.subject = [session |-> p.session, id |-> p.profile.id, gen |-> p.gen]
    BY <2>5, <2>6, Zenon
  <2>8. k.subject.session = sub.session /\ k.subject.id = sub.id /\ k.subject.gen = people[sub.session].gen
    <3>1. PICK q : q = k.subject
      OBVIOUS
    <3>2. q.session = p.session /\ q.id = p.profile.id /\ q.gen = p.gen
      BY <2>7, <3>1
    <3>. QED  BY <2>1, <2>3, <3>1, <3>2, Zenon
  <2>9. Known(k.subject) /\ Resolved(k.subject) = Resolved(sub)
    BY <1>3, <2>1, <2>8, Zenon DEF Known, Resolved
  <2>10. Fresh(k.subject, target) = Fresh(sub, target)
    BY <2>8, <2>9, Zenon DEF Fresh
  <2>. QED  BY <1>1, <2>8, <2>9, <2>10, Zenon
<1>. QED  BY <1>2, <1>3, Zenon

LEMMA SameData ==
    ASSUME UNCHANGED <<tree, acls, people, temporary, admins>>
    PROVE  \A sub : /\ Known(sub)' <=> Known(sub)
                    /\ Resolved(sub)' = Resolved(sub)
                    /\ World(sub.id)' = World(sub.id)
                    /\ \A target : Fresh(sub, target)' = Fresh(sub, target)
<1>1. \A sub : /\ Known(sub)' <=> Known(sub)
               /\ Resolved(sub)' = Resolved(sub)
               /\ World(sub.id)' = World(sub.id)
  BY Zenon DEF Known, Resolved, Person, World
<1>2. \A sub, target : Fresh(sub, target)' = Fresh(sub, target)
  BY <1>1 DEF Fresh
<1>. QED  BY <1>1, <1>2, Zenon

LEMMA CallFrame ==
    ASSUME UNCHANGED <<tree, acls, people, temporary, admins, epoch, pendingInv>>
    PROVE  \A c : CallGood(c) => CallGood(c)'
<1>1. SUFFICES ASSUME NEW c, CallGood(c) PROVE CallGood(c)'
  OBVIOUS
<1>2. UpToDate(c)' <=> UpToDate(c)
  BY Zenon DEF UpToDate
<1>3. Current(c) => Current(c)'
  BY SameData, Zenon DEF Current
<1>4. Fresh(c.sub, c.target)' = Fresh(c.sub, c.target)
  BY SameData, Zenon
<1>. QED  BY <1>1, <1>2, <1>3, <1>4, Zenon DEF CallGood

LEMMA CacheFrame ==
    ASSUME CacheGood, UNCHANGED <<tree, acls, people, temporary, admins, pendingInv, cache>>
    PROVE  CacheGood'
BY SameData, Zenon DEF CacheGood

\* A step of one call that changes nothing the evaluation reads.
LEMMA OneCall ==
    ASSUME CacheInv, NEW t \in Callers, NEW r, calls' = [calls EXCEPT ![t] = r], CallGood(r),
           UNCHANGED <<tree, acls, people, temporary, admins, epoch, pendingInv>>, CacheGood'
    PROVE  CacheInv'
<1>1. ASSUME NEW o \in Callers, NEW c, calls'[o] = c
      PROVE  c = NoCall \/ c = Absent \/ CallGood(c)'
  <2>1. c = NoCall \/ c = Absent \/ CallGood(c)
    BY <1>1, Zenon DEF CacheInv, CallsGood
  <2>. QED  BY <2>1, CallFrame, Zenon
<1>2. DOMAIN calls' = Callers /\ epoch' \in Nat
  BY Zenon DEF CacheInv, CallsGood
<1>. QED  BY <1>1, <1>2, Zenon DEF CacheInv, CallsGood

\* The call under way of a thread.
LEMMA CallOf ==
    ASSUME CacheInv, NEW t \in Callers, NEW c, c = calls[t], c.pc \notin {"idle", "absent"}
    PROVE  CallGood(c)
BY DEF CacheInv, CallsGood, NoCall, Absent

LEMMA CacheCall ==
    ASSUME CacheInv, NEW t \in Callers, NEW sub, NEW target, NEW useCache \in BOOLEAN,
           Call(t, sub, target, useCache)
    PROVE  CacheInv'
<1>1. PICK r : r = [pc |-> "resolve", sub |-> sub, target |-> target,
                    cached |-> useCache /\ sub.id \notin ApiIDs, epoch |-> epoch,
                    user |-> {}, chain |-> <<>>, view |-> [c \in {} |-> {}], answer |-> {},
                    clean |-> pendingInv = {}]
  BY Zenon
<1>2. CallShape(r) /\ r.epoch = epoch /\ r.pc = "resolve" /\ (r.clean => pendingInv = {})
  BY <1>1, Zenon DEF CallShape, CallFields, CacheInv
<1>3. CallGood(r)
  BY <1>2 DEF CallGood, Current, CacheInv
<1>4. CacheGood'
  BY CacheFrame, Zenon DEF CacheInv, Call
<1>. QED  BY <1>1, <1>3, <1>4, OneCall, Zenon DEF Call

LEMMA CacheResolve ==
    ASSUME CacheInv, NEW t \in Callers, ResolveUser(t)
    PROVE  CacheInv'
<1>1. PICK c : c = calls[t]
  OBVIOUS
<1>2. CallGood(c) /\ c.pc = "resolve"
  BY <1>1, CallOf, Zenon DEF ResolveUser
<1>3. CacheGood'
  BY CacheFrame, Zenon DEF CacheInv, ResolveUser
<1>4. CASE ~Known(c.sub) \/ \E x \in Resolved(c.sub) : x.profile.super
  <2>1. PICK r : /\ r = [c EXCEPT !.pc = "done", !.answer = Fresh(c.sub, c.target)]
                 /\ calls' = [calls EXCEPT ![t] = r]
    BY <1>1, <1>4, Zenon DEF ResolveUser, Answer, Fresh
  <2>2. CallGood(r)
    BY <1>2, <2>1, Zenon DEF CallGood, CallShape, CallFields, UpToDate, Current
  <2>. QED  BY <1>3, <2>1, <2>2, OneCall, Zenon DEF ResolveUser
<1>5. CASE Known(c.sub) /\ \A x \in Resolved(c.sub) : ~x.profile.super
  <2>1. PICK r : /\ r = [c EXCEPT !.pc = IF c.cached THEN "lookup" ELSE "chain", !.user = Resolved(c.sub)]
                 /\ calls' = [calls EXCEPT ![t] = r]
    BY <1>1, <1>5, Zenon DEF ResolveUser
  <2>2. CallShape(r) /\ r.sub = c.sub /\ r.user = Resolved(c.sub) /\ r.pc \in {"lookup", "chain"}
        /\ r.epoch = c.epoch /\ r.clean = c.clean
    BY <1>2, <2>1, Zenon DEF CallGood, CallShape, CallFields
  <2>3. CallGood(r)
    BY <1>2, <1>5, <2>2, Zenon DEF CallGood, UpToDate, Current
  <2>. QED  BY <1>3, <2>1, <2>3, OneCall, Zenon DEF ResolveUser
<1>. QED  BY <1>4, <1>5, Zenon

\* Starting over, with the generation of now.
LEMMA AgainGood ==
    ASSUME CacheInv, NEW t \in Callers, NEW r, r = Again(t), NEW c, c = calls[t], CallGood(c)
    PROVE  CallGood(r)
<1>1. CallShape(r) /\ r.epoch = epoch /\ r.pc = "resolve" /\ r.clean = c.clean
  BY Zenon DEF Again, CallGood, CallShape, CallFields, CacheInv
<1>. QED  BY <1>1 DEF CallGood, Current, CacheInv

\* An answer that is right if the call is clean.
LEMMA AnswerGood ==
    ASSUME NEW t \in Callers, NEW perms, NEW r, r = Answer(t, perms), NEW c, c = calls[t], CallGood(c),
           c.clean => perms = Fresh(c.sub, c.target)
    PROVE  CallGood(r)
<1>1. CallShape(r) /\ r.epoch = c.epoch /\ r.pc = "done" /\ r.clean = c.clean /\ r.answer = perms
      /\ r.sub = c.sub /\ r.target = c.target
  BY Zenon DEF Answer, CallGood, CallShape, CallFields
<1>. QED  BY <1>1, Zenon DEF CallGood, Current

LEMMA CacheLookUp ==
    ASSUME CacheInv, NEW t \in Callers, LookUp(t)
    PROVE  CacheInv'
<1>1. PICK c : c = calls[t]
  OBVIOUS
<1>2. CallGood(c) /\ c.pc = "lookup"
  BY <1>1, CallOf, Zenon DEF LookUp
<1>3. CacheGood'
  BY CacheFrame, Zenon DEF CacheInv, LookUp
<1>4. CASE c.epoch # epoch
  <2>1. PICK r : r = Again(t) /\ calls' = [calls EXCEPT ![t] = r]
    BY <1>1, <1>4, Zenon DEF LookUp
  <2>2. CallGood(r)
    BY <1>1, <1>2, <2>1, AgainGood, Zenon
  <2>. QED  BY <1>3, <2>1, <2>2, OneCall, Zenon DEF LookUp
<1>5. CASE c.epoch = epoch /\ Key(c.sub, c.target, c.user) \in DOMAIN cache
  <2>1. PICK perms, r : /\ perms = cache[Key(c.sub, c.target, c.user)] /\ r = Answer(t, perms)
                        /\ calls' = [calls EXCEPT ![t] = r]
    BY <1>1, <1>5, Zenon DEF LookUp
  <2>2. c.clean => perms = Fresh(c.sub, c.target)
    <3>1. SUFFICES ASSUME c.clean PROVE perms = Fresh(c.sub, c.target)
      OBVIOUS
    <3>2. pendingInv = {} /\ Known(c.sub) /\ c.user = Resolved(c.sub)
      BY <1>2, <3>1, Zenon DEF CallGood, UpToDate, Current
    <3>3. PICK k : k = Key(c.sub, c.target, c.user)
      OBVIOUS
    <3>4. k.channel = c.target /\ Fresh(k.subject, c.target) = Fresh(c.sub, c.target)
      BY <3>2, <3>3, KeyStands
    <3>5. cache[k] = Fresh(k.subject, k.channel)
      BY <1>5, <3>2, <3>3, Zenon DEF CacheInv, CacheGood
    <3>. QED  BY <2>1, <3>3, <3>4, <3>5, Zenon
  <2>3. CallGood(r)
    BY <1>1, <1>2, <2>1, <2>2, AnswerGood
  <2>. QED  BY <1>3, <2>1, <2>3, OneCall, Zenon DEF LookUp
<1>6. CASE c.epoch = epoch /\ Key(c.sub, c.target, c.user) \notin DOMAIN cache
  <2>1. PICK r : r = [c EXCEPT !.pc = "chain"] /\ calls' = [calls EXCEPT ![t] = r]
    BY <1>1, <1>6, Zenon DEF LookUp
  <2>2. CallShape(r) /\ r.sub = c.sub /\ r.user = c.user /\ r.pc = "chain"
        /\ r.epoch = c.epoch /\ r.clean = c.clean
    BY <1>2, <2>1, Zenon DEF CallGood, CallShape, CallFields
  <2>3. CallGood(r)
    BY <1>2, <2>2, Zenon DEF CallGood, UpToDate, Current
  <2>. QED  BY <1>3, <2>1, <2>3, OneCall, Zenon DEF LookUp
<1>. QED  BY <1>4, <1>5, <1>6, Zenon

LEMMA CacheReadChain ==
    ASSUME CacheInv, NEW t \in Callers, ReadChain(t)
    PROVE  CacheInv'
<1>1. PICK c : c = calls[t]
  OBVIOUS
<1>2. CallGood(c) /\ c.pc = "chain"
  BY <1>1, CallOf, Zenon DEF ReadChain
<1>3. CacheGood'
  BY CacheFrame, Zenon DEF CacheInv, ReadChain
<1>4. CASE ~Complete(AncestorChain(tree, c.target))
  <2>1. PICK r : r = Answer(t, {}) /\ calls' = [calls EXCEPT ![t] = r]
    BY <1>1, <1>4, Zenon DEF ReadChain
  <2>2. c.clean => {} = Fresh(c.sub, c.target)
    BY <1>2, <1>4, Zenon DEF CallGood, UpToDate, Current, Fresh
  <2>3. CallGood(r)
    BY <1>1, <1>2, <2>1, <2>2, AnswerGood, Zenon
  <2>. QED  BY <1>3, <2>1, <2>3, OneCall, Zenon DEF ReadChain
<1>5. CASE Complete(AncestorChain(tree, c.target))
  <2>1. PICK r : /\ r = [c EXCEPT !.pc = "read", !.chain = AncestorChain(tree, c.target)]
                 /\ calls' = [calls EXCEPT ![t] = r]
    BY <1>1, <1>5, Zenon DEF ReadChain
  <2>2. CallShape(r) /\ r.sub = c.sub /\ r.target = c.target /\ r.user = c.user /\ r.pc = "read"
        /\ r.epoch = c.epoch /\ r.clean = c.clean /\ r.chain = AncestorChain(tree, c.target)
        /\ r.view = c.view
    BY <1>2, <2>1, Zenon DEF CallGood, CallShape, CallFields
  <2>3. c.view = [d \in DOMAIN c.view |-> World(c.sub.id)]
    BY <1>2, Zenon DEF CallGood, CallShape
  <2>4. CallGood(r)
    BY <1>2, <1>5, <2>2, <2>3 DEF CallGood, UpToDate, Current
  <2>. QED  BY <1>3, <2>1, <2>4, OneCall, Zenon DEF ReadChain
<1>. QED  BY <1>4, <1>5, Zenon

LEMMA CacheReadChannel ==
    ASSUME CacheInv, NEW t \in Callers, NEW d, ReadChannel(t, d)
    PROVE  CacheInv'
<1>1. PICK c : c = calls[t]
  OBVIOUS
<1>2. CallGood(c) /\ c.pc = "read"
  BY <1>1, CallOf, Zenon DEF ReadChannel
<1>3. CacheGood'
  BY CacheFrame, Zenon DEF CacheInv, ReadChannel
<1>4. PICK v, r : /\ v = [e \in DOMAIN c.view \cup {d} |-> IF e = d THEN World(c.sub.id) ELSE c.view[e]]
                  /\ r = [c EXCEPT !.view = v]
                  /\ calls' = [calls EXCEPT ![t] = r]
  BY <1>1, Zenon DEF ReadChannel
<1>5. CallShape(r) /\ r.sub = c.sub /\ r.target = c.target /\ r.user = c.user /\ r.pc = "read"
      /\ r.epoch = c.epoch /\ r.clean = c.clean /\ r.chain = c.chain /\ r.view = v
  BY <1>2, <1>4, Zenon DEF CallGood, CallShape, CallFields
<1>6. UpToDate(c) => v = [e \in DOMAIN v |-> World(c.sub.id)]
  BY <1>2, <1>4, Zenon DEF CallGood, Current
<1>7. CallGood(r)
  BY <1>2, <1>5, <1>6 DEF CallGood, UpToDate, Current
<1>. QED  BY <1>3, <1>4, <1>7, OneCall, Zenon DEF ReadChannel

LEMMA CacheStore ==
    ASSUME CacheInv, NEW t \in Callers, StoreResult(t)
    PROVE  CacheInv'
<1>1. PICK c : c = calls[t]
  OBVIOUS
<1>2. CallGood(c) /\ c.pc = "read" /\ DOMAIN c.view = Range(c.chain)
  BY <1>1, CallOf, Zenon DEF StoreResult, AllRead
<1>3. PICK e : e = Evaluated(c) /\ Settle(t, e)
  BY <1>1, Zenon DEF StoreResult
<1>4. UpToDate(c) => e.perms = Fresh(c.sub, c.target)
  <2>1. SUFFICES ASSUME UpToDate(c) PROVE e.perms = Fresh(c.sub, c.target)
    OBVIOUS
  <2>2. Current(c)
    BY <1>2, <2>1, Zenon DEF CallGood
  <2>3. c.view = [d \in Range(c.chain) |-> World(c.sub.id)]
    BY <1>2, <2>2, Zenon DEF Current
  <2>4. /\ Known(c.sub) /\ c.user = Resolved(c.sub) /\ \A x \in c.user : ~x.profile.super
        /\ c.chain = AncestorChain(tree, c.target) /\ Complete(c.chain)
    BY <1>2, <2>2, Zenon DEF Current
  <2>5. e = Evaluate([d \in Range(c.chain) |-> World(c.sub.id)], c.chain, c.sub.id, c.target, c.user)
    BY <1>3, <2>3, Zenon DEF Evaluated
  <2>. QED  BY <2>4, <2>5, Zenon DEF Fresh
<1>5. PICK r : /\ r = (IF e.ok /\ c.epoch # epoch THEN Again(t) ELSE Answer(t, e.perms))
               /\ calls' = [calls EXCEPT ![t] = r]
  BY <1>1, <1>3, Zenon DEF Settle
<1>6. CallGood(r)
  <2>1. c.clean => e.perms = Fresh(c.sub, c.target)
    BY <1>4, Zenon DEF UpToDate
  <2>. QED  BY <1>1, <1>2, <1>5, <2>1, AgainGood, AnswerGood
<1>7. UNCHANGED <<tree, acls, people, temporary, admins, epoch, pendingInv>>
  BY Zenon DEF StoreResult
<1>8. CacheGood'
  <2>1. CASE cache' = cache
    BY <1>7, <2>1, CacheFrame, Zenon DEF CacheInv
  <2>2. CASE cache' # cache
    <3>1. c.epoch = epoch /\ c.cached /\ CacheWith(Key(c.sub, c.target, c.user), e.perms)
      BY <1>1, <1>3, <2>2, Zenon DEF Settle
    <3>2. c.sub.id \notin ApiIDs
      BY <1>2, <3>1, Zenon DEF CallGood, CallShape
    <3>3. SUFFICES ASSUME pendingInv = {}, NEW k \in DOMAIN cache'
                   PROVE  k.subject.id \notin ApiIDs /\ Known(k.subject)' /\ cache'[k] = Fresh(k.subject, k.channel)'
      BY <1>7, Zenon DEF CacheGood
    <3>4. Known(c.sub) /\ c.user = Resolved(c.sub) /\ e.perms = Fresh(c.sub, c.target)
      BY <1>2, <1>4, <3>1, <3>2, <3>3, Zenon DEF CallGood, UpToDate, Current
    <3>5. k.subject.id \notin ApiIDs /\ Known(k.subject) /\ cache'[k] = Fresh(k.subject, k.channel)
      <4>1. CASE k = Key(c.sub, c.target, c.user)
        <5>1. cache'[k] = e.perms
          BY <3>1, <4>1, Zenon DEF CacheWith
        <5>2. /\ k.channel = c.target /\ k.subject.id = c.sub.id /\ Known(k.subject)
              /\ Fresh(k.subject, c.target) = Fresh(c.sub, c.target)
          BY <3>4, <4>1, KeyStands
        <5>. QED  BY <3>2, <3>4, <5>1, <5>2, Zenon
      <4>2. CASE k # Key(c.sub, c.target, c.user)
        <5>1. k \in DOMAIN cache /\ cache'[k] = cache[k]
          BY <3>1, <3>3, <4>2, Zenon DEF CacheWith
        <5>. QED  BY <3>3, <5>1, Zenon DEF CacheInv, CacheGood
      <4>. QED  BY <4>1, <4>2, Zenon
    <3>. QED  BY <1>7, <3>5, SameData, Zenon
  <2>. QED  BY <2>1, <2>2, Zenon
<1>. QED  BY <1>5, <1>6, <1>7, <1>8, OneCall, Zenon

\* What a change leaves of the calls under way.
LEMMA ChangedCalls ==
    ASSUME CacheInv, calls' = Changed, epoch' \in Nat, epoch <= epoch',
           \A c, r : CallGood(c) /\ r = [c EXCEPT !.clean = FALSE] /\ UpToDate(r)' => Current(r)'
    PROVE  CallsGood'
<1>1. ASSUME NEW t \in Callers, NEW r, calls'[t] = r
      PROVE  r = NoCall \/ r = Absent \/ CallGood(r)'
  <2>1. PICK c : c = calls[t]
    OBVIOUS
  <2>2. CASE c.pc \in {"idle", "absent"}
    <3>1. r = c
      BY <1>1, <2>1, <2>2, Zenon DEF Changed
    <3>2. ~CallGood(c)
      BY <2>2, Zenon DEF CallGood, CallShape
    <3>. QED  BY <2>1, <3>1, <3>2, Zenon DEF CacheInv, CallsGood
  <2>3. CASE c.pc \notin {"idle", "absent"}
    <3>1. CallGood(c)
      BY <2>1, <2>3, CallOf, Zenon
    <3>2. r = [c EXCEPT !.clean = FALSE]
      BY <1>1, <2>1, <2>3, Zenon DEF Changed
    <3>3. CallShape(r) /\ r.epoch = c.epoch /\ r.clean = FALSE
      BY <3>1, <3>2, Zenon DEF CallGood, CallShape, CallFields
    <3>4. UpToDate(r)' => Current(r)'
      BY <3>1, <3>2, Zenon
    <3>5. r.epoch <= epoch'
      BY <3>1, <3>3 DEF CallGood, CallShape, CacheInv
    <3>. QED  BY <3>3, <3>4, <3>5, Zenon DEF CallGood
  <2>. QED  BY <2>2, <2>3, Zenon
<1>2. DOMAIN calls' = Callers
  BY Zenon DEF Changed
<1>. QED  BY <1>1, <1>2, Zenon DEF CallsGood

\* A change whose invalidation is still to come.
LEMMA CacheOwed ==
    ASSUME CacheInv, calls' = Changed, epoch' = epoch, pendingInv' # {}
    PROVE  CacheInv'
<1>1. \A c, r : CallGood(c) /\ r = [c EXCEPT !.clean = FALSE] => ~UpToDate(r)'
  BY DEF CallGood, CallShape, CallFields, UpToDate
<1>2. epoch' \in Nat /\ epoch <= epoch'
  BY DEF CacheInv
<1>3. CallsGood'
  BY <1>1, <1>2, ChangedCalls, Zenon
<1>. QED  BY <1>2, <1>3, Zenon DEF CacheInv, CacheGood

\* A change that those who are connected and cached do not notice: a new user,
\* or another role of an API account.
LEMMA CacheUnnoticed ==
    ASSUME CacheInv, calls' = Changed, UNCHANGED <<tree, epoch, pendingInv, cache>>,
           \A sub : sub.id \notin ApiIDs /\ Known(sub) =>
               Known(sub)' /\ Resolved(sub)' = Resolved(sub) /\ World(sub.id)' = World(sub.id)
    PROVE  CacheInv'
<1>1. ASSUME NEW c, NEW r, CallGood(c), r = [c EXCEPT !.clean = FALSE], UpToDate(r)'
      PROVE  Current(r)'
  <2>1. /\ r.sub = c.sub /\ r.target = c.target /\ r.user = c.user /\ r.pc = c.pc /\ r.epoch = c.epoch
        /\ r.chain = c.chain /\ r.view = c.view /\ r.clean = FALSE
    BY <1>1, Zenon DEF CallGood, CallShape, CallFields
  <2>2. UpToDate(c) /\ c.sub.id \notin ApiIDs
    BY <1>1, <2>1, Zenon DEF UpToDate
  <2>3. Current(c)
    BY <1>1, <2>2, Zenon DEF CallGood
  <2>. QED  BY <2>1, <2>2, <2>3 DEF Current
<1>2. epoch' \in Nat /\ epoch <= epoch'
  BY DEF CacheInv
<1>3. CallsGood'
  BY <1>1, <1>2, ChangedCalls, Zenon
<1>4. CacheGood'
  <2>1. SUFFICES ASSUME pendingInv = {}, NEW k \in DOMAIN cache
                 PROVE  k.subject.id \notin ApiIDs /\ Known(k.subject)' /\ cache[k] = Fresh(k.subject, k.channel)'
    BY Zenon DEF CacheGood
  <2>2. k.subject.id \notin ApiIDs /\ Known(k.subject) /\ cache[k] = Fresh(k.subject, k.channel)
    BY <2>1, Zenon DEF CacheInv, CacheGood
  <2>3. Fresh(k.subject, k.channel)' = Fresh(k.subject, k.channel)
    BY <2>2, FreshSame, Zenon
  <2>. QED  BY <2>2, <2>3, Zenon
<1>. QED  BY <1>2, <1>3, <1>4, Zenon DEF CacheInv

\* An invalidation: no result of an older generation is kept after it.
LEMMA CacheEmptied ==
    ASSUME CacheInv, epoch' = epoch + 1, cache' = [k \in {} |-> {}],
           \/ calls' = calls /\ pendingInv # {}
           \/ calls' = calls /\ UNCHANGED <<tree, acls, people, temporary, admins, pendingInv>>
           \/ calls' = Changed
    PROVE  CacheInv'
<1>1. epoch' \in Nat /\ epoch <= epoch' /\ CacheGood'
  BY DEF CacheInv, CacheGood
<1>2. CASE calls' = Changed
  <2>1. \A c, r : CallGood(c) /\ r = [c EXCEPT !.clean = FALSE] => ~UpToDate(r)'
    BY DEF CallGood, CallShape, CallFields, UpToDate, CacheInv
  <2>2. CallsGood'
    BY <1>1, <1>2, <2>1, ChangedCalls, Zenon
  <2>. QED  BY <1>1, <2>2, Zenon DEF CacheInv
<1>3. CASE calls' = calls /\ pendingInv # {}
  <2>1. ASSUME NEW c, CallGood(c) PROVE CallGood(c)'
    <3>1. c.clean = FALSE /\ c.epoch # epoch' /\ c.epoch <= epoch'
      BY <1>3, <2>1 DEF CallGood, CallShape, CacheInv
    <3>. QED  BY <2>1, <3>1, Zenon DEF CallGood, UpToDate
  <2>. QED  BY <1>1, <1>3, <2>1, Zenon DEF CacheInv, CallsGood
<1>4. CASE calls' = calls /\ UNCHANGED <<tree, acls, people, temporary, admins, pendingInv>>
  <2>1. ASSUME NEW c, CallGood(c) PROVE CallGood(c)'
    <3>1. c.epoch # epoch' /\ c.epoch <= epoch'
      BY <2>1 DEF CallGood, CallShape, CacheInv
    <3>2. UpToDate(c)' => UpToDate(c)
      BY <3>1, Zenon DEF UpToDate
    <3>3. Current(c) => Current(c)'
      BY <1>4, SameData, Zenon DEF Current
    <3>4. Fresh(c.sub, c.target)' = Fresh(c.sub, c.target)
      BY <1>4, SameData, Zenon
    <3>. QED  BY <1>4, <2>1, <3>1, <3>2, <3>3, <3>4, Zenon DEF CallGood
  <2>. QED  BY <1>1, <1>4, <2>1, Zenon DEF CacheInv, CallsGood
<1>. QED  BY <1>2, <1>3, <1>4, Zenon

LEMMA CacheIdle ==
    ASSUME CacheInv, UNCHANGED <<tree, acls, people, temporary, admins, epoch, pendingInv, cache, calls>>
    PROVE  CacheInv'
<1>1. CacheGood'
  BY CacheFrame, Zenon DEF CacheInv
<1>2. CallsGood'
  BY CallFrame, Zenon DEF CacheInv, CallsGood
<1>. QED  BY <1>1, <1>2, Zenon DEF CacheInv

LEMMA CacheAddUser ==
    ASSUME CacheInv, NEW s \in Sessions, NEW profile, AddUser(s, profile)
    PROVE  CacheInv'
<1>1. ASSUME NEW sub, Known(sub)
      PROVE  Known(sub)' /\ Resolved(sub)' = Resolved(sub) /\ World(sub.id)' = World(sub.id)
  <2>1. CASE sub.session = 0
    BY <2>1, Zenon DEF Known, Resolved, World, AddUser
  <2>2. CASE sub.session # 0
    <3>1. /\ sub.session \in DOMAIN people /\ sub.id = people[sub.session].profile.id
          /\ sub.gen \in {0, people[sub.session].gen}
      BY <1>1, <2>2, Zenon DEF Known
    <3>2. sub.session \in DOMAIN people' /\ people'[sub.session] = people[sub.session]
      BY <3>1, Zenon DEF AddUser
    <3>3. Person(sub.session)' = Person(sub.session)
      BY <3>2, Zenon DEF Person
    <3>. QED  BY <2>2, <3>1, <3>2, <3>3, Zenon DEF Known, Resolved, World, AddUser
  <2>. QED  BY <2>1, <2>2, Zenon
<1>. QED  BY <1>1, CacheUnnoticed, Zenon DEF AddUser, Change

LEMMA CacheSetRole ==
    ASSUME CacheInv, NEW id \in ApiIDs, SetRole(id)
    PROVE  CacheInv'
<1>1. \A sub : Known(sub) => Known(sub)' /\ Resolved(sub)' = Resolved(sub)
  BY Zenon DEF SetRole, Known, Resolved, Person
<1>2. \A sub : sub.id \notin ApiIDs => World(sub.id)' = World(sub.id)
  BY Zenon DEF SetRole, World
<1>. QED  BY <1>1, <1>2, CacheUnnoticed, Zenon DEF SetRole, Change

LEMMA CacheSwap ==
    ASSUME CacheInv, SwapBind \/ SwapWrite \/ \E c \in DOMAIN acls, S \in SUBSET DOMAIN people : SwapStart(c, {}, S)
    PROVE  CacheInv'
<1>1. CASE SwapWrite /\ swap.epoch = epoch
  BY <1>1, CacheEmptied, Zenon DEF SwapWrite
<1>2. CASE SwapWrite /\ swap.epoch # epoch
  BY <1>2, CacheIdle, Zenon DEF SwapWrite
<1>3. CASE SwapBind
  BY <1>3, CacheIdle, Zenon DEF SwapBind
<1>4. CASE \E c \in DOMAIN acls, S \in SUBSET DOMAIN people : SwapStart(c, {}, S)
  BY <1>4, CacheIdle, Zenon DEF SwapStart
<1>. QED  BY <1>1, <1>2, <1>3, <1>4, Zenon

\* A call during which nothing changed, and which began with every earlier
\* change invalidated, answers with the permissions as they are, cached or
\* not: no evaluation that overlapped a change leaves its result behind.
THEOREM AnswersAreFresh == AclSpec => []AnswersFresh
<1>1. ASSUME CacheInv, [AclNext]_aclVars PROVE CacheInv'
  <2>1. CASE UNCHANGED aclVars
    BY <1>1, <2>1, CacheIdle, Zenon DEF aclVars
  <2>2. CASE \E t \in Callers, sub \in Subjects, target \in Targets, useCache \in BOOLEAN :
                 Call(t, sub, target, useCache)
    BY <1>1, <2>2, CacheCall, Zenon
  <2>3. CASE \E t \in Callers : \/ ResolveUser(t) \/ LookUp(t) \/ ReadChain(t) \/ StoreResult(t)
                                \/ \E c \in DOMAIN acls : ReadChannel(t, c)
    BY <1>1, <2>3, CacheResolve, CacheLookUp, CacheReadChain, CacheStore, CacheReadChannel, Zenon
  <2>4. CASE \/ \E c \in DOMAIN acls, choice \in PutChoices : PutACL(c, choice)
             \/ \E to \in TreeChoices : ChangeTree(to)
             \/ \E s \in Sessions, p \in Profiles : ChangeUser(s, p)
             \/ \E s \in Sessions : RemoveUser(s)
    <3>1. calls' = Changed /\ epoch' = epoch /\ pendingInv' # {}
      BY <2>4, Zenon DEF PutACL, ChangeTree, ChangeUser, RemoveUser, Change, Owe
    <3>. QED  BY <1>1, <3>1, CacheOwed, Zenon
  <2>5. CASE \E s \in Sessions, p \in Profiles : AddUser(s, p)
    BY <1>1, <2>5, CacheAddUser, Zenon
  <2>6. CASE \E id \in ApiIDs : SetRole(id)
    BY <1>1, <2>6, CacheSetRole, Zenon
  <2>7. CASE \E p \in pendingInv : Invalidate(p)
    BY <1>1, <2>7, CacheEmptied, Zenon DEF Invalidate
  <2>8. CASE InvalidateCache
    BY <1>1, <2>8, CacheEmptied, Zenon DEF InvalidateCache
  <2>9. CASE \/ SwapBind \/ SwapWrite
             \/ \E c \in DOMAIN acls, S \in SUBSET DOMAIN people : SwapStart(c, {}, S)
    BY <1>1, <2>9, CacheSwap, Zenon
  <2>. QED  BY <1>1, <2>1, <2>2, <2>3, <2>4, <2>5, <2>6, <2>7, <2>8, <2>9, Zenon DEF AclNext
<1>2. ASSUME CacheInv PROVE AnswersFresh
  <2>1. SUFFICES ASSUME NEW t \in Callers, calls[t].pc = "done", calls[t].clean
                 PROVE  calls[t].answer = Fresh(calls[t].sub, calls[t].target)
    BY Zenon DEF AnswersFresh
  <2>2. CallGood(calls[t])
    BY <1>2, <2>1 DEF CacheInv, CallsGood, NoCall, Absent
  <2>. QED  BY <2>1, <2>2, Zenon DEF CallGood
<1>. QED  BY <1>1, <1>2, CacheInit, PTL DEF AclSpec

(***************************************************************************)
(* The user manager.                                                       *)
(***************************************************************************)
FewDrawn == MaxUsers > 0 => next <= MaxUsers + 1

IInv == TypeOK /\ NameIndex /\ PoolPartition /\ GenerationsDiffer /\ FewDrawn

USE MaxUsersAssumption, BoundsAssumption

-----------------------------------------------------------------------------
(* Alloc takes the last ID of the free list and keeps the rest.            *)
LEMMA AllButLast ==
  ASSUME NEW S, NEW s \in Seq(S), NEW l \in Nat \ {0}, Len(s) = l
  PROVE  /\ SubSeq(s, 1, l - 1) \in Seq(S) /\ Len(SubSeq(s, 1, l - 1)) = l - 1
         /\ \A i \in 1 .. l - 1 : SubSeq(s, 1, l - 1)[i] = s[i]
<1>1. PICK m \in Nat : m = l - 1 /\ Len(s) = m + 1
  OBVIOUS
<1>2. SubSeq(s, 1, m) \in Seq(S) /\ Len(SubSeq(s, 1, m)) = m
  BY <1>1
<1>3. \A i \in 1 .. m : SubSeq(s, 1, m)[i] = s[i]
  BY <1>1
<1> QED
  BY <1>1, <1>2, <1>3, Zenon

(* The IDs in use are finitely many: they are among those drawn.           *)
LEMMA InUseFinite ==
  ASSUME TypeOK, PoolPartition
  PROVE  /\ IsFiniteSet(inUse) /\ Cardinality(inUse) \in Nat
         /\ free = << >> => Cardinality(inUse) = next - 1
<1>1. 1 .. next - 1 \subseteq Int /\ next - 1 \in Int /\ 1 \in Int /\ next - 1 >= 0
  BY DEF TypeOK
<1>2. /\ IsFiniteSet(1 .. next - 1) /\ Cardinality(1 .. next - 1) = next - 1
  BY <1>1, FS_Interval
<1>3. inUse \subseteq 1 .. next - 1
  BY Zenon DEF PoolPartition
<1>4. IsFiniteSet(inUse)
  BY <1>2, <1>3, FS_Subset, Zenon
<1>5. Cardinality(inUse) \in Nat
  BY <1>4, FS_CardinalityType, Zenon
<1>6. ASSUME free = << >> PROVE Cardinality(inUse) = next - 1
  <2>1. Freed = {}
    BY <1>6 DEF Freed
  <2>2. inUse = 1 .. next - 1
    BY <2>1, Zenon DEF PoolPartition
  <2> QED
    BY <1>2, <2>2, Zenon
<1> QED
  BY <1>4, <1>5, <1>6, Zenon

(* The limits of the pool are out of reach of a server with room.          *)
LEMMA RoomMeansAlloc ==
  ASSUME IInv, HasRoom
  PROVE  CanAlloc
<1>1. Cardinality(inUse) \in Nat /\ inUse = DOMAIN bySession
  BY InUseFinite, Zenon DEF IInv, PoolPartition
<1>2. ~PoolFull
  BY <1>1 DEF HasRoom, PoolFull
<1>3. ~Exhausted
  BY DEF Exhausted, IInv, FewDrawn, TypeOK
<1> QED
  BY <1>2, <1>3, Zenon DEF CanAlloc

(* What Alloc hands out is in nobody's use, and it keeps the partition of  *)
(* the IDs drawn.                                                          *)
LEMMA AllocFacts ==
  ASSUME IInv, HasRoom, Alloc
  PROVE  /\ Allocated \in Nat \ {0} /\ Allocated \notin inUse
         /\ inUse' = inUse \cup {Allocated} /\ inUse' \subseteq Nat \ {0}
         /\ next' \in Nat \ {0} /\ free' \in Seq(Nat \ {0}) /\ FewDrawn'
         /\ inUse' \cap Freed' = {} /\ inUse' \cup Freed' = 1 .. next' - 1
         /\ \A i, j \in 1 .. Len(free') : free'[i] = free'[j] => i = j
<1> USE DEF IInv
<1>0. inUse' = inUse \cup {Allocated}
  BY Zenon DEF Alloc
<1>1. CASE free # << >>
  <2> DEFINE l == Len(free)
  <2>0. /\ l \in Nat \ {0} /\ l \in 1 .. l /\ free[l] \in Nat \ {0}
        /\ Allocated = free[l] /\ next' = next
        /\ free' = SubSeq(free, 1, l - 1)
    BY <1>1 DEF TypeOK, Allocated, Alloc
  <2>1. /\ l \in Nat \ {0} /\ free[l] \in Nat \ {0} /\ free[l] \in Freed
        /\ Allocated = free[l] /\ next' = next
        /\ free' = SubSeq(free, 1, l - 1)
    BY <2>0, Zenon DEF Freed
  <2>2. /\ free' \in Seq(Nat \ {0}) /\ Len(free') = l - 1
        /\ \A i \in 1 .. l - 1 : free'[i] = free[i]
    BY <2>0, AllButLast, ZenonT(30) DEF TypeOK
  <2>3. Freed' = Freed \ {free[l]}
    <3>1. \A i \in 1 .. l - 1 : free[i] # free[l]
      BY <2>1 DEF PoolPartition
    <3>2. Freed' = {free[i] : i \in 1 .. l - 1}
      BY <2>2, Zenon DEF Freed
    <3>3. \A i \in 1 .. l : i \in 1 .. l - 1 \/ i = l
      BY <2>1
    <3> QED
      BY <2>1, <3>1, <3>2, <3>3, SMTT(30) DEF Freed
  <2>4. \A i, j \in 1 .. Len(free') : free'[i] = free'[j] => i = j
    BY <2>1, <2>2, SMTT(30) DEF PoolPartition
  <2>5. FewDrawn'
    BY <2>1, Zenon DEF FewDrawn
  <2>6. Allocated \notin inUse /\ inUse' \subseteq Nat \ {0}
    BY <1>0, <2>1, Zenon DEF PoolPartition, TypeOK
  <2>7. inUse' \cap Freed' = {} /\ inUse' \cup Freed' = 1 .. next' - 1
    BY <1>0, <2>1, <2>3 DEF PoolPartition
  <2> QED
    BY <1>0, <2>1, <2>2, <2>4, <2>5, <2>6, <2>7, Zenon DEF TypeOK
<1>2. CASE free = << >>
  <2>1. Allocated = next /\ next' = next + 1 /\ free' = free
    BY <1>2, Zenon DEF Allocated, Alloc
  <2>2. Freed = {} /\ Freed' = {}
    BY <1>2, <2>1 DEF Freed
  <2>3. inUse = 1 .. next - 1
    BY <2>2, Zenon DEF PoolPartition
  <2>4. inUse' = 1 .. next' - 1 /\ next \notin inUse
    BY <1>0, <2>1, <2>3 DEF TypeOK
  <2>5. MaxUsers > 0 => next - 1 < MaxUsers
    BY <1>2, InUseFinite, Zenon DEF HasRoom, PoolPartition
  <2>6. FewDrawn'
    BY <2>1, <2>5 DEF FewDrawn, TypeOK
  <2> QED
    BY <1>0, <1>2, <2>1, <2>2, <2>4, <2>6 DEF TypeOK
<1> QED
  BY <1>1, <1>2, Zenon

(* What Free takes back joins the free list.                               *)
LEMMA FreeFacts ==
  ASSUME IInv, NEW s \in DOMAIN bySession, Free(s)
  PROVE  /\ inUse' = inUse \ {s} /\ next' = next
         /\ free' \in Seq(Nat \ {0})
         /\ inUse' \cap Freed' = {} /\ inUse' \cup Freed' = 1 .. next' - 1
         /\ \A i, j \in 1 .. Len(free') : free'[i] = free'[j] => i = j
<1> USE DEF IInv
<1> DEFINE l == Len(free)
<1>1. s \in inUse /\ s \in Nat \ {0} /\ s \notin Freed
  BY Zenon DEF PoolPartition, TypeOK
<1>2. inUse' = inUse \ {s} /\ next' = next /\ free' = Append(free, s)
  BY <1>1, Zenon DEF Free
<1>3. /\ free' \in Seq(Nat \ {0}) /\ l \in Nat /\ Len(free') = l + 1
      /\ free'[l + 1] = s /\ \A i \in 1 .. l : free'[i] = free[i]
  BY <1>1, <1>2 DEF TypeOK
<1>4. Freed' = Freed \cup {s}
  <2>1. \A i \in 1 .. l + 1 : i \in 1 .. l \/ i = l + 1
    BY <1>3
  <2>2. \A i \in 1 .. l : i \in 1 .. l + 1
    BY <1>3
  <2>3. l + 1 \in 1 .. l + 1
    BY <1>3
  <2> QED
    BY <1>3, <2>1, <2>2, <2>3, Zenon DEF Freed
<1>5. \A i, j \in 1 .. Len(free') : free'[i] = free'[j] => i = j
  <2>1. \A i \in 1 .. l : free[i] # s
    BY <1>1, Zenon DEF Freed
  <2> QED
    BY <1>3, <2>1, SMTT(30) DEF PoolPartition
<1> QED
  BY <1>1, <1>2, <1>3, <1>4, <1>5, ZenonT(30) DEF PoolPartition

-----------------------------------------------------------------------------
(* An update changes one record, and of it neither the generation nor the  *)
(* ID; the record of UpdateUser also keeps its name.                       *)
LEMMA UpdateFacts ==
  ASSUME TypeOK, NEW s \in DOMAIN bySession, NEW n \in Names, NEW a \in Grants,
         \/ UpdateUser(s, a) /\ n = bySession[s].name
         \/ UpdateIdentity(s, n, a)
  PROVE  /\ DOMAIN bySession' = DOMAIN bySession
         /\ bySession' \in [DOMAIN bySession -> User]
         /\ \A t \in DOMAIN bySession : t # s => bySession'[t] = bySession[t]
         /\ bySession'[s].name = n /\ bySession'[s].grant = a
         /\ bySession'[s].generation = bySession[s].generation
         /\ bySession'[s].revision = Revised(bySession[s], a)
<1>1. bySession[s] \in User /\ Revised(bySession[s], a) \in Nat \ {0}
  BY SMTT(30) DEF TypeOK, User, Revised
<1>2. CASE UpdateUser(s, a) /\ n = bySession[s].name
  BY <1>1, <1>2, Zenon DEF UpdateUser, TypeOK, User
<1>3. CASE UpdateIdentity(s, n, a)
  BY <1>1, <1>3, Zenon DEF UpdateIdentity, TypeOK, User
<1> QED
  BY <1>2, <1>3, Zenon

(* An empty table satisfies the inductive invariant.                       *)
LEMMA InitIInv == Init => IInv
<1> SUFFICES ASSUME Init PROVE IInv
  OBVIOUS
<1>1. DOMAIN bySession = {} /\ DOMAIN byName = {} /\ Len(free) = 0
  BY DEF Init
<1>2. TypeOK
  BY <1>1 DEF Init, TypeOK
<1>3. NameIndex /\ GenerationsDiffer /\ FewDrawn
  BY <1>1 DEF Init, NameIndex, GenerationsDiffer, FewDrawn
<1>4. Freed = {}
  BY <1>1 DEF Freed
<1>5. PoolPartition
  BY <1>1, <1>4 DEF Init, PoolPartition
<1> QED
  BY <1>2, <1>3, <1>5, Zenon DEF IInv

(* Add preserves the inductive invariant.                                  *)
LEMMA AddStep ==
  ASSUME IInv, NEW n \in Names, NEW a \in Grants, Add(n, a)
  PROVE  IInv'
<1> DEFINE sid == Allocated
           u == [name |-> n, generation |-> generation + 1, revision |-> 1,
                 grant |-> a]
<1>1. HasRoom /\ CanAlloc /\ n \notin DOMAIN byName
  BY RoomMeansAlloc, Zenon DEF Add
<1>2. /\ bySession' = Put(bySession, sid, u) /\ byName' = Put(byName, n, sid)
      /\ generation' = generation + 1 /\ Alloc
  BY <1>1, Zenon DEF Add
<1>3. /\ sid \in Nat \ {0} /\ sid \notin DOMAIN bySession
      /\ inUse' = inUse \cup {sid}
  BY <1>1, <1>2, AllocFacts, Zenon DEF IInv, PoolPartition
<1>4. /\ DOMAIN bySession' = DOMAIN bySession \cup {sid} /\ bySession'[sid] = u
      /\ \A t \in DOMAIN bySession : bySession'[t] = bySession[t]
      /\ bySession' = [x \in DOMAIN bySession' |-> bySession'[x]]
  BY <1>2, <1>3, Zenon DEF Put
<1>5. /\ DOMAIN byName' = DOMAIN byName \cup {n} /\ byName'[n] = sid
      /\ \A m \in DOMAIN byName : byName'[m] = byName[m]
      /\ byName' = [x \in DOMAIN byName' |-> byName'[x]]
  BY <1>1, <1>2, Zenon DEF Put
<1>6. u \in User /\ generation \in Nat /\ generation' = generation + 1
  BY <1>2 DEF IInv, TypeOK, User
<1>7. TypeOK'
  <2>1. bySession' \in [DOMAIN bySession' -> User]
    BY <1>4, <1>6, Zenon DEF IInv, TypeOK
  <2>2. byName' \in [DOMAIN byName' -> Nat \ {0}]
    BY <1>3, <1>5, Zenon DEF IInv, TypeOK
  <2>3. DOMAIN bySession' \subseteq Nat \ {0} /\ DOMAIN byName' \subseteq Names
    BY <1>3, <1>4, <1>5, Zenon DEF IInv, TypeOK
  <2>4. /\ next' \in Nat \ {0} /\ free' \in Seq(Nat \ {0})
        /\ inUse' \subseteq Nat \ {0}
    BY <1>1, <1>2, AllocFacts, Zenon
  <2> QED
    BY <1>6, <2>1, <2>2, <2>3, <2>4, SMTT(30) DEF TypeOK
<1>8. NameIndex'
  <2>1. \A t \in DOMAIN bySession' :
          bySession'[t].name \in DOMAIN byName' /\ byName'[bySession'[t].name] = t
    BY <1>4, <1>5 DEF IInv, NameIndex
  <2>2. \A m \in DOMAIN byName' :
          byName'[m] \in DOMAIN bySession' /\ bySession'[byName'[m]].name = m
    BY <1>4, <1>5 DEF IInv, NameIndex
  <2> QED
    BY <2>1, <2>2, Zenon DEF NameIndex
<1>9. GenerationsDiffer'
  <2>1. \A t \in DOMAIN bySession :
          /\ bySession[t].generation \in Nat
          /\ bySession[t].generation <= generation
    BY Zenon DEF IInv, TypeOK, User, GenerationsDiffer
  <2>2. u.generation = generation + 1
    OBVIOUS
  <2>3. \A t \in DOMAIN bySession' : bySession'[t].generation <= generation'
    BY <1>4, <1>6, <2>1, <2>2
  <2>4. \A t \in DOMAIN bySession : bySession'[t].generation # u.generation
    BY <1>4, <1>6, <2>1, <2>2
  <2>5. \A t, v \in DOMAIN bySession' :
          bySession'[t].generation = bySession'[v].generation => t = v
    BY <1>4, <2>4 DEF IInv, GenerationsDiffer
  <2> QED
    BY <2>3, <2>5, Zenon DEF GenerationsDiffer
<1>10. PoolPartition'
  <2>1. inUse' = DOMAIN bySession'
    BY <1>3, <1>4, Zenon DEF IInv, PoolPartition
  <2> QED
    BY <1>1, <1>2, <2>1, AllocFacts, Zenon DEF PoolPartition
<1>11. FewDrawn'
  BY <1>1, <1>2, AllocFacts, Zenon
<1> QED
  BY <1>7, <1>8, <1>9, <1>10, <1>11, Zenon DEF IInv

(* RemoveIfGeneration preserves the inductive invariant.                   *)
LEMMA RemoveStep ==
  ASSUME IInv, NEW s \in DOMAIN bySession, NEW g, RemoveIfGeneration(s, g)
  PROVE  IInv'
<1> DEFINE n == bySession[s].name
<1>1. /\ bySession' = Delete(bySession, s) /\ byName' = Delete(byName, n)
      /\ generation' = generation /\ Free(s)
  BY Zenon DEF RemoveIfGeneration
<1>2. /\ DOMAIN bySession' = DOMAIN bySession \ {s}
      /\ \A t \in DOMAIN bySession' : bySession'[t] = bySession[t]
      /\ bySession' = [x \in DOMAIN bySession' |-> bySession'[x]]
  BY <1>1, Zenon DEF Delete
<1>3. /\ DOMAIN byName' = DOMAIN byName \ {n}
      /\ \A m \in DOMAIN byName' : byName'[m] = byName[m]
      /\ byName' = [x \in DOMAIN byName' |-> byName'[x]]
  BY <1>1, Zenon DEF Delete
<1>4. TypeOK'
  <2>1. bySession' \in [DOMAIN bySession' -> User]
    BY <1>2, Zenon DEF IInv, TypeOK
  <2>2. byName' \in [DOMAIN byName' -> Nat \ {0}]
    BY <1>3, Zenon DEF IInv, TypeOK
  <2>3. /\ next' \in Nat \ {0} /\ free' \in Seq(Nat \ {0})
        /\ inUse' \subseteq Nat \ {0}
    BY <1>1, FreeFacts, Zenon DEF IInv, TypeOK
  <2> QED
    BY <1>1, <1>2, <1>3, <2>1, <2>2, <2>3, Zenon DEF IInv, TypeOK
<1>5. NameIndex'
  <2>1. \A t \in DOMAIN bySession' :
          bySession'[t].name \in DOMAIN byName' /\ byName'[bySession'[t].name] = t
    BY <1>2, <1>3 DEF IInv, NameIndex
  <2>2. \A m \in DOMAIN byName' :
          byName'[m] \in DOMAIN bySession' /\ bySession'[byName'[m]].name = m
    BY <1>2, <1>3 DEF IInv, NameIndex
  <2> QED
    BY <2>1, <2>2, Zenon DEF NameIndex
<1>6. GenerationsDiffer'
  BY <1>1, <1>2 DEF IInv, GenerationsDiffer
<1>7. PoolPartition'
  <2>1. inUse' = DOMAIN bySession'
    BY <1>1, <1>2, FreeFacts, Zenon DEF IInv, PoolPartition
  <2> QED
    BY <1>1, <2>1, FreeFacts, Zenon DEF PoolPartition
<1>8. FewDrawn'
  BY <1>1, FreeFacts, Zenon DEF IInv, FewDrawn
<1> QED
  BY <1>4, <1>5, <1>6, <1>7, <1>8, Zenon DEF IInv

(* The updates preserve the inductive invariant.                           *)
(* A change that neither draws nor frees an ID keeps the pool as it is.     *)
LEMMA PoolKept ==
  ASSUME PoolPartition, UNCHANGED <<next, free, inUse>>, DOMAIN bySession' = DOMAIN bySession
  PROVE  PoolPartition'
<1>1. Freed' = Freed
  BY Zenon DEF Freed
<1>2. inUse' = DOMAIN bySession'
  BY Zenon DEF PoolPartition
<1>3. inUse' \cap Freed' = {} /\ inUse' \cup Freed' = 1 .. next' - 1
  BY <1>1, Zenon DEF PoolPartition
<1>4. (\A i, j \in 1 .. Len(free) : free[i] = free[j] => i = j)'
  BY Zenon DEF PoolPartition
<1> QED  BY <1>2, <1>3, <1>4, Zenon DEF PoolPartition

LEMMA UpdateStep ==
  ASSUME IInv, NEW s \in DOMAIN bySession, NEW n \in Names, NEW a \in Grants,
         \/ UpdateUser(s, a) /\ n = bySession[s].name
         \/ UpdateIdentity(s, n, a)
  PROVE  IInv'
<1> DEFINE m == bySession[s].name
<1>1. UNCHANGED <<generation, next, free, inUse>>
  BY Zenon DEF UpdateUser, UpdateIdentity, pool
<1>2. /\ DOMAIN bySession' = DOMAIN bySession
      /\ bySession' \in [DOMAIN bySession -> User]
      /\ \A t \in DOMAIN bySession : t # s => bySession'[t] = bySession[t]
      /\ bySession'[s].name = n
      /\ bySession'[s].generation = bySession[s].generation
  BY UpdateFacts, Zenon DEF IInv
<1>3. /\ m \in DOMAIN byName /\ byName[m] = s /\ s \in Nat \ {0}
      /\ n \in DOMAIN byName => byName[n] = s
  BY Zenon DEF IInv, TypeOK, NameIndex, UpdateIdentity
<1>4. /\ DOMAIN byName' = (DOMAIN byName \ {m}) \cup {n} /\ byName'[n] = s
      /\ \A x \in DOMAIN byName' : x # n => byName'[x] = byName[x]
      /\ byName' = [x \in DOMAIN byName' |-> byName'[x]]
  <2>1. CASE n = m
    <3>1. byName' = byName
      BY <2>1, Zenon DEF UpdateUser, UpdateIdentity, Renamed
    <3> QED
      BY <2>1, <3>1, <1>3, Zenon DEF IInv, TypeOK
  <2>2. CASE n # m
    <3>1. byName' = Put(Delete(byName, m), n, s)
      BY <2>2, Zenon DEF UpdateIdentity, Renamed
    <3> QED
      BY <1>3, <3>1, Zenon DEF Put, Delete
  <2> QED
    BY <2>1, <2>2, Zenon
<1>5. TypeOK'
  <2>1. byName' \in [DOMAIN byName' -> Nat \ {0}] /\ DOMAIN byName' \subseteq Names
    BY <1>3, <1>4, ZenonT(30) DEF IInv, TypeOK
  <2> QED
    BY <1>1, <1>2, <2>1, Zenon DEF IInv, TypeOK
<1>6. NameIndex'
  <2>1. \A t \in DOMAIN bySession : t # s => bySession[t].name \notin {m, n}
    BY <1>3, Zenon DEF IInv, NameIndex
  <2>2. \A t \in DOMAIN bySession' :
          bySession'[t].name \in DOMAIN byName' /\ byName'[bySession'[t].name] = t
    BY <1>2, <1>4, <2>1 DEF IInv, NameIndex
  <2>3. \A x \in DOMAIN byName' :
          byName'[x] \in DOMAIN bySession' /\ bySession'[byName'[x]].name = x
    BY <1>2, <1>3, <1>4 DEF IInv, NameIndex
  <2> QED
    BY <2>2, <2>3, Zenon DEF NameIndex
<1>7. GenerationsDiffer'
  <2>1. \A t \in DOMAIN bySession : bySession'[t].generation = bySession[t].generation
    BY <1>2, Zenon
  <2> QED
    BY <1>1, <1>2, <2>1, Zenon DEF IInv, GenerationsDiffer
<1>8. PoolPartition' /\ FewDrawn'
  <2>1. DOMAIN bySession' = DOMAIN bySession
    BY <1>2, Zenon
  <2>2. PoolPartition'
    BY <1>1, <2>1, PoolKept, Zenon DEF IInv
  <2>3. FewDrawn'
    BY <1>1, Zenon DEF IInv, FewDrawn
  <2> QED
    BY <2>2, <2>3, Zenon
<1> QED
  BY <1>5, <1>6, <1>7, <1>8, Zenon DEF IInv

-----------------------------------------------------------------------------
(* Every operation of the manager preserves the inductive invariant.       *)
LEMMA NextIInv == IInv /\ [Next]_vars => IInv'
<1> SUFFICES ASSUME IInv, [Next]_vars PROVE IInv'
  OBVIOUS
<1>1. CASE \E n \in Names, a \in Grants : Add(n, a)
  BY <1>1, AddStep, Zenon
<1>2. CASE \E s \in DOMAIN bySession, g \in 1 .. generation :
             RemoveIfGeneration(s, g)
  BY <1>2, RemoveStep, Zenon
<1>3. CASE \E s \in DOMAIN bySession, a \in Grants : UpdateUser(s, a)
  <2> PICK s \in DOMAIN bySession, a \in Grants : UpdateUser(s, a)
    BY <1>3, Zenon
  <2>1. bySession[s].name \in Names
    BY Zenon DEF IInv, TypeOK, User
  <2> QED
    BY <2>1, UpdateStep, Zenon
<1>4. CASE \E s \in DOMAIN bySession, n \in Names, a \in Grants :
             UpdateIdentity(s, n, a)
  BY <1>4, UpdateStep, Zenon
<1>5. CASE UNCHANGED vars
  BY <1>5, SMTT(30) DEF vars, IInv, TypeOK, NameIndex, PoolPartition, GenerationsDiffer,
              FewDrawn, Freed
<1> QED
  BY <1>1, <1>2, <1>3, <1>4, <1>5, Zenon DEF Next

(* The inductive invariant holds of every reachable state of Manager.      *)
THEOREM Invariance == Spec => []IInv
  BY InitIInv, NextIInv, PTL DEF Spec

(* Every variable of Manager and its pool keeps its type.                  *)
THEOREM TypeCorrect == Spec => []TypeOK
<1>1. IInv => TypeOK
  BY Zenon DEF IInv
<1> QED
  BY <1>1, Invariance, PTL

(* bySession and byName stay inverse to each other.                        *)
THEOREM IndexesInverse == Spec => []NameIndex
<1>1. IInv => NameIndex
  BY Zenon DEF IInv
<1> QED
  BY <1>1, Invariance, PTL

(* No session ID is lost by the pool or handed out twice.                  *)
THEOREM IDsPartitioned == Spec => []PoolPartition
<1>1. IInv => PoolPartition
  BY Zenon DEF IInv
<1> QED
  BY <1>1, Invariance, PTL

(* Whatever the limit on users, Add never fails for want of a session ID   *)
(* while there is room, and no ID exceeds the limit.                       *)
THEOREM PoolNeverRunsOut == Spec => []AllocSucceeds
<1>1. IInv => AllocSucceeds
  <2> SUFFICES ASSUME IInv PROVE AllocSucceeds
    OBVIOUS
  <2>1. HasRoom => CanAlloc
    BY RoomMeansAlloc, Zenon
  <2>2. ASSUME MaxUsers > 0, NEW s \in DOMAIN bySession PROVE s <= MaxUsers
    <3>1. s \in 1 .. next - 1
      BY <2>2, Zenon DEF IInv, PoolPartition
    <3> QED
      BY <2>2, <3>1 DEF IInv, FewDrawn, TypeOK
  <2> QED
    BY <2>1, <2>2, Zenon DEF AllocSucceeds
<1> QED
  BY <1>1, Invariance, PTL

(* A generation names at most one connected session.                       *)
THEOREM GenerationsUnique == Spec => []GenerationsDiffer
<1>1. IInv => GenerationsDiffer
  BY Zenon DEF IInv
<1> QED
  BY <1>1, Invariance, PTL

(* A changed authorization always has a higher revision.                   *)
THEOREM RevisionsGrow == Spec => RevisionTracksGrant
<1> DEFINE Tracks ==
      \A s \in DOMAIN bySession \cap DOMAIN bySession' :
        bySession'[s].generation = bySession[s].generation =>
          /\ bySession'[s].revision >= bySession[s].revision
          /\ bySession'[s].grant # bySession[s].grant =>
               bySession'[s].revision > bySession[s].revision
<1>1. IInv /\ [Next]_vars => [Tracks]_vars
  <2> SUFFICES ASSUME IInv, Next PROVE Tracks
    BY Zenon DEF vars
  <2>0. \A s \in DOMAIN bySession : bySession[s].revision \in Nat
    BY Zenon DEF IInv, TypeOK, User
  <2>1. CASE \E n \in Names, a \in Grants : Add(n, a)
    <3> PICK n \in Names, a \in Grants : Add(n, a)
      BY <2>1, Zenon
    <3>1. HasRoom /\ CanAlloc
      BY RoomMeansAlloc, Zenon DEF Add
    <3>2. Alloc /\ \E u : bySession' = Put(bySession, Allocated, u)
      BY <3>1, Zenon DEF Add
    <3>3. Allocated \notin DOMAIN bySession
      BY <3>1, <3>2, AllocFacts, Zenon DEF IInv, PoolPartition
    <3>4. \A s \in DOMAIN bySession : bySession'[s] = bySession[s]
      BY <3>2, <3>3, Zenon DEF Put
    <3> QED
      BY <2>0, <3>4
  <2>2. CASE \E s \in DOMAIN bySession, g \in 1 .. generation :
               RemoveIfGeneration(s, g)
    <3>1. \A s \in DOMAIN bySession' : bySession'[s] = bySession[s]
      BY <2>2, Zenon DEF RemoveIfGeneration, Delete
    <3> QED
      BY <2>0, <3>1
  <2>3. ASSUME NEW s \in DOMAIN bySession, NEW n \in Names, NEW a \in Grants,
               \/ UpdateUser(s, a) /\ n = bySession[s].name
               \/ UpdateIdentity(s, n, a)
        PROVE  Tracks
    <3>1. /\ \A t \in DOMAIN bySession : t # s => bySession'[t] = bySession[t]
          /\ bySession'[s].grant = a
          /\ bySession'[s].revision = Revised(bySession[s], a)
      BY <2>3, UpdateFacts DEF IInv
    <3> QED
      BY <2>0, <3>1 DEF Revised
  <2>4. CASE \E s \in DOMAIN bySession, a \in Grants : UpdateUser(s, a)
    <3> PICK s \in DOMAIN bySession, a \in Grants : UpdateUser(s, a)
      BY <2>4, Zenon
    <3>1. bySession[s].name \in Names
      BY Zenon DEF IInv, TypeOK, User
    <3> QED
      BY <2>3, <3>1, Zenon
  <2>5. CASE \E s \in DOMAIN bySession, n \in Names, a \in Grants :
               UpdateIdentity(s, n, a)
    BY <2>3, <2>5, Zenon
  <2> QED
    BY <2>1, <2>2, <2>4, <2>5, Zenon DEF Next
<1> QED
  BY <1>1, Invariance, PTL DEF Spec, RevisionTracksGrant

=============================================================================
