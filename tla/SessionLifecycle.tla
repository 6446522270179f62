-------------------------- MODULE SessionLifecycle --------------------------
(***************************************************************************)
(* The life of the logical sessions of one server, and what every client   *)
(* is told about the others: authentication (handleAuthenticate, sendSync, *)
(* CommitSyncAndAnnounce), the broadcasts of joins and removals, and the   *)
(* paths that end a session: KickSessionRef, a ban or moderator's removal, *)
(* a failed control queue and the closing of the client's connection.      *)
(*                                                                         *)
(* A session is identified by its generation, 1, 2, ... in the order       *)
(* Manager.Add hands them out.  Its session ID returns to the pool when    *)
(* the user is removed and is then given to a later generation, while the  *)
(* threads of the earlier one may still be running.  Each critical section *)
(* of the user manager, the registry, the transport or connMu is one step. *)
(*                                                                         *)
(* The order and completeness of one client's own stream are the subject   *)
(* of ControlTransport; here a message sent to a mapped, Syncing or Active *)
(* session counts as received, after its initial snapshot.                 *)
(***************************************************************************)
EXTENDS Naturals, Sequences, FiniteSets

CONSTANTS SIDs,      \* the session IDs of the pool (MaxUsers of them)
          NoSID,     \* the ID of a session not created yet
          MaxGen,    \* bound: generations created in one behaviour
          MaxEnds,   \* bound: sessions ended on purpose or by a fault
          Causes     \* what may end a session ("early": a ban before Bind)

ASSUME MaxGenAssumption == MaxGen \in Nat \ {0}
ASSUME MaxEndsAssumption == MaxEnds \in Nat
ASSUME SIDsAssumption == NoSID \notin SIDs
ASSUME CausesAssumption == Causes \subseteq {"kick", "ban", "early", "fail", "leave"}

Gens == 1 .. MaxGen
NoGen == 0          \* no session
NoNews == MaxGen + 1

(* The threads that work on a session: its authentication handler, and one *)
(* of each path that ends it.                                              *)
Threads == {"auth", "kick", "ban", "fail", "drop"}

VARIABLES
  generation,  \* Manager.generation
  sid,         \* the ID a generation was given
  users,       \* Manager.bySession: the generation of the user holding an ID
  entries,     \* Registry.sessions: the generation bound to an ID
  state,       \* entry.state
  announced,   \* entry.announced
  lock,        \* the thread holding entry.transition, or "free"
  mapped,      \* the session has a control queue that accepts messages
  conns,       \* Server.conns: the generation whose connection is registered
  open,        \* the client's connection has not been closed
  auth,        \* where the authentication handler is
  roster,      \* sendSync: users of its snapshot not yet examined
  base,        \* what the initial snapshot told the client of each ID
  news,        \* what the broadcasts since told it last, or NoNews
  rest,        \* the steps a thread has still to take
  told,        \* the thread's own copy of snap.Announced
  todo,        \* recipients of the thread's broadcast still to be sent to
  ends         \* history: which sessions were made to end, and how

registry == <<entries, state, announced, lock>>
views == <<base, news>>
threads == <<rest, told, todo>>
vars == <<generation, sid, users, entries, state, announced, lock, mapped, conns,
          open, auth, roster, base, news, rest, told, todo, ends>>

Init ==
  /\ generation = 0 /\ ends = {} /\ sid = [g \in Gens |-> NoSID]
  /\ users = [s \in SIDs |-> NoGen] /\ entries = [s \in SIDs |-> NoGen]
  /\ state = [g \in Gens |-> "none"] /\ announced = [g \in Gens |-> FALSE]
  /\ lock = [g \in Gens |-> "free"] /\ mapped = [g \in Gens |-> FALSE]
  /\ conns = [s \in SIDs |-> NoGen] /\ open = [g \in Gens |-> TRUE]
  /\ auth = [g \in Gens |-> "none"] /\ roster = [g \in Gens |-> {}]
  /\ base = [g \in Gens |-> [s \in SIDs |-> NoGen]]
  /\ news = [g \in Gens |-> [s \in SIDs |-> NoNews]]
  /\ rest = [x \in Gens \X Threads |-> <<>>]
  /\ told = [x \in Gens \X Threads |-> FALSE]
  /\ todo = [x \in Gens \X Threads |-> {}]

-----------------------------------------------------------------------------
(* Helpers.                                                                *)

Live(g) == sid[g] # NoSID /\ users[sid[g]] = g         \* SnapshotRef
Bound(g) == sid[g] # NoSID /\ entries[sid[g]] = g      \* the ref is not stale
Deliverable(g) == Bound(g) /\ state[g] \in {"Syncing", "Active"}
Active(g) == Bound(g) /\ state[g] = "Active"           \* Registry.Active
LockFree(g) == Bound(g) => lock[g] = "free"            \* transition returns

(* Faults of Path: the user is removed before the session is closed; the   *)
(* disconnect forgets to remove the user.                                  *)
PathRemoveFirst(t) ==
  CASE t = "kick" -> <<"remove", "hold", "broadcast", "release", "final",
                       "unregister">>
    [] t = "ban"  -> <<"remove", "close", "broadcast", "final", "unregister">>
    [] t = "fail" -> <<"remove", "hold", "broadcast", "release", "unregister">>
    [] t = "drop" -> <<"remove", "unregister", "broadcast">>
    [] t = "auth" -> <<"remove", "abort", "unregister">>

PathNoRemove(t) ==
  CASE t = "kick" -> <<"hold", "broadcast", "release", "final", "unregister">>
    [] t = "ban"  -> <<"close", "broadcast", "final", "unregister">>
    [] t = "fail" -> <<"hold", "broadcast", "release", "unregister">>
    [] t = "drop" -> <<"unregister", "broadcast">>
    [] t = "auth" -> <<"abort", "unregister">>

(* The steps of each path, in the order the code takes them.               *)
Path(t) ==
  CASE t = "kick" -> <<"hold", "broadcast", "release", "final", "remove",
                       "unregister">>
    [] t = "ban"  -> <<"close", "broadcast", "final", "remove", "unregister">>
    [] t = "fail" -> <<"hold", "broadcast", "release", "unregister", "remove">>
    [] t = "drop" -> <<"unregister", "remove", "broadcast">>
    [] t = "auth" -> <<"abort", "unregister", "remove">>

At(g, t, step) == rest[g, t] # <<>> /\ Head(rest[g, t]) = step
Goto(g, t, steps) == rest' = [rest EXCEPT ![<<g, t>>] = steps]
Advance(g, t) == Goto(g, t, Tail(rest[g, t]))

(* Closing a connection runs OnClose, once.                                *)
CloseConn(g, newRest) ==
  /\ open' = [open EXCEPT ![g] = FALSE]
  /\ rest' = IF open[g] THEN [newRest EXCEPT ![<<g, "drop">>] = Path("drop")]
                        ELSE newRest

-----------------------------------------------------------------------------
(* Authentication.                                                         *)

(* Manager.Add: the pool gives an ID no user holds.                        *)
Add(s) ==
  /\ generation < MaxGen /\ users[s] = NoGen
  /\ LET g == generation + 1 IN
     /\ generation' = g
     /\ sid' = [sid EXCEPT ![g] = s]
     /\ users' = [users EXCEPT ![s] = g]
     /\ auth' = [auth EXCEPT ![g] = "bind"]
  /\ UNCHANGED <<registry, mapped, conns, open, roster, views, threads, ends>>

Bind(g) ==
  /\ auth[g] = "bind" /\ entries[sid[g]] = NoGen
  /\ entries' = [entries EXCEPT ![sid[g]] = g]
  /\ state' = [state EXCEPT ![g] = "Syncing"]
  /\ auth' = [auth EXCEPT ![g] = "begin"]
  /\ UNCHANGED <<generation, sid, users, announced, lock, mapped, conns, open,
                 roster, views, threads, ends>>

(* The ID's previous session is not unbound yet: the new one is refused.   *)
BindRefused(g) ==
  /\ auth[g] = "bind" /\ entries[sid[g]] # NoGen
  /\ auth' = [auth EXCEPT ![g] = "refused"]
  /\ UNCHANGED <<generation, sid, users, registry, mapped, conns, open, roster,
                 views, threads, ends>>

BeginSync(g) ==
  /\ auth[g] = "begin" /\ LockFree(g) /\ Bound(g) /\ state[g] = "Syncing"
  /\ mapped' = [mapped EXCEPT ![g] = TRUE]
  /\ auth' = [auth EXCEPT ![g] = "crypt"]
  /\ UNCHANGED <<generation, sid, users, registry, conns, open, roster, views,
                 threads, ends>>

(* BeginSync fails; BeginClose and Unbind follow.                          *)
BeginSyncRefused(g) ==
  /\ auth[g] = "begin" /\ LockFree(g) /\ ~(Bound(g) /\ state[g] = "Syncing")
  /\ entries' = [entries EXCEPT ![sid[g]] = IF @ = g THEN NoGen ELSE @]
  /\ auth' = [auth EXCEPT ![g] = "refused"]
  /\ UNCHANGED <<generation, sid, users, state, announced, lock, mapped, conns,
                 open, roster, views, threads, ends>>

(* RemoveIfGeneration, then sendReject, which closes the connection.       *)
Reject(g) ==
  /\ auth[g] = "refused"
  /\ users' = [users EXCEPT ![sid[g]] = IF @ = g THEN NoGen ELSE @]
  /\ auth' = [auth EXCEPT ![g] = "ended"]
  /\ CloseConn(g, rest)
  /\ UNCHANGED <<generation, sid, registry, mapped, conns, roster, views, told,
                 todo, ends>>

(* The handler fails: closeFailedSync.                                     *)
Abort(g) ==
  /\ auth' = [auth EXCEPT ![g] = "ended"]
  /\ Goto(g, "auth", Path("auth"))

CryptSetup(g) ==
  /\ auth[g] = "crypt"
  /\ IF open[g]
     THEN auth' = [auth EXCEPT ![g] = "register"] /\ UNCHANGED rest
     ELSE Abort(g)
  /\ UNCHANGED <<generation, sid, users, registry, mapped, conns, open, roster,
                 views, told, todo, ends>>

RegisterConnOnly(g) ==
  /\ auth[g] = "register"
  /\ conns' = [conns EXCEPT ![sid[g]] = g]
  /\ auth' = [auth EXCEPT ![g] = "snapshot"]
  /\ UNCHANGED <<generation, sid, users, registry, mapped, open, roster, views,
                 threads, ends>>

SnapshotAll(g) ==
  /\ auth[g] = "snapshot"
  /\ roster' = [roster EXCEPT ![g] = {users[s] : s \in SIDs \ {sid[g]}} \ {NoGen}]
  /\ auth' = [auth EXCEPT ![g] = "roster"]
  /\ UNCHANGED <<generation, sid, users, registry, mapped, conns, open, views,
                 threads, ends>>

(* One user of the snapshot: only an Active one is sent.                   *)
MayInitial(g) == Bound(g) /\ state[g] = "Syncing" /\ mapped[g]

SendRoster(g, h) ==
  /\ auth[g] = "roster" /\ h \in roster[g]
  /\ roster' = [roster EXCEPT ![g] = @ \ {h}]
  /\ IF ~Active(h)
     THEN UNCHANGED <<base, auth, rest>>
     ELSE IF MayInitial(g)
          THEN base' = [base EXCEPT ![g][sid[h]] = h] /\ UNCHANGED <<auth, rest>>
          ELSE Abort(g) /\ UNCHANGED base
  /\ UNCHANGED <<generation, sid, users, registry, mapped, conns, open, news,
                 told, todo, ends>>

(* ServerSync, ServerConfig, the barrier and the commit point; the join is *)
(* announced under the transition lock.                                    *)
Commit(g) ==
  /\ auth[g] = "roster" /\ roster[g] = {}
  /\ MayInitial(g) /\ LockFree(g)
  /\ state' = [state EXCEPT ![g] = "Active"]
  /\ lock' = [lock EXCEPT ![g] = "auth"]
  /\ auth' = [auth EXCEPT ![g] = "announce"]
  /\ told' = [told EXCEPT ![<<g, "auth">>] = TRUE]
  /\ Goto(g, "auth", <<"broadcast">>)
  /\ UNCHANGED <<generation, sid, users, entries, announced, mapped, conns, open,
                 roster, views, todo, ends>>

CommitFails(g) ==
  /\ auth[g] = "roster" /\ roster[g] = {}
  /\ ~MayInitial(g) /\ LockFree(g)
  /\ Abort(g)
  /\ UNCHANGED <<generation, sid, users, registry, mapped, conns, open, roster,
                 views, told, todo, ends>>

Announced(g) ==
  /\ auth[g] = "announce" /\ rest[g, "auth"] = <<>>
  /\ announced' = [announced EXCEPT ![g] = TRUE]
  /\ lock' = [lock EXCEPT ![g] = "free"]
  /\ auth' = [auth EXCEPT ![g] = "done"]
  /\ UNCHANGED <<generation, sid, users, entries, state, mapped, conns, open,
                 roster, views, threads, ends>>

-----------------------------------------------------------------------------
(* What starts the paths that end a session.                               *)

End(g, cause) ==
  /\ cause \in Causes /\ Cardinality(ends) < MaxEnds
  /\ ends' = ends \cup {<<g, cause>>}

StartPath(g, t, cause) ==
  /\ End(g, cause) /\ rest[g, t] = <<>> /\ Live(g)
  /\ Goto(g, t, Path(t))
  /\ UNCHANGED <<generation, sid, users, registry, mapped, conns, open, auth,
                 roster, views, told, todo>>

Kick(g) == StartPath(g, "kick", "kick")     \* KickSessionRef

(* BanAndKickSession, handleUserRemove: they look for the user only, so    *)
(* the session may be between Manager.Add and Bind.                        *)
Ban(g) ==
  \/ auth[g] # "bind" /\ StartPath(g, "ban", "ban")
  \/ auth[g] = "bind" /\ StartPath(g, "ban", "early")

(* failLocked (an overflow, a write error, the barrier's deadline): the    *)
(* queue stops, and the sink is closed and controlFailed called, each in a *)
(* goroutine of its own.                                                   *)
QueueFails(g) ==
  /\ End(g, "fail") /\ mapped[g] /\ Deliverable(g) /\ rest[g, "fail"] = <<>>
  /\ mapped' = [mapped EXCEPT ![g] = FALSE]
  /\ CloseConn(g, [rest EXCEPT ![<<g, "fail">>] = Path("fail")])
  /\ UNCHANGED <<generation, sid, users, registry, conns, auth, roster, views,
                 told, todo>>

(* The client closes its connection; the read loop is past the handler.    *)
Leave(g) ==
  /\ End(g, "leave") /\ auth[g] \in {"done", "ended"} /\ open[g]
  /\ CloseConn(g, rest)
  /\ UNCHANGED <<generation, sid, users, registry, mapped, conns, auth, roster,
                 views, told, todo>>

-----------------------------------------------------------------------------
(* The steps of the paths.                                                 *)

(* beginClose: only the first close of an announced session reports it.    *)
FirstClose(g) == announced[g] /\ state[g] # "Closing"

(* beginCloseAnnounced: BeginClose takes and releases the transition lock. *)
Close(g, t) ==
  /\ At(g, t, "close") /\ LockFree(g)
  /\ told' = [told EXCEPT ![<<g, t>>] = Bound(g) /\ FirstClose(g)]
  /\ state' = [state EXCEPT ![g] = IF Bound(g) THEN "Closing" ELSE @]
  /\ Advance(g, t)
  /\ UNCHANGED <<generation, sid, users, entries, announced, lock, mapped, conns,
                 open, auth, roster, views, todo, ends>>

(* BeginCloseAndNotify: the lock is held over the broadcast.               *)
Hold(g, t) ==
  /\ At(g, t, "hold") /\ Bound(g) /\ lock[g] = "free"
  /\ lock' = [lock EXCEPT ![g] = t]
  /\ told' = [told EXCEPT ![<<g, t>>] = FirstClose(g) /\ (t = "kick" => Live(g))]
  /\ state' = [state EXCEPT ![g] = "Closing"]
  /\ Advance(g, t)
  /\ UNCHANGED <<generation, sid, users, entries, announced, mapped, conns, open,
                 auth, roster, views, todo, ends>>

(* Nothing to close: KickSessionRef returns, controlFailed goes on.        *)
HoldStale(g, t) ==
  /\ At(g, t, "hold") /\ ~Bound(g)
  /\ Goto(g, t, IF t = "kick" THEN <<>> ELSE SubSeq(rest[g, t], 4, Len(rest[g, t])))
  /\ UNCHANGED <<generation, sid, users, registry, mapped, conns, open, auth,
                 roster, views, told, todo, ends>>

(* Fault: the transition lock is never released.                           *)
ReleaseHeld(g, t) ==
  /\ At(g, t, "release")
  /\ Advance(g, t)
  /\ UNCHANGED <<generation, sid, users, registry, mapped, conns, open, auth,
                 roster, views, told, todo, ends>>

Release(g, t) ==
  /\ At(g, t, "release")
  /\ lock' = [lock EXCEPT ![g] = "free"]
  /\ Advance(g, t)
  /\ UNCHANGED <<generation, sid, users, entries, state, announced, mapped, conns,
                 open, auth, roster, views, told, todo, ends>>

(* Fault: the broadcast leaves out the sessions that are still syncing.    *)
RecipientsActive(g) == {h \in Gens : Active(h) /\ sid[h] # sid[g]}

(* Broadcast: registry.Sessions, then one Send per session that was there. *)
Recipients(g) == {h \in Gens : Deliverable(h) /\ sid[h] # sid[g]}

Broadcast(g, t) ==
  /\ At(g, t, "broadcast")
  /\ LET to == IF told[g, t] THEN Recipients(g) ELSE {} IN
     /\ todo' = [todo EXCEPT ![<<g, t>>] = to]
     /\ Goto(g, t, (IF to = {} THEN <<>> ELSE <<"send">>) \o Tail(rest[g, t]))
  /\ told' = [told EXCEPT ![<<g, t>>] = FALSE]
  /\ UNCHANGED <<generation, sid, users, registry, mapped, conns, open, auth,
                 roster, views, ends>>

(* The join names the session, a UserRemove only its ID.                   *)
Message(g, t) == IF t = "auth" THEN g ELSE NoGen

Send(g, t, h) ==
  /\ At(g, t, "send") /\ h \in todo[g, t]
  /\ news' = IF Deliverable(h) /\ mapped[h]
             THEN [news EXCEPT ![h][sid[g]] = Message(g, t)] ELSE news
  /\ todo' = [todo EXCEPT ![<<g, t>>] = @ \ {h}]
  /\ IF todo[g, t] = {h} THEN Advance(g, t) ELSE UNCHANGED rest
  /\ UNCHANGED <<generation, sid, users, registry, mapped, conns, open, auth,
                 roster, base, told, ends>>

(* sendThenClose: the queue is sealed and the connection closed.           *)
SendThenClose(g, t) ==
  /\ At(g, t, "final")
  /\ LET next == [rest EXCEPT ![<<g, t>>] = Tail(@)] IN
     IF Bound(g) /\ mapped[g]
     THEN mapped' = [mapped EXCEPT ![g] = FALSE] /\ CloseConn(g, next)
     ELSE rest' = next /\ UNCHANGED <<mapped, open>>
  /\ UNCHANGED <<generation, sid, users, registry, conns, auth, roster, views,
                 told, todo, ends>>

(* AbortSync: the queue is taken and its sink closed.                      *)
AbortSync(g, t) ==
  /\ At(g, t, "abort")
  /\ LET next == [rest EXCEPT ![<<g, t>>] = Tail(@)] IN
     IF mapped[g]
     THEN mapped' = [mapped EXCEPT ![g] = FALSE] /\ CloseConn(g, next)
     ELSE rest' = next /\ UNCHANGED <<mapped, open>>
  /\ UNCHANGED <<generation, sid, users, registry, conns, auth, roster, views,
                 told, todo, ends>>

RemoveIfGeneration(g, t) ==
  /\ At(g, t, "remove")
  /\ users' = [users EXCEPT ![sid[g]] = IF @ = g THEN NoGen ELSE @]
  /\ Advance(g, t)
  /\ UNCHANGED <<generation, sid, registry, mapped, conns, open, auth, roster,
                 views, told, todo, ends>>

(* Fault: the registry entry is not deleted.                               *)
UnregisterBound(g, t) ==
  /\ At(g, t, "unregister") /\ Bound(g) /\ lock[g] = "free"
  /\ told' = [told EXCEPT ![<<g, t>>] = (t = "drop") /\ FirstClose(g)]
  /\ state' = [state EXCEPT ![g] = "Closing"]
  /\ mapped' = [mapped EXCEPT ![g] = FALSE]
  /\ conns' = [conns EXCEPT ![sid[g]] = NoGen]
  /\ Advance(g, t)
  /\ UNCHANGED <<generation, sid, users, entries, announced, lock, open, auth,
                 roster, views, todo, ends>>

(* UnregisterConn: CloseAndUnbind with its cleanup.  The transition lock   *)
(* is held throughout and a Closing session is hidden from every other     *)
(* thread, so that its critical sections can be one step.                  *)
Unregister(g, t) ==
  /\ At(g, t, "unregister") /\ Bound(g) /\ lock[g] = "free"
  /\ told' = [told EXCEPT ![<<g, t>>] = (t = "drop") /\ FirstClose(g)]
  /\ state' = [state EXCEPT ![g] = "Closing"]
  /\ mapped' = [mapped EXCEPT ![g] = FALSE]
  /\ conns' = [conns EXCEPT ![sid[g]] = NoGen]
  /\ entries' = [entries EXCEPT ![sid[g]] = NoGen]
  /\ Advance(g, t)
  /\ UNCHANGED <<generation, sid, users, announced, lock, open, auth, roster,
                 views, todo, ends>>

UnregisterStale(g, t) ==
  /\ At(g, t, "unregister") /\ ~Bound(g)
  /\ Advance(g, t)
  /\ UNCHANGED <<generation, sid, users, registry, mapped, conns, open, auth,
                 roster, views, told, todo, ends>>

-----------------------------------------------------------------------------
Authenticate(g) ==
  \/ Bind(g) \/ BindRefused(g) \/ BeginSync(g) \/ BeginSyncRefused(g)
  \/ Reject(g) \/ CryptSetup(g) \/ RegisterConnOnly(g) \/ SnapshotAll(g)
  \/ (\E h \in Gens : SendRoster(g, h))
  \/ Commit(g) \/ CommitFails(g) \/ Announced(g)

Thread(g, t) ==
  \/ Close(g, t) \/ Hold(g, t) \/ HoldStale(g, t) \/ Release(g, t)
  \/ Broadcast(g, t) \/ (\E h \in Gens : Send(g, t, h))
  \/ SendThenClose(g, t) \/ AbortSync(g, t) \/ RemoveIfGeneration(g, t)
  \/ Unregister(g, t) \/ UnregisterStale(g, t)

Next ==
  \/ \E s \in SIDs : Add(s)
  \/ \E g \in Gens :
       \/ Authenticate(g) \/ Kick(g) \/ Ban(g) \/ QueueFails(g) \/ Leave(g)
       \/ \E t \in Threads : Thread(g, t)

Spec == Init /\ [][Next]_vars

(* Every thread that has started runs on: nothing here waits on a client.  *)
Fairness ==
  \A g \in Gens : /\ WF_vars(Authenticate(g))
                  /\ \A t \in Threads : WF_vars(Thread(g, t))

FairSpec == Spec /\ Fairness

-----------------------------------------------------------------------------
(* Properties.                                                             *)

(* What a client has been told last about an ID.                           *)
View(h, s) == IF news[h][s] = NoNews THEN base[h][s] ELSE news[h][s]

Watching(h) == auth[h] = "done" /\ Active(h) /\ mapped[h]

(* No thread of any generation that held the ID is still at work.          *)
Idle(g) ==
  auth[g] \in {"none", "done", "ended"} /\ \A t \in Threads : rest[g, t] = <<>>
Settled(s) == \A g \in Gens : sid[g] = s => Idle(g)

(* A ban found the session after Manager.Add and before Bind.  Its Begin-  *)
(* Close then has no entry to close; the handler, which is not told, binds *)
(* the session, and RemoveIfGeneration takes the user from under it.       *)
BannedEarly(g) == <<g, "early">> \in ends

(* A bound session that is not closing owns its session ID: RemoveIf-      *)
(* Generation never takes the user away from under a live registry entry,  *)
(* whichever of the paths that end a session run, and in whatever order.   *)
(* A ban that finds the session before it is bound is the one exception.   *)
EntryOwnsUser == \A g \in Gens : Deliverable(g) /\ ~BannedEarly(g) => Live(g)

(* Once the threads of a session that ended are done, nothing of it is     *)
(* left in the user manager, the registry or the control transport, and it *)
(* no longer holds its transition lock.                                    *)
NothingLeftBehind ==
  \A g \in Gens :
    Idle(g) /\ (auth[g] = "ended" \/ state[g] = "Closing" \/ ~open[g]) =>
      ~Live(g) /\ ~Bound(g) /\ ~mapped[g] /\ lock[g] = "free"

(* No ghosts: when the threads of an ID have settled, a client that shows  *)
(* a user there shows a session that is Active, however its snapshot raced *)
(* with joins, removals and the reuse of the ID.  A session banned before  *)
(* it was bound is left out: a kick that finds its user gone ends it       *)
(* without telling anyone.                                                 *)
NoGhostUser ==
  \A h \in Gens, s \in SIDs :
    Watching(h) /\ s # sid[h] /\ Settled(s) /\ View(h, s) # NoGen =>
      Active(View(h, s)) \/ BannedEarly(View(h, s))

(* Everybody is seen: when the threads of an ID have settled, every client *)
(* shows the Active session that holds it.  This is promised to a session  *)
(* whose ID no other held before, or whose predecessors were all kicked:   *)
(* only KickSessionRef holds the ID back until its UserRemove is queued.   *)
(* It is not promised to a session banned before it was bound, whose ID    *)
(* another may have taken.                                                 *)
Seen(g) ==
  \A h \in Gens \ {g} : Watching(h) => View(h, sid[g]) = g
HeldBack(g) ==
  \A f \in 1 .. g - 1, c \in Causes \ {"kick"} :
    sid[f] = sid[g] => <<f, c>> \notin ends
EveryoneVisible ==
  \A g \in Gens :
    Watching(g) /\ Settled(sid[g]) /\ HeldBack(g) /\ ~BannedEarly(g) => Seen(g)

(* The ID is given up last: as long as a UserRemove of a session is still  *)
(* to be sent to some client, the user manager has not freed its ID, so    *)
(* that no other session can have joined under it.                         *)
Removing(g, t) ==
  /\ t # "auth"
  /\ At(g, t, "send") \/ (At(g, t, "broadcast") /\ told[g, t])
IDHeldUntilRemoved ==
  \A g \in Gens, t \in Threads : Removing(g, t) => Live(g)

(* A session whose connection is closed is removed and unbound.            *)
DisconnectEndsSession ==
  \A g \in Gens : ~open[g] ~> ~Live(g) /\ ~Bound(g)

(* Authentication ends, in success or in failure, however many threads     *)
(* compete for the session's transition lock.                              *)
AuthenticationEnds ==
  \A g \in Gens : auth[g] = "bind" ~> auth[g] \in {"done", "ended"}

=============================================================================
