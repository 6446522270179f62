-------------------------- MODULE ControlTransport --------------------------
(***************************************************************************)
(* The reliable control plane of one session: the bounded queue and worker *)
(* of internal/cluster/control.go together with the lifecycle entry of     *)
(* internal/cluster/registry.go that gates it.                             *)
(*                                                                         *)
(* Threads: the authentication handler (BeginSync, SendInitial,            *)
(* CommitSyncAndAnnounce, AbortSync on failure), broadcasters (Send), the  *)
(* session's worker (run), one closer (SendThenClose or CloseAfterFlush),  *)
(* the goroutines failLocked starts, the disconnect path (CloseAndUnbind   *)
(* with Detach) and the loss of a whole edge (RemoveEdge).  A critical     *)
(* section under the registry mutex and the session mutex is one step; the *)
(* transition lock, which is held across several such sections, is `lock'. *)
(*                                                                         *)
(* The initial messages are numbered 1 .. InitialLen and the ordinary ones *)
(* InitialLen + 1, InitialLen + 2, ... in the order Send accepts them, so  *)
(* that a wire carrying 1, 2, 3, ... is in order, complete and free of     *)
(* duplicates.  A command of the queue is the number of its message or one *)
(* of the marks Barrier, Final and FinalFlush.                             *)
(***************************************************************************)
EXTENDS Integers, Sequences

CONSTANTS Limit,        \* controlSession.limit (controlDeferredLimit = 64)
          InitialLen,   \* messages of the initial sync
          MaxLive       \* bound: ordinary messages accepted in one behaviour

ASSUME LimitAssumption == Limit \in Nat \ {0}
ASSUME InitialLenAssumption == InitialLen \in Nat
ASSUME MaxLiveAssumption == MaxLive \in Nat

Barrier    == 0     \* the commit's command: no message, ctx set
Final      == -1    \* SendThenClose: a message, ctx set, final
FinalFlush == -2    \* CloseAfterFlush: no message, ctx set, final

Command == Nat \cup {Final, FinalFlush}
IsMessage(c) == c > 0
IsFinal(c) == c = Final \/ c = FinalFlush

VARIABLES
  state,       \* entry.state; "Closed" also once the entry is deleted
  announced,   \* entry.announced
  removes,     \* UserRemove broadcasts this generation has caused
  lock,        \* holder of entry.transition across steps
  mapped,      \* t.sessions[ref] # nil
  queue,       \* cs.queue
  deferred,    \* cs.deferred
  closed, committing, stopped, failed,   \* the flags of controlSession
  tasks,       \* goroutines started and not yet run
  worker,      \* where cs.run is
  hand,        \* the command cs.run has received
  barrierDone, finalDone,                \* the buffered done channels
  sinkOpen,    \* the client's transport is open
  written,     \* what WriteControl has put on the open transport, in order
  flushed,     \* how much of `written' a Flush has confirmed
  auth,        \* where the authentication handler is
  sent,        \* initial messages accepted by SendInitial
  live,        \* ordinary messages accepted by Send
  closer       \* where the thread that closes the session on purpose is

registry == <<state, announced, removes, lock>>
flags == <<closed, committing, stopped, failed>>
wire == <<sinkOpen, written, flushed>>
workerVars == <<worker, hand, barrierDone, finalDone>>
counts == <<sent, live>>
vars == <<state, announced, removes, lock, mapped, queue, deferred, closed,
          committing, stopped, failed, tasks, worker, hand, barrierDone,
          finalDone, sinkOpen, written, flushed, auth, sent, live, closer>>

SessionState == {"Syncing", "Active", "Closing", "Closed"}
Results == {"none", "ok", "err"}

(* Every variable keeps its type.  In particular the queue never outgrows  *)
(* its capacity of Limit messages and one reserved command, nor the        *)
(* deferred list Limit: the checks of enqueueLocked and Send.              *)
TypeOK ==
  /\ state \in SessionState
  /\ announced \in BOOLEAN
  /\ removes \in Nat
  /\ lock \in {"free", "commit", "unbind"}
  /\ mapped \in BOOLEAN
  /\ queue \in Seq(Command) /\ Len(queue) <= Limit + 1
  /\ deferred \in Seq(Nat \ {0}) /\ Len(deferred) <= Limit
  /\ closed \in BOOLEAN /\ committing \in BOOLEAN
  /\ stopped \in BOOLEAN /\ failed \in BOOLEAN
  /\ tasks \subseteq {"closeSink", "onFailure", "unregister"}
  /\ worker \in {"none", "idle", "write", "flush", "exited"}
  /\ hand \in Command
  /\ barrierDone \in Results /\ finalDone \in Results
  /\ sinkOpen \in BOOLEAN
  /\ written \in Seq(Command)
  /\ flushed \in Nat
  /\ auth \in {"begin", "initial", "await", "lock", "announce", "done",
               "abort", "aborted"}
  /\ sent \in 0 .. InitialLen
  /\ live \in 0 .. MaxLive
  /\ closer \in {"none", "send", "await", "returned"}

Init ==   \* the session has just been bound: Registry.Bind
  /\ state = "Syncing" /\ announced = FALSE /\ removes = 0 /\ lock = "free"
  /\ mapped = FALSE /\ queue = <<>> /\ deferred = <<>>
  /\ closed = FALSE /\ committing = FALSE /\ stopped = FALSE /\ failed = FALSE
  /\ tasks = {} /\ worker = "none" /\ hand = Barrier
  /\ barrierDone = "none" /\ finalDone = "none"
  /\ sinkOpen = TRUE /\ written = <<>> /\ flushed = 0
  /\ auth = "begin" /\ sent = 0 /\ live = 0 /\ closer = "none"

-----------------------------------------------------------------------------
(* Helpers shared by the operations.                                       *)

Reachable == state # "Closed" /\ mapped        \* withQueue finds e and cs
LockFree == lock = "free" \/ state = "Closed"  \* transition does not block
HasRoom == Len(queue) < Limit                  \* enqueueLocked, reserved = false
HasReserved == Len(queue) < Limit + 1          \* enqueueLocked, reserved = true

StopLocked == closed' = TRUE /\ deferred' = <<>> /\ stopped' = TRUE

(* Faults: failLocked forgets one of the goroutines it starts.             *)
FailLeavingSink ==
  IF stopped
  THEN UNCHANGED <<closed, deferred, stopped, failed, tasks>>
  ELSE StopLocked /\ failed' = TRUE /\ tasks' = tasks \cup {"onFailure"}

FailSilently ==
  IF stopped
  THEN UNCHANGED <<closed, deferred, stopped, failed, tasks>>
  ELSE StopLocked /\ failed' = TRUE /\ tasks' = tasks \cup {"closeSink"}

FailLocked ==
  IF stopped
  THEN UNCHANGED <<closed, deferred, stopped, failed, tasks>>
  ELSE /\ StopLocked
       /\ failed' = TRUE
       /\ tasks' = tasks \cup {"closeSink", "onFailure"}

(* Fault: the queue is forgotten but its worker is not told to stop.       *)
TakeOnly == mapped' = FALSE /\ UNCHANGED <<closed, deferred, stopped>>

(* take: the session leaves the map; its worker is told to stop.           *)
TakeAndStop ==
  /\ mapped' = FALSE
  /\ IF mapped THEN StopLocked ELSE UNCHANGED <<closed, deferred, stopped>>

(* Fault: a second close also reports the session as announced.            *)
CloseAnnouncedAgain == IF announced THEN 1 ELSE 0

(* beginClose, and the snapshot's Announced that makes callers broadcast   *)
(* UserRemove: it is cleared for every close after the first.              *)
CloseAnnounced == IF announced /\ state \in {"Syncing", "Active"} THEN 1 ELSE 0

-----------------------------------------------------------------------------
(* The authentication handler.                                             *)

BeginSync ==
  /\ auth = "begin" /\ lock = "free" /\ state = "Syncing"
  /\ mapped' = TRUE /\ worker' = "idle" /\ auth' = "initial"
  /\ UNCHANGED <<registry, queue, deferred, flags, tasks, hand, barrierDone,
                 finalDone, wire, counts, closer>>

(* BeginSync is refused: the handler closes and unbinds the entry itself.  *)
BeginSyncRefused ==
  /\ auth = "begin" /\ LockFree /\ state # "Syncing"
  /\ state' = "Closed" /\ auth' = "aborted"
  /\ UNCHANGED <<announced, removes, lock, mapped, queue, deferred, flags,
                 tasks, workerVars, wire, counts, closer>>

MayInitial == Reachable /\ ~closed /\ state = "Syncing" /\ ~committing

SendInitial ==
  /\ auth = "initial" /\ sent < InitialLen /\ MayInitial /\ HasRoom
  /\ queue' = Append(queue, sent + 1)
  /\ sent' = sent + 1
  /\ UNCHANGED <<registry, mapped, deferred, flags, tasks, workerVars, wire,
                 auth, live, closer>>

SendInitialOverflow ==
  /\ auth = "initial" /\ sent < InitialLen /\ MayInitial /\ ~HasRoom
  /\ FailLocked
  /\ auth' = "abort"
  /\ UNCHANGED <<registry, mapped, queue, committing, workerVars, wire, counts,
                 closer>>

(* SendInitial, or the commit's first half, finds the session closing.     *)
SyncRefused ==
  /\ auth = "initial" /\ ~MayInitial
  /\ auth' = "abort"
  /\ UNCHANGED <<registry, mapped, queue, deferred, flags, tasks, workerVars,
                 wire, counts, closer>>

CommitStart ==
  /\ auth = "initial" /\ sent = InitialLen /\ MayInitial
  /\ committing' = TRUE
  /\ IF HasReserved
     THEN /\ queue' = Append(queue, Barrier) /\ auth' = "await"
          /\ UNCHANGED <<closed, deferred, stopped, failed, tasks>>
     ELSE /\ FailLocked /\ auth' = "abort" /\ UNCHANGED queue
  /\ UNCHANGED <<registry, mapped, workerVars, wire, counts, closer>>

(* await: done delivers nil, or the wait ends with an error (done, stop or *)
(* the deadline).  A stopped queue was already failed: failLocked is a     *)
(* no-op there.                                                            *)
NoBarrier == TRUE                              \* fault: commit does not wait
BarrierAcked == barrierDone = "ok"

CommitAcked ==
  /\ auth = "await" /\ BarrierAcked
  /\ auth' = "lock"
  /\ UNCHANGED <<registry, mapped, queue, deferred, flags, tasks, workerVars,
                 wire, counts, closer>>

(* Fault: the commit waits without a deadline.                             *)
CommitNoDeadline ==
  /\ auth = "await" /\ stopped
  /\ auth' = "abort"
  /\ UNCHANGED <<registry, mapped, queue, deferred, flags, tasks, workerVars,
                 wire, counts, closer>>

CommitGivesUp ==
  /\ auth = "await"
  /\ FailLocked
  /\ auth' = "abort"
  /\ UNCHANGED <<registry, mapped, queue, committing, workerVars, wire, counts,
                 closer>>

(* The commit point, under the transition lock, which it keeps to announce. *)
MayCommitSealed == state = "Syncing"           \* fault: closed not checked
MayCommit == state = "Syncing" /\ ~closed
SplicedNothing == queue                        \* fault: deferred discarded
Spliced == queue \o deferred
SpliceFits == Len(queue) + Len(deferred) <= Limit

CommitSplice ==
  /\ auth = "lock" /\ lock = "free" /\ MayCommit
  /\ committing' = FALSE
  /\ IF SpliceFits
     THEN /\ queue' = Spliced /\ deferred' = <<>>
          /\ state' = "Active" /\ lock' = "commit" /\ auth' = "announce"
          /\ UNCHANGED <<closed, stopped, failed, tasks>>
     ELSE /\ queue' = queue \o SubSeq(deferred, 1, Limit - Len(queue))
          /\ FailLocked /\ auth' = "abort" /\ UNCHANGED <<state, lock>>
  /\ UNCHANGED <<announced, removes, mapped, workerVars, wire, counts, closer>>

CommitRefused ==
  /\ auth = "lock" /\ LockFree /\ ~MayCommit
  /\ committing' = (state = "Closed" /\ committing)
  /\ auth' = "abort"
  /\ UNCHANGED <<registry, mapped, queue, deferred, closed, stopped, failed,
                 tasks, workerVars, wire, counts, closer>>

Announce ==
  /\ auth = "announce"
  /\ announced' = TRUE /\ lock' = "free" /\ auth' = "done"
  /\ UNCHANGED <<state, removes, mapped, queue, deferred, flags, tasks,
                 workerVars, wire, counts, closer>>

(* closeFailedSync: AbortSync, then UnregisterConn in `tasks'.             *)
AbortSync ==
  /\ auth = "abort"
  /\ TakeAndStop
  /\ sinkOpen' = (sinkOpen /\ ~mapped)
  /\ tasks' = tasks \cup {"unregister"}
  /\ auth' = "aborted"
  /\ UNCHANGED <<registry, queue, committing, failed, workerVars, written,
                 flushed, counts, closer>>

-----------------------------------------------------------------------------
(* Broadcasters.  A refused Send changes nothing and is not a step.        *)

MaySend == Reachable /\ ~closed /\ live < MaxLive

(* Fault: a broadcast to a Syncing session goes straight to the queue.     *)
SendUndeferred ==
  /\ MaySend /\ state = "Syncing" /\ HasRoom
  /\ queue' = Append(queue, InitialLen + live + 1)
  /\ live' = live + 1
  /\ UNCHANGED <<registry, mapped, deferred, flags, tasks, workerVars, wire,
                 auth, sent, closer>>

SendDeferred ==
  /\ MaySend /\ state = "Syncing" /\ Len(deferred) < Limit
  /\ deferred' = Append(deferred, InitialLen + live + 1)
  /\ live' = live + 1
  /\ UNCHANGED <<registry, mapped, queue, flags, tasks, workerVars, wire, auth,
                 sent, closer>>

SendActive ==
  /\ MaySend /\ state = "Active" /\ HasRoom
  /\ queue' = Append(queue, InitialLen + live + 1)
  /\ live' = live + 1
  /\ UNCHANGED <<registry, mapped, deferred, flags, tasks, workerVars, wire,
                 auth, sent, closer>>

SendOverflow ==
  /\ MaySend
  /\ \/ state = "Syncing" /\ Len(deferred) >= Limit
     \/ state = "Active" /\ ~HasRoom
  /\ FailLocked
  /\ UNCHANGED <<registry, mapped, queue, committing, workerVars, wire, auth,
                 counts, closer>>

Send == SendDeferred \/ SendActive \/ SendOverflow

-----------------------------------------------------------------------------
(* The worker.                                                             *)

WorkerStop ==
  /\ worker = "idle" /\ stopped
  /\ worker' = "exited"
  /\ UNCHANGED <<registry, mapped, queue, deferred, flags, tasks, hand,
                 barrierDone, finalDone, wire, auth, counts, closer>>

(* A command received after stop was closed is dropped by the second check *)
(* of stop, which is WorkerStop; stop may still close before the write.    *)
WorkerReceive ==
  /\ worker = "idle" /\ ~stopped /\ queue # <<>>
  /\ hand' = Head(queue) /\ queue' = Tail(queue)
  /\ worker' = IF IsMessage(hand') \/ hand' = Final THEN "write" ELSE "flush"
  /\ UNCHANGED <<registry, mapped, deferred, flags, tasks, barrierDone,
                 finalDone, wire, auth, counts, closer>>

(* WriteControl returns nil.  On a closed transport the message is lost.   *)
WorkerWrite ==
  /\ worker = "write"
  /\ written' = IF sinkOpen THEN Append(written, hand) ELSE written
  /\ worker' = IF hand = Final THEN "flush" ELSE "idle"
  /\ UNCHANGED <<registry, mapped, queue, deferred, flags, tasks, hand,
                 barrierDone, finalDone, sinkOpen, flushed, auth, counts,
                 closer>>

Report(result) ==   \* cmd.done <- err
  /\ barrierDone' = IF hand = Barrier THEN result ELSE barrierDone
  /\ finalDone' = IF IsFinal(hand) THEN result ELSE finalDone

WorkerFlush ==
  /\ worker = "flush"
  /\ flushed' = IF sinkOpen THEN Len(written) ELSE flushed
  /\ sinkOpen' = (sinkOpen /\ ~IsFinal(hand))
  /\ Report("ok")
  /\ worker' = IF IsFinal(hand) THEN "exited" ELSE "idle"
  /\ UNCHANGED <<registry, mapped, queue, deferred, flags, tasks, hand, written,
                 auth, counts, closer>>

WorkerFails ==
  /\ worker \in {"write", "flush"}
  /\ FailLocked
  /\ sinkOpen' = (sinkOpen /\ ~IsFinal(hand))
  /\ Report("err")
  /\ worker' = "exited"
  /\ UNCHANGED <<registry, mapped, queue, committing, hand, written, flushed,
                 auth, counts, closer>>

Worker == WorkerStop \/ WorkerReceive \/ WorkerWrite \/ WorkerFlush \/ WorkerFails

-----------------------------------------------------------------------------
(* Closing: a kick or a ban is BeginClose, then close and its await, then  *)
(* UnregisterConn, which is left in `tasks'.                               *)

Kick ==
  /\ closer = "none" /\ lock = "free" /\ state # "Closed"
  /\ state' = "Closing" /\ removes' = removes + CloseAnnounced
  /\ closer' = "send"
  /\ UNCHANGED <<announced, lock, mapped, queue, deferred, flags, tasks,
                 workerVars, wire, auth, counts>>

MayClose == Reachable /\ ~closed

Close(final) ==
  /\ closer \in {"none", "send"} /\ MayClose /\ HasReserved
  /\ closed' = TRUE /\ deferred' = <<>>
  /\ queue' = Append(queue, final) /\ closer' = "await"
  /\ UNCHANGED <<registry, mapped, committing, stopped, failed, tasks,
                 workerVars, wire, auth, counts>>

SendThenClose == Close(Final)
CloseAfterFlush == Close(FinalFlush)

(* The barrier already holds the reserved slot of a full queue.            *)
CloseOverflow ==
  /\ closer \in {"none", "send"} /\ MayClose /\ ~HasReserved
  /\ FailLocked
  /\ closer' = "returned"
  /\ UNCHANGED <<registry, mapped, queue, committing, workerVars, wire, auth,
                 counts>>

CloseRefused ==
  /\ closer = "send" /\ ~MayClose
  /\ closer' = "returned" /\ tasks' = tasks \cup {"unregister"}
  /\ UNCHANGED <<registry, mapped, queue, deferred, flags, workerVars, wire,
                 auth, counts>>

CloserAcked ==
  /\ closer = "await" /\ finalDone = "ok"
  /\ mapped' = FALSE /\ closer' = "returned"
  /\ tasks' = tasks \cup {"unregister"}
  /\ UNCHANGED <<registry, queue, deferred, flags, workerVars, wire, auth,
                 counts>>

CloserGivesUp ==
  /\ closer = "await"
  /\ FailLocked
  /\ mapped' = FALSE /\ closer' = "returned"
  /\ UNCHANGED <<registry, queue, committing, workerVars, wire, auth, counts>>

(* CloseAndUnbind, called by UnregisterConn: Closing, Detach, unbind.      *)
UnregisterBegin ==
  /\ lock = "free" /\ state # "Closed"
  /\ state' = "Closing" /\ lock' = "unbind"
  /\ removes' = removes + CloseAnnounced
  /\ tasks' = tasks \ {"unregister"}
  /\ UNCHANGED <<announced, mapped, queue, deferred, flags, workerVars, wire,
                 auth, counts, closer>>

Disconnect == ~sinkOpen /\ UnregisterBegin          \* OnClose, cleanupRemote
CleanupTask ==     \* also the caller of close, once it has returned
  ("unregister" \in tasks \/ closer = "returned") /\ UnregisterBegin

UnregisterFinish ==
  /\ lock = "unbind"
  /\ TakeAndStop
  /\ state' = "Closed" /\ lock' = "free"
  /\ UNCHANGED <<announced, removes, queue, committing, failed, tasks,
                 workerVars, wire, auth, counts, closer>>

(* RemoveEdge deletes the entry without taking the transition lock.  It    *)
(* runs after EdgeDisconnected has unregistered the sessions it listed, so *)
(* it only meets a session bound since, whose sync has not begun.          *)
RemoveEdge ==
  /\ state # "Closed" /\ auth = "begin"
  /\ state' = "Closed"
  /\ UNCHANGED <<announced, removes, lock, mapped, queue, deferred, flags, tasks,
                 workerVars, wire, auth, counts, closer>>

-----------------------------------------------------------------------------
(* The goroutines of failLocked, and the client closing its transport.     *)

CloseSink ==
  /\ "closeSink" \in tasks
  /\ tasks' = tasks \ {"closeSink"} /\ sinkOpen' = FALSE
  /\ UNCHANGED <<registry, mapped, queue, deferred, flags, workerVars, written,
                 flushed, auth, counts, closer>>

(* controlFailed: BeginCloseAndNotify, then UnregisterConn in `tasks'.     *)
OnFailure ==
  /\ "onFailure" \in tasks /\ LockFree
  /\ tasks' = (tasks \ {"onFailure"}) \cup {"unregister"}
  /\ state' = IF state = "Closed" THEN state ELSE "Closing"
  /\ removes' = removes + CloseAnnounced
  /\ UNCHANGED <<announced, lock, mapped, queue, deferred, flags, workerVars,
                 wire, auth, counts, closer>>

PeerCloses ==
  /\ sinkOpen /\ sinkOpen' = FALSE
  /\ UNCHANGED <<registry, mapped, queue, deferred, flags, tasks, workerVars,
                 written, flushed, auth, counts, closer>>

-----------------------------------------------------------------------------
Authentication ==
  \/ BeginSync \/ BeginSyncRefused \/ SendInitial \/ SendInitialOverflow
  \/ SyncRefused \/ CommitStart \/ CommitAcked \/ CommitGivesUp \/ CommitSplice
  \/ CommitRefused \/ Announce \/ AbortSync

Closing ==
  \/ Kick \/ SendThenClose \/ CloseAfterFlush \/ CloseOverflow \/ CloseRefused
  \/ CloserAcked \/ CloserGivesUp \/ Disconnect \/ CleanupTask
  \/ UnregisterFinish \/ RemoveEdge

Goroutines == CloseSink \/ OnFailure

Next == Authentication \/ Send \/ Worker \/ Closing \/ Goroutines \/ PeerCloses

Spec == Init /\ [][Next]_vars

(* An open sink may block its worker for ever; a closed one returns (the   *)
(* contract of ControlSink.Close).  The other threads keep running, and    *)
(* each wait of await has a deadline.  Nothing is assumed of the client.   *)
Fairness ==
  /\ WF_vars(WorkerStop) /\ WF_vars(WorkerReceive)
  /\ WF_vars(~sinkOpen /\ (WorkerWrite \/ WorkerFlush \/ WorkerFails))
  /\ WF_vars(Authentication)
  /\ WF_vars(CloseRefused) /\ WF_vars(CloserAcked \/ CloserGivesUp)
  /\ WF_vars(CloseSink) /\ WF_vars(OnFailure)
  /\ WF_vars(CleanupTask) /\ WF_vars(UnregisterFinish)

FairSpec == Spec /\ Fairness

-----------------------------------------------------------------------------
(* Properties.                                                             *)

(* The client's wire carries the initial sync, then the ordinary messages  *)
(* in the order Send accepted them, without gap or repetition, and a final *)
(* message is the last thing on it: the FIFO of run, the deferral of Send  *)
(* while Syncing, the splice of CommitSyncAndAnnounce, the seal of close.  *)
InOrder ==
  \A i \in 1 .. Len(written) :
     \/ written[i] = i
     \/ written[i] = Final /\ i = Len(written)

(* While the session accepts messages and its transport is open, every     *)
(* message SendInitial or Send returned nil for is on the wire, in the     *)
(* worker's hand, queued or deferred.                                      *)
NoneLost ==
  sinkOpen /\ ~closed =>
    \A m \in (1 .. sent) \cup (InitialLen + 1 .. InitialLen + live) :
      \/ \E i \in 1 .. Len(written) : written[i] = m
      \/ worker = "write" /\ hand = m
      \/ \E i \in 1 .. Len(queue) : queue[i] = m
      \/ \E i \in 1 .. Len(deferred) : deferred[i] = m

(* A session is Active only once the whole initial sync is confirmed to    *)
(* have reached the client (unless the client has gone meanwhile): the     *)
(* barrier of CommitSyncAndAnnounce and its write receipt.                 *)
SyncedWhenActive ==
  state = "Active" /\ sinkOpen => flushed >= InitialLen

(* When the commit point is reached the deferred messages always fit the   *)
(* queue: the overflow branch of the splice is never taken.                *)
CommitNeverOverflows ==
  auth = "lock" /\ MayCommit => SpliceFits

(* Once a session is unbound, or its queue has left the transport's map,   *)
(* no worker is left waiting for a next message: Detach, AbortSync, close. *)
NoOrphanWorker ==
  /\ state = "Closed" => ~mapped
  /\ ~mapped /\ worker = "idle" => stopped

(* UserRemove is broadcast at most once per generation, never before the   *)
(* join was announced, and by the time an announced session is Closing.    *)
JoinRemovePaired ==
  /\ removes <= (IF announced THEN 1 ELSE 0)
  /\ announced /\ state = "Closing" => removes = 1

(* The session's wire implements SessionStream.                            *)
FinalWritten == \E i \in 1 .. Len(written) : written[i] = Final

streamPhase ==
  IF ~sinkOpen \/ FinalWritten THEN "ended"
  ELSE IF auth \in {"announce", "done"} THEN "live" ELSE "syncing"

Stream == INSTANCE SessionStream WITH phase <- streamPhase, stream <- written

(* ControlTransport implements SessionStream: every step of every thread   *)
(* extends the client's stream by the next message, ends it, or leaves it. *)
DeliversStream == Stream!StreamSpec

(* When CloseAfterFlush reports success, every message accepted before the *)
(* call has reached the client.                                            *)
CloseFlushesAccepted ==
  [][worker = "flush" /\ hand = FinalFlush /\ sinkOpen /\ finalDone' = "ok" =>
       Len(written) = sent + live]_vars

(* A step to Active is only taken by a session that is neither stopped nor *)
(* sealed and whose barrier was acknowledged: a commit that timed out, or  *)
(* a close that came first, is never followed by a late activation.        *)
NoLateActivation ==
  [][state # "Active" /\ state' = "Active" =>
       ~stopped /\ ~closed /\ barrierDone = "ok"]_vars

(* CommitSyncAndAnnounce returns: the handler either announces the join or *)
(* rolls the session back.                                                 *)
CommitTerminates ==
  auth = "await" ~> auth \in {"done", "aborted"}

(* A stopped worker exits, and a closer gets its answer.                   *)
StopTerminates ==
  /\ stopped ~> worker \in {"none", "exited"}
  /\ closer = "await" ~> closer = "returned"

(* A failed queue (overflow, write error, timeout) ends the session: its   *)
(* transport is closed and its entry unbound (failLocked, controlFailed).  *)
FailureEndsSession ==
  failed ~> state = "Closed" /\ ~sinkOpen /\ ~mapped

=============================================================================
