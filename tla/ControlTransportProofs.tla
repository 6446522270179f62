----------------------- MODULE ControlTransportProofs -----------------------
(***************************************************************************)
(* Proofs about ControlTransport for every Limit, InitialLen and MaxLive.  *)
(* The inductive invariant is the conjunction of six parts.  Each part is  *)
(* shown to be preserved by every step in a lemma of its own.              *)
(***************************************************************************)
EXTENDS ControlTransport, TLAPS

InHand == IF worker = "write" THEN 1 ELSE 0
Committed == auth \in {"announce", "done"}

(* How the entry's state, the transition lock, the handler and the join    *)
(* and remove announcements move together.                                 *)
Lifecycle ==
  /\ lock = "commit" <=> auth = "announce"
  /\ auth = "announce" => state = "Active"
  /\ lock = "unbind" => state \in {"Closing", "Closed"}
  /\ state = "Active" => Committed
  /\ auth = "done" => state # "Syncing"
  /\ announced <=> auth = "done"
  /\ removes = IF announced /\ state \in {"Closing", "Closed"} THEN 1 ELSE 0

(* Who may still reach the queue, and what that says of its worker.        *)
Ownership ==
  /\ state = "Closed" => ~mapped
  /\ auth = "begin" => worker = "none" /\ sent = 0
  /\ worker = "none" =>
       /\ ~mapped /\ queue = <<>> /\ written = <<>> /\ ~closed
       /\ auth \in {"begin", "aborted"} /\ closer # "await"
  /\ ~mapped => stopped \/ worker \in {"none", "exited"}
  /\ finalDone = "ok" => worker = "exited"
  /\ stopped => closed
  /\ worker = "exited" => closed

(* A final command is the last one, a barrier is followed by nothing else. *)
Shape ==
  /\ worker = "write" => IsMessage(hand) \/ hand = Final
  /\ worker = "flush" => hand = Barrier \/ IsFinal(hand)
  /\ worker \in {"write", "flush"} /\ IsFinal(hand) => queue = <<>> /\ closed
  /\ worker = "flush" /\ hand = Barrier =>
       \A i \in 1 .. Len(queue) : IsFinal(queue[i])
  /\ \A i \in 1 .. Len(queue) : IsFinal(queue[i]) => i = Len(queue) /\ closed
  /\ \A i, j \in 1 .. Len(queue) :
       queue[i] = Barrier /\ i < j => IsFinal(queue[j])

(* The numbers on the wire, in the worker's hand and in the queue.         *)
Numbering ==
  /\ \A i \in 1 .. Len(written) :
       \/ written[i] = i
       \/ /\ written[i] = Final /\ i = Len(written)
          /\ worker = "exited" \/ (worker = "flush" /\ hand = Final)
  /\ sinkOpen /\ worker = "write" /\ IsMessage(hand) => hand = Len(written) + 1
  /\ sinkOpen /\ worker # "exited" =>
       \A i \in 1 .. Len(queue) :
          IsMessage(queue[i]) => queue[i] = Len(written) + InHand + i
  /\ ~Committed =>
       /\ worker = "write" /\ IsMessage(hand) => hand <= InitialLen
       /\ \A i \in 1 .. Len(queue) :
            IsMessage(queue[i]) => queue[i] <= InitialLen
  /\ flushed <= Len(written)

(* The barrier has been acknowledged and nothing has been queued since.    *)
SyncFlushed ==
  /\ barrierDone = "ok" /\ queue = <<>> /\ worker = "idle"
  /\ sinkOpen => Len(written) = InitialLen /\ flushed = InitialLen

BarrierQueued ==
  /\ barrierDone = "none" /\ worker \in {"idle", "write"}
  /\ Len(queue) > 0 /\ queue[Len(queue)] = Barrier
  /\ sinkOpen => Len(written) + InHand + Len(queue) = InitialLen + 1

BarrierInHand ==
  /\ barrierDone = "none" /\ worker = "flush" /\ hand = Barrier /\ queue = <<>>
  /\ sinkOpen => Len(written) = InitialLen

BarrierGone ==
  /\ worker = "flush" => hand # Barrier
  /\ \A i \in 1 .. Len(queue) : queue[i] # Barrier

(* While the queue is not sealed: where the initial sync is, per phase of  *)
(* the handler, and the number the next accepted message will get.         *)
Sync ==
  /\ auth = "lock" => barrierDone = "ok"
  /\ barrierDone = "ok" => BarrierGone
  /\ Committed /\ sinkOpen => flushed >= InitialLen
  /\ state = "Syncing" /\ ~closed =>
       /\ Len(deferred) = live
       /\ \A k \in 1 .. Len(deferred) : deferred[k] = InitialLen + k
  /\ auth \in {"begin", "initial"} =>
       ~committing /\ barrierDone = "none" /\ BarrierGone
  /\ ~closed /\ (auth = "initial" \/ Committed) =>
       /\ worker \in {"idle", "write"}
       /\ \A i \in 1 .. Len(queue) : IsMessage(queue[i])
  /\ ~closed /\ auth = "initial" /\ sinkOpen =>
       Len(written) + InHand + Len(queue) = sent
  /\ ~closed /\ auth = "initial" => Len(queue) <= Limit
  /\ ~closed /\ auth = "await" => BarrierQueued \/ BarrierInHand \/ SyncFlushed
  /\ ~closed /\ auth = "lock" => SyncFlushed
  /\ ~closed /\ state = "Active" /\ sinkOpen =>
       Len(written) + InHand + Len(queue) = InitialLen + live

IInv == TypeOK /\ Lifecycle /\ Ownership /\ Shape /\ Numbering /\ Sync

USE LimitAssumption, InitialLenAssumption, MaxLiveAssumption
    DEF registry, flags, wire, workerVars, counts

-----------------------------------------------------------------------------
(* What the helpers of several actions do to the variables they touch.     *)

Tasks == SUBSET {"closeSink", "onFailure", "unregister"}

(* What Append does to the length and the elements of a sequence.          *)
LEMMA AppendFacts ==
  ASSUME NEW S, NEW s \in Seq(S), NEW e \in S
  PROVE  /\ Append(s, e) \in Seq(S) /\ Len(Append(s, e)) = Len(s) + 1
         /\ Append(s, e)[Len(s) + 1] = e
         /\ \A i \in 1 .. Len(s) : Append(s, e)[i] = s[i]
  OBVIOUS

(* What taking the head of a queue leaves behind.                          *)
LEMMA TailFacts ==
  ASSUME NEW S, NEW s \in Seq(S), s # <<>>
  PROVE  /\ Len(s) \in Nat \ {0} /\ Head(s) \in S /\ Head(s) = s[1]
         /\ Tail(s) \in Seq(S) /\ Len(Tail(s)) = Len(s) - 1
         /\ \A i \in 1 .. Len(s) - 1 : Tail(s)[i] = s[i + 1]
  OBVIOUS

(* The marks and every message number are commands of the queue.           *)
LEMMA CommandFacts ==
  /\ Barrier \in Command /\ Final \in Command /\ FinalFlush \in Command
  /\ \A n \in Nat : n \in Command
  BY Zenon DEF Command, Barrier, Final, FinalFlush

(* failLocked leaves the session sealed and stopped, whether or not it     *)
(* already was.                                                            *)
LEMMA FailEffect ==
  ASSUME TypeOK, Ownership, FailLocked
  PROVE  /\ stopped' = TRUE /\ closed' = TRUE
         /\ stopped' \in BOOLEAN /\ closed' \in BOOLEAN
         /\ failed' \in BOOLEAN /\ tasks' \in Tasks
         /\ deferred' \in Seq(Nat \ {0}) /\ Len(deferred') <= Limit
<1>1. CASE stopped
  BY <1>1, Zenon DEF FailLocked, StopLocked, TypeOK, Ownership, Tasks
<1>2. CASE ~stopped
  <2>1. deferred' \in Seq(Nat \ {0}) /\ Len(deferred') <= Limit
    BY <1>2 DEF FailLocked, StopLocked
  <2> QED
    BY <1>2, <2>1, Zenon DEF FailLocked, StopLocked, TypeOK, Tasks
<1> QED
  BY <1>1, <1>2, Zenon

(* take unmaps the session; a session that was mapped is left sealed and   *)
(* stopped.                                                                *)
LEMMA TakeEffect ==
  ASSUME TypeOK, Ownership, TakeAndStop
  PROVE  /\ mapped' = FALSE /\ mapped' \in BOOLEAN
         /\ closed' \in BOOLEAN /\ stopped' \in BOOLEAN
         /\ closed => closed' = TRUE
         /\ stopped => stopped' = TRUE
         /\ mapped => stopped' = TRUE /\ closed' = TRUE
         /\ ~mapped => closed' = closed /\ stopped' = stopped
         /\ ~closed' => deferred' = deferred
         /\ deferred' \in Seq(Nat \ {0}) /\ Len(deferred') <= Limit
<1>1. CASE mapped
  <2>1. deferred' \in Seq(Nat \ {0}) /\ Len(deferred') <= Limit
    BY <1>1 DEF TakeAndStop, StopLocked
  <2> QED
    BY <1>1, <2>1, Zenon DEF TakeAndStop, StopLocked, TypeOK
<1>2. CASE ~mapped
  BY <1>2, Zenon DEF TakeAndStop, TypeOK
<1> QED
  BY <1>1, <1>2, Zenon

(* A step that seals the queue, or leaves it alone, never unseals it, and  *)
(* drops deferred messages only when it seals.                             *)
LEMMA SealKept ==
  ASSUME TypeOK, Ownership,
         FailLocked \/ TakeAndStop \/ UNCHANGED <<closed, deferred>>
  PROVE  (closed => closed') /\ (~closed' => deferred' = deferred)
<1>1. CASE FailLocked
  BY <1>1, FailEffect, Zenon
<1>2. CASE TakeAndStop
  BY <1>2, TakeEffect, Zenon
<1> QED
  BY <1>1, <1>2

(* The first half of the commit always finds the reserved slot free: the   *)
(* barrier becomes the last command of the queue.                          *)
LEMMA CommitStartEffect ==
  ASSUME IInv, CommitStart
  PROVE  /\ queue' = Append(queue, Barrier) /\ auth' = "await"
         /\ queue' \in Seq(Command) /\ Len(queue') = Len(queue) + 1
         /\ Len(queue') <= Limit + 1
         /\ queue'[Len(queue')] = Barrier
         /\ \A i \in 1 .. Len(queue) : queue'[i] = queue[i]
         /\ committing' \in BOOLEAN /\ sent = InitialLen
         /\ ~closed /\ mapped /\ auth = "initial" /\ state = "Syncing"
         /\ UNCHANGED <<registry, mapped, deferred, closed, stopped, failed,
                        tasks, workerVars, wire, counts, closer>>
<1>1. HasReserved /\ ~closed
  BY DEF CommitStart, MayInitial, IInv, Sync, HasReserved, TypeOK
<1>2. /\ queue' = Append(queue, Barrier) /\ auth' = "await"
      /\ UNCHANGED <<closed, deferred, stopped, failed, tasks>>
  BY <1>1, Zenon DEF CommitStart
<1>3. queue \in Seq(Command) /\ Barrier \in Command
  BY CommandFacts, Zenon DEF IInv, TypeOK
<1>4. /\ queue' \in Seq(Command) /\ Len(queue') = Len(queue) + 1
      /\ queue'[Len(queue')] = Barrier
      /\ \A i \in 1 .. Len(queue) : queue'[i] = queue[i]
  BY <1>2, <1>3, AppendFacts
<1>5. committing' \in BOOLEAN
  BY Zenon DEF CommitStart
<1>6. Len(queue') <= Limit + 1
  BY <1>1, <1>3, <1>4 DEF HasReserved
<1> QED
  BY <1>1, <1>2, <1>4, <1>5, <1>6, Zenon
     DEF CommitStart, MayInitial, Reachable

(* The commit point always finds the queue drained: the deferred messages  *)
(* become the queue and the session turns Active.                          *)
LEMMA CommitSpliceEffect ==
  ASSUME IInv, CommitSplice
  PROVE  /\ queue = <<>> /\ queue' = deferred /\ queue' \in Seq(Command)
         /\ deferred' = <<>> /\ deferred' \in Seq(Nat \ {0})
         /\ Len(deferred') <= Limit
         /\ state' = "Active" /\ lock' = "commit" /\ auth' = "announce"
         /\ committing' \in BOOLEAN
         /\ auth = "lock" /\ lock = "free" /\ state = "Syncing" /\ ~closed
         /\ UNCHANGED <<announced, removes, mapped, closed, stopped, failed,
                        tasks, workerVars, wire, counts, closer>>
<1>1. queue = <<>> /\ SpliceFits
  BY DEF CommitSplice, MayCommit, IInv, Sync, SyncFlushed, TypeOK, SpliceFits
<1>2. /\ queue' = queue \o deferred /\ deferred' = <<>>
      /\ state' = "Active" /\ lock' = "commit" /\ auth' = "announce"
      /\ UNCHANGED <<closed, stopped, failed, tasks>>
  BY <1>1, Zenon DEF CommitSplice, Spliced
<1>3. \A n \in Nat \ {0} : n \in Command
  BY CommandFacts, Zenon
<1>4. queue' = deferred /\ queue' \in Seq(Command)
  BY <1>1, <1>2, <1>3 DEF IInv, TypeOK
<1>5. deferred' \in Seq(Nat \ {0}) /\ Len(deferred') <= Limit
  BY <1>2
<1>6. committing' \in BOOLEAN
  BY Zenon DEF CommitSplice
<1> QED
  BY <1>1, <1>2, <1>4, <1>5, <1>6, Zenon DEF CommitSplice, MayCommit

(* Every step keeps every variable in its type, the queues within their    *)
(* bounds.                                                                 *)
LEMMA TypeStep == IInv /\ [Next]_vars => TypeOK'
<1> SUFFICES ASSUME IInv, [Next]_vars PROVE TypeOK'
  OBVIOUS
<1> USE DEF IInv
<1>1. CASE BeginSync
  BY <1>1 DEF BeginSync, TypeOK, SessionState, Results
<1>2. CASE BeginSyncRefused
  BY <1>2 DEF BeginSyncRefused, LockFree, TypeOK, SessionState, Results
<1>3. CASE SendInitial
  <2>1. queue' \in Seq(Command) /\ Len(queue') <= Limit + 1
    BY <1>3, AppendFacts, CommandFacts DEF SendInitial, TypeOK, HasRoom
  <2> QED
    BY <1>3, <2>1
       DEF SendInitial, MayInitial, Reachable, HasRoom, TypeOK, SessionState,
           Results
<1>4. CASE SendInitialOverflow
  <2>1. closed' \in BOOLEAN /\ stopped' \in BOOLEAN /\ failed' \in BOOLEAN
      /\ tasks' \in Tasks
      /\ deferred' \in Seq(Nat \ {0}) /\ Len(deferred') <= Limit
    BY <1>4, FailEffect, Zenon DEF SendInitialOverflow
  <2> QED
    BY <1>4, <2>1, FailEffect
       DEF SendInitialOverflow, MayInitial, Reachable, TypeOK, SessionState,
           Results, Tasks
<1>5. CASE SyncRefused
  BY <1>5 DEF SyncRefused, TypeOK, SessionState, Results
<1>6. CASE CommitStart
  <2>1. /\ queue' \in Seq(Command) /\ Len(queue') <= Limit + 1
        /\ auth' = "await" /\ committing' \in BOOLEAN
        /\ UNCHANGED <<registry, mapped, deferred, closed, stopped, failed,
                        tasks, workerVars, wire, counts, closer>>
    BY <1>6, CommitStartEffect, Zenon
  <2> QED
    BY <2>1 DEF TypeOK
<1>7. CASE CommitAcked
  BY <1>7 DEF CommitAcked, BarrierAcked, TypeOK, SessionState, Results
<1>8. CASE CommitGivesUp
  <2>1. closed' \in BOOLEAN /\ stopped' \in BOOLEAN /\ failed' \in BOOLEAN
      /\ tasks' \in Tasks
      /\ deferred' \in Seq(Nat \ {0}) /\ Len(deferred') <= Limit
    BY <1>8, FailEffect, Zenon DEF CommitGivesUp
  <2> QED
    BY <1>8, <2>1, FailEffect
       DEF CommitGivesUp, TypeOK, SessionState, Results, Tasks
<1>9. CASE CommitSplice
  <2>1. /\ queue' = deferred /\ queue' \in Seq(Command)
        /\ deferred' \in Seq(Nat \ {0}) /\ Len(deferred') <= Limit
        /\ state' = "Active" /\ lock' = "commit" /\ auth' = "announce"
        /\ committing' \in BOOLEAN
        /\ UNCHANGED <<announced, removes, mapped, closed, stopped, failed,
                        tasks, workerVars, wire, counts, closer>>
    BY <1>9, CommitSpliceEffect, Zenon
  <2> QED
    BY <2>1 DEF TypeOK, SessionState
<1>10. CASE CommitRefused
  BY <1>10
     DEF CommitRefused, LockFree, MayCommit, TypeOK, SessionState, Results
<1>11. CASE Announce
  BY <1>11 DEF Announce, TypeOK, SessionState, Results
<1>12. CASE AbortSync
  <2>1. sinkOpen' \in BOOLEAN
    BY <1>12, Zenon DEF AbortSync, TypeOK
  <2>2. tasks' \in Tasks
    BY <1>12, Zenon DEF AbortSync, TypeOK, Tasks
  <2>3. mapped' \in BOOLEAN /\ closed' \in BOOLEAN /\ stopped' \in BOOLEAN
      /\ deferred' \in Seq(Nat \ {0}) /\ Len(deferred') <= Limit
    BY <1>12, TakeEffect, Zenon DEF AbortSync
  <2> QED
    BY <1>12, <2>1, <2>2, <2>3, TakeEffect
       DEF AbortSync, TypeOK, SessionState, Results, Tasks
<1>13. CASE SendDeferred
  BY <1>13 DEF SendDeferred, MaySend, Reachable, TypeOK, SessionState, Results
<1>14. CASE SendActive
  <2>1. queue' \in Seq(Command) /\ Len(queue') <= Limit + 1
    BY <1>14, AppendFacts, CommandFacts DEF SendActive, TypeOK, HasRoom
  <2> QED
    BY <1>14, <2>1
       DEF SendActive, MaySend, Reachable, HasRoom, TypeOK, SessionState,
           Results
<1>15. CASE SendOverflow
  <2>1. closed' \in BOOLEAN /\ stopped' \in BOOLEAN /\ failed' \in BOOLEAN
      /\ tasks' \in Tasks
      /\ deferred' \in Seq(Nat \ {0}) /\ Len(deferred') <= Limit
    BY <1>15, FailEffect, Zenon DEF SendOverflow
  <2> QED
    BY <1>15, <2>1, FailEffect
       DEF SendOverflow, MaySend, Reachable, TypeOK, SessionState, Results,
           Tasks
<1>16. CASE WorkerStop
  BY <1>16 DEF WorkerStop, TypeOK, SessionState, Results
<1>17. CASE WorkerReceive
  <2>1. hand' \in Command /\ queue' \in Seq(Command) /\ Len(queue') <= Limit + 1
    BY <1>17, TailFacts DEF WorkerReceive, TypeOK
  <2>2. worker' \in {"write", "flush"}
    BY <1>17, Zenon DEF WorkerReceive
  <2> QED
    BY <1>17, <2>1, <2>2 DEF WorkerReceive, TypeOK, SessionState, Results
<1>18. CASE WorkerWrite
  <2>1. written' \in Seq(Command)
    BY <1>18, AppendFacts, Zenon DEF WorkerWrite, TypeOK
  <2> QED
    BY <1>18, <2>1 DEF WorkerWrite, TypeOK, SessionState, Results
<1>19. CASE WorkerFlush
  BY <1>19 DEF WorkerFlush, Report, TypeOK, SessionState, Results
<1>20. CASE WorkerFails
  <2>1. closed' \in BOOLEAN /\ stopped' \in BOOLEAN /\ failed' \in BOOLEAN
      /\ tasks' \in Tasks
      /\ deferred' \in Seq(Nat \ {0}) /\ Len(deferred') <= Limit
    BY <1>20, FailEffect, Zenon DEF WorkerFails
  <2>2. sinkOpen' \in BOOLEAN
    BY <1>20, Zenon DEF WorkerFails
  <2> QED
    BY <1>20, <2>1, <2>2, FailEffect
       DEF WorkerFails, Report, TypeOK, SessionState, Results, Tasks
<1>21. CASE Kick
  BY <1>21 DEF Kick, CloseAnnounced, TypeOK, SessionState, Results
<1>22. CASE SendThenClose
  <2>1. closed' \in BOOLEAN
    BY <1>22, Zenon DEF SendThenClose, Close
  <2>2. queue' \in Seq(Command) /\ Len(queue') <= Limit + 1
    BY <1>22, AppendFacts, CommandFacts
       DEF SendThenClose, Close, TypeOK, HasReserved
  <2> QED
    BY <1>22, <2>1, <2>2
       DEF SendThenClose, Close, MayClose, Reachable, HasReserved, TypeOK,
           SessionState, Results
<1>23. CASE CloseAfterFlush
  <2>1. closed' \in BOOLEAN
    BY <1>23, Zenon DEF CloseAfterFlush, Close
  <2>2. queue' \in Seq(Command) /\ Len(queue') <= Limit + 1
    BY <1>23, AppendFacts, CommandFacts
       DEF CloseAfterFlush, Close, TypeOK, HasReserved
  <2> QED
    BY <1>23, <2>1, <2>2
       DEF CloseAfterFlush, Close, MayClose, Reachable, HasReserved, TypeOK,
           SessionState, Results
<1>24. CASE CloseOverflow
  <2>1. closed' \in BOOLEAN /\ stopped' \in BOOLEAN /\ failed' \in BOOLEAN
      /\ tasks' \in Tasks
      /\ deferred' \in Seq(Nat \ {0}) /\ Len(deferred') <= Limit
    BY <1>24, FailEffect, Zenon DEF CloseOverflow
  <2> QED
    BY <1>24, <2>1, FailEffect
       DEF CloseOverflow, MayClose, Reachable, TypeOK, SessionState, Results,
           Tasks
<1>25. CASE CloseRefused
  BY <1>25 DEF CloseRefused, TypeOK, SessionState, Results
<1>26. CASE CloserAcked
  <2>1. mapped' \in BOOLEAN
    BY <1>26, Zenon DEF CloserAcked
  <2> QED
    BY <1>26, <2>1 DEF CloserAcked, TypeOK, SessionState, Results
<1>27. CASE CloserGivesUp
  <2>1. closed' \in BOOLEAN /\ stopped' \in BOOLEAN /\ failed' \in BOOLEAN
      /\ tasks' \in Tasks
      /\ deferred' \in Seq(Nat \ {0}) /\ Len(deferred') <= Limit
    BY <1>27, FailEffect, Zenon DEF CloserGivesUp
  <2>2. mapped' \in BOOLEAN
    BY <1>27, Zenon DEF CloserGivesUp
  <2> QED
    BY <1>27, <2>1, <2>2, FailEffect
       DEF CloserGivesUp, TypeOK, SessionState, Results, Tasks
<1>28. CASE UnregisterBegin
  BY <1>28 DEF UnregisterBegin, CloseAnnounced, TypeOK, SessionState, Results
<1>29. CASE UnregisterFinish
  <2>1. mapped' \in BOOLEAN /\ closed' \in BOOLEAN /\ stopped' \in BOOLEAN
      /\ deferred' \in Seq(Nat \ {0}) /\ Len(deferred') <= Limit
    BY <1>29, TakeEffect, Zenon DEF UnregisterFinish
  <2> QED
    BY <1>29, <2>1, TakeEffect
       DEF UnregisterFinish, TypeOK, SessionState, Results, Tasks
<1>30. CASE RemoveEdge
  BY <1>30 DEF RemoveEdge, TypeOK, SessionState, Results
<1>31. CASE CloseSink
  <2>1. sinkOpen' \in BOOLEAN /\ tasks' \subseteq tasks
    BY <1>31, Zenon DEF CloseSink
  <2> QED
    BY <1>31, <2>1 DEF CloseSink, TypeOK, SessionState, Results
<1>32. CASE OnFailure
  BY <1>32
     DEF OnFailure, LockFree, CloseAnnounced, TypeOK, SessionState, Results
<1>33. CASE PeerCloses
  <2>1. sinkOpen' \in BOOLEAN
    BY <1>33, Zenon DEF PeerCloses
  <2> QED
    BY <1>33, <2>1 DEF PeerCloses, TypeOK, SessionState, Results
<1>34. CASE UNCHANGED vars
  BY <1>34 DEF vars, TypeOK
<1> QED
    BY <1>1, <1>2, <1>3, <1>4, <1>5, <1>6, <1>7, <1>8, <1>9, <1>10, <1>11,
     <1>12, <1>13, <1>14, <1>15, <1>16, <1>17, <1>18, <1>19, <1>20, <1>21,
     <1>22, <1>23, <1>24, <1>25, <1>26, <1>27, <1>28, <1>29, <1>30, <1>31,
     <1>32, <1>33, <1>34 DEF Next, Authentication, Send, Worker, Closing,
     Goroutines, Disconnect, CleanupTask

(* Every step keeps the registry entry, the transition lock and the        *)
(* handler in agreement.                                                   *)
LEMMA LifecycleStep == IInv /\ [Next]_vars => Lifecycle'
<1> SUFFICES ASSUME IInv, [Next]_vars PROVE Lifecycle'
  OBVIOUS
<1> USE DEF IInv
<1>1. CASE \/ SendInitial \/ SendDeferred \/ SendActive \/ SendOverflow
           \/ WorkerStop \/ WorkerReceive \/ WorkerWrite \/ WorkerFlush
           \/ WorkerFails \/ SendThenClose \/ CloseAfterFlush
           \/ CloseOverflow \/ CloseRefused \/ CloserAcked \/ CloserGivesUp
           \/ CloseSink \/ PeerCloses \/ UNCHANGED vars
  <2>1. UNCHANGED <<state, announced, removes, lock, auth>>
    BY <1>1, Zenon
       DEF SendInitial, SendDeferred, SendActive, SendOverflow, WorkerStop,
           WorkerReceive, WorkerWrite, WorkerFlush, WorkerFails, SendThenClose,
           CloseAfterFlush, CloseOverflow, CloseRefused, CloserAcked,
           CloserGivesUp, CloseSink, PeerCloses, Close, vars
  <2> QED
    BY <2>1, Zenon DEF Lifecycle, Committed
<1>2. CASE \/ BeginSync \/ SendInitialOverflow \/ SyncRefused \/ CommitStart
           \/ CommitAcked \/ CommitGivesUp \/ CommitRefused \/ AbortSync
  <2>1. /\ UNCHANGED <<state, announced, removes, lock>>
        /\ auth \notin {"announce", "done"} /\ auth' \notin {"announce", "done"}
    BY <1>2, CommitStartEffect, Zenon
       DEF BeginSync, SendInitialOverflow, SyncRefused, CommitAcked,
           CommitGivesUp, CommitRefused, AbortSync
  <2> QED
    BY <2>1, Zenon DEF Lifecycle, Committed
<1>3. CASE BeginSyncRefused
  BY <1>3, Zenon
     DEF BeginSyncRefused, LockFree, Lifecycle, Committed, Ownership, TypeOK,
         Command, SessionState, Results
<1>4. CASE CommitSplice
  BY <1>4, CommitSpliceEffect, SMTT(30)
     DEF Lifecycle, Committed, Ownership, TypeOK, Command, SessionState,
         Results
<1>5. CASE Announce
  BY <1>5, Zenon
     DEF Announce, Lifecycle, Committed, Ownership, TypeOK, Command,
         SessionState, Results
<1>6. CASE Kick
  BY <1>6
     DEF Kick, CloseAnnounced, Lifecycle, Committed, Ownership, TypeOK,
         Command, SessionState, Results
<1>7. CASE UnregisterBegin
  BY <1>7
     DEF UnregisterBegin, CloseAnnounced, Lifecycle, Committed, Ownership,
         TypeOK, Command, SessionState, Results
<1>8. CASE UnregisterFinish
  BY <1>8, TakeEffect, Zenon
     DEF UnregisterFinish, Lifecycle, Committed, Ownership, TypeOK, Command,
         SessionState, Results, Tasks
<1>9. CASE RemoveEdge
  BY <1>9, Zenon
     DEF RemoveEdge, Lifecycle, Committed, Ownership, TypeOK, Command,
         SessionState, Results
<1>10. CASE OnFailure
  BY <1>10
     DEF OnFailure, LockFree, CloseAnnounced, Lifecycle, Committed, Ownership,
         TypeOK, Command, SessionState, Results
<1> QED
  BY <1>1, <1>2, <1>3, <1>4, <1>5, <1>6, <1>7, <1>8, <1>9, <1>10, Zenon
     DEF Next, Authentication, Send, Worker, Closing, Goroutines, Disconnect,
         CleanupTask

(* Every step keeps the flags, the map and the worker in agreement.        *)
LEMMA OwnershipStep == IInv /\ [Next]_vars => Ownership'
<1> SUFFICES ASSUME IInv, [Next]_vars PROVE Ownership'
  OBVIOUS
<1> USE DEF IInv
<1>1. CASE \/ SyncRefused \/ CommitAcked \/ CommitRefused \/ Announce
           \/ SendDeferred \/ Kick \/ CloseRefused \/ UnregisterBegin
           \/ CloseSink \/ OnFailure \/ PeerCloses \/ UNCHANGED vars
  <2>1. /\ UNCHANGED <<mapped, worker, queue, written, sent, finalDone, stopped,
                        closed>>
        /\ state' = "Closed" => state = "Closed"
        /\ auth' = "begin" => auth = "begin"
        /\ worker = "none" => /\ auth' \in {"begin", "aborted"}
                              /\ closer' # "await"
    BY <1>1, Zenon
       DEF SyncRefused, CommitAcked, CommitRefused, Announce, SendDeferred,
           Kick, CloseRefused, UnregisterBegin, CloseSink, OnFailure,
           PeerCloses, Ownership, vars
  <2> QED
    BY <2>1, Zenon DEF Ownership
<1>2. CASE BeginSync
  BY <1>2, Zenon
     DEF BeginSync, Ownership, Shape, IsMessage, IsFinal, Barrier, Final,
         FinalFlush, TypeOK, Command, SessionState, Results
<1>3. CASE BeginSyncRefused
  BY <1>3, Zenon
     DEF BeginSyncRefused, LockFree, Ownership, Shape, IsMessage, IsFinal,
         Barrier, Final, FinalFlush, TypeOK, Command, SessionState, Results
<1>4. CASE SendInitial
  BY <1>4, Zenon
     DEF SendInitial, MayInitial, Reachable, HasRoom, Ownership, Shape,
         IsMessage, IsFinal, Barrier, Final, FinalFlush, TypeOK, Command,
         SessionState, Results
<1>5. CASE SendInitialOverflow
  BY <1>5, FailEffect, Zenon
     DEF SendInitialOverflow, MayInitial, Reachable, Ownership, Shape,
         IsMessage, IsFinal, Barrier, Final, FinalFlush, TypeOK, Command,
         SessionState, Results, Tasks
<1>6. CASE CommitStart
  <2>1. /\ mapped /\ auth' = "await"
        /\ UNCHANGED <<state, mapped, worker, finalDone, stopped, closed>>
    BY <1>6, CommitStartEffect, Zenon
  <2>2. worker # "none"
    BY <2>1, Zenon DEF Ownership
  <2> QED
    BY <2>1, <2>2, Zenon DEF Ownership
<1>7. CASE CommitGivesUp
  <2>1. stopped' /\ closed'
    BY <1>7, FailEffect, Zenon DEF CommitGivesUp
  <2> QED
    BY <1>7, <2>1, FailEffect, Zenon
       DEF CommitGivesUp, Ownership, Shape, IsMessage, IsFinal, Barrier, Final,
           FinalFlush, TypeOK, Command, SessionState, Results, Tasks
<1>8. CASE CommitSplice
  <2>1. /\ queue' \in Seq(Command) /\ auth = "lock" /\ ~closed
        /\ state' = "Active" /\ auth' = "announce"
        /\ barrierDone = "ok" /\ worker = "idle"
        /\ UNCHANGED <<announced, removes, mapped, closed, stopped, failed,
                        tasks, workerVars, wire, counts, closer>>
    BY <1>8, CommitSpliceEffect, Zenon DEF Sync, SyncFlushed
  <2> QED
    BY <2>1, Zenon DEF Ownership, TypeOK
<1>9. CASE AbortSync
  BY <1>9, TakeEffect, Zenon
     DEF AbortSync, Ownership, Shape, IsMessage, IsFinal, Barrier, Final,
         FinalFlush, TypeOK, Command, SessionState, Results, Tasks
<1>10. CASE SendActive
  BY <1>10, Zenon
     DEF SendActive, MaySend, Reachable, HasRoom, Ownership, Shape, IsMessage,
         IsFinal, Barrier, Final, FinalFlush, TypeOK, Command, SessionState,
         Results
<1>11. CASE SendOverflow
  BY <1>11, FailEffect, Zenon
     DEF SendOverflow, MaySend, Reachable, Ownership, Shape, IsMessage,
         IsFinal, Barrier, Final, FinalFlush, TypeOK, Command, SessionState,
         Results, Tasks
<1>12. CASE WorkerStop
  BY <1>12, Zenon
     DEF WorkerStop, Ownership, Shape, IsMessage, IsFinal, Barrier, Final,
         FinalFlush, TypeOK, Command, SessionState, Results
<1>13. CASE WorkerReceive
  BY <1>13, Zenon
     DEF WorkerReceive, Ownership, Shape, IsMessage, IsFinal, Barrier, Final,
         FinalFlush, TypeOK, Command, SessionState, Results
<1>14. CASE WorkerWrite
  BY <1>14, Zenon
     DEF WorkerWrite, Ownership, Shape, IsMessage, IsFinal, Barrier, Final,
         FinalFlush, TypeOK, Command, SessionState, Results
<1>15. CASE WorkerFlush
  BY <1>15, Zenon
     DEF WorkerFlush, Report, Ownership, Shape, IsMessage, IsFinal, Barrier,
         Final, FinalFlush, TypeOK, Command, SessionState, Results
<1>16. CASE WorkerFails
  BY <1>16, FailEffect, Zenon
     DEF WorkerFails, Report, Ownership, Shape, IsMessage, IsFinal, Barrier,
         Final, FinalFlush, TypeOK, Command, SessionState, Results, Tasks
<1>17. CASE SendThenClose
  BY <1>17, Zenon
     DEF SendThenClose, Close, MayClose, Reachable, HasReserved, Ownership,
         Shape, IsMessage, IsFinal, Barrier, Final, FinalFlush, TypeOK,
         Command, SessionState, Results
<1>18. CASE CloseAfterFlush
  BY <1>18, Zenon
     DEF CloseAfterFlush, Close, MayClose, Reachable, HasReserved, Ownership,
         Shape, IsMessage, IsFinal, Barrier, Final, FinalFlush, TypeOK,
         Command, SessionState, Results
<1>19. CASE CloseOverflow
  BY <1>19, FailEffect, Zenon
     DEF CloseOverflow, MayClose, Reachable, Ownership, Shape, IsMessage,
         IsFinal, Barrier, Final, FinalFlush, TypeOK, Command, SessionState,
         Results, Tasks
<1>20. CASE CloserAcked
  BY <1>20, Zenon
     DEF CloserAcked, Ownership, Shape, IsMessage, IsFinal, Barrier, Final,
         FinalFlush, TypeOK, Command, SessionState, Results
<1>21. CASE CloserGivesUp
  <2>1. stopped' /\ closed'
    BY <1>21, FailEffect, Zenon DEF CloserGivesUp
  <2> QED
    BY <1>21, <2>1, FailEffect, Zenon
       DEF CloserGivesUp, Ownership, Shape, IsMessage, IsFinal, Barrier, Final,
           FinalFlush, TypeOK, Command, SessionState, Results, Tasks
<1>22. CASE UnregisterFinish
  BY <1>22, TakeEffect, Zenon
     DEF UnregisterFinish, Ownership, Shape, IsMessage, IsFinal, Barrier,
         Final, FinalFlush, TypeOK, Command, SessionState, Results, Tasks
<1>23. CASE RemoveEdge
  BY <1>23, Zenon
     DEF RemoveEdge, Ownership, Shape, IsMessage, IsFinal, Barrier, Final,
         FinalFlush, TypeOK, Command, SessionState, Results
<1> QED
    BY <1>1, <1>2, <1>3, <1>4, <1>5, <1>6, <1>7, <1>8, <1>9, <1>10, <1>11,
     <1>12, <1>13, <1>14, <1>15, <1>16, <1>17, <1>18, <1>19, <1>20, <1>21,
     <1>22, <1>23, Zenon DEF Next, Authentication, Send, Worker, Closing, Goroutines,
     Disconnect, CleanupTask

(* Every step keeps a barrier or a final command last in the queue it      *)
(* sealed.                                                                 *)
LEMMA ShapeStep == IInv /\ [Next]_vars => Shape'
<1> SUFFICES ASSUME IInv, [Next]_vars PROVE Shape'
  OBVIOUS
<1> USE DEF IInv
<1>1. CASE \/ BeginSyncRefused \/ SyncRefused \/ CommitAcked
           \/ CommitRefused \/ Announce \/ SendDeferred \/ Kick
           \/ CloseRefused \/ CloserAcked \/ UnregisterBegin \/ RemoveEdge
           \/ CloseSink \/ OnFailure \/ PeerCloses \/ UNCHANGED vars
  <2>1. UNCHANGED <<worker, hand, queue, closed>>
    BY <1>1, Zenon
       DEF BeginSyncRefused, SyncRefused, CommitAcked, CommitRefused, Announce,
           SendDeferred, Kick, CloseRefused, CloserAcked, UnregisterBegin,
           RemoveEdge, CloseSink, OnFailure, PeerCloses, vars
  <2> QED
    BY <2>1, Zenon DEF Shape
<1>2. CASE \/ SendInitialOverflow \/ CommitGivesUp \/ SendOverflow
           \/ CloseOverflow \/ CloserGivesUp \/ AbortSync
           \/ UnregisterFinish
  <2>1. UNCHANGED <<worker, hand, queue>>
    BY <1>2, Zenon
       DEF SendInitialOverflow, CommitGivesUp, SendOverflow, CloseOverflow,
           CloserGivesUp, AbortSync, UnregisterFinish
  <2>2. FailLocked \/ TakeAndStop
    BY <1>2, Zenon
       DEF SendInitialOverflow, CommitGivesUp, SendOverflow, CloseOverflow,
           CloserGivesUp, AbortSync, UnregisterFinish
  <2>3. closed => closed'
    BY <2>2, SealKept, Zenon
  <2> QED
    BY <2>1, <2>2, <2>3, Zenon DEF Shape
<1>3. CASE \/ BeginSync \/ WorkerStop
  <2>1. UNCHANGED <<hand, queue, closed>> /\ worker' \in {"idle", "exited"}
    BY <1>3, Zenon DEF BeginSync, WorkerStop
  <2> QED
    BY <2>1, Zenon DEF Shape
<1>4. CASE SendInitial
  <2>1. /\ queue' = Append(queue, sent + 1) /\ sent + 1 > 0 /\ sent + 1 \in Command
        /\ ~closed /\ UNCHANGED <<worker, hand, closed>>
    BY <1>4, CommandFacts DEF SendInitial, MaySend, MayInitial, TypeOK
  <2>2. worker \in {"idle", "write"} /\ \A i \in 1 .. Len(queue) : IsMessage(queue[i])
    BY <1>4, <2>1, Zenon DEF SendInitial, Sync, Lifecycle, Committed
  <2>3. /\ Len(queue') = Len(queue) + 1 /\ Len(queue) \in Nat
        /\ \A i \in 1 .. Len(queue) : queue'[i] = queue[i]
        /\ queue'[Len(queue) + 1] = sent + 1
    BY <2>1, AppendFacts DEF TypeOK
  <2>4. \A i \in 1 .. Len(queue') : IsMessage(queue'[i])
    BY <2>1, <2>2, <2>3 DEF IsMessage
  <2> QED
    BY <2>1, <2>2, <2>4
       DEF Shape, IsMessage, IsFinal, Barrier, Final, FinalFlush
<1>5. CASE CommitStart
  <2>1. /\ Len(queue') = Len(queue) + 1 /\ Len(queue) \in Nat
        /\ queue'[Len(queue')] = Barrier
        /\ \A i \in 1 .. Len(queue) : queue'[i] = queue[i]
        /\ ~closed /\ auth = "initial" /\ UNCHANGED <<worker, hand, closed>>
    BY <1>5, CommitStartEffect, SMTT(30) DEF TypeOK
  <2>2. worker \in {"idle", "write"} /\ \A i \in 1 .. Len(queue) : IsMessage(queue[i])
    BY <2>1, Zenon DEF Sync
  <2>3. \A i \in 1 .. Len(queue') :
          i # Len(queue') => i \in 1 .. Len(queue) /\ IsMessage(queue'[i])
    BY <2>1, <2>2
  <2> QED
    BY <2>1, <2>2, <2>3, SMTT(30)
       DEF Shape, IsMessage, IsFinal, Barrier, Final, FinalFlush
<1>6. CASE CommitSplice
  <2>1. /\ queue' = deferred /\ worker = "idle" /\ UNCHANGED <<worker, hand, closed>>
    BY <1>6, CommitSpliceEffect, Zenon DEF Sync, SyncFlushed
  <2>2. \A i \in 1 .. Len(queue') : IsMessage(queue'[i])
    BY <2>1 DEF TypeOK, IsMessage
  <2> QED
    BY <2>1, <2>2 DEF Shape, IsMessage, IsFinal, Barrier, Final, FinalFlush
<1>7. CASE SendActive
  <2>1. /\ queue' = Append(queue, InitialLen + live + 1) /\ InitialLen + live + 1 > 0 /\ InitialLen + live + 1 \in Command
        /\ ~closed /\ UNCHANGED <<worker, hand, closed>>
    BY <1>7, CommandFacts DEF SendActive, MaySend, MayInitial, TypeOK
  <2>2. worker \in {"idle", "write"} /\ \A i \in 1 .. Len(queue) : IsMessage(queue[i])
    BY <1>7, <2>1, Zenon DEF SendActive, Sync, Lifecycle, Committed
  <2>3. /\ Len(queue') = Len(queue) + 1 /\ Len(queue) \in Nat
        /\ \A i \in 1 .. Len(queue) : queue'[i] = queue[i]
        /\ queue'[Len(queue) + 1] = InitialLen + live + 1
    BY <2>1, AppendFacts DEF TypeOK
  <2>4. \A i \in 1 .. Len(queue') : IsMessage(queue'[i])
    BY <2>1, <2>2, <2>3 DEF IsMessage
  <2> QED
    BY <2>1, <2>2, <2>4
       DEF Shape, IsMessage, IsFinal, Barrier, Final, FinalFlush
<1>8. CASE WorkerReceive
  BY <1>8, SMTT(30)
     DEF WorkerReceive, Shape, Ownership, IsMessage, IsFinal, Barrier, Final,
         FinalFlush, TypeOK, Command, SessionState, Results
<1>9. CASE WorkerWrite
  BY <1>9
     DEF WorkerWrite, Shape, Ownership, IsMessage, IsFinal, Barrier, Final,
         FinalFlush, TypeOK, Command, SessionState, Results
<1>10. CASE WorkerFlush
  BY <1>10
     DEF WorkerFlush, Report, Shape, Ownership, IsMessage, IsFinal, Barrier,
         Final, FinalFlush, TypeOK, Command, SessionState, Results
<1>11. CASE WorkerFails
  BY <1>11, FailEffect, Zenon
     DEF WorkerFails, Report, Shape, Ownership, IsMessage, IsFinal, Barrier,
         Final, FinalFlush, TypeOK, Command, SessionState, Results, Tasks
<1>12. CASE SendThenClose
  BY <1>12
     DEF SendThenClose, Close, MayClose, Reachable, HasReserved, Shape,
         Ownership, IsMessage, IsFinal, Barrier, Final, FinalFlush, TypeOK,
         Command, SessionState, Results
<1>13. CASE CloseAfterFlush
  BY <1>13
     DEF CloseAfterFlush, Close, MayClose, Reachable, HasReserved, Shape,
         Ownership, IsMessage, IsFinal, Barrier, Final, FinalFlush, TypeOK,
         Command, SessionState, Results
<1> QED
    BY <1>1, <1>2, <1>3, <1>4, <1>5, <1>6, <1>7, <1>8, <1>9, <1>10, <1>11,
     <1>12, <1>13, Zenon DEF Next, Authentication, Send, Worker, Closing, Goroutines,
     Disconnect, CleanupTask

(* Every step keeps the wire, the hand of the worker, the queue and the    *)
(* deferred messages consecutively numbered.                               *)
LEMMA NumberingStep == IInv /\ [Next]_vars => Numbering'
<1> SUFFICES ASSUME IInv, [Next]_vars PROVE Numbering'
  OBVIOUS
<1> USE DEF IInv
<1>1. CASE \/ BeginSyncRefused \/ SyncRefused \/ CommitAcked
           \/ CommitRefused \/ Announce \/ SendDeferred
           \/ SendInitialOverflow \/ CommitGivesUp \/ SendOverflow
           \/ CloseOverflow \/ CloserGivesUp \/ Kick \/ CloseRefused
           \/ CloserAcked \/ UnregisterBegin \/ RemoveEdge \/ CloseSink
           \/ OnFailure \/ PeerCloses \/ AbortSync \/ UnregisterFinish
           \/ UNCHANGED vars
  <2>1. UNCHANGED <<worker, hand, queue, written, flushed>>
    BY <1>1, Zenon
       DEF BeginSyncRefused, SyncRefused, CommitAcked, CommitRefused, Announce,
           SendDeferred, SendInitialOverflow, CommitGivesUp, SendOverflow,
           CloseOverflow, CloserGivesUp, Kick, CloseRefused, CloserAcked,
           UnregisterBegin, RemoveEdge, CloseSink, OnFailure, PeerCloses,
           AbortSync, UnregisterFinish, Committed, vars
  <2>2. sinkOpen' => sinkOpen
    BY <1>1, Zenon
       DEF BeginSyncRefused, SyncRefused, CommitAcked, CommitRefused, Announce,
           SendDeferred, SendInitialOverflow, CommitGivesUp, SendOverflow,
           CloseOverflow, CloserGivesUp, Kick, CloseRefused, CloserAcked,
           UnregisterBegin, RemoveEdge, CloseSink, OnFailure, PeerCloses,
           AbortSync, UnregisterFinish, Committed, vars
  <2>3. \/ auth' = auth
        \/ auth = "announce" /\ auth' = "done"
        \/ /\ auth \notin {"announce", "done"}
           /\ auth' \notin {"announce", "done"}
    BY <1>1, Zenon
       DEF BeginSyncRefused, SyncRefused, CommitAcked, CommitRefused, Announce,
           SendDeferred, SendInitialOverflow, CommitGivesUp, SendOverflow,
           CloseOverflow, CloserGivesUp, Kick, CloseRefused, CloserAcked,
           UnregisterBegin, RemoveEdge, CloseSink, OnFailure, PeerCloses,
           AbortSync, UnregisterFinish, Committed, vars
  <2>4. Committed' = Committed
    BY <2>3 DEF Committed
  <2> QED
    BY <2>1, <2>2, <2>3, <2>4, Zenon DEF Numbering, InHand, Committed
<1>2. CASE BeginSync
  BY <1>2, Zenon
     DEF BeginSync, Numbering, Shape, Ownership, InHand, Committed, Lifecycle,
         IsMessage, IsFinal, Barrier, Final, FinalFlush, TypeOK, Command,
         SessionState, Results
<1>3. CASE SendInitial
  <2>1. /\ queue' = Append(queue, sent + 1) /\ sent + 1 \in Command
        /\ sent < InitialLen /\ sent \in Nat /\ ~closed
        /\ UNCHANGED <<worker, hand, sinkOpen, written, flushed, auth>>
    BY <1>3, CommandFacts DEF SendInitial, MayInitial, TypeOK
  <2>2. sinkOpen => Len(written) + InHand + Len(queue) = sent
    BY <1>3, <2>1, Zenon DEF SendInitial, Sync
  <2>3. /\ Len(queue') = Len(queue) + 1 /\ Len(queue) \in Nat
        /\ \A i \in 1 .. Len(queue) : queue'[i] = queue[i]
        /\ queue'[Len(queue) + 1] = sent + 1
    BY <2>1, AppendFacts, SMTT(30) DEF TypeOK
  <2>4. \A i \in 1 .. Len(queue') : i \in 1 .. Len(queue) \/ i = Len(queue) + 1
    BY <2>3
  <2>5. Len(written) \in Nat /\ InHand \in Nat /\ InHand' = InHand /\ Committed' = Committed
    BY <2>1 DEF TypeOK, InHand, Committed
  <2> QED
    BY <2>1, <2>2, <2>3, <2>4, <2>5 DEF Numbering
<1>4. CASE CommitStart
  <2>1. /\ Len(queue') = Len(queue) + 1 /\ Len(queue) \in Nat
        /\ queue'[Len(queue')] = Barrier
        /\ \A i \in 1 .. Len(queue) : queue'[i] = queue[i]
        /\ auth = "initial" /\ auth' = "await"
        /\ UNCHANGED <<worker, hand, sinkOpen, written, flushed>>
    BY <1>4, CommitStartEffect, SMTT(30) DEF TypeOK
  <2>2. \A i \in 1 .. Len(queue') :
          IsMessage(queue'[i]) => i \in 1 .. Len(queue) /\ queue'[i] = queue[i]
    BY <2>1 DEF IsMessage, Barrier
  <2> QED
    BY <2>1, <2>2, Zenon DEF Numbering, InHand, Committed
<1>5. CASE CommitSplice
  <2>1. /\ queue' = deferred /\ state = "Syncing" /\ ~closed /\ auth = "lock"
        /\ Committed' /\ UNCHANGED <<worker, hand, sinkOpen, written, flushed>>
    BY <1>5, CommitSpliceEffect, Zenon DEF Committed
  <2>2. worker = "idle" /\ (sinkOpen => Len(written) = InitialLen)
    BY <2>1, Zenon DEF Sync, SyncFlushed
  <2>3. \A k \in 1 .. Len(deferred) : deferred[k] = InitialLen + k
    BY <2>1, Zenon DEF Sync
  <2>4. InHand' = 0 /\ \A i \in 1 .. Len(queue') : queue'[i] = InitialLen + i
    BY <2>1, <2>2, <2>3, Zenon DEF InHand
  <2>5. \A i \in 1 .. Len(written) : written[i] = i
    BY <2>2, Zenon DEF Numbering
  <2>6. sinkOpen' => \A i \in 1 .. Len(queue') :
                       queue'[i] = Len(written') + InHand' + i
    <3>1. sinkOpen' => Len(written') + InHand' = InitialLen
      BY <2>1, <2>2, <2>4
    <3> QED
      BY <2>4, <3>1, Zenon
  <2>7. flushed' <= Len(written')
    BY <2>1, Zenon DEF Numbering
  <2> QED
    BY <2>1, <2>2, <2>5, <2>6, <2>7, Zenon DEF Numbering
<1>6. CASE SendActive
  <2>1. /\ queue' = Append(queue, InitialLen + live + 1)
        /\ InitialLen + live + 1 \in Command
        /\ Committed /\ Committed' /\ ~closed /\ state = "Active"
        /\ UNCHANGED <<worker, hand, sinkOpen, written, flushed>>
    BY <1>6, CommandFacts DEF SendActive, MaySend, TypeOK, Lifecycle, Committed
  <2>2. sinkOpen => Len(written) + InHand + Len(queue) = InitialLen + live
    BY <2>1, Zenon DEF Sync
  <2>3. /\ Len(queue') = Len(queue) + 1 /\ Len(queue) \in Nat
        /\ \A i \in 1 .. Len(queue) : queue'[i] = queue[i]
        /\ queue'[Len(queue) + 1] = InitialLen + live + 1
    BY <2>1, AppendFacts DEF TypeOK
  <2>4. \A i \in 1 .. Len(queue') : i \in 1 .. Len(queue) \/ i = Len(queue) + 1
    BY <2>3
  <2>5. /\ Len(written) \in Nat /\ InHand \in Nat /\ InHand' = InHand
        /\ live \in Nat
    BY <2>1 DEF TypeOK, InHand
  <2> QED
    BY <2>1, <2>2, <2>3, <2>4, <2>5, SMTT(30) DEF Numbering
<1>7. CASE WorkerStop
  BY <1>7, Zenon
     DEF WorkerStop, Numbering, Shape, Ownership, InHand, Committed, Lifecycle,
         IsMessage, IsFinal, Barrier, Final, FinalFlush, TypeOK, Command,
         SessionState, Results
<1>8. CASE WorkerReceive
  <2>1. /\ worker = "idle" /\ queue # <<>> /\ hand' = Head(queue)
        /\ queue' = Tail(queue) /\ Committed' = Committed
        /\ UNCHANGED <<sinkOpen, written, flushed>>
    BY <1>8, Zenon DEF WorkerReceive, Committed
  <2>2. /\ Len(queue) \in Nat \ {0} /\ hand' = queue[1]
        /\ Len(queue') = Len(queue) - 1
        /\ \A i \in 1 .. Len(queue') : queue'[i] = queue[i + 1] /\ i + 1 \in 1 .. Len(queue)
    BY <2>1, TailFacts DEF TypeOK
  <2>3. worker' = "write" \/ worker' = "flush"
    BY <1>8, Zenon DEF WorkerReceive
  <2>4. /\ InHand = 0 /\ Len(written) \in Nat
        /\ InHand' = IF worker' = "write" THEN 1 ELSE 0
        /\ worker' = "flush" => ~IsMessage(hand')
    BY <1>8, <2>1 DEF InHand, WorkerReceive, TypeOK
  <2>5. worker' = "flush" => \A i \in 1 .. Len(queue') : ~IsMessage(queue'[i])
    <3> SUFFICES ASSUME worker' = "flush", NEW i \in 1 .. Len(queue')
                 PROVE  ~IsMessage(queue'[i])
      OBVIOUS
    <3>1. queue[1] \in Command /\ ~IsMessage(queue[1])
      BY <2>1, <2>2, <2>4, TailFacts DEF TypeOK
    <3>2. queue[1] = Barrier \/ IsFinal(queue[1])
      BY <3>1 DEF Command, IsMessage, IsFinal, Barrier, Final, FinalFlush
    <3>3. 1 \in 1 .. Len(queue) /\ i + 1 \in 1 .. Len(queue) /\ 1 < i + 1
      BY <2>2
    <3>4. IsFinal(queue[i + 1])
      BY <3>2, <3>3 DEF Shape
    <3> QED
      BY <2>2, <3>4 DEF IsMessage, IsFinal, Barrier, Final, FinalFlush
  <2>6. \A i \in 1 .. Len(written) : written[i] = i
    BY <2>1, Zenon DEF Numbering
  <2>7. sinkOpen => /\ IsMessage(hand') => hand' = Len(written) + 1
                    /\ \A i \in 1 .. Len(queue') :
                         IsMessage(queue'[i]) => queue'[i] = Len(written) + 1 + i
    BY <2>1, <2>2, <2>4 DEF Numbering
  <2>8. ~Committed => /\ IsMessage(hand') => hand' <= InitialLen
                      /\ \A i \in 1 .. Len(queue') :
                           IsMessage(queue'[i]) => queue'[i] <= InitialLen
    BY <2>1, <2>2 DEF Numbering
  <2> QED
    BY <2>1, <2>3, <2>4, <2>5, <2>6, <2>7, <2>8, Zenon DEF Numbering
<1>9. CASE WorkerWrite
  BY <1>9, SMTT(30)
     DEF WorkerWrite, Numbering, Shape, Ownership, InHand, Committed,
         Lifecycle, IsMessage, IsFinal, Barrier, Final, FinalFlush, TypeOK,
         Command, SessionState, Results
<1>10. CASE WorkerFlush
  <2>1. /\ worker = "flush" /\ UNCHANGED <<queue, written, hand>>
        /\ Committed' = Committed
        /\ worker' = IF IsFinal(hand) THEN "exited" ELSE "idle"
        /\ flushed' <= Len(written) /\ (sinkOpen' => sinkOpen)
    BY <1>10 DEF WorkerFlush, Committed, Numbering, TypeOK
  <2>2. \A i \in 1 .. Len(queue) : ~IsMessage(queue[i])
    BY <2>1, SMTT(30) DEF Shape, TypeOK, IsMessage, IsFinal, Barrier, Final, FinalFlush
  <2>3. worker' # "write"
    BY <2>1, Zenon
  <2>4. \A i \in 1 .. Len(written) :
          written[i] = i \/ (written[i] = Final /\ i = Len(written) /\ worker' = "exited")
    BY <2>1, Zenon DEF Numbering, IsFinal
  <2> QED
    BY <2>1, <2>2, <2>3, <2>4, Zenon DEF Numbering
<1>11. CASE WorkerFails
  BY <1>11, FailEffect, Zenon
     DEF WorkerFails, Report, Numbering, Shape, Ownership, InHand, Committed,
         Lifecycle, IsMessage, IsFinal, Barrier, Final, FinalFlush, TypeOK,
         Command, SessionState, Results, Tasks
<1>12. CASE SendThenClose
  <2>1. /\ queue' = Append(queue, Final) /\ Final \in Command
        /\ Committed' = Committed
        /\ UNCHANGED <<worker, hand, sinkOpen, written, flushed>>
    BY <1>12, CommandFacts, Zenon DEF SendThenClose, Close, Committed
  <2>2. /\ Len(queue') = Len(queue) + 1 /\ Len(queue) \in Nat
        /\ queue'[Len(queue) + 1] = Final
        /\ \A i \in 1 .. Len(queue) : queue'[i] = queue[i]
    BY <2>1, AppendFacts DEF TypeOK
  <2>3. \A i \in 1 .. Len(queue') :
          IsMessage(queue'[i]) => i \in 1 .. Len(queue) /\ queue'[i] = queue[i]
    BY <2>2 DEF IsMessage, Final
  <2> QED
    BY <2>1, <2>3, Zenon DEF Numbering, InHand
<1>13. CASE CloseAfterFlush
  <2>1. /\ queue' = Append(queue, FinalFlush) /\ FinalFlush \in Command
        /\ Committed' = Committed
        /\ UNCHANGED <<worker, hand, sinkOpen, written, flushed>>
    BY <1>13, CommandFacts, Zenon DEF CloseAfterFlush, Close, Committed
  <2>2. /\ Len(queue') = Len(queue) + 1 /\ Len(queue) \in Nat
        /\ queue'[Len(queue) + 1] = FinalFlush
        /\ \A i \in 1 .. Len(queue) : queue'[i] = queue[i]
    BY <2>1, AppendFacts DEF TypeOK
  <2>3. \A i \in 1 .. Len(queue') :
          IsMessage(queue'[i]) => i \in 1 .. Len(queue) /\ queue'[i] = queue[i]
    BY <2>2 DEF IsMessage, FinalFlush
  <2> QED
    BY <2>1, <2>3, Zenon DEF Numbering, InHand
<1> QED
    BY <1>1, <1>2, <1>3, <1>4, <1>5, <1>6, <1>7, <1>8, <1>9, <1>10, <1>11,
     <1>12, <1>13, Zenon DEF Next, Authentication, Send, Worker, Closing, Goroutines,
     Disconnect, CleanupTask

(* Every step keeps the account of how far the initial sync has got.       *)
LEMMA SyncStep == IInv /\ [Next]_vars => Sync'
<1> SUFFICES ASSUME IInv, [Next]_vars PROVE Sync'
  OBVIOUS
<1> USE DEF IInv
<1>1. CASE \/ SendOverflow \/ CloseOverflow \/ CloserGivesUp
           \/ UnregisterFinish \/ Kick \/ CloseRefused \/ CloserAcked
           \/ UnregisterBegin \/ RemoveEdge \/ CloseSink \/ OnFailure
           \/ PeerCloses \/ UNCHANGED vars
  <2>1. /\ UNCHANGED <<barrierDone, worker, hand, queue, written, flushed, sent,
                        live, auth, committing>>
        /\ state' \in {state, "Closing", "Closed"}
    BY <1>1, Zenon
       DEF SendOverflow, CloseOverflow, CloserGivesUp, UnregisterFinish, Kick,
           CloseRefused, CloserAcked, UnregisterBegin, RemoveEdge, CloseSink,
           OnFailure, PeerCloses, vars
  <2>2. sinkOpen' => sinkOpen
    BY <1>1, Zenon
       DEF SendOverflow, CloseOverflow, CloserGivesUp, UnregisterFinish, Kick,
           CloseRefused, CloserAcked, UnregisterBegin, RemoveEdge, CloseSink,
           OnFailure, PeerCloses, vars
  <2>3. FailLocked \/ TakeAndStop \/ UNCHANGED <<closed, deferred>>
    BY <1>1, Zenon
       DEF SendOverflow, CloseOverflow, CloserGivesUp, UnregisterFinish, Kick,
           CloseRefused, CloserAcked, UnregisterBegin, RemoveEdge, CloseSink,
           OnFailure, PeerCloses, vars
  <2>4. (closed => closed') /\ (~closed' => deferred' = deferred)
    BY <2>3, SealKept, Zenon
  <2> QED
    BY <2>1, <2>2, <2>3, <2>4
       DEF Sync, SyncFlushed, BarrierQueued, BarrierInHand, BarrierGone,
           InHand, Committed
<1>2. CASE \/ SendInitialOverflow \/ SyncRefused \/ CommitGivesUp
           \/ CommitRefused \/ AbortSync \/ BeginSyncRefused
  <2>1. /\ UNCHANGED <<barrierDone, worker, hand, queue, written, flushed, sent,
                        live>>
        /\ state' \in {state, "Closed"} /\ state # "Active"
        /\ auth \notin {"announce", "done"} /\ auth' \in {"abort", "aborted"}
    BY <1>2, Zenon
       DEF SendInitialOverflow, SyncRefused, CommitGivesUp, CommitRefused,
           AbortSync, BeginSyncRefused, Lifecycle, Committed
  <2>2. sinkOpen' => sinkOpen
    BY <1>2, Zenon
       DEF SendInitialOverflow, SyncRefused, CommitGivesUp, CommitRefused,
           AbortSync, BeginSyncRefused, Lifecycle, Committed
  <2>3. FailLocked \/ TakeAndStop \/ UNCHANGED <<closed, deferred>>
    BY <1>2, Zenon
       DEF SendInitialOverflow, SyncRefused, CommitGivesUp, CommitRefused,
           AbortSync, BeginSyncRefused, Lifecycle, Committed
  <2>4. (closed => closed') /\ (~closed' => deferred' = deferred)
    BY <2>3, SealKept, Zenon
  <2> QED
    BY <2>1, <2>2, <2>3, <2>4, Zenon DEF Sync, BarrierGone, Committed
<1>3. CASE BeginSync
  <2>1. /\ auth = "begin" /\ auth' = "initial" /\ worker' = "idle"
        /\ UNCHANGED <<state, queue, deferred, closed, committing, barrierDone,
                       sinkOpen, written, flushed, sent, live>>
    BY <1>3, Zenon DEF BeginSync
  <2>2. queue = <<>> /\ written = <<>> /\ sent = 0
    BY <2>1, Zenon DEF Ownership
  <2>3. Len(queue) = 0 /\ Len(written) = 0
    BY <2>2, Zenon
  <2>4. BarrierGone'
    BY <2>1, <2>3 DEF BarrierGone
  <2>5. ~committing /\ barrierDone = "none"
    BY <2>1, Zenon DEF Sync
  <2>6. state = "Syncing" /\ state' # "Active"
    BY <1>3, <2>1, Zenon DEF BeginSync
  <2> QED
    BY <2>1, <2>2, <2>3, <2>4, <2>5, <2>6 DEF Sync, Committed, InHand
<1>4. CASE SendInitial
  <2>1. /\ queue' = Append(queue, sent + 1) /\ sent + 1 \in Command
        /\ sent \in Nat /\ ~closed /\ auth = "initial" /\ sent' = sent + 1
        /\ state = "Syncing" /\ Len(queue) < Limit
        /\ UNCHANGED <<worker, hand, sinkOpen, written, flushed, auth, closed,
                       state, live, deferred, committing, barrierDone>>
    BY <1>4, CommandFacts DEF SendInitial, MayInitial, HasRoom, TypeOK
  <2>2. /\ Len(queue') = Len(queue) + 1 /\ Len(queue) \in Nat
        /\ \A i \in 1 .. Len(queue) : queue'[i] = queue[i]
        /\ queue'[Len(queue) + 1] = sent + 1
    BY <2>1, AppendFacts DEF TypeOK
  <2>3. \A i \in 1 .. Len(queue') : i \in 1 .. Len(queue) \/ i = Len(queue) + 1
    BY <2>2
  <2>4. \A i \in 1 .. Len(queue') : IsMessage(queue'[i])
    BY <2>1, <2>2, <2>3 DEF Sync, IsMessage
  <2>5. Len(written) \in Nat /\ InHand \in Nat /\ InHand' = InHand
    BY <2>1 DEF TypeOK, InHand
  <2>6. sinkOpen' => Len(written') + InHand' + Len(queue') = sent'
    BY <2>1, <2>2, <2>5, SMTT(30) DEF Sync
  <2>7. Len(queue') <= Limit
    BY <2>1, <2>2
  <2>8. BarrierGone'
    BY <2>1, <2>4 DEF Sync, BarrierGone, IsMessage, Barrier
  <2> QED
    BY <2>1, <2>4, <2>6, <2>7, <2>8, Zenon DEF Sync, Committed
<1>5. CASE CommitStart
  <2>1. /\ Len(queue') = Len(queue) + 1 /\ Len(queue) \in Nat
        /\ queue'[Len(queue')] = Barrier /\ sent = InitialLen
        /\ ~closed /\ auth = "initial" /\ auth' = "await"
        /\ state = "Syncing"
        /\ UNCHANGED <<worker, hand, sinkOpen, written, flushed, closed,
                       state, live, deferred, barrierDone, sent>>
    BY <1>5, CommitStartEffect DEF TypeOK
  <2>2. /\ barrierDone = "none" /\ worker \in {"idle", "write"}
        /\ sinkOpen => Len(written) + InHand + Len(queue) = sent
    BY <2>1, Zenon DEF Sync
  <2>3. InHand' = InHand /\ InHand \in Nat /\ Len(written) \in Nat
    BY <2>1 DEF InHand, TypeOK
  <2>4. BarrierQueued'
    BY <2>1, <2>2, <2>3 DEF BarrierQueued
  <2> QED
    BY <2>1, <2>2, <2>4, Zenon DEF Sync, Committed
<1>6. CASE CommitAcked
  BY <1>6, Zenon
     DEF CommitAcked, BarrierAcked, Sync, SyncFlushed, BarrierQueued,
         BarrierInHand, BarrierGone, Numbering, Shape, Ownership, InHand,
         Committed, Lifecycle, IsMessage, IsFinal, Barrier, Final, FinalFlush,
         TypeOK, Command, SessionState, Results
<1>7. CASE CommitSplice
  <2>1. /\ queue' = deferred /\ state = "Syncing" /\ ~closed /\ auth = "lock"
        /\ state' = "Active" /\ auth' = "announce"
        /\ UNCHANGED <<worker, hand, sinkOpen, written, flushed, closed,
                       barrierDone, live>>
    BY <1>7, CommitSpliceEffect, Zenon
  <2>2. SyncFlushed /\ Len(deferred) = live
    BY <2>1, Zenon DEF Sync
  <2>3. \A i \in 1 .. Len(queue') : IsMessage(queue'[i])
    BY <2>1 DEF TypeOK, IsMessage
  <2>4. InHand' = 0 /\ live \in Nat
    BY <2>1, <2>2 DEF InHand, SyncFlushed, TypeOK
  <2>5. sinkOpen' => /\ Len(written') + InHand' + Len(queue') = InitialLen + live'
                     /\ flushed' >= InitialLen
    BY <2>1, <2>2, <2>4 DEF SyncFlushed
  <2>6. BarrierGone'
    BY <2>1, <2>2, <2>3 DEF BarrierGone, IsMessage, Barrier, SyncFlushed
  <2> QED
    BY <2>1, <2>2, <2>3, <2>5, <2>6, Zenon DEF Sync, Committed, SyncFlushed
<1>8. CASE Announce
  <2>1. /\ auth = "announce" /\ auth' = "done"
        /\ UNCHANGED <<state, queue, deferred, closed, committing, barrierDone,
                       worker, hand, sinkOpen, written, flushed, sent, live>>
    BY <1>8, Zenon DEF Announce
  <2>2. Committed /\ Committed' /\ InHand' = InHand
    BY <2>1, Zenon DEF Committed, InHand
  <2>3. BarrierGone => BarrierGone'
    BY <2>1, Zenon DEF BarrierGone
  <2> QED
    BY <2>1, <2>2, <2>3, Zenon DEF Sync
<1>9. CASE SendDeferred
  <2>1. /\ deferred' = Append(deferred, InitialLen + live + 1)
        /\ InitialLen + live + 1 \in Nat \ {0} /\ live \in Nat
        /\ ~closed /\ state = "Syncing" /\ live' = live + 1
        /\ UNCHANGED <<queue, worker, hand, sinkOpen, written, flushed, auth,
                       closed, state, committing, barrierDone, sent>>
    BY <1>9 DEF SendDeferred, MaySend, TypeOK
  <2>2. /\ Len(deferred) = live
        /\ \A k \in 1 .. Len(deferred) : deferred[k] = InitialLen + k
    BY <2>1, Zenon DEF Sync
  <2>5. deferred \in Seq(Nat \ {0})
    BY Zenon DEF TypeOK
  <2>6. /\ Len(deferred') = Len(deferred) + 1
        /\ deferred'[Len(deferred) + 1] = InitialLen + live + 1
        /\ \A k \in 1 .. Len(deferred) : deferred'[k] = deferred[k]
    BY <2>1, <2>5
  <2>3. /\ Len(deferred') = live'
        /\ deferred'[live + 1] = InitialLen + live + 1
        /\ \A k \in 1 .. live : deferred'[k] = deferred[k]
    BY <2>1, <2>2, <2>6, Zenon
  <2>4. \A k \in 1 .. Len(deferred') : deferred'[k] = InitialLen + k
    <3> TAKE k \in 1 .. Len(deferred')
    <3>1. CASE k = live + 1
      BY <3>1, <2>1, <2>3
    <3>2. CASE k \in 1 .. live
      BY <3>2, <2>2, <2>3, Zenon
    <3> QED
      BY <3>1, <3>2, <2>1, <2>3
  <2>7. Committed' = Committed /\ InHand' = InHand /\ state # "Active"
    BY <2>1, Zenon DEF Committed, InHand
  <2>8. /\ BarrierGone => BarrierGone'
        /\ SyncFlushed => SyncFlushed'
        /\ BarrierQueued => BarrierQueued'
        /\ BarrierInHand => BarrierInHand'
    BY <2>1, <2>7, Zenon DEF BarrierGone, SyncFlushed, BarrierQueued, BarrierInHand
  <2> QED
    BY <2>1, <2>3, <2>4, <2>7, <2>8, Zenon DEF Sync
<1>10. CASE SendActive
  <2>1. /\ queue' = Append(queue, InitialLen + live + 1)
        /\ InitialLen + live + 1 \in Command /\ live \in Nat
        /\ Committed /\ ~closed /\ state = "Active" /\ live' = live + 1
        /\ UNCHANGED <<worker, hand, sinkOpen, written, flushed, auth, closed,
                       state, committing, barrierDone>>
    BY <1>10, CommandFacts DEF SendActive, MaySend, TypeOK, Lifecycle
  <2>2. /\ Len(queue') = Len(queue) + 1 /\ Len(queue) \in Nat
        /\ \A i \in 1 .. Len(queue) : queue'[i] = queue[i]
        /\ queue'[Len(queue) + 1] = InitialLen + live + 1
    BY <2>1, AppendFacts DEF TypeOK
  <2>3. \A i \in 1 .. Len(queue') : i \in 1 .. Len(queue) \/ i = Len(queue) + 1
    BY <2>2
  <2>4. /\ \A i \in 1 .. Len(queue') : IsMessage(queue'[i])
        /\ worker \in {"idle", "write"}
    BY <2>1, <2>2, <2>3 DEF Sync, IsMessage
  <2>5. Len(written) \in Nat /\ InHand \in Nat /\ InHand' = InHand
    BY <2>1 DEF TypeOK, InHand
  <2>6. sinkOpen' => Len(written') + InHand' + Len(queue') = InitialLen + live'
    BY <2>1, <2>2, <2>5, SMTT(30) DEF Sync
  <2>7. BarrierGone'
    BY <2>1, <2>4 DEF BarrierGone, IsMessage, Barrier
  <2> QED
    BY <2>1, <2>4, <2>6, <2>7, Zenon DEF Sync, Committed
<1>11. CASE WorkerStop
  <2>1. /\ worker = "idle" /\ worker' = "exited" /\ stopped
        /\ UNCHANGED <<state, queue, hand, deferred, closed, committing,
                       barrierDone, sinkOpen, written, flushed, auth, sent, live>>
    BY <1>11, Zenon DEF WorkerStop
  <2>2. closed /\ closed'
    BY <2>1, Zenon DEF Ownership
  <2>3. BarrierGone => BarrierGone'
    BY <2>1, Zenon DEF BarrierGone
  <2> QED
    BY <2>1, <2>2, <2>3, Zenon DEF Sync, Committed
<1>12. CASE WorkerReceive
  <2>1. /\ worker = "idle" /\ queue # <<>> /\ hand' = Head(queue)
        /\ queue' = Tail(queue) /\ worker' \in {"write", "flush"}
        /\ worker' = "flush" <=> ~(IsMessage(hand') \/ hand' = Final)
        /\ UNCHANGED <<sinkOpen, written, flushed, auth, closed, state, live,
                       deferred, committing, barrierDone, sent>>
    BY <1>12, Zenon DEF WorkerReceive
  <2>2. /\ Len(queue) \in Nat \ {0} /\ hand' = queue[1]
        /\ Len(queue') = Len(queue) - 1 /\ queue' \in Seq(Command)
        /\ \A i \in 1 .. Len(queue') : queue'[i] = queue[i + 1] /\ i + 1 \in 1 .. Len(queue)
    BY <2>1, TailFacts DEF TypeOK
  <2>3. /\ InHand = 0 /\ InHand' = IF worker' = "write" THEN 1 ELSE 0
        /\ Len(written) \in Nat
    BY <2>1 DEF InHand, TypeOK
  <2>4. barrierDone' = "ok" \/ auth \in {"begin", "initial"} => BarrierGone'
    BY <2>1, <2>2 DEF Sync, BarrierGone
  <2>5. ~closed /\ (auth = "initial" \/ Committed) =>
          /\ worker' = "write" /\ \A i \in 1 .. Len(queue') : IsMessage(queue'[i])
          /\ Len(written) + InHand' + Len(queue') = Len(written) + InHand + Len(queue)
    BY <2>1, <2>2, <2>3 DEF Sync
  <2>6. ~closed /\ auth = "await" => BarrierQueued' \/ BarrierInHand'
    <3> SUFFICES ASSUME ~closed, auth = "await" PROVE BarrierQueued' \/ BarrierInHand'
      OBVIOUS
    <3>1. BarrierQueued
      BY <2>1, Zenon DEF Sync, SyncFlushed, BarrierQueued, BarrierInHand
    <3>2. CASE Len(queue) = 1
      <4>1. queue' = <<>> /\ hand' = Barrier
        BY <2>2, <3>1, <3>2 DEF BarrierQueued
      <4>2. worker' = "flush"
        BY <2>1, <4>1 DEF IsMessage, IsFinal, Barrier, Final, FinalFlush
      <4> QED
        BY <2>1, <2>3, <3>1, <3>2, <4>1, <4>2 DEF BarrierQueued, BarrierInHand
    <3>3. CASE Len(queue) > 1
      <4>1. queue[1] # Barrier
        BY <2>2, <3>1, <3>3
           DEF Shape, BarrierQueued, IsMessage, IsFinal, Barrier, Final,
               FinalFlush
      <4>2. hand' \in Command /\ ~IsFinal(queue[1])
        <5>1. hand' \in Command
          BY <2>1, TailFacts, Zenon DEF TypeOK
        <5>2. ~IsFinal(queue[1])
          BY <2>2, <3>3 DEF Shape
        <5> QED
          BY <5>1, <5>2, Zenon
      <4>3. IsMessage(hand')
        BY <2>2, <4>1, <4>2
           DEF Command, IsMessage, IsFinal, Barrier, Final, FinalFlush
      <4>4. worker' = "write" /\ queue'[Len(queue')] = Barrier /\ Len(queue') > 0
        BY <2>1, <2>2, <3>1, <3>3, <4>3 DEF BarrierQueued
      <4> QED
        BY <2>1, <2>2, <2>3, <3>1, <4>4 DEF BarrierQueued
    <3> QED
      BY <2>2, <3>2, <3>3
  <2>7. ~closed => auth # "lock"
    BY <2>1, Zenon DEF Sync, SyncFlushed
  <2>8. ~closed /\ auth = "initial" => Len(queue') <= Limit
    BY <2>1, <2>2 DEF Sync
  <2>9. ~closed /\ state = "Active" => Committed
    BY Zenon DEF Lifecycle
  <2>10. Committed' = Committed
    BY <2>1, Zenon DEF Committed
  <2> QED
    BY <2>1, <2>3, <2>4, <2>5, <2>6, <2>7, <2>8, <2>9, <2>10 DEF Sync
<1>13. CASE WorkerWrite
  <2>1. /\ worker = "write" /\ worker' = IF hand = Final THEN "flush" ELSE "idle"
        /\ UNCHANGED <<state, queue, hand, deferred, closed, committing,
                       barrierDone, sinkOpen, flushed, auth, sent, live>>
    BY <1>13, Zenon DEF WorkerWrite
  <2>2. ~closed => worker' = "idle" /\ InHand = 1 /\ InHand' = 0
    BY <2>1, Zenon DEF Shape, IsFinal, InHand
  <2>3. Len(written) \in Nat /\ (sinkOpen => Len(written') = Len(written) + 1)
    BY <1>13, AppendFacts DEF WorkerWrite, TypeOK
  <2>4. BarrierGone => BarrierGone'
    BY <2>1 DEF BarrierGone, Barrier, Final
  <2>8. Len(queue) \in Nat /\ Len(queue') = Len(queue)
    BY <2>1 DEF TypeOK
  <2>7. ~closed /\ sinkOpen =>
          Len(written') + InHand' + Len(queue') = Len(written) + InHand + Len(queue)
    BY <2>2, <2>3, <2>8
  <2>5. ~closed /\ auth = "await" => BarrierQueued'
    <3>1. ~closed /\ auth = "await" => BarrierQueued
      BY <2>1, Zenon DEF Sync, BarrierInHand, SyncFlushed
    <3> QED
      BY <2>1, <2>2, <2>7, <3>1, Zenon DEF BarrierQueued
  <2>6. ~(~closed /\ auth = "lock")
    BY <2>1, Zenon DEF Sync, SyncFlushed
  <2> QED
    BY <2>1, <2>2, <2>4, <2>5, <2>6, <2>7 DEF Sync, Committed
<1>14. CASE WorkerFlush
  <2>1. /\ worker = "flush" /\ Committed' = Committed
        /\ worker' = IF IsFinal(hand) THEN "exited" ELSE "idle"
        /\ sinkOpen' => sinkOpen /\ flushed' = Len(written)
        /\ barrierDone' = IF hand = Barrier THEN "ok" ELSE barrierDone
        /\ UNCHANGED <<queue, written, hand, auth, closed, state, live, deferred,
                       committing, sent>>
    BY <1>14, Zenon DEF WorkerFlush, Report, Committed
  <2>2. IsFinal(hand) => closed
    BY <2>1, Zenon DEF Shape
  <2>3. hand = Barrier \/ IsFinal(hand)
    BY <2>1, Zenon DEF Shape
  <2>4. barrierDone' = "ok" => BarrierGone'
    BY <2>1, <2>3
       DEF Sync, Shape, BarrierGone, IsMessage, IsFinal, Barrier, Final,
           FinalFlush
  <2>5. ~closed => auth # "initial" /\ ~Committed /\ auth # "lock"
    BY <2>1, Zenon DEF Sync, SyncFlushed
  <2>6. ~closed /\ auth = "await" => SyncFlushed'
    BY <2>1, <2>2, <2>3, Zenon DEF Sync, SyncFlushed, BarrierQueued, BarrierInHand
  <2>7. ~closed /\ state = "Active" => Committed
    BY Zenon DEF Lifecycle
  <2>8. Committed /\ sinkOpen' => flushed' >= InitialLen
    BY <2>1 DEF Sync, Numbering, TypeOK
  <2>9. auth \in {"begin", "initial"} => hand # Barrier
    BY <2>1, Zenon DEF Sync, BarrierGone
  <2>10. BarrierGone => BarrierGone'
    BY <2>1, Zenon DEF BarrierGone
  <2> QED
    BY <2>1, <2>4, <2>5, <2>6, <2>7, <2>8, <2>9, <2>10, Zenon DEF Sync
<1>15. CASE WorkerFails
  <2>1. /\ closed' /\ worker \in {"write", "flush"} /\ worker' = "exited"
        /\ Committed' = Committed /\ (sinkOpen' => sinkOpen)
        /\ barrierDone' = IF hand = Barrier THEN "err" ELSE barrierDone
        /\ UNCHANGED <<queue, written, flushed, hand, auth, committing>>
    BY <1>15, FailEffect, Zenon DEF WorkerFails, Report, Committed
  <2>2. auth = "lock" => hand # Barrier
    BY <2>1
       DEF Sync, BarrierGone, Shape, IsMessage, IsFinal, Barrier, Final,
           FinalFlush
  <2>3. barrierDone' = "ok" => BarrierGone'
    BY <2>1, Zenon DEF Sync, BarrierGone
  <2>4. auth \in {"begin", "initial"} => hand # Barrier
    BY <2>1
       DEF Sync, BarrierGone, Shape, IsMessage, IsFinal, Barrier, Final,
           FinalFlush
  <2>5. BarrierGone => BarrierGone'
    BY <2>1, Zenon DEF BarrierGone
  <2> QED
    BY <2>1, <2>2, <2>3, <2>4, <2>5, Zenon DEF Sync
<1>16. CASE SendThenClose
  <2>1. /\ closed' /\ queue' = Append(queue, Final)
        /\ UNCHANGED <<state, worker, hand, committing, barrierDone, sinkOpen,
                       written, flushed, auth, sent, live>>
    BY <1>16, Zenon DEF SendThenClose, Close
  <2>2. queue \in Seq(Command) /\ Final \in Command /\ Final # Barrier
    BY CommandFacts DEF TypeOK, Final, Barrier
  <2>3. /\ Len(queue') = Len(queue) + 1 /\ queue'[Len(queue) + 1] = Final
        /\ \A i \in 1 .. Len(queue) : queue'[i] = queue[i]
    BY <2>1, <2>2, AppendFacts
  <2>4. BarrierGone => BarrierGone'
    BY <2>1, <2>2, <2>3 DEF BarrierGone
  <2> QED
    BY <2>1, <2>4, Zenon DEF Sync, Committed
<1>17. CASE CloseAfterFlush
  <2>1. /\ closed' /\ queue' = Append(queue, FinalFlush)
        /\ UNCHANGED <<state, worker, hand, committing, barrierDone, sinkOpen,
                       written, flushed, auth, sent, live>>
    BY <1>17, Zenon DEF CloseAfterFlush, Close
  <2>2. queue \in Seq(Command) /\ FinalFlush \in Command /\ FinalFlush # Barrier
    BY CommandFacts DEF TypeOK, FinalFlush, Barrier
  <2>3. /\ Len(queue') = Len(queue) + 1 /\ queue'[Len(queue) + 1] = FinalFlush
        /\ \A i \in 1 .. Len(queue) : queue'[i] = queue[i]
    BY <2>1, <2>2, AppendFacts
  <2>4. BarrierGone => BarrierGone'
    BY <2>1, <2>2, <2>3 DEF BarrierGone
  <2> QED
    BY <2>1, <2>4, Zenon DEF Sync, Committed
<1> QED
    BY <1>1, <1>2, <1>3, <1>4, <1>5, <1>6, <1>7, <1>8, <1>9, <1>10, <1>11,
     <1>12, <1>13, <1>14, <1>15, <1>16, <1>17, Zenon DEF Next, Authentication, Send,
     Worker, Closing, Goroutines, Disconnect, CleanupTask


(* A session that has just been bound satisfies the inductive invariant.   *)
LEMMA InitIInv == Init => IInv
<1> SUFFICES ASSUME Init PROVE IInv
  OBVIOUS
<1>1. TypeOK
  <2>1. /\ announced \in BOOLEAN /\ mapped \in BOOLEAN /\ closed \in BOOLEAN
        /\ committing \in BOOLEAN /\ stopped \in BOOLEAN /\ failed \in BOOLEAN
        /\ sinkOpen \in BOOLEAN
    BY Zenon DEF Init
  <2>2. /\ queue \in Seq(Command) /\ Len(queue) = 0 /\ written \in Seq(Command)
        /\ deferred \in Seq(Nat \ {0}) /\ Len(deferred) = 0
    BY DEF Init
  <2>3. hand \in Command
    BY CommandFacts, Zenon DEF Init
  <2>4. /\ removes \in Nat /\ flushed \in Nat /\ sent \in 0 .. InitialLen
        /\ live \in 0 .. MaxLive /\ 0 <= Limit /\ 0 <= Limit + 1
    BY LimitAssumption, InitialLenAssumption, MaxLiveAssumption DEF Init
  <2> QED
    BY <2>1, <2>2, <2>3, <2>4, Zenon DEF Init, TypeOK, Results, SessionState
<1>2. Lifecycle /\ Ownership
  BY Zenon DEF Init, Lifecycle, Committed, Ownership
<1>3. Shape /\ Numbering
  BY DEF Init, Shape, Numbering
<1>4. Sync
  BY DEF Init, Sync, Committed, BarrierGone
<1> QED
  BY <1>1, <1>2, <1>3, <1>4, Zenon DEF IInv

(* The inductive invariant is preserved by every step of every thread.     *)
LEMMA NextIInv == IInv /\ [Next]_vars => IInv'
  BY TypeStep, LifecycleStep, OwnershipStep, ShapeStep, NumberingStep, SyncStep, Zenon
     DEF IInv

-----------------------------------------------------------------------------
(* The theorems.                                                           *)

(* IInv holds throughout: it is inductive.                                 *)
THEOREM Invariance == Spec => []IInv
  BY InitIInv, NextIInv, PTL DEF Spec

(* Every variable keeps its type, and the queue of control.go its bounds:  *)
(* limit ordinary messages, one more for a barrier or a final message.     *)
THEOREM TypeCorrect == Spec => []TypeOK
<1>1. IInv => TypeOK
  BY Zenon DEF IInv
<1> QED
  BY <1>1, Invariance, PTL

(* The client is written the initial sync, then the ordinary messages, in  *)
(* order, complete and once, and nothing after a final message.            *)
THEOREM OrderedDelivery == Spec => []InOrder
<1>1. IInv => InOrder
  BY Zenon DEF IInv, Numbering, InOrder
<1> QED
  BY <1>1, Invariance, PTL

(* An Active session whose client is still there has confirmed the whole   *)
(* initial sync.                                                           *)
THEOREM ActiveMeansSynced == Spec => []SyncedWhenActive
<1>1. IInv => SyncedWhenActive
  BY Zenon DEF IInv, Lifecycle, Sync, SyncedWhenActive
<1> QED
  BY <1>1, Invariance, PTL

(* The splice at the commit point never overflows the queue.               *)
THEOREM SpliceAlwaysFits == Spec => []CommitNeverOverflows
<1>1. IInv => CommitNeverOverflows
  BY DEF IInv, Sync, SyncFlushed, TypeOK, CommitNeverOverflows, MayCommit,
         SpliceFits
<1> QED
  BY <1>1, Invariance, PTL

(* No worker is left waiting on a queue nobody can reach.                  *)
THEOREM NoWorkerLeft == Spec => []NoOrphanWorker
<1>1. IInv => NoOrphanWorker
  BY Zenon DEF IInv, Ownership, NoOrphanWorker
<1> QED
  BY <1>1, Invariance, PTL

(* UserRemove is broadcast once for an announced session, never otherwise. *)
THEOREM RemovePairsJoin == Spec => []JoinRemovePaired
<1>1. IInv => JoinRemovePaired
  BY DEF IInv, Lifecycle, TypeOK, JoinRemovePaired
<1> QED
  BY <1>1, Invariance, PTL

(* A session that was stopped or sealed is never activated afterwards.     *)
THEOREM NoActivationAfterClose == Spec => NoLateActivation
<1>1. IInv /\ [Next]_vars =>
        (state # "Active" /\ state' = "Active" =>
           ~stopped /\ ~closed /\ barrierDone = "ok")
  <2> SUFFICES ASSUME IInv, Next, state # "Active", state' = "Active"
               PROVE  ~stopped /\ ~closed /\ barrierDone = "ok"
    BY Zenon DEF vars
  <2>1. CommitSplice
    BY Zenon DEF Next, Authentication, Send, Worker, Closing, Goroutines, BeginSync,
           BeginSyncRefused, SendInitial, SendInitialOverflow, SyncRefused,
           CommitStart, CommitAcked, CommitGivesUp, CommitRefused, Announce,
           AbortSync, SendDeferred, SendActive, SendOverflow, WorkerStop,
           WorkerReceive, WorkerWrite, WorkerFlush, WorkerFails, Kick,
           SendThenClose, CloseAfterFlush, Close, CloseOverflow, CloseRefused,
           CloserAcked, CloserGivesUp, Disconnect, CleanupTask,
           UnregisterBegin, UnregisterFinish, RemoveEdge, CloseSink, OnFailure,
           PeerCloses
  <2> QED
    BY <2>1, Zenon DEF CommitSplice, MayCommit, IInv, Ownership, Sync
<1> QED
  BY <1>1, Invariance, PTL DEF Spec, NoLateActivation


-----------------------------------------------------------------------------
(* Refinement of SessionStream.                                            *)

(* A step that leaves the wire, the transport and the commit alone is a    *)
(* stutter of the stream.                                                  *)
LEMMA PhaseKept ==
  ASSUME written' = written, sinkOpen' = sinkOpen, Committed' = Committed
  PROVE  UNCHANGED <<streamPhase, written>>
  BY Zenon DEF streamPhase, FinalWritten, Committed

(* A step that closes the transport without writing is the end of the      *)
(* stream.                                                                 *)
LEMMA StreamEnds ==
  ASSUME written' = written, ~sinkOpen'
  PROVE  [Stream!StreamNext]_(Stream!streamVars)
<1>1. streamPhase' = "ended"
  BY Zenon DEF streamPhase
<1> QED
  BY <1>1, Zenon DEF Stream!StreamNext, Stream!End, Stream!streamVars

(* Every step of the control plane is a step or a stutter of the stream.   *)
LEMMA StreamStep ==
  ASSUME IInv, [Next]_vars
  PROVE  [Stream!StreamNext]_(Stream!streamVars)
<1> USE DEF IInv
<1>1. CASE WorkerWrite /\ sinkOpen
  <2>1. /\ worker = "write" /\ written' = Append(written, hand)
        /\ UNCHANGED <<sinkOpen, auth>> /\ sinkOpen
    BY <1>1, Zenon DEF WorkerWrite
  <2>2. written \in Seq(Command) /\ hand \in Command
    BY Zenon DEF TypeOK
  <2>3. /\ Len(written') = Len(written) + 1 /\ Len(written) \in Nat
        /\ written'[Len(written) + 1] = hand
        /\ \A i \in 1 .. Len(written) : written'[i] = written[i]
    BY <2>1, <2>2, AppendFacts
  <2>4. \A i \in 1 .. Len(written) : written[i] = i
    BY <2>1, Zenon DEF Numbering
  <2>5. ~FinalWritten
    BY <2>3, <2>4 DEF FinalWritten, Final
  <2>6. CASE hand = Final
    <3>1. FinalWritten'
      BY <2>3, <2>6 DEF FinalWritten
    <3>2. streamPhase # "ended" /\ streamPhase' = "ended"
      BY <2>1, <2>5, <3>1, Zenon DEF streamPhase
    <3> QED
      BY <2>1, <2>6, <3>2, Zenon DEF Stream!StreamNext, Stream!End
  <2>7. CASE hand # Final
    <3>1. hand = Len(written) + 1 /\ (~Committed => hand <= InitialLen)
      BY <2>1, <2>7, Zenon DEF Shape, Numbering
    <3>2. ~FinalWritten'
      <4>1. \A i \in 1 .. Len(written') : i \in 1 .. Len(written) \/ i = Len(written) + 1
        BY <2>3
      <4> QED
        BY <2>3, <2>4, <2>7, <4>1 DEF FinalWritten, Final
    <3>3. /\ streamPhase' = streamPhase
          /\ streamPhase = IF Committed THEN "live" ELSE "syncing"
      BY <2>1, <2>5, <3>2, Zenon DEF streamPhase, Committed
    <3>4. Stream!DeliverNext
      BY <2>1, <3>1, <3>3, Zenon DEF Stream!DeliverNext
    <3>5. Stream!DeliverInitial \/ Stream!DeliverLive
      BY <2>3, <3>1, <3>3, <3>4 DEF Stream!DeliverInitial, Stream!DeliverLive
    <3> QED
      BY <3>5, Zenon DEF Stream!StreamNext
  <2> QED
    BY <2>6, <2>7, Zenon
<1>2. CASE CommitSplice
  <2>1. /\ UNCHANGED <<worker, sinkOpen, written>>
        /\ auth = "lock" /\ auth' = "announce" /\ ~closed
    BY <1>2, CommitSpliceEffect, Zenon
  <2>2. SyncFlushed
    BY <2>1, Zenon DEF Sync
  <2>3. CASE sinkOpen
    <3>1. \A i \in 1 .. Len(written) : written[i] = i
      BY <2>2, Zenon DEF Numbering, SyncFlushed
    <3>2. ~FinalWritten /\ ~FinalWritten'
      BY <2>1, <3>1 DEF FinalWritten, Final
    <3>3. streamPhase = "syncing" /\ streamPhase' = "live"
      BY <2>1, <2>3, <3>2, Zenon DEF streamPhase
    <3>4. Len(written) = InitialLen
      BY <2>2, <2>3, Zenon DEF SyncFlushed
    <3> QED
      BY <2>1, <3>3, <3>4, Zenon DEF Stream!StreamNext, Stream!GoLive
  <2>4. CASE ~sinkOpen
    BY <2>1, <2>4, StreamEnds, Zenon
  <2> QED
    BY <2>3, <2>4, Zenon
<1>3. CASE WorkerFlush \/ WorkerFails \/ AbortSync \/ CloseSink \/ PeerCloses
  <2>1. /\ written' = written /\ (sinkOpen' => sinkOpen)
        /\ auth' = auth \/ (auth = "abort" /\ auth' = "aborted")
    BY <1>3, Zenon DEF WorkerFlush, WorkerFails, AbortSync, CloseSink, PeerCloses
  <2>2. Committed' = Committed
    BY <2>1 DEF Committed
  <2>3. sinkOpen \in BOOLEAN /\ sinkOpen' \in BOOLEAN
    BY TypeStep, Zenon DEF TypeOK
  <2>4. CASE sinkOpen' = sinkOpen
    BY <2>1, <2>2, <2>4, PhaseKept, Zenon DEF Stream!streamVars
  <2>5. CASE ~sinkOpen'
    BY <2>1, <2>5, StreamEnds, Zenon
  <2> QED
    BY <2>1, <2>3, <2>4, <2>5, Zenon
<1>4. CASE WorkerWrite /\ ~sinkOpen
  BY <1>4, StreamEnds, Zenon DEF WorkerWrite
<1>5. CASE \/ BeginSync \/ BeginSyncRefused \/ SendInitial \/ SendInitialOverflow
           \/ SyncRefused \/ CommitStart \/ CommitAcked \/ CommitGivesUp
           \/ CommitRefused \/ Announce
  <2>1. UNCHANGED <<written, sinkOpen>>
    BY <1>5, CommitStartEffect, Zenon
       DEF BeginSync, BeginSyncRefused, SendInitial, SendInitialOverflow,
           SyncRefused, CommitAcked, CommitGivesUp, CommitRefused, Announce
  <2>2. \/ auth' = auth
        \/ auth = "announce" /\ auth' = "done"
        \/ /\ auth \notin {"announce", "done"}
           /\ auth' \notin {"announce", "done"}
    BY <1>5, CommitStartEffect, Zenon
       DEF BeginSync, BeginSyncRefused, SendInitial, SendInitialOverflow,
           SyncRefused, CommitAcked, CommitGivesUp, CommitRefused, Announce
  <2>3. Committed' = Committed
    BY <2>2 DEF Committed
  <2> QED
    BY <2>1, <2>3, PhaseKept, Zenon DEF Stream!streamVars
<1>6. CASE \/ Send \/ WorkerStop \/ WorkerReceive \/ Kick \/ SendThenClose
           \/ CloseAfterFlush \/ CloseOverflow \/ CloseRefused \/ CloserAcked
           \/ CloserGivesUp \/ UnregisterBegin \/ UnregisterFinish \/ RemoveEdge
           \/ OnFailure \/ UNCHANGED vars
  <2>1. UNCHANGED <<written, sinkOpen, auth>>
    BY <1>6, Zenon DEF Send, SendDeferred, SendActive, SendOverflow, WorkerStop,
                WorkerReceive, Kick, SendThenClose, CloseAfterFlush, Close,
                CloseOverflow, CloseRefused, CloserAcked, CloserGivesUp,
                UnregisterBegin, UnregisterFinish, RemoveEdge, OnFailure, vars
  <2>2. Committed' = Committed
    BY <2>1, Zenon DEF Committed
  <2> QED
    BY <2>1, <2>2, PhaseKept, Zenon DEF Stream!streamVars
<1> QED
  BY <1>1, <1>2, <1>3, <1>4, <1>5, <1>6, Zenon
     DEF Next, Authentication, Worker, Closing, Goroutines, Disconnect,
         CleanupTask

(* ControlTransport implements SessionStream.                              *)
THEOREM ImplementsStream == Spec => DeliversStream
<1>1. Init => Stream!StreamInit
  BY DEF Init, Stream!StreamInit, streamPhase, FinalWritten
<1>2. IInv /\ [Next]_vars => [Stream!StreamNext]_(Stream!streamVars)
  BY StreamStep, Zenon
<1> QED
  BY <1>1, <1>2, Invariance, PTL DEF Spec, DeliversStream, Stream!StreamSpec

-----------------------------------------------------------------------------
(* No accepted message is lost.                                            *)

Among(s, m) == \E i \in 1 .. Len(s) : s[i] = m
Accepted == (1 .. sent) \cup (InitialLen + 1 .. InitialLen + live)
Writing(m) == worker = "write" /\ hand = m
Carried(m) == Among(written, m) \/ Writing(m) \/ Among(queue, m) \/ Among(deferred, m)

(* Append adds one message and keeps the others.                           *)
LEMMA AmongAppend ==
  ASSUME NEW S, NEW s \in Seq(S), NEW e \in S, NEW m
  PROVE  /\ Among(s, m) => Among(Append(s, e), m)
         /\ Among(Append(s, e), e)
<1>1. /\ Len(s) \in Nat /\ Len(Append(s, e)) = Len(s) + 1
      /\ Append(s, e)[Len(s) + 1] = e
      /\ \A i \in 1 .. Len(s) : Append(s, e)[i] = s[i]
  BY AppendFacts
<1>2. \A i \in 1 .. Len(s) + 1 : i \in 1 .. Len(Append(s, e))
  BY <1>1, Zenon
<1>3. Len(s) + 1 \in 1 .. Len(s) + 1 /\ \A i \in 1 .. Len(s) : i \in 1 .. Len(s) + 1
  BY <1>1
<1> QED
  BY <1>1, <1>2, <1>3, Zenon DEF Among

(* The message at the head of a queue is the only one a receive takes.     *)
LEMMA AmongTail ==
  ASSUME NEW S, NEW s \in Seq(S), s # <<>>, NEW m, Among(s, m)
  PROVE  m = Head(s) \/ Among(Tail(s), m)
<1>1. PICK i \in 1 .. Len(s) : s[i] = m
  BY Zenon DEF Among
<1>2. CASE i = 1
  BY <1>1, <1>2, TailFacts, Zenon
<1>3. CASE i # 1
  <2>1. i - 1 \in 1 .. Len(Tail(s)) /\ Tail(s)[i - 1] = s[i - 1 + 1] /\ i - 1 + 1 = i
    BY <1>1, <1>3, TailFacts
  <2> QED
    BY <1>1, <2>1, Zenon DEF Among
<1> QED
  BY <1>2, <1>3, Zenon

(* Every other step leaves the messages where they are, seals the queue or *)
(* finds the transport closed.                                             *)
Holdings == <<written, queue, deferred, hand, sent, live>>
LEMMA HoldingsKept ==
  ASSUME IInv, [Next]_vars, sinkOpen', ~closed'
  PROVE  /\ sinkOpen /\ ~closed
         /\ \/ SendInitial \/ CommitStart \/ CommitSplice \/ SendDeferred \/ SendActive
            \/ WorkerReceive \/ WorkerWrite
            \/ UNCHANGED Holdings /\ (worker = "write" => worker' = "write")
<1> USE DEF IInv, Holdings
<1>1. CASE \/ SendInitialOverflow \/ CommitGivesUp \/ SendOverflow \/ WorkerFails
           \/ CloseOverflow \/ CloserGivesUp
  BY <1>1, FailEffect, Zenon
     DEF SendInitialOverflow, CommitGivesUp, SendOverflow, WorkerFails, CloseOverflow, CloserGivesUp
<1>2. CASE AbortSync \/ UnregisterFinish
  BY <1>2, TakeEffect, Zenon DEF AbortSync, UnregisterFinish
<1>3. CASE CommitStart \/ CommitSplice
  BY <1>3, CommitStartEffect, CommitSpliceEffect, Zenon
<1>4. CASE \/ BeginSync \/ BeginSyncRefused \/ SendInitial \/ SyncRefused \/ CommitAcked
           \/ CommitRefused \/ Announce \/ SendDeferred \/ SendActive \/ WorkerStop
           \/ WorkerReceive \/ WorkerWrite \/ WorkerFlush
  BY <1>4, Zenon
     DEF BeginSync, BeginSyncRefused, SendInitial, SyncRefused, CommitAcked, CommitRefused,
         Announce, SendDeferred, SendActive, WorkerStop, WorkerReceive, WorkerWrite, WorkerFlush,
         Ownership
<1>5. CASE \/ Kick \/ SendThenClose \/ CloseAfterFlush \/ CloseRefused \/ CloserAcked
           \/ UnregisterBegin \/ RemoveEdge \/ CloseSink \/ OnFailure \/ PeerCloses
           \/ UNCHANGED vars
  <2>1. CASE SendThenClose \/ CloseAfterFlush \/ CloseSink \/ PeerCloses
    BY <2>1, Zenon DEF SendThenClose, CloseAfterFlush, Close, CloseSink, PeerCloses
  <2>2. CASE Kick \/ CloseRefused \/ CloserAcked \/ UnregisterBegin \/ RemoveEdge \/ OnFailure
    <3>1. UNCHANGED <<written, queue, deferred, hand, sent, live, worker, sinkOpen, closed>>
      BY <2>2, Zenon DEF Kick, CloseRefused, CloserAcked, UnregisterBegin, RemoveEdge, OnFailure
    <3> QED
      BY <3>1, Zenon
  <2>3. CASE UNCHANGED vars
    BY <2>3, Zenon DEF vars
  <2> QED
    BY <1>5, <2>1, <2>2, <2>3, Zenon
<1> QED
  BY <1>1, <1>2, <1>3, <1>4, <1>5, Zenon
     DEF Next, Authentication, Send, Worker, Closing, Goroutines, Disconnect, CleanupTask

(* A message that is carried stays so, and an accepted one becomes so.     *)
LEMMA CarriedStep ==
  ASSUME IInv, [Next]_vars, sinkOpen', ~closed', NEW m
  PROVE  (Carried(m) \/ (m \in Accepted' /\ m \notin Accepted)) /\ m > 0 => Carried(m)'
<1> USE DEF IInv
<1>0. queue \in Seq(Command) /\ deferred \in Seq(Nat \ {0}) /\ written \in Seq(Command) /\ hand \in Command
      /\ sent \in Nat /\ live \in Nat
  BY DEF TypeOK
<1>1. CASE SendInitial
  <2>1. /\ queue' = Append(queue, sent + 1) /\ sent' = sent + 1
        /\ UNCHANGED <<written, deferred, hand, worker, live>>
    BY <1>1, Zenon DEF SendInitial
  <2>2. sent + 1 \in Command /\ (m \in Accepted' /\ m \notin Accepted => m = sent + 1)
    BY <1>0, <2>1, CommandFacts DEF Accepted
  <2>3. (Among(queue, m) => Among(queue', m)) /\ Among(queue', sent + 1)
    BY <1>0, <2>1, <2>2, AmongAppend, Zenon
  <2> QED
    BY <2>1, <2>2, <2>3, Zenon DEF Carried, Writing, Among
<1>2. CASE SendActive
  <2>1. PICK e : /\ queue' = Append(queue, e) /\ e = InitialLen + live + 1 /\ live' = live + 1
                 /\ UNCHANGED <<written, deferred, hand, worker, sent>>
    BY <1>2, Zenon DEF SendActive
  <2>2. e \in Command /\ (m \in Accepted' /\ m \notin Accepted => m = e)
    BY <1>0, <2>1, CommandFacts DEF Accepted
  <2>3. (Among(queue, m) => Among(queue', m)) /\ Among(queue', e)
    <3>1. queue \in Seq(Command) /\ e \in Command /\ queue' = Append(queue, e)
      BY <1>0, <2>1, <2>2, Zenon
    <3> QED
      BY <3>1, AmongAppend, Zenon
  <2> QED
    BY <2>1, <2>2, <2>3, Zenon DEF Carried, Writing, Among
<1>3. CASE SendDeferred
  <2>1. PICK e : /\ deferred' = Append(deferred, e) /\ e = InitialLen + live + 1 /\ live' = live + 1
                 /\ UNCHANGED <<written, queue, hand, worker, sent>>
    BY <1>3, Zenon DEF SendDeferred
  <2>2. e \in Nat \ {0} /\ (m \in Accepted' /\ m \notin Accepted => m = e)
    <3>1. live \in Nat /\ sent \in Nat /\ e = InitialLen + live + 1 /\ live' = live + 1 /\ sent' = sent
      BY <1>0, <2>1, Zenon
    <3> QED
      BY <3>1 DEF Accepted
  <2>3. (Among(deferred, m) => Among(deferred', m)) /\ Among(deferred', e)
    <3>1. deferred \in Seq(Nat \ {0}) /\ e \in Nat \ {0} /\ deferred' = Append(deferred, e)
      BY <1>0, <2>1, <2>2, Zenon
    <3> QED
      BY <3>1, AmongAppend, Zenon
  <2> QED
    BY <2>1, <2>2, <2>3, Zenon DEF Carried, Writing, Among
<1>4. CASE CommitStart
  <2>1. queue' = Append(queue, Barrier) /\ UNCHANGED <<written, deferred, hand, worker, sent, live>>
    BY <1>4, CommitStartEffect, Zenon
  <2>2. Among(queue, m) => Among(queue', m)
    BY <1>0, <2>1, CommandFacts, AmongAppend, Zenon
  <2> QED
    BY <2>1, <2>2, Zenon DEF Carried, Writing, Among, Accepted
<1>5. CASE CommitSplice
  <2>1. queue = <<>> /\ queue' = deferred /\ UNCHANGED <<written, hand, worker, sent, live>>
    BY <1>5, CommitSpliceEffect, Zenon
  <2>2. ~Among(queue, m)
    BY <2>1 DEF Among
  <2> QED
    BY <2>1, <2>2, Zenon DEF Carried, Writing, Among, Accepted
<1>6. CASE WorkerReceive
  <2>1. /\ queue # <<>> /\ worker = "idle" /\ hand' = Head(queue) /\ queue' = Tail(queue)
        /\ IsMessage(hand') => worker' = "write"
        /\ UNCHANGED <<written, deferred, sent, live>>
    BY <1>6, Zenon DEF WorkerReceive
  <2>2. Among(queue, m) => m = hand' \/ Among(queue', m)
    BY <1>0, <2>1, AmongTail, Zenon
  <2> QED
    BY <2>1, <2>2, Zenon DEF Carried, Writing, Among, Accepted, IsMessage
<1>7. CASE WorkerWrite
  <2>1. sinkOpen
    BY <1>7, Zenon DEF WorkerWrite
  <2>2. written' = Append(written, hand) /\ UNCHANGED <<queue, deferred, sent, live>>
    BY <1>7, <2>1, Zenon DEF WorkerWrite
  <2>3. (Among(written, m) => Among(written', m)) /\ Among(written', hand)
    BY <1>0, <2>2, AmongAppend, Zenon
  <2> QED
    BY <2>2, <2>3, Zenon DEF Carried, Writing, Among, Accepted
<1>8. CASE UNCHANGED Holdings /\ (worker = "write" => worker' = "write")
  BY <1>8, Zenon DEF Holdings, Carried, Writing, Among, Accepted
<1> QED
  BY <1>1, <1>2, <1>3, <1>4, <1>5, <1>6, <1>7, <1>8, HoldingsKept, Zenon

(* While the session accepts messages and its transport is open, every     *)
(* message SendInitial or Send returned nil for is on the wire, in the     *)
(* worker's hand, queued or deferred, for every limit of the queue.        *)
THEOREM NothingLost == Spec => []NoneLost
<1>1. NoneLost <=> (sinkOpen /\ ~closed => \A m \in Accepted : Carried(m))
  BY Zenon DEF NoneLost, Accepted, Carried, Writing, Among
<1>2. NoneLost' <=> (sinkOpen' /\ ~closed' => \A m \in Accepted' : Carried(m)')
  BY Zenon DEF NoneLost, Accepted, Carried, Writing, Among
<1>3. Init => NoneLost
  BY DEF Init, NoneLost
<1>4. IInv /\ IInv' /\ NoneLost /\ [Next]_vars => NoneLost'
  <2> SUFFICES ASSUME IInv, IInv', NoneLost, [Next]_vars, sinkOpen', ~closed', NEW m \in Accepted'
               PROVE  Carried(m)'
    BY <1>2, Zenon
  <2>1. m > 0
    <3>1. sent' \in 0 .. InitialLen /\ live' \in 0 .. MaxLive
      BY Zenon DEF IInv, TypeOK
    <3>2. m \in 1 .. sent' \/ m \in InitialLen + 1 .. InitialLen + live'
      BY Zenon DEF Accepted
    <3> QED
      BY <3>1, <3>2
  <2>2. sinkOpen /\ ~closed
    BY HoldingsKept, Zenon
  <2> QED
    BY <1>1, <2>1, <2>2, CarriedStep, Zenon
<1> QED
  BY <1>3, <1>4, Invariance, PTL DEF Spec

=============================================================================
