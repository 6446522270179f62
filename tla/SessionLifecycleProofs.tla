----------------------- MODULE SessionLifecycleProofs -----------------------
(***************************************************************************)
(* The theorems about SessionLifecycle, for any number of session IDs,     *)
(* generations and faults.  Every step has one of the effects of           *)
(* SessionSteps on one session and leaves the others as they were          *)
(* (SessionStepProofs), and these effects keep the facts of                *)
(* SessionEffectProofs; so the invariants below hold, and with them the    *)
(* properties.                                                             *)
(***************************************************************************)
EXTENDS SessionStepProofs, SessionEffectProofs

USE DEF registry, views, threads

-----------------------------------------------------------------------------
(* What is left of a session that ends.                                    *)

LEMMA BaseStep ==
  ASSUME Shape, NEW g \in Gens, StepOf(g), BaseAt(g)
  PROVE  BaseAt(g)'
<1> USE SMTT(20) DEF SamePhase, SameEntry, SameUser, SameConn, Moves, Goes, SameThreads,
            Stay, Threads, BaseAt
<1>1. AddDoes(g) => BaseAt(g)'
  BY Zenon DEF AddDoes
<1>2. BindDoes(g) => BaseAt(g)'
  BY Zenon DEF BindDoes
<1>3. PhaseDoes(g) => BaseAt(g)'
  BY Zenon DEF PhaseDoes
<1>4. BeginDoes(g) => BaseAt(g)'
  BY Zenon DEF BeginDoes
<1>5. BeginRefusedDoes(g) => BaseAt(g)'
  BY Zenon DEF BeginRefusedDoes
<1>6. RejectDoes(g) => BaseAt(g)'
  BY Zenon DEF RejectDoes, Dropped
<1>7. AbortDoes(g) => BaseAt(g)'
  BY Zenon DEF AbortDoes
<1>8. RosterDoes(g) => BaseAt(g)'
  BY Zenon DEF RosterDoes
<1>9. CommitDoes(g) => BaseAt(g)'
  BY Zenon DEF CommitDoes, MayInitial
<1>10. AnnouncedDoes(g) => BaseAt(g)'
  BY Zenon DEF AnnouncedDoes
<1>11. \A t \in Threads : StartDoes(g, t) => BaseAt(g)'
  BY Zenon DEF StartDoes
<1>12. FailDoes(g) => BaseAt(g)'
  BY Zenon DEF FailDoes, ConnClosed, Dropped, Deliverable
<1>13. LeaveDoes(g) => BaseAt(g)'
  BY Zenon DEF LeaveDoes, Dropped
<1>14. \A t \in Threads : CloseDoes(g, t) => BaseAt(g)'
  BY Zenon DEF CloseDoes
<1>15. \A t \in Threads : HoldDoes(g, t) => BaseAt(g)'
  BY Zenon DEF HoldDoes
<1>16. \A t \in Threads : HoldStaleDoes(g, t) => BaseAt(g)'
  BY Zenon DEF HoldStaleDoes
<1>17. \A t \in Threads : ReleaseDoes(g, t) => BaseAt(g)'
  BY Zenon DEF ReleaseDoes
<1>18. \A t \in Threads : MailOnly(g, t) => BaseAt(g)'
  BY Zenon DEF MailOnly, AfterSend
<1>19. \A t \in Threads : FinalDoes(g, t) => BaseAt(g)'
  BY Zenon DEF FinalDoes, ConnClosed, ConnKept, Dropped
<1>20. \A t \in Threads : AbortSyncDoes(g, t) => BaseAt(g)'
  BY Zenon DEF AbortSyncDoes, ConnClosed, ConnKept, Dropped
<1>21. \A t \in Threads : RemoveDoes(g, t) => BaseAt(g)'
  BY Zenon DEF RemoveDoes, After
<1>22. \A t \in Threads : UnregisterDoes(g, t) => BaseAt(g)'
  BY Zenon DEF UnregisterDoes, After
<1>23. \A t \in Threads : UnregisterStaleDoes(g, t) => BaseAt(g)'
  BY Zenon DEF UnregisterStaleDoes, After
<1> QED  BY <1>1, <1>2, <1>3, <1>4, <1>5, <1>6, <1>7, <1>8, <1>9, <1>10, <1>11, <1>12, <1>13,
            <1>14, <1>15, <1>16, <1>17, <1>18, <1>19, <1>20, <1>21, <1>22, <1>23,
            MailOnlyDoes, Zenon DEF StepOf, AuthDoes, EndDoes, ThreadDoes

LEMMA LockStep ==
  ASSUME Shape, NEW g \in Gens, StepOf(g), LockAt(g)
  PROVE  LockAt(g)'
<1> USE SMTT(20) DEF SamePhase, SameEntry, SameUser, SameConn, Moves, Goes, SameThreads,
            Stay, Threads, LockAt, Holding
<1>1. AddDoes(g) => LockAt(g)'
  BY Zenon DEF AddDoes
<1>2. BindDoes(g) => LockAt(g)'
  BY Zenon DEF BindDoes
<1>3. PhaseDoes(g) => LockAt(g)'
  BY Zenon DEF PhaseDoes
<1>4. BeginDoes(g) => LockAt(g)'
  BY DEF BeginDoes
<1>5. BeginRefusedDoes(g) => LockAt(g)'
  BY Zenon DEF BeginRefusedDoes
<1>6. RejectDoes(g) => LockAt(g)'
  BY Zenon DEF RejectDoes, Dropped
<1>7. AbortDoes(g) => LockAt(g)'
  BY Zenon DEF AbortDoes
<1>8. RosterDoes(g) => LockAt(g)'
  BY Zenon DEF RosterDoes
<1>9. CommitDoes(g) => LockAt(g)'
  BY Zenon DEF CommitDoes, MayInitial
<1>10. AnnouncedDoes(g) => LockAt(g)'
  BY Zenon DEF AnnouncedDoes
<1>11. \A t \in Threads : StartDoes(g, t) => LockAt(g)'
  BY DEF StartDoes
<1>12. FailDoes(g) => LockAt(g)'
  BY Zenon DEF FailDoes, ConnClosed, Dropped, Deliverable
<1>13. LeaveDoes(g) => LockAt(g)'
  BY Zenon DEF LeaveDoes, Dropped
<1>14. \A t \in Threads : CloseDoes(g, t) => LockAt(g)'
  BY DEF CloseDoes
<1>15. \A t \in Threads : HoldDoes(g, t) => LockAt(g)'
  BY DEF HoldDoes
<1>16. \A t \in Threads : HoldStaleDoes(g, t) => LockAt(g)'
  BY DEF HoldStaleDoes
<1>17. \A t \in Threads : ReleaseDoes(g, t) => LockAt(g)'
  BY DEF ReleaseDoes
<1>18. \A t \in Threads : MailOnly(g, t) => LockAt(g)'
  BY DEF MailOnly, AfterSend
<1>19. \A t \in Threads : FinalDoes(g, t) => LockAt(g)'
  BY DEF FinalDoes, ConnClosed, ConnKept, Dropped
<1>20. \A t \in Threads : AbortSyncDoes(g, t) => LockAt(g)'
  BY DEF AbortSyncDoes, ConnClosed, ConnKept, Dropped
<1>21. \A t \in Threads : RemoveDoes(g, t) => LockAt(g)'
  BY DEF RemoveDoes, After
<1>22. \A t \in Threads : UnregisterDoes(g, t) => LockAt(g)'
  BY DEF UnregisterDoes, After
<1>23. \A t \in Threads : UnregisterStaleDoes(g, t) => LockAt(g)'
  BY DEF UnregisterStaleDoes, After
<1> QED  BY <1>1, <1>2, <1>3, <1>4, <1>5, <1>6, <1>7, <1>8, <1>9, <1>10, <1>11, <1>12, <1>13,
            <1>14, <1>15, <1>16, <1>17, <1>18, <1>19, <1>20, <1>21, <1>22, <1>23,
            MailOnlyDoes, Zenon DEF StepOf, AuthDoes, EndDoes, ThreadDoes

LEMMA RemovedStep ==
  ASSUME Shape, NEW g \in Gens, StepOf(g), BaseAt(g), RemovedAt(g)
  PROVE  RemovedAt(g)'
<1> USE SMTT(20) DEF SamePhase, SameEntry, SameUser, SameConn, Moves, Goes, SameThreads,
            Stay, Threads, RemovedAt
<1>1. AddDoes(g) => RemovedAt(g)'
  BY Zenon DEF AddDoes
<1>2. BindDoes(g) => RemovedAt(g)'
  BY Zenon DEF BindDoes
<1>3. PhaseDoes(g) => RemovedAt(g)'
  BY Zenon DEF PhaseDoes
<1>4. BeginDoes(g) => RemovedAt(g)'
  BY Zenon DEF BeginDoes
<1>5. BeginRefusedDoes(g) => RemovedAt(g)'
  BY Zenon DEF BeginRefusedDoes
<1>6. RejectDoes(g) => RemovedAt(g)'
  BY Zenon DEF RejectDoes, Dropped
<1>7. AbortDoes(g) => RemovedAt(g)'
  BY Zenon DEF AbortDoes
<1>8. RosterDoes(g) => RemovedAt(g)'
  BY Zenon DEF RosterDoes
<1>9. CommitDoes(g) => RemovedAt(g)'
  BY Zenon DEF CommitDoes, MayInitial
<1>10. AnnouncedDoes(g) => RemovedAt(g)'
  BY Zenon DEF AnnouncedDoes
<1>11. \A t \in Threads : StartDoes(g, t) => RemovedAt(g)'
  BY Zenon DEF StartDoes
<1>12. FailDoes(g) => RemovedAt(g)'
  BY Zenon DEF FailDoes, ConnClosed, Dropped, Deliverable
<1>13. LeaveDoes(g) => RemovedAt(g)'
  BY Zenon DEF LeaveDoes, Dropped
<1>14. \A t \in Threads : CloseDoes(g, t) => RemovedAt(g)'
  BY Zenon DEF CloseDoes
<1>15. \A t \in Threads : HoldDoes(g, t) => RemovedAt(g)'
  BY Zenon DEF HoldDoes
<1>16. \A t \in Threads : HoldStaleDoes(g, t) => RemovedAt(g)'
  BY Zenon DEF HoldStaleDoes
<1>17. \A t \in Threads : ReleaseDoes(g, t) => RemovedAt(g)'
  BY Zenon DEF ReleaseDoes
<1>18. \A t \in Threads : MailOnly(g, t) => RemovedAt(g)'
  BY Zenon DEF MailOnly, AfterSend
<1>19. \A t \in Threads : FinalDoes(g, t) => RemovedAt(g)'
  BY Zenon DEF FinalDoes, ConnClosed, ConnKept, Dropped
<1>20. \A t \in Threads : AbortSyncDoes(g, t) => RemovedAt(g)'
  BY Zenon DEF AbortSyncDoes, ConnClosed, ConnKept, Dropped
<1>21. \A t \in Threads : RemoveDoes(g, t) => RemovedAt(g)'
  BY Zenon DEF RemoveDoes, After
<1>22. \A t \in Threads : UnregisterDoes(g, t) => RemovedAt(g)'
  BY Zenon DEF UnregisterDoes, After
<1>23. \A t \in Threads : UnregisterStaleDoes(g, t) => RemovedAt(g)'
  BY Zenon DEF UnregisterStaleDoes, After
<1> QED  BY <1>1, <1>2, <1>3, <1>4, <1>5, <1>6, <1>7, <1>8, <1>9, <1>10, <1>11, <1>12, <1>13,
            <1>14, <1>15, <1>16, <1>17, <1>18, <1>19, <1>20, <1>21, <1>22, <1>23,
            MailOnlyDoes, Zenon DEF StepOf, AuthDoes, EndDoes, ThreadDoes

LEMMA Stuttering == ASSUME UNCHANGED vars, NEW g PROVE SameSession(g)
<1>1. UNCHANGED <<sid, users, entries, state, announced, lock, mapped, open, auth, roster,
                  rest, told, todo>>
  BY Zenon DEF vars
<1> QED  BY <1>1, UsersStay, EntriesStay, Unmoved, Unsent, Zenon
            DEF SameSession, SamePhase, SameEntry, SameConn, SameThreads

LEMMA EndingStep == ASSUME Shape, EndingInv, [Next]_vars PROVE EndingInv'
<1>1. CASE Next
  <2>1. PICK g \in Gens : Others(g) /\ StepOf(g)
    BY <1>1, NextDoes, Zenon
  <2>2. BaseAt(g)' /\ LockAt(g)' /\ RemovedAt(g)' /\ LeftAt(g)'
    BY <2>1, BaseStep, LockStep, RemovedStep, LeftStep, Zenon DEF EndingInv
  <2>3. ASSUME NEW h \in Gens \ {g} PROVE BaseAt(h)' /\ LockAt(h)' /\ RemovedAt(h)' /\ LeftAt(h)'
    BY <2>1, SessionKept, Zenon DEF Others, EndingInv
  <2> QED  BY <2>2, <2>3, Zenon DEF EndingInv
<1>2. CASE UNCHANGED vars
  BY <1>2, Stuttering, SessionKept, Zenon DEF EndingInv
<1> QED  BY <1>1, <1>2, Zenon

LEMMA EndingHolds == Spec => []EndingInv
<1>1. Init => Shape /\ EndingInv
  BY ShapeInit, EndingInit, Zenon
<1>2. (Shape /\ EndingInv) /\ [Next]_vars => (Shape /\ EndingInv)'
  BY ShapeStep, EndingStep, Zenon
<1> QED  BY <1>1, <1>2, PTL DEF Spec

(* A session that has ended and whose threads are done has left nothing in *)
(* the user manager, the registry or the transport, whatever paths ended   *)
(* it and however they were interleaved.                                   *)
THEOREM EndedLeavesNothing == Spec => []NothingLeftBehind
<1>1. Shape /\ EndingInv => NothingLeftBehind
  <2> SUFFICES ASSUME Shape, EndingInv, NEW g \in Gens, Idle(g), Ending(g)
               PROVE  ~Live(g) /\ ~Bound(g) /\ ~mapped[g] /\ lock[g] = "free"
    BY Zenon DEF NothingLeftBehind, Ending
  <2>1. \A t \in Threads : Where(g, t) = "end"
    BY WhereAt, Zenon DEF Shape, TypeOK, Idle
  <2>2. /\ BaseAt(g) /\ LockAt(g) /\ LeftAt(g) /\ lock[g] \in Threads \cup {"free"}
        /\ auth[g] \in {"none", "done", "ended"} /\ mapped[g] \in BOOLEAN
    BY Zenon DEF EndingInv, Shape, TypeOK, SessionType, Idle
  <2>3. ~ToRemove(g) /\ ~ToUnregister(g)
    BY <2>1, Zenon DEF ToRemove, ToUnregister, Threads
  <2>4. ~Live(g) /\ ~Bound(g) /\ ~mapped[g]
    BY <2>2, <2>3, Zenon DEF LeftAt, BaseAt
  <2>5. lock[g] = "free"
    BY <2>1, <2>2, Zenon DEF LockAt, Holding, Threads
  <2> QED  BY <2>4, <2>5, Zenon
<1> QED  BY <1>1, ShapeHolds, EndingHolds, PTL

-----------------------------------------------------------------------------
(* Who may remove a user.                                                  *)

LEMMA OwnInvStep == ASSUME Shape, EndingInv, OwnInv, [Next]_vars PROVE OwnInv'
<1>1. CASE Next
  <2>1. PICK g \in Gens : Others(g) /\ StepOf(g)
    BY <1>1, NextDoes, Zenon
  <2>2. ASSUME ~BannedEarly(g)' PROVE OwnAt(g)'
    BY <2>1, <2>2, EarlyBanStays, OwnStep, Zenon DEF EndingInv, OwnInv
  <2>3. ASSUME NEW h \in Gens \ {g}, ~BannedEarly(h)' PROVE OwnAt(h)'
    BY <2>1, <2>3, EarlyBanStays, OwnKept, Zenon DEF Others, OwnInv
  <2> QED  BY <2>2, <2>3, Zenon DEF OwnInv
<1>2. CASE UNCHANGED vars
  <2>1. \A g : BannedEarly(g)' <=> BannedEarly(g)
    BY <1>2, Zenon DEF vars, BannedEarly
  <2> QED  BY <1>2, <2>1, Stuttering, OwnKept, Zenon DEF OwnInv
<1> QED  BY <1>1, <1>2, Zenon

LEMMA OwnHolds == Spec => []OwnInv
<1>1. Init => Shape /\ EndingInv /\ OwnInv
  BY ShapeInit, EndingInit, OwnInit, Zenon
<1>2. (Shape /\ EndingInv /\ OwnInv) /\ [Next]_vars => (Shape /\ EndingInv /\ OwnInv)'
  BY ShapeStep, EndingStep, OwnInvStep, Zenon
<1> QED  BY <1>1, <1>2, PTL DEF Spec

(* A session that is bound and not closing owns its session ID: none of    *)
(* the paths that end a session removes the user of one that goes on, but  *)
(* a ban that found it before it was bound.                                *)
THEOREM BoundKeepsUser == Spec => []EntryOwnsUser
<1>1. OwnInv => EntryOwnsUser
  BY Zenon DEF OwnInv, OwnAt, EntryOwnsUser
<1> QED  BY <1>1, OwnHolds, PTL

-----------------------------------------------------------------------------
(* Nobody shows a session that has ended.                                  *)

LEMMA TellInvStep ==
  ASSUME Shape, EndingInv, TellInv, [Next]_vars PROVE TellInv'
<1>1. CASE Next
  <2>1. PICK g \in Gens : Others(g) /\ StepOf(g)
    BY <1>1, NextDoes, Zenon
  <2>2. BaseAt(g) /\ LockAt(g) /\ PhaseAt(g) /\ MailAt(g)
    BY Zenon DEF EndingInv, TellInv, TellAt
  <2>3. TellAt(g)'
    BY <2>1, <2>2, PhaseStep, MailStep, Zenon DEF TellAt
  <2>4. ASSUME NEW h \in Gens \ {g} PROVE TellAt(h)'
    BY <2>1, TellKept, Zenon DEF Others, TellInv
  <2> QED  BY <2>3, <2>4, Zenon DEF TellInv
<1>2. CASE UNCHANGED vars
  BY <1>2, Stuttering, TellKept, Zenon DEF TellInv
<1> QED  BY <1>1, <1>2, Zenon

LEMMA ViewStutters == ASSUME ViewInv, UNCHANGED vars PROVE ViewInv'
<1>1. UNCHANGED <<sid, base, news, auth, told, todo, ends>>
  BY Zenon DEF vars
<1>2. \A h, s : View(h, s)' = View(h, s)
  BY <1>1, Zenon DEF View
<1>3. ShownInv'
  BY <1>1, <1>2, Zenon DEF ViewInv, ShownInv, ShownAt
<1>4. FreshInv'
  BY <1>1, Zenon DEF ViewInv, FreshInv, FreshAt
<1>5. ASSUME NEW h \in Gens, NEW g \in Gens PROVE GhostAt(h, g)'
  <2>1. (Hears(h)' <=> Hears(h)) /\ (Active(g)' <=> Active(g))
    BY Stuttering, SessionStays, Zenon DEF Hears
  <2>2. \A t : Due(h, g, t)' <=> Due(h, g, t)
    BY <1>1, Zenon DEF Due, Told, Todo
  <2>3. View(h, sid[g])' = View(h, sid[g]) /\ (BannedEarly(g)' <=> BannedEarly(g))
    BY <1>1, Zenon DEF View, BannedEarly
  <2> QED  BY <1>1, <2>1, <2>2, <2>3, Zenon DEF ViewInv, GhostInv, GhostAt
<1> QED  BY <1>3, <1>4, <1>5, Zenon DEF ViewInv, GhostInv

LEMMA ViewInvStep ==
  ASSUME Shape, EndingInv, OwnInv, TellInv, ViewInv, [Next]_vars PROVE ViewInv'
<1>1. CASE Next
  <2>1. PICK k \in Gens : Others(k) /\ StepOf(k)
    BY <1>1, NextDoes, Zenon
  <2>2. Shape'
    BY ShapeStep, Zenon
  <2> QED  BY <2>1, <2>2, ShownStep, FreshStep, GhostStep, Zenon DEF ViewInv
<1>2. CASE UNCHANGED vars
  BY <1>2, ViewStutters, Zenon
<1> QED  BY <1>1, <1>2, Zenon

LEMMA ViewHolds == Spec => [](Shape /\ EndingInv /\ OwnInv /\ TellInv /\ ViewInv)
<1>1. Init => Shape /\ EndingInv /\ OwnInv /\ TellInv /\ ViewInv
  BY ShapeInit, EndingInit, OwnInit, TellInit, ViewInit, Zenon
<1>2. Shape /\ EndingInv /\ OwnInv /\ TellInv /\ ViewInv /\ [Next]_vars
        => (Shape /\ EndingInv /\ OwnInv /\ TellInv /\ ViewInv)'
  BY ShapeStep, EndingStep, OwnInvStep, TellInvStep, ViewInvStep, Zenon
<1> QED  BY <1>1, <1>2, PTL DEF Spec

(* A thread that is done has nothing to tell.                              *)
LEMMA DoneIsSilent ==
  ASSUME Shape, TellInv, NEW g \in Gens, NEW t \in Threads, rest[g, t] = <<>>
  PROVE  ~Told(g, t) /\ Todo(g, t) = {}
<1>1. Where(g, t) = "end"
  BY WhereAt, Zenon DEF Shape, TypeOK
<1>2. Where(g, t) # "broadcast" /\ Where(g, t) # "remove" /\ Where(g, t) # "send"
  BY <1>1, Zenon
<1> QED  BY <1>2, Zenon DEF TellInv, TellAt, MailAt, MailOf

(* A client shows no ghost: once the threads of an ID have settled,        *)
(* whoever it shows there is Active, however its snapshot raced with the   *)
(* joins, the removals and the reuse of the ID, and for any number of      *)
(* sessions and faults, or is a session banned before it was bound.        *)
THEOREM NoGhosts == Spec => []NoGhostUser
<1>1. Shape /\ TellInv /\ ViewInv => NoGhostUser
  <2> SUFFICES ASSUME Shape, TellInv, ViewInv, NEW h \in Gens, NEW s \in SIDs, Watching(h),
                      s # sid[h], Settled(s), View(h, s) # NoGen, ~BannedEarly(View(h, s))
               PROVE  Active(View(h, s))
    BY Zenon DEF NoGhostUser
  <2>1. PICK g \in Gens : View(h, s) = g /\ sid[g] = s
    BY Zenon DEF ViewInv, ShownInv, ShownAt
  <2>2. Hears(h)
    BY Zenon DEF Watching, Active, Deliverable, Hears
  <2>3. sid[g] # NoSID
    BY <2>1, SIDsAssumption, Zenon
  <2>4. Active(g) \/ \E t \in Removals : Due(h, g, t)
    BY <2>1, <2>2, <2>3, Zenon DEF ViewInv, GhostInv, GhostAt
  <2>5. ASSUME NEW t \in Removals PROVE ~Due(h, g, t)
    <3>1. t \in Threads
      BY Zenon DEF Removals
    <3>2. rest[g, t] = <<>>
      BY <2>1, <3>1, Zenon DEF Settled, Idle
    <3> QED  BY <3>1, <3>2, DoneIsSilent, Zenon DEF Due
  <2> QED  BY <2>1, <2>4, <2>5, Zenon
<1> QED  BY <1>1, ViewHolds, PTL

-----------------------------------------------------------------------------
(* Everybody shows those who have joined.                                  *)

LEMMA OrderStep ==
  ASSUME Shape, OrderInv, NEW k \in Gens, Others(k), StepOf(k) PROVE OrderInv'
<1> SUFFICES ASSUME NEW f \in Gens, NEW g \in Gens, Live(g)', sid'[f] = sid'[g] PROVE f <= g
  BY Zenon DEF OrderInv
<1>1. \A x \in Gens \ {k} : sid'[x] = sid[x] /\ (Live(x)' => Live(x))
  BY Zenon DEF Others, SameSession, SameUser
<1>2. CASE AddDoes(k)
  <2>1. CASE g = k /\ f # k
    <3>1. sid'[g] # NoSID
      BY Zenon DEF Live
    <3>2. sid[f] # NoSID /\ auth[k] = "none"
      BY <1>1, <1>2, <2>1, <3>1, Zenon DEF AddDoes
    <3>3. f <= generation /\ k > generation
      BY <3>2, GensAre DEF Shape, CreatedInv, TypeOK, SessionType
    <3>4. generation \in Nat /\ f \in Nat /\ k \in Nat
      BY GensAre DEF Shape, TypeOK, SessionType
    <3> QED  BY <2>1, <3>3, <3>4
  <2>2. CASE g # k /\ f # k
    BY <1>1, <2>2, Zenon DEF OrderInv
  <2>3. f = k => g = k
    <3>1. Live(k)'
      BY <1>2, Zenon DEF AddDoes
    <3> QED  BY <3>1, Zenon DEF Live
  <2>4. f = g => f <= g
    BY GensAre
  <2> QED  BY <2>1, <2>2, <2>3, <2>4, Zenon
<1>3. CASE ~AddDoes(k)
  <2>1. sid'[k] = sid[k] /\ (Live(k)' => Live(k))
    BY <1>3, UserBack, Zenon
  <2>2. Live(g) /\ sid[f] = sid[g]
    BY <1>1, <2>1, Zenon
  <2> QED  BY <2>2, Zenon DEF OrderInv
<1> QED  BY <1>2, <1>3, Zenon

LEMMA JoinStutters == ASSUME JoinInv, UNCHANGED vars PROVE JoinInv'
<1>1. UNCHANGED <<sid, users, base, news, auth, roster, told, todo, ends>>
  BY Zenon DEF vars
<1>2. QuietInv'
  BY <1>1, Stuttering, CalmKept, Zenon DEF JoinInv, QuietInv, Quiet
<1>3. CauseInv' /\ OrderInv'
  BY <1>1, Zenon DEF JoinInv, CauseInv, OrderInv, Live
<1>4. ASSUME NEW h \in Gens, NEW g \in Gens PROVE SeenAt(h, g)'
  <2>1. (Active(g)' <=> Active(g)) /\ (Attends(h)' <=> Attends(h))
    BY Stuttering, SessionStays, Zenon DEF Attends
  <2>2. (HeldBack(g)' <=> HeldBack(g)) /\ (BannedEarly(g)' <=> BannedEarly(g))
    BY <1>1, Zenon DEF HeldBack, BannedEarly
  <2>3. /\ View(h, sid[g])' = View(h, sid[g]) /\ (Due(h, g, "auth")' <=> Due(h, g, "auth"))
        /\ (Expects(h, g)' <=> Expects(h, g))
    BY <1>1, Zenon DEF View, Due, Told, Todo, Expects
  <2> QED  BY <1>1, <2>1, <2>2, <2>3, Zenon DEF JoinInv, SeenInv, SeenAt
<1> QED  BY <1>2, <1>3, <1>4, Zenon DEF JoinInv, SeenInv

LEMMA JoinStep ==
  ASSUME Shape, EndingInv, OwnInv, TellInv, ViewInv, JoinInv, [Next]_vars PROVE JoinInv'
<1>1. CASE Next
  <2>1. PICK k \in Gens : Others(k) /\ StepOf(k)
    BY <1>1, NextDoes, Zenon
  <2>2. Shape' /\ CauseInv'
    BY ShapeStep, CauseStep, Zenon DEF JoinInv
  <2>3. QuietInv' /\ OrderInv'
    BY <2>1, QuietStep, OrderStep, Zenon DEF JoinInv
  <2>4. FreshInv'
    BY <2>1, FreshStep, Zenon DEF ViewInv
  <2>5. SeenInv'
    BY <2>1, <2>2, <2>4, SeenStep, Zenon DEF JoinInv
  <2> QED  BY <2>2, <2>3, <2>5, Zenon DEF JoinInv
<1>2. CASE UNCHANGED vars
  BY <1>2, JoinStutters, Zenon
<1> QED  BY <1>1, <1>2, Zenon

(* Everybody is seen: once the threads of an ID have settled, every client *)
(* shows the Active session bound to it, unless it was banned before it    *)
(* was bound, if those that held the ID before were made to end by kicks   *)
(* only: KickSessionRef keeps it until its UserRemove is queued everywhere.*)
THEOREM EveryoneSeen == Spec => []EveryoneVisible
<1>1. Init => JoinInv
  BY JoinInit, Zenon
<1>2. (Shape /\ EndingInv /\ OwnInv /\ TellInv /\ ViewInv) /\ JoinInv /\ [Next]_vars => JoinInv'
  BY JoinStep, Zenon
<1>3. Shape /\ TellInv /\ JoinInv => EveryoneVisible
  <2> SUFFICES ASSUME Shape, TellInv, JoinInv, NEW g \in Gens, Watching(g), Settled(sid[g]),
                      HeldBack(g), ~BannedEarly(g), NEW h \in Gens \ {g}, Watching(h)
               PROVE  View(h, sid[g]) = g
    BY Zenon DEF EveryoneVisible, Seen
  <2>1. Active(g) /\ Active(h) /\ mapped[h] /\ auth[h] = "done"
    BY Zenon DEF Watching
  <2>2. sid[h] # sid[g]
    BY <2>1, Zenon DEF Active, Bound
  <2>3. Attends(h) /\ ~Expects(h, g)
    BY <2>1, Zenon DEF Attends, Active, Deliverable, Expects, Starting
  <2>4. ~Due(h, g, "auth")
    <3>1. "auth" \in Threads /\ rest[g, "auth"] = <<>>
      BY Zenon DEF Threads, Settled, Idle
    <3> QED  BY <3>1, DoneIsSilent, Zenon DEF Due
  <2> QED  BY <2>1, <2>2, <2>3, <2>4, Zenon DEF JoinInv, SeenInv, SeenAt
<1> QED  BY <1>1, <1>2, <1>3, ViewHolds, PTL DEF Spec

=============================================================================
