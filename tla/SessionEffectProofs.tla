------------------------ MODULE SessionEffectProofs ------------------------
(***************************************************************************)
(* What the effects of SessionSteps keep, whatever steps have them.        *)
(*                                                                         *)
(* First one session at a time: what of it is left in the user manager,    *)
(* the registry and the transport, against what the threads that end it    *)
(* have still to do (BaseAt, LockAt, RemovedAt, LeftAt); who may remove    *)
(* its user when no ban came before it was bound (OwnAt); and which        *)
(* threads have something to tell the other clients, and when (PhaseAt,    *)
(* MailAt, CalmAt).  Then two sessions: what client h shows of session g   *)
(* is Active, or some thread of g has still to tell h of its removal       *)
(* (GhostAt), and an Active g is shown by h, or its announcement is still  *)
(* due to h (SeenAt).                                                      *)
(***************************************************************************)
EXTENDS SessionSteps, TLAPS

USE DEF registry, views, threads

-----------------------------------------------------------------------------
(* The facts about one session.                                            *)

(* Registry, transport and connection of one session, by its phase.        *)
BaseAt(g) ==
  /\ auth[g] \in {"none", "bind"} => state[g] = "none" /\ ~Bound(g) /\ open[g]
  /\ open[g] => Where(g, "drop") = "end"
  /\ auth[g] \in {"none", "bind", "begin", "refused"} => ~mapped[g]
  /\ mapped[g] => Bound(g)
  /\ auth[g] = "refused" => ~Bound(g)
  /\ state[g] = "none" => ~Bound(g)

(* Who holds the transition lock.                                          *)
Holding == {"broadcast", "send", "release"}
LockAt(g) ==
  /\ lock[g] \notin {"ban", "drop"}
  /\ lock[g] = "auth" <=> auth[g] = "announce"
  /\ lock[g] = "kick" <=> Where(g, "kick") \in Holding
  /\ lock[g] = "fail" <=> Where(g, "fail") \in Holding
  /\ auth[g] \notin {"announce", "ended"} => Where(g, "auth") = "end"

(* The paths that have removed the user.                                   *)
RemovedAt(g) ==
  \/ ~Live(g)
  \/ /\ Where(g, "kick") # "unregister" /\ Where(g, "ban") # "unregister"
     /\ Where(g, "drop") \notin {"broadcast", "send"}

(* The paths that have still to remove the user, and the entry.            *)
ToRemove(g) ==
  \/ Where(g, "kick") \in {"broadcast", "send", "release", "final", "remove"}
  \/ Where(g, "ban") \in {"close", "broadcast", "send", "final", "remove"}
  \/ Where(g, "fail") \in {"hold", "broadcast", "send", "release", "unregister", "remove"}
  \/ Where(g, "drop") \in {"unregister", "remove"}
  \/ Where(g, "auth") \in {"abort", "unregister", "remove"}
ToUnregister(g) ==
  \/ Where(g, "kick") \in {"broadcast", "send", "release", "final", "remove", "unregister"}
  \/ Where(g, "ban") \in {"close", "broadcast", "send", "final", "remove", "unregister"}
  \/ Where(g, "fail") \in {"hold", "broadcast", "send", "release", "unregister"}
  \/ Where(g, "drop") = "unregister"
  \/ Where(g, "auth") \in {"abort", "unregister"}

Ending(g) == auth[g] = "ended" \/ state[g] = "Closing" \/ ~open[g]
LeftAt(g) == Ending(g) => (~Live(g) \/ ToRemove(g)) /\ (~Bound(g) \/ ToUnregister(g))

(* Who may remove a user: the session is closing, or its entry has come    *)
(* and gone.                                                               *)
Over(g) == state[g] = "Closing" \/ (auth[g] \notin {"none", "bind"} /\ ~Bound(g))

OwnAt(g) ==
  /\ auth[g] = "bind" => Live(g)
  /\ Deliverable(g) => Live(g)
  /\ auth[g] \in {"none", "bind"} => Where(g, "ban") = "end" /\ Where(g, "fail") = "end"
  /\ Where(g, "kick") \in {"broadcast", "send", "release", "final", "remove", "unregister"} => Over(g)
  /\ Where(g, "ban") \in {"broadcast", "send", "final", "remove", "unregister"} => Over(g)
  /\ Where(g, "fail") \in {"broadcast", "send", "release", "unregister", "remove"} => Over(g)
  /\ Where(g, "drop") \in {"remove", "broadcast", "send"} => Over(g)
  /\ Where(g, "auth") = "remove" => Over(g)

(* A session is Active from its commit on, and announced once all who were *)
(* there have been told; its handler holds the lock meanwhile.             *)
PhaseAt(g) ==
  /\ auth[g] = "announce" => Active(g)
  /\ Where(g, "auth") \in {"broadcast", "send"} => auth[g] = "announce"
  /\ Where(g, "auth") \in {"abort", "unregister", "remove"} => auth[g] = "ended"
  /\ state[g] = "Active" => auth[g] \in {"announce", "done"}
  /\ state[g] = "Active" /\ auth[g] = "done" => announced[g]
  /\ announced[g] => auth[g] = "done"

(* A thread has something to tell only on its way to the broadcast, and a  *)
(* removal only when the announced session is closing.                     *)
Told(g, t) == told[g, t]
Todo(g, t) == todo[g, t]
ToTell(g, t) == Told(g, t) \/ Todo(g, t) # {}
MailOf(g, t) ==
  /\ Told(g, t) => Where(g, t) = "broadcast" \/ (t = "drop" /\ Where(g, t) = "remove")
  /\ Todo(g, t) # {} => Where(g, t) = "send"
  /\ t # "auth" /\ ToTell(g, t) => state[g] = "Closing" /\ announced[g]
MailAt(g) ==
  /\ Where(g, "auth") = "broadcast" => Told(g, "auth")
  /\ \A t \in Threads : MailOf(g, t)

(* Of a session that nothing but kicks has made to end, only its kick      *)
(* tells of its removal, before it gives up the ID.                        *)
Removals == Threads \ {"auth"}
CalmAt(g) ==
  /\ Where(g, "ban") = "end" /\ Where(g, "fail") = "end"
  /\ ~open[g] => auth[g] = "ended" \/ state[g] = "Closing"
  /\ \A t \in Removals : ToTell(g, t) => t = "kick" /\ Live(g) /\ open[g]

-----------------------------------------------------------------------------
(* The mail, with Told and Todo for the fields, and the threads that have  *)
(* something to tell.                                                      *)

(* Broadcasting moves a thread and leaves the session as it was.           *)
MailOnly(g, t) ==
  /\ Where(g, t) \in {"broadcast", "send"} /\ Where(g, t)' \in {"send", AfterSend(t)}
  /\ Stay(g, {t}) /\ SamePhase(g) /\ SameEntry(g) /\ SameUser(g) /\ SameConn(g)

LEMMA MailOnlyDoes ==
  ASSUME NEW g, NEW t, BroadcastDoes(g, t) \/ \E h \in Gens : SendDoes(g, t, h)
  PROVE  MailOnly(g, t)
<1>1. /\ Moves(g, t, IF todo'[g, t] = {} THEN AfterSend(t) ELSE "send")
      /\ Where(g, t) \in {"broadcast", "send"}
      /\ SamePhase(g) /\ SameEntry(g) /\ SameUser(g) /\ SameConn(g)
  BY Zenon DEF BroadcastDoes, SendDoes
<1>2. Where(g, t)' = (IF todo'[g, t] = {} THEN AfterSend(t) ELSE "send") /\ Stay(g, {t})
  BY <1>1, Zenon DEF Moves
<1> QED  BY <1>1, <1>2, Zenon DEF MailOnly

(* The same facts about the mail with Told and Todo for the fields.        *)

MailStays(g, T) ==
  \A t \in Threads \ T : (Told(g, t)' <=> Told(g, t)) /\ Todo(g, t)' = Todo(g, t)

LEMMA MailStaysIf == ASSUME NEW g, NEW T, SameMail(g, T) PROVE MailStays(g, T)
  BY Zenon DEF SameMail, MailStays, Told, Todo

CommitMail(g) == Told(g, "auth")' /\ Todo(g, "auth")' = Todo(g, "auth") /\ MailStays(g, {"auth"})
LEMMA CommitMailIf == ASSUME NEW g, CommitTells(g) PROVE CommitMail(g)
  BY MailStaysIf, Zenon DEF CommitTells, CommitMail, Told, Todo

CloseMail(g, t) ==
  /\ (Told(g, t)' <=> Bound(g) /\ FirstClose(g)) /\ Todo(g, t)' = Todo(g, t)
  /\ MailStays(g, {t})
LEMMA CloseMailIf == ASSUME NEW g, NEW t, CloseTells(g, t) PROVE CloseMail(g, t)
  BY MailStaysIf, Zenon DEF CloseTells, CloseMail, Told, Todo

HoldMail(g, t) ==
  /\ Told(g, t)' <=> FirstClose(g) /\ (t = "kick" => Live(g))
  /\ Todo(g, t)' = Todo(g, t) /\ MailStays(g, {t})
LEMMA HoldMailIf == ASSUME NEW g, NEW t, HoldTells(g, t) PROVE HoldMail(g, t)
  BY MailStaysIf, Zenon DEF HoldTells, HoldMail, Told, Todo

Sends(g, t) ==
  /\ Moves(g, t, IF Todo(g, t)' = {} THEN AfterSend(t) ELSE "send")
  /\ SamePhase(g) /\ SameEntry(g) /\ SameUser(g) /\ SameConn(g)

BroadcastMail(g, t) ==
  /\ Where(g, t) = "broadcast" /\ Sends(g, t)
  /\ Told(g, t) => Todo(g, t)' = Recipients(g)
  /\ ~Told(g, t) => Todo(g, t)' = {}
  /\ ~Told(g, t)' /\ MailStays(g, {t})
LEMMA BroadcastMailIf == ASSUME NEW g, NEW t, BroadcastDoes(g, t) PROVE BroadcastMail(g, t)
  BY MailStaysIf, Zenon DEF BroadcastDoes, BroadcastTells, BroadcastMail, Sends, Told, Todo

SendMail(g, t, h) ==
  /\ Where(g, t) = "send" /\ Sends(g, t)
  /\ h \in Todo(g, t) /\ Todo(g, t)' = Todo(g, t) \ {h}
  /\ (Told(g, t)' <=> Told(g, t)) /\ MailStays(g, {t})
LEMMA SendMailIf == ASSUME NEW g, NEW t, NEW h, SendDoes(g, t, h) PROVE SendMail(g, t, h)
  BY MailStaysIf, Zenon DEF SendDoes, SendTells, SendMail, Sends, Told, Todo

UnregisterMail(g, t) ==
  /\ (Told(g, t)' <=> t = "drop" /\ FirstClose(g)) /\ Todo(g, t)' = Todo(g, t)
  /\ MailStays(g, {t})
LEMMA UnregisterMailIf == ASSUME NEW g, NEW t, UnregisterTells(g, t) PROVE UnregisterMail(g, t)
  BY MailStaysIf, Zenon DEF UnregisterTells, UnregisterMail, Told, Todo

-----------------------------------------------------------------------------
(* The effects keep the facts about one session.                           *)

LEMMA MailStep ==
  ASSUME Shape, NEW g \in Gens, StepOf(g), BaseAt(g), LockAt(g), PhaseAt(g), MailAt(g)
  PROVE  MailAt(g)'
<1> USE MailStaysIf, SMTT(20) DEF SamePhase, SameEntry, SameUser, SameConn, Moves, Goes,
            SameThreads, Stay, Threads, MailAt, MailOf, ToTell, MailStays
<1>1. AddDoes(g) => MailAt(g)'
  BY DEF AddDoes
<1>2. BindDoes(g) => MailAt(g)'
  BY DEF BindDoes, BaseAt
<1>3. PhaseDoes(g) => MailAt(g)'
  BY DEF PhaseDoes
<1>4. BeginDoes(g) => MailAt(g)'
  BY DEF BeginDoes
<1>5. BeginRefusedDoes(g) => MailAt(g)'
  BY DEF BeginRefusedDoes
<1>6. RejectDoes(g) => MailAt(g)'
  BY DEF RejectDoes, Dropped, BaseAt
<1>7. AbortDoes(g) => MailAt(g)'
  BY DEF AbortDoes, LockAt
<1>8. RosterDoes(g) => MailAt(g)'
  BY DEF RosterDoes
<1>9. CommitDoes(g) => MailAt(g)'
  BY CommitMailIf DEF CommitDoes, MayInitial, CommitMail, LockAt
<1>10. AnnouncedDoes(g) => MailAt(g)'
  BY DEF AnnouncedDoes
<1>11. \A t \in Threads : StartDoes(g, t) => MailAt(g)'
  BY DEF StartDoes
<1>12. FailDoes(g) => MailAt(g)'
  BY DEF FailDoes, ConnClosed, Dropped, Deliverable
<1>13. LeaveDoes(g) => MailAt(g)'
  BY DEF LeaveDoes, Dropped, BaseAt
<1>14. \A t \in Threads : CloseDoes(g, t) => MailAt(g)'
  BY CloseMailIf DEF CloseDoes, CloseMail, FirstClose
<1>15. \A t \in Threads : HoldDoes(g, t) => MailAt(g)'
  BY HoldMailIf DEF HoldDoes, HoldMail, FirstClose
<1>16. \A t \in Threads : HoldStaleDoes(g, t) => MailAt(g)'
  BY DEF HoldStaleDoes
<1>17. \A t \in Threads : ReleaseDoes(g, t) => MailAt(g)'
  BY DEF ReleaseDoes
<1>18. \A t \in Threads : FinalDoes(g, t) => MailAt(g)'
  BY DEF FinalDoes, ConnClosed, ConnKept, Dropped, BaseAt
<1>19. \A t \in Threads : AbortSyncDoes(g, t) => MailAt(g)'
  BY DEF AbortSyncDoes, ConnClosed, ConnKept, Dropped, BaseAt
<1>20. \A t \in Threads : RemoveDoes(g, t) => MailAt(g)'
  BY DEF RemoveDoes, After
<1>21. \A t \in Threads : UnregisterDoes(g, t) => MailAt(g)'
  BY UnregisterMailIf DEF UnregisterDoes, After, UnregisterMail, FirstClose
<1>22. \A t \in Threads : UnregisterStaleDoes(g, t) => MailAt(g)'
  BY DEF UnregisterStaleDoes, After
<1>23. \A t \in Threads : BroadcastDoes(g, t) => MailAt(g)'
  BY BroadcastMailIf DEF BroadcastMail, Sends, AfterSend
<1>24. \A t \in Threads, h \in Gens : SendDoes(g, t, h) => MailAt(g)'
  BY SendMailIf DEF SendMail, Sends, AfterSend
<1> QED  BY <1>1, <1>2, <1>3, <1>4, <1>5, <1>6, <1>7, <1>8, <1>9, <1>10, <1>11, <1>12, <1>13,
            <1>14, <1>15, <1>16, <1>17, <1>18, <1>19, <1>20, <1>21, <1>22, <1>23, <1>24,
            Zenon DEF StepOf, AuthDoes, EndDoes, ThreadDoes

LEMMA CalmStep ==
  ASSUME Shape, NEW g \in Gens, StepOf(g), EndDoes(g) => StartDoes(g, "kick"),
         BaseAt(g), LockAt(g), OwnAt(g), PhaseAt(g), MailAt(g), CalmAt(g)
  PROVE  CalmAt(g)'
<1> USE MailStaysIf, SMTT(20) DEF SamePhase, SameEntry, SameUser, SameConn, Moves, Goes,
            SameThreads, Stay, Threads, ToTell, MailStays, CalmAt, Removals
<1>1. AddDoes(g) => CalmAt(g)'
  BY DEF AddDoes
<1>2. BindDoes(g) => CalmAt(g)'
  BY DEF BindDoes, BaseAt
<1>3. PhaseDoes(g) => CalmAt(g)'
  BY DEF PhaseDoes
<1>4. BeginDoes(g) => CalmAt(g)'
  BY DEF BeginDoes
<1>5. BeginRefusedDoes(g) => CalmAt(g)'
  BY DEF BeginRefusedDoes
<1>6. RejectDoes(g) => CalmAt(g)'
  BY DEF RejectDoes, Dropped, PhaseAt, Active, MailAt, MailOf
<1>7. AbortDoes(g) => CalmAt(g)'
  BY DEF AbortDoes
<1>8. RosterDoes(g) => CalmAt(g)'
  BY DEF RosterDoes
<1>9. CommitDoes(g) => CalmAt(g)'
  BY CommitMailIf DEF CommitDoes, MayInitial, CommitMail
<1>10. AnnouncedDoes(g) => CalmAt(g)'
  BY DEF AnnouncedDoes
<1>11. StartDoes(g, "kick") => CalmAt(g)'
  BY ZenonT(30) DEF StartDoes
<1>12. \A t \in Threads : CloseDoes(g, t) => CalmAt(g)'
  BY Zenon DEF CloseDoes
<1>13. \A t \in Threads : HoldDoes(g, t) => CalmAt(g)'
  BY HoldMailIf DEF HoldDoes, HoldMail, FirstClose, PhaseAt, Active
<1>14. \A t \in Threads : HoldStaleDoes(g, t) => CalmAt(g)'
  BY DEF HoldStaleDoes
<1>15. \A t \in Threads : ReleaseDoes(g, t) => CalmAt(g)'
  BY DEF ReleaseDoes
<1>16. \A t \in Threads : FinalDoes(g, t) => CalmAt(g)'
  BY DEF FinalDoes, ConnClosed, ConnKept, Dropped, OwnAt, Over, MailAt, MailOf
<1>17. \A t \in Threads : AbortSyncDoes(g, t) => CalmAt(g)'
  BY DEF AbortSyncDoes, ConnClosed, ConnKept, Dropped, PhaseAt, Active, MailAt, MailOf
<1>18. \A t \in Threads : RemoveDoes(g, t) => CalmAt(g)'
  BY DEF RemoveDoes, After, BaseAt, PhaseAt, Active, MailAt, MailOf
<1>19. \A t \in Threads : UnregisterDoes(g, t) => CalmAt(g)'
  BY UnregisterMailIf DEF UnregisterDoes, After, UnregisterMail, FirstClose, BaseAt, PhaseAt, Active
<1>20. \A t \in Threads : UnregisterStaleDoes(g, t) => CalmAt(g)'
  BY DEF UnregisterStaleDoes, After
<1>21. \A t \in Threads : BroadcastDoes(g, t) => CalmAt(g)'
  BY BroadcastMailIf DEF BroadcastMail, Sends, AfterSend
<1>22. \A t \in Threads, h \in Gens : SendDoes(g, t, h) => CalmAt(g)'
  BY SendMailIf DEF SendMail, Sends, AfterSend
<1> QED  BY <1>1, <1>2, <1>3, <1>4, <1>5, <1>6, <1>7, <1>8, <1>9, <1>10, <1>11, <1>12, <1>13,
            <1>14, <1>15, <1>16, <1>17, <1>18, <1>19, <1>20, <1>21, <1>22,
            Zenon DEF StepOf, AuthDoes, ThreadDoes

LEMMA OwnStep ==
  ASSUME Shape, NEW g \in Gens, StepOf(g), ~BannedEarly(g)', BaseAt(g), LockAt(g), OwnAt(g)
  PROVE  OwnAt(g)'
<1> USE SMTT(20) DEF SamePhase, SameEntry, SameUser, SameConn, Moves, Goes, SameThreads,
            Stay, Threads, OwnAt, Over, Deliverable
<1>1. AddDoes(g) => OwnAt(g)'
  BY Zenon DEF AddDoes
<1>2. BindDoes(g) => OwnAt(g)'
  BY Zenon DEF BindDoes, BaseAt
<1>3. PhaseDoes(g) => OwnAt(g)'
  BY Zenon DEF PhaseDoes
<1>4. BeginDoes(g) => OwnAt(g)'
  BY Zenon DEF BeginDoes
<1>5. BeginRefusedDoes(g) => OwnAt(g)'
  BY Zenon DEF BeginRefusedDoes
<1>6. RejectDoes(g) => OwnAt(g)'
  BY Zenon DEF RejectDoes, Dropped, BaseAt
<1>7. AbortDoes(g) => OwnAt(g)'
  BY Zenon DEF AbortDoes
<1>8. RosterDoes(g) => OwnAt(g)'
  BY Zenon DEF RosterDoes
<1>9. CommitDoes(g) => OwnAt(g)'
  BY DEF CommitDoes, MayInitial
<1>10. AnnouncedDoes(g) => OwnAt(g)'
  BY Zenon DEF AnnouncedDoes
<1>11. ASSUME NEW t \in {"kick", "ban"}, StartDoes(g, t), ends' = ends \cup {<<g, Reason(g, t)>>}
       PROVE  OwnAt(g)'
  <2>1. Reason(g, t) # "early"
    BY <1>11, Zenon DEF BannedEarly
  <2>2. t = "ban" => auth[g] # "bind"
    BY <2>1, Zenon DEF Reason
  <2>3. auth[g] # "none"
    BY <1>11, Zenon DEF StartDoes, Live, Shape, CreatedInv
  <2> QED  BY <1>11, <2>2, <2>3, ZenonT(30) DEF StartDoes
<1>12. FailDoes(g) => OwnAt(g)'
  BY Zenon DEF FailDoes, ConnClosed, Dropped, Deliverable, BaseAt
<1>13. LeaveDoes(g) => OwnAt(g)'
  BY Zenon DEF LeaveDoes, Dropped
<1>14. \A t \in Threads : CloseDoes(g, t) => OwnAt(g)'
  BY Zenon DEF CloseDoes, BaseAt
<1>15. \A t \in Threads : HoldDoes(g, t) => OwnAt(g)'
  BY Zenon DEF HoldDoes
<1>16. \A t \in Threads : HoldStaleDoes(g, t) => OwnAt(g)'
  BY ZenonT(30) DEF HoldStaleDoes
<1>17. \A t \in Threads : ReleaseDoes(g, t) => OwnAt(g)'
  BY ZenonT(30) DEF ReleaseDoes
<1>18. \A t \in Threads : MailOnly(g, t) => OwnAt(g)'
  BY ZenonT(30) DEF MailOnly, AfterSend
<1>19. \A t \in Threads : FinalDoes(g, t) => OwnAt(g)'
  BY Zenon DEF FinalDoes, ConnClosed, ConnKept, Dropped
<1>20. \A t \in Threads : AbortSyncDoes(g, t) => OwnAt(g)'
  BY DEF AbortSyncDoes, ConnClosed, ConnKept, Dropped
<1>21. \A t \in Threads : RemoveDoes(g, t) => OwnAt(g)'
  BY DEF RemoveDoes, After, BaseAt
<1>22. \A t \in Threads : UnregisterDoes(g, t) => OwnAt(g)'
  BY Zenon DEF UnregisterDoes, After
<1>23. \A t \in Threads : UnregisterStaleDoes(g, t) => OwnAt(g)'
  BY DEF UnregisterStaleDoes, After, BaseAt, LockAt
<1> QED  BY <1>1, <1>2, <1>3, <1>4, <1>5, <1>6, <1>7, <1>8, <1>9, <1>10, <1>11, <1>12, <1>13,
            <1>14, <1>15, <1>16, <1>17, <1>18, <1>19, <1>20, <1>21, <1>22, <1>23,
            MailOnlyDoes, Zenon DEF StepOf, AuthDoes, EndDoes, ThreadDoes

LEMMA LeftStep ==
  ASSUME Shape, NEW g \in Gens, StepOf(g), BaseAt(g), LockAt(g), RemovedAt(g), LeftAt(g)
  PROVE  LeftAt(g)'
<1> USE SMTT(20) DEF SamePhase, SameEntry, SameUser, SameConn, Moves, Goes, SameThreads,
            Stay, Threads, LeftAt, Ending, ToRemove, ToUnregister
<1>1. AddDoes(g) => LeftAt(g)'
  BY Zenon DEF AddDoes, BaseAt
<1>2. BindDoes(g) => LeftAt(g)'
  BY Zenon DEF BindDoes, BaseAt
<1>3. PhaseDoes(g) => LeftAt(g)'
  BY Zenon DEF PhaseDoes
<1>4. BeginDoes(g) => LeftAt(g)'
  BY Zenon DEF BeginDoes
<1>5. BeginRefusedDoes(g) => LeftAt(g)'
  BY Zenon DEF BeginRefusedDoes
<1>6. RejectDoes(g) => LeftAt(g)'
  BY Zenon DEF RejectDoes, Dropped
<1>7. AbortDoes(g) => LeftAt(g)'
  BY Zenon DEF AbortDoes
<1>8. RosterDoes(g) => LeftAt(g)'
  BY Zenon DEF RosterDoes
<1>9. CommitDoes(g) => LeftAt(g)'
  BY DEF CommitDoes, MayInitial, LockAt
<1>10. AnnouncedDoes(g) => LeftAt(g)'
  BY Zenon DEF AnnouncedDoes
<1>11. \A t \in Threads : StartDoes(g, t) => LeftAt(g)'
  BY DEF StartDoes
<1>12. FailDoes(g) => LeftAt(g)'
  BY Zenon DEF FailDoes, ConnClosed, Dropped, Deliverable
<1>13. LeaveDoes(g) => LeftAt(g)'
  BY Zenon DEF LeaveDoes, Dropped
<1>14. \A t \in Threads : CloseDoes(g, t) => LeftAt(g)'
  BY Zenon DEF CloseDoes
<1>15. \A t \in Threads : HoldDoes(g, t) => LeftAt(g)'
  BY Zenon DEF HoldDoes
<1>16. \A t \in Threads : HoldStaleDoes(g, t) => LeftAt(g)'
  BY Zenon DEF HoldStaleDoes
<1>17. \A t \in Threads : ReleaseDoes(g, t) => LeftAt(g)'
  BY DEF ReleaseDoes
<1>18. \A t \in Threads : MailOnly(g, t) => LeftAt(g)'
  BY DEF MailOnly, AfterSend
<1>19. \A t \in Threads : FinalDoes(g, t) => LeftAt(g)'
  BY Zenon DEF FinalDoes, ConnClosed, ConnKept, Dropped
<1>20. \A t \in Threads : AbortSyncDoes(g, t) => LeftAt(g)'
  BY Zenon DEF AbortSyncDoes, ConnClosed, ConnKept, Dropped
<1>21. \A t \in Threads : RemoveDoes(g, t) => LeftAt(g)'
  BY DEF RemoveDoes, After
<1>22. \A t \in Threads : UnregisterDoes(g, t) => LeftAt(g)'
  BY DEF UnregisterDoes, After, RemovedAt
<1>23. \A t \in Threads : UnregisterStaleDoes(g, t) => LeftAt(g)'
  BY DEF UnregisterStaleDoes, After
<1> QED  BY <1>1, <1>2, <1>3, <1>4, <1>5, <1>6, <1>7, <1>8, <1>9, <1>10, <1>11, <1>12, <1>13,
            <1>14, <1>15, <1>16, <1>17, <1>18, <1>19, <1>20, <1>21, <1>22, <1>23,
            MailOnlyDoes, Zenon DEF StepOf, AuthDoes, EndDoes, ThreadDoes

LEMMA PhaseStep ==
  ASSUME Shape, NEW g \in Gens, StepOf(g), BaseAt(g), LockAt(g), PhaseAt(g)
  PROVE  PhaseAt(g)'
<1> USE SMTT(20) DEF SamePhase, SameEntry, SameUser, SameConn, Moves, Goes, SameThreads,
            Stay, Threads, PhaseAt, Active
<1>1. AddDoes(g) => PhaseAt(g)'
  BY Zenon DEF AddDoes
<1>2. BindDoes(g) => PhaseAt(g)'
  BY Zenon DEF BindDoes
<1>3. PhaseDoes(g) => PhaseAt(g)'
  BY Zenon DEF PhaseDoes
<1>4. BeginDoes(g) => PhaseAt(g)'
  BY Zenon DEF BeginDoes
<1>5. BeginRefusedDoes(g) => PhaseAt(g)'
  BY Zenon DEF BeginRefusedDoes
<1>6. RejectDoes(g) => PhaseAt(g)'
  BY Zenon DEF RejectDoes, Dropped
<1>7. AbortDoes(g) => PhaseAt(g)'
  BY Zenon DEF AbortDoes
<1>8. RosterDoes(g) => PhaseAt(g)'
  BY Zenon DEF RosterDoes
<1>9. CommitDoes(g) => PhaseAt(g)'
  BY Zenon DEF CommitDoes, MayInitial
<1>10. AnnouncedDoes(g) => PhaseAt(g)'
  BY Zenon DEF AnnouncedDoes
<1>11. \A t \in Threads : StartDoes(g, t) => PhaseAt(g)'
  BY DEF StartDoes
<1>12. FailDoes(g) => PhaseAt(g)'
  BY Zenon DEF FailDoes, ConnClosed, Dropped, Deliverable
<1>13. LeaveDoes(g) => PhaseAt(g)'
  BY Zenon DEF LeaveDoes, Dropped
<1>14. \A t \in Threads : CloseDoes(g, t) => PhaseAt(g)'
  BY Zenon DEF CloseDoes, LockFree, Holding, LockAt
<1>15. \A t \in Threads : HoldDoes(g, t) => PhaseAt(g)'
  BY Zenon DEF HoldDoes, LockAt
<1>16. \A t \in Threads : HoldStaleDoes(g, t) => PhaseAt(g)'
  BY Zenon DEF HoldStaleDoes
<1>17. \A t \in Threads : ReleaseDoes(g, t) => PhaseAt(g)'
  BY DEF ReleaseDoes
<1>18. \A t \in Threads : MailOnly(g, t) => PhaseAt(g)'
  BY Zenon DEF MailOnly, AfterSend
<1>19. \A t \in Threads : FinalDoes(g, t) => PhaseAt(g)'
  BY Zenon DEF FinalDoes, ConnClosed, ConnKept, Dropped
<1>20. \A t \in Threads : AbortSyncDoes(g, t) => PhaseAt(g)'
  BY Zenon DEF AbortSyncDoes, ConnClosed, ConnKept, Dropped
<1>21. \A t \in Threads : RemoveDoes(g, t) => PhaseAt(g)'
  BY DEF RemoveDoes, After
<1>22. \A t \in Threads : UnregisterDoes(g, t) => PhaseAt(g)'
  BY DEF UnregisterDoes, After, LockAt
<1>23. \A t \in Threads : UnregisterStaleDoes(g, t) => PhaseAt(g)'
  BY DEF UnregisterStaleDoes, After
<1> QED  BY <1>1, <1>2, <1>3, <1>4, <1>5, <1>6, <1>7, <1>8, <1>9, <1>10, <1>11, <1>12, <1>13,
            <1>14, <1>15, <1>16, <1>17, <1>18, <1>19, <1>20, <1>21, <1>22, <1>23,
            MailOnlyDoes, Zenon DEF StepOf, AuthDoes, EndDoes, ThreadDoes

-----------------------------------------------------------------------------
(* What is left of a session that ends.                                    *)

LEMMA SessionKept ==
  ASSUME NEW g, SameSession(g)
  PROVE  /\ BaseAt(g)' <=> BaseAt(g)
         /\ LockAt(g)' <=> LockAt(g)
         /\ RemovedAt(g)' <=> RemovedAt(g)
         /\ LeftAt(g)' <=> LeftAt(g)
<1>1. /\ Stay(g, {}) /\ auth'[g] = auth[g] /\ state'[g] = state[g] /\ lock'[g] = lock[g]
      /\ mapped'[g] = mapped[g] /\ open'[g] = open[g]
      /\ (Bound(g)' <=> Bound(g)) /\ (Live(g)' <=> Live(g))
  BY Zenon DEF SameSession, SamePhase, SameEntry, SameUser, SameConn, SameThreads
<1>2. /\ Where(g, "auth")' = Where(g, "auth") /\ Where(g, "kick")' = Where(g, "kick")
      /\ Where(g, "ban")' = Where(g, "ban") /\ Where(g, "fail")' = Where(g, "fail")
      /\ Where(g, "drop")' = Where(g, "drop")
  BY <1>1, Zenon DEF Stay, Threads
<1>3. BaseAt(g)' <=> BaseAt(g)
  BY <1>1, <1>2, Zenon DEF BaseAt
<1>4. LockAt(g)' <=> LockAt(g)
  BY <1>1, <1>2, Zenon DEF LockAt
<1>5. RemovedAt(g)' <=> RemovedAt(g)
  BY <1>1, <1>2, Zenon DEF RemovedAt
<1>6. LeftAt(g)' <=> LeftAt(g)
  BY <1>1, <1>2, Zenon DEF LeftAt, Ending, ToRemove, ToUnregister
<1> QED  BY <1>3, <1>4, <1>5, <1>6, Zenon

EndingInv == \A g \in Gens : BaseAt(g) /\ LockAt(g) /\ RemovedAt(g) /\ LeftAt(g)

LEMMA EndingInit == Init => EndingInv
<1> SUFFICES ASSUME Init, NEW g \in Gens PROVE BaseAt(g) /\ LockAt(g) /\ RemovedAt(g) /\ LeftAt(g)
  BY Zenon DEF EndingInv
<1>1. \A t \in Threads : Where(g, t) = "end"
  BY Zenon DEF Init, Where, Pos
<1>2. /\ auth[g] = "none" /\ state[g] = "none" /\ open[g] /\ ~mapped[g] /\ lock[g] = "free"
      /\ ~Bound(g) /\ ~Live(g)
  BY Zenon DEF Init, Bound, Live
<1> QED  BY <1>1, <1>2, Zenon
         DEF BaseAt, LockAt, RemovedAt, LeftAt, Ending, Holding, Threads

-----------------------------------------------------------------------------
(* Who may remove a user.                                                  *)

OwnInv == \A g \in Gens : ~BannedEarly(g) => OwnAt(g)

LEMMA EndsGrow == ASSUME NEW g, StepOf(g) PROVE ends \subseteq ends'
  BY Zenon DEF StepOf, EndDoes

LEMMA EarlyBanStays == ASSUME NEW k, StepOf(k), NEW g, ~BannedEarly(g)' PROVE ~BannedEarly(g)
  BY EndsGrow, Zenon DEF BannedEarly

LEMMA OwnKept == ASSUME NEW g, SameSession(g) PROVE OwnAt(g)' <=> OwnAt(g)
<1>1. /\ Stay(g, {}) /\ auth'[g] = auth[g] /\ state'[g] = state[g]
      /\ (Bound(g)' <=> Bound(g)) /\ (Live(g)' <=> Live(g))
  BY Zenon DEF SameSession, SamePhase, SameEntry, SameUser, SameThreads
<1>2. /\ Where(g, "auth")' = Where(g, "auth") /\ Where(g, "kick")' = Where(g, "kick")
      /\ Where(g, "ban")' = Where(g, "ban") /\ Where(g, "fail")' = Where(g, "fail")
      /\ Where(g, "drop")' = Where(g, "drop")
  BY <1>1, Zenon DEF Stay, Threads
<1>3. (Over(g)' <=> Over(g)) /\ (Deliverable(g)' <=> Deliverable(g))
  BY <1>1, Zenon DEF Over, Deliverable
<1> QED  BY <1>1, <1>2, <1>3, Zenon DEF OwnAt

LEMMA OwnInit == Init => OwnInv
<1> SUFFICES ASSUME Init, NEW g \in Gens PROVE OwnAt(g)
  BY Zenon DEF OwnInv
<1>1. \A t \in Threads : Where(g, t) = "end"
  BY Zenon DEF Init, Where, Pos
<1>2. auth[g] = "none" /\ ~Bound(g)
  BY Zenon DEF Init, Bound
<1> QED  BY <1>1, <1>2, Zenon DEF OwnAt, Deliverable, Threads

-----------------------------------------------------------------------------
(* A session whose fields stay keeps these facts.                          *)
LEMMA SessionStays ==
  ASSUME NEW g, SameSession(g)
  PROVE  /\ \A t \in Threads : Where(g, t)' = Where(g, t)
         /\ auth'[g] = auth[g] /\ roster'[g] = roster[g] /\ state'[g] = state[g]
         /\ announced'[g] = announced[g] /\ lock'[g] = lock[g] /\ sid'[g] = sid[g]
         /\ mapped'[g] = mapped[g] /\ open'[g] = open[g]
         /\ (Bound(g)' <=> Bound(g)) /\ (Live(g)' <=> Live(g))
         /\ (Active(g)' <=> Active(g)) /\ (Deliverable(g)' <=> Deliverable(g))
         /\ MailStays(g, {})
<1>1. SamePhase(g) /\ SameEntry(g) /\ SameUser(g) /\ SameConn(g) /\ Stay(g, {}) /\ SameMail(g, {})
  BY Zenon DEF SameSession, SameThreads
<1>2. (Active(g)' <=> Active(g)) /\ (Deliverable(g)' <=> Deliverable(g))
  BY <1>1, Zenon DEF SameEntry, Active, Deliverable
<1> QED  BY <1>1, <1>2, MailStaysIf, Zenon DEF SamePhase, SameEntry, SameUser, SameConn, Stay

TellAt(g) == PhaseAt(g) /\ MailAt(g)
TellInv == \A g \in Gens : TellAt(g)

LEMMA TellKept == ASSUME NEW g, SameSession(g), TellAt(g) PROVE TellAt(g)'
<1>1. PhaseAt(g)'
  <2>1. "auth" \in Threads
    BY Zenon DEF Threads
  <2>2. /\ Where(g, "auth")' = Where(g, "auth") /\ auth'[g] = auth[g] /\ state'[g] = state[g]
        /\ announced'[g] = announced[g] /\ (Active(g)' <=> Active(g))
    BY <2>1, SessionStays, Zenon
  <2> QED  BY <2>2, Zenon DEF TellAt, PhaseAt
<1>2. MailAt(g)'
  <2>1. "auth" \in Threads
    BY Zenon DEF Threads
  <2>2. state'[g] = state[g] /\ announced'[g] = announced[g]
    BY SessionStays, Zenon
  <2>3. \A t \in Threads : /\ Where(g, t)' = Where(g, t) /\ (Told(g, t)' <=> Told(g, t))
                           /\ Todo(g, t)' = Todo(g, t)
    BY SessionStays, Zenon DEF MailStays
  <2>4. Where(g, "auth")' = "broadcast" => Told(g, "auth")'
    BY <2>1, <2>3, Zenon DEF TellAt, MailAt
  <2>5. ASSUME NEW t \in Threads PROVE MailOf(g, t)'
    <3>1. /\ MailOf(g, t) /\ Where(g, t)' = Where(g, t) /\ (Told(g, t)' <=> Told(g, t))
          /\ Todo(g, t)' = Todo(g, t)
      BY <2>3, Zenon DEF TellAt, MailAt
    <3>2. ToTell(g, t)' <=> ToTell(g, t)
      BY <3>1, Zenon DEF ToTell
    <3> QED  BY <2>2, <3>1, <3>2, Zenon DEF MailOf
  <2> QED  BY <2>4, <2>5, Zenon DEF MailAt
<1> QED  BY <1>1, <1>2, Zenon DEF TellAt

LEMMA TellInit == Init => TellInv
<1> SUFFICES ASSUME Init, NEW g \in Gens PROVE TellAt(g)
  BY Zenon DEF TellInv
<1>1. ASSUME NEW t \in Threads PROVE Where(g, t) = "end" /\ ~Told(g, t) /\ Todo(g, t) = {}
  BY Zenon DEF Init, Where, Pos, Told, Todo
<1>2. auth[g] = "none" /\ state[g] = "none" /\ ~announced[g]
  BY Zenon DEF Init
<1>3. "auth" \in Threads
  BY Zenon DEF Threads
<1> QED  BY <1>1, <1>2, <1>3, Zenon DEF TellAt, PhaseAt, MailAt, MailOf, ToTell

-----------------------------------------------------------------------------
(* A session that nothing but kicks has made to end.                       *)

Quiet(g) == \A c \in {"ban", "early", "fail", "leave"} : <<g, c>> \notin ends
QuietInv == \A g \in Gens : Quiet(g) => CalmAt(g)

LEMMA QuietBack ==
  ASSUME NEW g \in Gens, StepOf(g), Quiet(g)'
  PROVE  Quiet(g) /\ (EndDoes(g) => StartDoes(g, "kick"))
<1>1. ends \subseteq ends'
  BY EndsGrow, Zenon
<1>2. Quiet(g)
  BY <1>1, Zenon DEF Quiet
<1>3. ASSUME NEW t \in {"kick", "ban"}, ends' = ends \cup {<<g, Reason(g, t)>>} PROVE t = "kick"
  BY <1>3, Zenon DEF Quiet, Reason
<1>4. ends' # ends \cup {<<g, "fail">>} /\ ends' # ends \cup {<<g, "leave">>}
  BY Zenon DEF Quiet
<1> QED  BY <1>2, <1>3, <1>4, Zenon DEF EndDoes

LEMMA CalmKept == ASSUME NEW g, SameSession(g), CalmAt(g) PROVE CalmAt(g)'
<1>1. "ban" \in Threads /\ "fail" \in Threads /\ Removals \subseteq Threads
  BY Zenon DEF Threads, Removals
<1>2. /\ Where(g, "ban")' = Where(g, "ban") /\ Where(g, "fail")' = Where(g, "fail")
      /\ auth'[g] = auth[g] /\ state'[g] = state[g] /\ open'[g] = open[g] /\ (Live(g)' <=> Live(g))
  BY <1>1, SessionStays, Zenon
<1>3. \A t \in Removals : ToTell(g, t)' <=> ToTell(g, t)
  BY <1>1, SessionStays, Zenon DEF MailStays, ToTell
<1> QED  BY <1>2, <1>3, Zenon DEF CalmAt

LEMMA QuietStep ==
  ASSUME Shape, EndingInv, OwnInv, TellInv, QuietInv, NEW k \in Gens, Others(k), StepOf(k)
  PROVE  QuietInv'
<1> SUFFICES ASSUME NEW g \in Gens, Quiet(g)' PROVE CalmAt(g)'
  BY Zenon DEF QuietInv
<1>1. CASE g = k
  <2>1. CalmAt(k) /\ (EndDoes(k) => StartDoes(k, "kick"))
    BY <1>1, QuietBack, Zenon DEF QuietInv
  <2>2. ~BannedEarly(k)
    BY <1>1, QuietBack, Zenon DEF Quiet, BannedEarly
  <2>3. BaseAt(k) /\ LockAt(k) /\ OwnAt(k) /\ PhaseAt(k) /\ MailAt(k)
    BY <2>2, Zenon DEF EndingInv, OwnInv, TellInv, TellAt
  <2> QED  BY <1>1, <2>1, <2>3, CalmStep, Zenon
<1>2. CASE g # k
  <2>1. ends \subseteq ends'
    BY EndsGrow, Zenon
  <2>2. CalmAt(g)
    BY <2>1, Zenon DEF QuietInv, Quiet
  <2> QED  BY <1>2, <2>2, CalmKept, Zenon DEF Others
<1> QED  BY <1>1, <1>2, Zenon

LEMMA QuietInit == Init => QuietInv
<1> SUFFICES ASSUME Init, NEW g \in Gens PROVE CalmAt(g)
  BY Zenon DEF QuietInv
<1>1. ASSUME NEW t \in Threads PROVE Where(g, t) = "end" /\ ~Told(g, t) /\ Todo(g, t) = {}
  BY Zenon DEF Init, Where, Pos, Told, Todo
<1>2. open[g] /\ "ban" \in Threads /\ "fail" \in Threads
  BY Zenon DEF Init, Threads
<1> QED  BY <1>1, <1>2, Zenon DEF CalmAt, ToTell, Removals

(* What made a session end is one of the causes.                           *)
CauseInv == \A g, c : <<g, c>> \in ends => c \in Causes

LEMMA CauseStep == ASSUME CauseInv, [Next]_vars PROVE CauseInv'
<1>1. ASSUME NEW g, NEW c, End(g, c) PROVE CauseInv'
  BY <1>1, Zenon DEF End, CauseInv
<1>2. UNCHANGED ends => CauseInv'
  BY Zenon DEF CauseInv
<1>3. ASSUME NEW g, Authenticate(g) PROVE UNCHANGED ends
  BY <1>3, Zenon DEF Authenticate, Bind, BindRefused, BeginSync, BeginSyncRefused, Reject,
     CryptSetup, RegisterConnOnly, SnapshotAll, SendRoster, Commit, CommitFails, Announced
<1>4. ASSUME NEW g, NEW t, Thread(g, t) PROVE UNCHANGED ends
  BY <1>4, Zenon DEF Thread, Close, Hold, HoldStale, Release, Broadcast, Send, SendThenClose,
     AbortSync, RemoveIfGeneration, Unregister, UnregisterStale
<1>5. ASSUME NEW s, Add(s) PROVE UNCHANGED ends
  BY <1>5, Zenon DEF Add
<1>6. ASSUME NEW g, Kick(g) \/ Ban(g) \/ QueueFails(g) \/ Leave(g) PROVE CauseInv'
  BY <1>1, <1>6, Zenon DEF Kick, Ban, StartPath, QueueFails, Leave
<1>7. UNCHANGED vars => UNCHANGED ends
  BY Zenon DEF vars
<1> QED  BY <1>2, <1>3, <1>4, <1>5, <1>6, <1>7, Zenon DEF Next
-----------------------------------------------------------------------------
(* What a step does to the views.                                          *)

(* The snapshot of session k shows x.                                      *)
Shows(k, x) ==
  /\ auth[k] = "roster" /\ Active(x) /\ x \in roster[k]
  /\ news' = news
  /\ \A h \in Gens, s \in SIDs :
       base'[h][s] = IF h = k /\ s = sid[x] THEN x ELSE base[h][s]

(* Client h hears what thread t of session k has to say.                   *)
Hears(h) == Deliverable(h) /\ mapped[h]
Heard(k, t, h) ==
  /\ Hears(h) /\ base' = base
  /\ \A i \in Gens, s \in SIDs :
       news'[i][s] = IF i = h /\ s = sid[k] THEN Message(k, t) ELSE news[i][s]

BaseTakes(k, x) ==
  /\ base'[k][sid[x]] = x
  /\ \A h \in Gens, s \in SIDs :
       base'[h][s] = IF h = k /\ s = sid[x] THEN x ELSE base[h][s]

LEMMA Taking ==
  ASSUME Shape, NEW k \in Gens, NEW x \in Gens, Active(x),
         base' = [base EXCEPT ![k][sid[x]] = x]
  PROVE  BaseTakes(k, x)
<1>1. base \in [Gens -> [SIDs -> 0 .. MaxGen]] /\ sid[x] \in SIDs
  <2>1. sid[x] \in SIDs \cup {NoSID} /\ sid[x] # NoSID
    BY Zenon DEF Shape, TypeOK, SessionType, Active, Bound
  <2> QED  BY <2>1, Zenon DEF Shape, TypeOK, ViewType
<1> QED  BY <1>1, Zenon DEF BaseTakes

LEMMA Showing ==
  ASSUME Shape, NEW k \in Gens, NEW x \in Gens, auth[k] = "roster", Active(x), x \in roster[k],
         base' = [base EXCEPT ![k][sid[x]] = x], UNCHANGED news
  PROVE  Shows(k, x)
<1>1. BaseTakes(k, x)
  BY Taking, Zenon
<1> QED  BY <1>1, Zenon DEF BaseTakes, Shows

LEMMA Hearing ==
  ASSUME Shape, NEW k \in Gens, NEW t, NEW h \in Gens, Hears(h), sid[k] \in SIDs,
         news' = [news EXCEPT ![h][sid[k]] = Message(k, t)], UNCHANGED base
  PROVE  Heard(k, t, h)
<1>1. news \in [Gens -> [SIDs -> 0 .. NoNews]]
  BY Zenon DEF Shape, TypeOK, ViewType
<1>2. \A i \in Gens, s \in SIDs :
        news'[i][s] = IF i = h /\ s = sid[k] THEN Message(k, t) ELSE news[i][s]
  BY <1>1, Zenon
<1> QED  BY <1>2, Zenon DEF Heard

ViewsMove(k) ==
  \/ UNCHANGED views
  \/ \E x \in Gens : Shows(k, x)
  \/ \E t \in Threads, h \in Gens : SendDoes(k, t, h) /\ Heard(k, t, h)

(* A session with a thread at work has an ID.                              *)
LEMMA BusyHasID ==
  ASSUME Shape, NEW g \in Gens, NEW t \in Threads, Where(g, t) # "end" PROVE sid[g] \in SIDs
<1>1. sid[g] \in SIDs \cup {NoSID} /\ generation \in Nat
  BY DEF Shape, TypeOK, SessionType
<1> QED  BY <1>1, Zenon DEF Shape, CreatedInv

LEMMA ViewsDo ==
  ASSUME Shape, NEW k \in Gens, StepOf(k) PROVE ViewsMove(k)
<1>1. CASE RosterDoes(k) /\ UNCHANGED news
  <2>1. auth[k] = "roster" /\ roster[k] \in SUBSET Gens
    BY <1>1, Zenon DEF RosterDoes, Shape, TypeOK, SessionType
  <2>2. PICK x \in roster[k] :
          IF Active(x) THEN MayInitial(k) /\ base' = [base EXCEPT ![k][sid[x]] = x]
                       ELSE UNCHANGED base
    BY <1>1, Zenon DEF RosterDoes
  <2>3. x \in Gens
    BY <2>1, Zenon
  <2>4. CASE Active(x)
    BY <1>1, <2>1, <2>2, <2>3, <2>4, Showing, Zenon DEF ViewsMove
  <2>5. CASE ~Active(x)
    BY <1>1, <2>2, <2>5, Zenon DEF ViewsMove
  <2> QED  BY <2>4, <2>5, Zenon
<1>2. ASSUME NEW t \in Threads, NEW h \in Gens, SendDoes(k, t, h), UNCHANGED base
      PROVE  ViewsMove(k)
  <2>1. sid[k] \in SIDs
    <3>1. Where(k, t) # "end"
      BY <1>2, Zenon DEF SendDoes
    <3> QED  BY <3>1, BusyHasID, Zenon
  <2>2. CASE Hears(h)
    BY <1>2, <2>1, <2>2, Hearing, Zenon DEF SendDoes, SendTells, Hears, ViewsMove
  <2>3. CASE ~Hears(h)
    BY <1>2, <2>3, Zenon DEF SendDoes, SendTells, Hears, ViewsMove
  <2> QED  BY <2>2, <2>3, Zenon
<1>3. CASE UNCHANGED views
  BY <1>3, Zenon DEF ViewsMove
<1> QED  BY <1>1, <1>2, <1>3, Zenon DEF StepOf, AuthDoes, EndDoes, ThreadDoes

(* What client h shows at s stays, or is what it has just been sent.       *)
ShownNow(h, s, x) ==
  /\ auth[h] = "roster" /\ news[h][s] = NoNews /\ Active(x) /\ x \in roster[h]
  /\ s = sid[x] /\ View(h, s)' = x
ToldNow(k, t, h, s) ==
  SendDoes(k, t, h) /\ Hears(h) /\ s = sid[k] /\ View(h, s)' = Message(k, t)

LEMMA ViewSteps ==
  ASSUME Shape, NEW k \in Gens, StepOf(k), NEW h \in Gens, NEW s \in SIDs
  PROVE  \/ View(h, s)' = View(h, s)
         \/ k = h /\ \E x \in Gens : ShownNow(h, s, x)
         \/ \E t \in Threads : ToldNow(k, t, h, s)
<1>1. ASSUME NEW x \in Gens, Shows(k, x), View(h, s)' # View(h, s)
      PROVE  k = h /\ ShownNow(h, s, x)
  <2>1. news'[h][s] = news[h][s] /\ base'[h][s] = IF h = k /\ s = sid[x] THEN x ELSE base[h][s]
    BY <1>1, Zenon DEF Shows
  <2> QED  BY <1>1, <2>1, Zenon DEF Shows, View, ShownNow
<1>2. ASSUME NEW t \in Threads, NEW i \in Gens, SendDoes(k, t, i), Heard(k, t, i),
             View(h, s)' # View(h, s)
      PROVE  ToldNow(k, t, h, s)
  <2>1. /\ news'[h][s] = IF h = i /\ s = sid[k] THEN Message(k, t) ELSE news[h][s]
        /\ base' = base
    BY <1>2, Zenon DEF Heard
  <2>2. h = i /\ s = sid[k] /\ news'[h][s] = Message(k, t)
    BY <1>2, <2>1, Zenon DEF View
  <2>3. Message(k, t) # NoNews
    BY MaxGenAssumption DEF Message, Gens, NoGen, NoNews
  <2> QED  BY <1>2, <2>2, <2>3, Zenon DEF Heard, View, ToldNow
<1>3. UNCHANGED views => View(h, s)' = View(h, s)
  BY Zenon DEF View
<1> QED  BY <1>1, <1>2, <1>3, ViewsDo, Zenon DEF ViewsMove

-----------------------------------------------------------------------------
(* What is due to client h from session g.                                 *)

(* The mail of a session changes in three ways.                            *)
Notes(g, t) == ~Told(g, t) /\ Todo(g, t)' = Todo(g, t) /\ MailStays(g, {t})

LEMMA MailMoves ==
  ASSUME NEW g, StepOf(g), LockAt(g), MailAt(g)
  PROVE  \/ MailStays(g, {})
         \/ \E t \in Threads : Notes(g, t) \/ BroadcastMail(g, t)
         \/ \E t \in Threads, h \in Gens : SendDoes(g, t, h) /\ SendMail(g, t, h)
<1> DEFINE Goal == \/ MailStays(g, {})
                   \/ \E t \in Threads : Notes(g, t) \/ BroadcastMail(g, t)
                   \/ \E t \in Threads, h \in Gens : SendDoes(g, t, h) /\ SendMail(g, t, h)
<1>1. ASSUME SameMail(g, {}) PROVE Goal
  BY <1>1, MailStaysIf, Zenon
<1>2. CASE AddDoes(g) \/ BindDoes(g) \/ PhaseDoes(g) \/ BeginDoes(g) \/ BeginRefusedDoes(g)
  BY <1>1, <1>2, Zenon DEF AddDoes, BindDoes, PhaseDoes, BeginDoes, BeginRefusedDoes, SameThreads
<1>3. CASE RejectDoes(g) \/ AbortDoes(g) \/ AnnouncedDoes(g) \/ RosterDoes(g)
  BY <1>1, <1>3, Zenon DEF RejectDoes, AbortDoes, AnnouncedDoes, RosterDoes, SameThreads
<1>4. CASE CommitDoes(g)
  <2>1. "auth" \in Threads /\ Where(g, "auth") = "end"
    BY <1>4, Zenon DEF CommitDoes, LockAt, Threads
  <2>2. ~Told(g, "auth")
    <3>1. Where(g, "auth") # "broadcast" /\ Where(g, "auth") # "remove"
      BY <2>1, Zenon
    <3> QED  BY <2>1, <3>1, Zenon DEF MailAt, MailOf
  <2> QED  BY <1>4, <2>1, <2>2, CommitMailIf, Zenon DEF CommitDoes, CommitMail, Notes
<1>5. CASE EndDoes(g)
  BY <1>1, <1>5, Zenon DEF EndDoes, StartDoes, FailDoes, LeaveDoes, SameThreads
<1>6. ASSUME NEW t \in Threads, CloseDoes(g, t) \/ HoldDoes(g, t) \/ UnregisterDoes(g, t)
      PROVE  Goal
  <2>1. /\ CloseTells(g, t) \/ HoldTells(g, t) \/ UnregisterTells(g, t)
        /\ Where(g, t) = "close" \/ Where(g, t) = "hold" \/ Where(g, t) = "unregister"
    BY <1>6, Zenon DEF CloseDoes, HoldDoes, UnregisterDoes
  <2>2. Todo(g, t)' = Todo(g, t) /\ MailStays(g, {t})
    BY <2>1, CloseMailIf, HoldMailIf, UnregisterMailIf, Zenon DEF CloseMail, HoldMail, UnregisterMail
  <2>3. ~Told(g, t)
    <3>1. Where(g, t) # "broadcast" /\ Where(g, t) # "remove"
      BY <2>1, Zenon
    <3> QED  BY <3>1, Zenon DEF MailAt, MailOf
  <2> QED  BY <2>2, <2>3, Zenon DEF Notes
<1>7. ASSUME NEW t \in Threads, HoldStaleDoes(g, t) \/ ReleaseDoes(g, t) \/ FinalDoes(g, t)
             \/ AbortSyncDoes(g, t) \/ RemoveDoes(g, t) \/ UnregisterStaleDoes(g, t)
      PROVE  Goal
  BY <1>1, <1>7, Zenon DEF HoldStaleDoes, ReleaseDoes, FinalDoes, AbortSyncDoes, RemoveDoes,
     UnregisterStaleDoes
<1>8. ASSUME NEW t \in Threads, BroadcastDoes(g, t) PROVE Goal
  BY <1>8, BroadcastMailIf, Zenon
<1>9. ASSUME NEW t \in Threads, NEW h \in Gens, SendDoes(g, t, h) PROVE Goal
  BY <1>9, SendMailIf, Zenon
<1> QED  BY <1>2, <1>3, <1>4, <1>5, <1>6, <1>7, <1>8, <1>9, Zenon DEF StepOf, AuthDoes, ThreadDoes

(* A message that is due stays due until it is sent.                       *)
Due(h, g, t) == Told(g, t) \/ h \in Todo(g, t)

LEMMA DueStays ==
  ASSUME NEW g, StepOf(g), LockAt(g), MailAt(g), NEW u \in Threads, NEW h \in Gens,
         Due(h, g, u), Deliverable(h), sid[h] # sid[g]
  PROVE  Due(h, g, u)' \/ SendDoes(g, u, h)
<1>1. CASE MailStays(g, {})
  BY <1>1, Zenon DEF MailStays, Due
<1>2. ASSUME NEW t \in Threads, Notes(g, t) PROVE Due(h, g, u)'
  <2>1. CASE u = t
    BY <1>2, <2>1, Zenon DEF Notes, Due
  <2>2. CASE u # t
    BY <1>2, <2>2, Zenon DEF Notes, MailStays, Due
  <2> QED  BY <2>1, <2>2, Zenon
<1>3. ASSUME NEW t \in Threads, BroadcastMail(g, t) PROVE Due(h, g, u)'
  <2>1. CASE u = t
    <3>1. Told(g, t)
      <4>1. Todo(g, t) = {}
        <5>1. Where(g, t) # "send"
          BY <1>3, Zenon DEF BroadcastMail
        <5> QED  BY <5>1, Zenon DEF MailAt, MailOf
      <4> QED  BY <2>1, <4>1, Zenon DEF Due
    <3>2. h \in Recipients(g)
      BY Zenon DEF Recipients
    <3> QED  BY <1>3, <2>1, <3>1, <3>2, Zenon DEF BroadcastMail, Due
  <2>2. CASE u # t
    BY <1>3, <2>2, Zenon DEF BroadcastMail, MailStays, Due
  <2> QED  BY <2>1, <2>2, Zenon
<1>4. ASSUME NEW t \in Threads, NEW i \in Gens, SendDoes(g, t, i), SendMail(g, t, i)
      PROVE  Due(h, g, u)' \/ SendDoes(g, u, h)
  <2>1. CASE u = t /\ i # h
    BY <1>4, <2>1, Zenon DEF SendMail, Due
  <2>2. CASE u # t
    BY <1>4, <2>2, Zenon DEF SendMail, MailStays, Due
  <2> QED  BY <1>4, <2>1, <2>2, Zenon
<1> QED  BY <1>1, <1>2, <1>3, <1>4, MailMoves, Zenon

(* An announced session that stops being Active leaves a thread with its   *)
(* removal to tell.                                                        *)
LEMMA StopsActive ==
  ASSUME NEW g, StepOf(g), PhaseAt(g), Active(g), ~Active(g)'
  PROVE  \E t \in Threads : CloseDoes(g, t) \/ HoldDoes(g, t) \/ UnregisterDoes(g, t)
<1>1. auth[g] = "announce" \/ auth[g] = "done"
  BY Zenon DEF PhaseAt, Active
<1>2. ~AddDoes(g) /\ ~BindDoes(g) /\ ~BeginRefusedDoes(g) /\ ~CommitDoes(g)
  BY <1>1, Zenon DEF AddDoes, BindDoes, BeginRefusedDoes, CommitDoes
<1>3. ~(state'[g] = state[g] /\ (Bound(g)' <=> Bound(g)))
  BY Zenon DEF Active
<1>4. ~SameEntry(g)
  BY <1>3, Zenon DEF SameEntry
<1>5. ~PhaseDoes(g) /\ ~BeginDoes(g) /\ ~RejectDoes(g) /\ ~AbortDoes(g) /\ ~AnnouncedDoes(g)
      /\ ~RosterDoes(g)
  BY <1>3, <1>4, Zenon DEF PhaseDoes, BeginDoes, RejectDoes, AbortDoes, AnnouncedDoes, RosterDoes
<1>6. ~EndDoes(g)
  BY <1>4, Zenon DEF EndDoes, StartDoes, FailDoes, LeaveDoes
<1>7. ASSUME NEW t, ThreadDoes(g, t) PROVE CloseDoes(g, t) \/ HoldDoes(g, t) \/ UnregisterDoes(g, t)
  BY <1>3, <1>4, <1>7, Zenon DEF ThreadDoes, HoldStaleDoes, ReleaseDoes, BroadcastDoes, SendDoes,
     FinalDoes, AbortSyncDoes, RemoveDoes, UnregisterStaleDoes
<1> QED  BY <1>2, <1>5, <1>6, <1>7, Zenon DEF StepOf, AuthDoes

LEMMA StopIsTold ==
  ASSUME Shape, NEW g \in Gens, StepOf(g), BaseAt(g), LockAt(g), OwnAt(g), PhaseAt(g),
         Active(g), ~Active(g)'
  PROVE  \E t \in Removals : Told(g, t)'
<1>1. PICK t \in Threads : CloseDoes(g, t) \/ HoldDoes(g, t) \/ UnregisterDoes(g, t)
  BY StopsActive, Zenon
<1>2. /\ Bound(g) /\ state[g] = "Active" /\ Deliverable(g) /\ Live(g)
      /\ auth[g] = "announce" \/ auth[g] = "done"
  BY Zenon DEF Active, PhaseAt, OwnAt, Deliverable
<1>3. lock[g] = "free"
  BY <1>1, <1>2, Zenon DEF CloseDoes, HoldDoes, UnregisterDoes, LockFree
<1>4. auth[g] = "done"
  BY <1>2, <1>3, Zenon DEF LockAt
<1>5. FirstClose(g)
  BY <1>2, <1>4, Zenon DEF PhaseAt, FirstClose
<1>6. CASE CloseDoes(g, t)
  <2>1. t \in Removals
    BY <1>6, Zenon DEF CloseDoes, Removals, Threads
  <2> QED  BY <1>2, <1>5, <1>6, <2>1, CloseMailIf, Zenon DEF CloseDoes, CloseMail
<1>7. CASE HoldDoes(g, t)
  <2>1. t \in Removals
    BY <1>7, Zenon DEF HoldDoes, Removals, Threads
  <2> QED  BY <1>2, <1>5, <1>7, <2>1, HoldMailIf, Zenon DEF HoldDoes, HoldMail
<1>8. CASE UnregisterDoes(g, t)
  <2>1. ~Over(g) /\ Where(g, "auth") = "end"
    BY <1>2, <1>4, Zenon DEF Over, LockAt
  <2>2. t = "drop"
    BY <1>8, <2>1, Zenon DEF UnregisterDoes, OwnAt, Threads
  <2>3. t \in Removals
    BY <2>2, Zenon DEF Removals, Threads
  <2> QED  BY <1>5, <1>8, <2>2, <2>3, UnregisterMailIf, Zenon DEF UnregisterDoes, UnregisterMail
<1> QED  BY <1>1, <1>6, <1>7, <1>8, Zenon

-----------------------------------------------------------------------------
(* What a step of one session leaves of another's identity.                *)

(* Only Add gives a session its ID and its user.                           *)
LEMMA UserBack ==
  ASSUME NEW k, StepOf(k) PROVE AddDoes(k) \/ (sid'[k] = sid[k] /\ (Live(k)' => Live(k)))
<1>1. SameUser(k) => sid'[k] = sid[k] /\ (Live(k)' => Live(k))
  BY Zenon DEF SameUser
<1>2. AuthDoes(k) => sid'[k] = sid[k] /\ (Live(k)' => Live(k))
  BY <1>1, Zenon DEF AuthDoes, BindDoes, PhaseDoes, BeginDoes, BeginRefusedDoes, RejectDoes,
     AbortDoes, CommitDoes, AnnouncedDoes, RosterDoes
<1>3. EndDoes(k) => sid'[k] = sid[k] /\ (Live(k)' => Live(k))
  BY <1>1, Zenon DEF EndDoes, StartDoes, FailDoes, LeaveDoes
<1>4. ASSUME NEW t, ThreadDoes(k, t) PROVE sid'[k] = sid[k] /\ (Live(k)' => Live(k))
  BY <1>1, <1>4, Zenon DEF ThreadDoes, CloseDoes, HoldDoes, HoldStaleDoes, ReleaseDoes,
     BroadcastDoes, SendDoes, FinalDoes, AbortSyncDoes, RemoveDoes, UnregisterDoes,
     UnregisterStaleDoes
<1> QED  BY <1>2, <1>3, <1>4, Zenon DEF StepOf

LEMMA SidStays ==
  ASSUME Shape, NEW k \in Gens, Others(k), StepOf(k), NEW x \in Gens, sid[x] # NoSID
  PROVE  sid'[x] = sid[x] /\ ~AddDoes(x)
<1>1. ~AddDoes(x)
  BY Zenon DEF AddDoes, Shape, CreatedInv
<1>2. CASE x = k
  BY <1>1, <1>2, UserBack, Zenon
<1>3. CASE x # k
  BY <1>1, <1>3, Zenon DEF Others, SameSession, SameUser
<1> QED  BY <1>2, <1>3, Zenon

(* Only the handler moves a session from phase to phase.                   *)
LEMMA PhaseMoves ==
  ASSUME NEW k, StepOf(k) PROVE SamePhase(k) \/ AddDoes(k) \/ AuthDoes(k)
<1>1. EndDoes(k) => SamePhase(k)
  BY Zenon DEF EndDoes, StartDoes, FailDoes, LeaveDoes
<1>2. ASSUME NEW t, ThreadDoes(k, t) PROVE SamePhase(k)
  BY <1>2, Zenon DEF ThreadDoes, CloseDoes, HoldDoes, HoldStaleDoes, ReleaseDoes,
     BroadcastDoes, SendDoes, FinalDoes, AbortSyncDoes, RemoveDoes, UnregisterDoes,
     UnregisterStaleDoes
<1> QED  BY <1>1, <1>2, Zenon DEF StepOf

Early == {"none", "bind", "begin"}

LEMMA EarlyStays ==
  ASSUME NEW k \in Gens, Others(k), StepOf(k), NEW h \in Gens, auth'[h] \in Early
  PROVE  auth[h] \in Early
<1>1. CASE h # k
  BY <1>1, Zenon DEF Others, SameSession, SamePhase
<1>2. CASE h = k
  <2>1. AddDoes(k) \/ BindDoes(k) => auth[k] \in Early
    BY Zenon DEF AddDoes, BindDoes, Early
  <2>2. ~PhaseDoes(k) /\ ~BeginDoes(k) /\ ~BeginRefusedDoes(k) /\ ~RejectDoes(k) /\ ~AbortDoes(k)
        /\ ~CommitDoes(k) /\ ~AnnouncedDoes(k) /\ ~RosterDoes(k)
    BY <1>2, Zenon DEF Early, PhaseDoes, BeginDoes, BeginRefusedDoes, RejectDoes, AbortDoes, CommitDoes,
       AnnouncedDoes, RosterDoes
  <2>3. SamePhase(k) => auth[k] \in Early
    BY <1>2, Zenon DEF SamePhase
  <2> QED  BY <1>2, <2>1, <2>2, <2>3, PhaseMoves, Zenon DEF AuthDoes
<1> QED  BY <1>1, <1>2, Zenon

(* A session begins to hear when it begins to synchronise.                 *)
LEMMA HearsBack ==
  ASSUME Shape, NEW k \in Gens, Others(k), StepOf(k), NEW h \in Gens, BaseAt(h), Hears(h)'
  PROVE  Hears(h) \/ (BeginDoes(h) /\ UNCHANGED views)
<1>1. CASE h # k
  BY <1>1, SessionStays, Zenon DEF Others, Hears
<1>2. CASE h = k
  <2>1. Deliverable(k)' /\ mapped'[k]
    BY <1>2, Zenon DEF Hears
  <2>2. /\ SameEntry(k) => Deliverable(k)
        /\ state'[k] = state[k] /\ (Bound(k)' <=> Bound(k)) => Deliverable(k)
        /\ state'[k] # "Closing" /\ Bound(k)'
    BY <2>1, Zenon DEF SameEntry, Deliverable
  <2>3. SameConn(k) => mapped[k]
    BY <2>1, Zenon DEF SameConn
  <2>4. ~BindDoes(k) /\ ~AddDoes(k)
    BY <1>2, <2>3, Zenon DEF BindDoes, AddDoes, BaseAt
  <2>5. ASSUME AuthDoes(k), ~BeginDoes(k) PROVE Deliverable(k) /\ mapped[k]
    <3>1. CommitDoes(k) => Deliverable(k) /\ mapped[k]
      BY Zenon DEF CommitDoes, MayInitial, Deliverable
    <3> QED  BY <2>1, <2>2, <2>3, <2>4, <2>5, <3>1, Zenon DEF AuthDoes, PhaseDoes, BeginRefusedDoes,
                RejectDoes, AbortDoes, AnnouncedDoes, RosterDoes
  <2>6. ASSUME EndDoes(k) PROVE Deliverable(k) /\ mapped[k]
    BY <2>1, <2>2, <2>3, <2>6, Zenon DEF EndDoes, StartDoes, FailDoes, LeaveDoes
  <2>7. ASSUME NEW t, ThreadDoes(k, t) PROVE Deliverable(k) /\ mapped[k]
    <3>1. ~HoldDoes(k, t) /\ ~UnregisterDoes(k, t)
      BY <2>2, Zenon DEF HoldDoes, UnregisterDoes
    <3>2. CASE CloseDoes(k, t)
      BY <2>2, <2>3, <3>2, Zenon DEF CloseDoes
    <3>3. CASE HoldStaleDoes(k, t) \/ ReleaseDoes(k, t) \/ RemoveDoes(k, t) \/ UnregisterStaleDoes(k, t)
      BY <2>2, <2>3, <3>3, Zenon DEF HoldStaleDoes, ReleaseDoes, RemoveDoes, UnregisterStaleDoes
    <3>4. CASE BroadcastDoes(k, t) \/ \E i \in Gens : SendDoes(k, t, i)
      BY <2>2, <2>3, <3>4, Zenon DEF BroadcastDoes, SendDoes
    <3>5. CASE FinalDoes(k, t) \/ AbortSyncDoes(k, t)
      BY <2>1, <2>2, <2>3, <3>5, Zenon DEF FinalDoes, AbortSyncDoes, ConnClosed, ConnKept
    <3> QED  BY <2>7, <3>1, <3>2, <3>3, <3>4, <3>5, Zenon DEF ThreadDoes
  <2>8. BeginDoes(k) => ~RosterDoes(k)
    BY Zenon DEF BeginDoes, RosterDoes
  <2> QED  BY <1>2, <2>4, <2>5, <2>6, <2>7, <2>8, Zenon DEF StepOf, AuthDoes, Hears
<1> QED  BY <1>1, <1>2, Zenon

-----------------------------------------------------------------------------
(* What clients show.                                                      *)

(* A client shows at an ID only sessions that were given that ID, ...      *)
ShownAt(h, s) == View(h, s) # NoGen => View(h, s) \in Gens /\ sid[View(h, s)] = s
ShownInv == \A h \in Gens, s \in SIDs : ShownAt(h, s)

(* ... and nothing before it begins to synchronise.                        *)
FreshAt(h) == auth[h] \in Early => \A s \in SIDs : base[h][s] = NoGen /\ news[h][s] = NoNews
FreshInv == \A h \in Gens : FreshAt(h)

LEMMA ShownStep ==
  ASSUME Shape, ShownInv, NEW k \in Gens, Others(k), StepOf(k) PROVE ShownInv'
<1> SUFFICES ASSUME NEW h \in Gens, NEW s \in SIDs PROVE ShownAt(h, s)'
  BY Zenon DEF ShownInv
<1>1. s # NoSID
  BY SIDsAssumption, Zenon
<1>2. CASE View(h, s)' = View(h, s)
  <2>1. CASE View(h, s) # NoGen
    <3>1. View(h, s) \in Gens /\ sid[View(h, s)] = s
      BY <2>1, Zenon DEF ShownInv, ShownAt
    <3>2. sid'[View(h, s)] = s
      BY <1>1, <3>1, SidStays, Zenon
    <3> QED  BY <1>2, <3>1, <3>2, Zenon DEF ShownAt
  <2>2. CASE View(h, s) = NoGen
    BY <1>2, <2>2, Zenon DEF ShownAt
  <2> QED  BY <2>1, <2>2, Zenon
<1>3. ASSUME NEW x \in Gens, s = sid[x], View(h, s)' = x PROVE ShownAt(h, s)'
  <2>1. sid'[x] = s
    BY <1>1, <1>3, SidStays, Zenon
  <2> QED  BY <1>3, <2>1, Zenon DEF ShownAt
<1>4. ASSUME NEW t \in Threads, ToldNow(k, t, h, s) PROVE ShownAt(h, s)'
  <2>1. Message(k, t) = k \/ Message(k, t) = NoGen
    BY Zenon DEF Message
  <2>2. CASE View(h, s)' = NoGen
    BY <2>2, Zenon DEF ShownAt
  <2> QED  BY <1>3, <1>4, <2>1, <2>2, Zenon DEF ToldNow
<1>5. ASSUME NEW x \in Gens, ShownNow(h, s, x) PROVE ShownAt(h, s)'
  BY <1>3, <1>5, Zenon DEF ShownNow
<1> QED  BY <1>2, <1>4, <1>5, ViewSteps, Zenon

LEMMA FreshStep ==
  ASSUME Shape, EndingInv, FreshInv, NEW k \in Gens, Others(k), StepOf(k) PROVE FreshInv'
<1> SUFFICES ASSUME NEW h \in Gens, auth'[h] \in Early, NEW s \in SIDs
             PROVE  base'[h][s] = NoGen /\ news'[h][s] = NoNews
  BY Zenon DEF FreshInv, FreshAt
<1>1. auth[h] \in Early /\ base[h][s] = NoGen /\ news[h][s] = NoNews
  BY EarlyStays, Zenon DEF FreshInv, FreshAt
<1>2. ~Hears(h) /\ auth[h] # "roster"
  BY <1>1, Zenon DEF EndingInv, BaseAt, Early, Hears
<1>3. ASSUME NEW x \in Gens, Shows(k, x) PROVE base'[h][s] = base[h][s] /\ news'[h][s] = news[h][s]
  BY <1>2, <1>3, Zenon DEF Shows
<1>4. ASSUME NEW t \in Threads, NEW i \in Gens, Heard(k, t, i)
      PROVE  base'[h][s] = base[h][s] /\ news'[h][s] = news[h][s]
  BY <1>2, <1>4, Zenon DEF Heard
<1> QED  BY <1>1, <1>3, <1>4, ViewsDo, Zenon DEF ViewsMove

(* No ghosts: a session that a client shows is Active, or a thread of it   *)
(* has still to tell the client of its removal.                            *)
GhostAt(h, g) ==
  Hears(h) /\ sid[g] # NoSID /\ sid[g] # sid[h] /\ View(h, sid[g]) = g /\ ~BannedEarly(g) =>
    Active(g) \/ \E t \in Removals : Due(h, g, t)
GhostInv == \A h, g \in Gens : GhostAt(h, g)

LEMMA SendShows ==
  ASSUME Shape, NEW k \in Gens, NEW t \in Threads, NEW h \in Gens, SendDoes(k, t, h), Hears(h),
         sid[k] \in SIDs
  PROVE  news'[h][sid[k]] = Message(k, t) /\ View(h, sid[k])' = Message(k, t)
<1>1. news \in [Gens -> [SIDs -> 0 .. NoNews]]
  BY Zenon DEF Shape, TypeOK, ViewType
<1>2. news' = [news EXCEPT ![h][sid[k]] = Message(k, t)] /\ sid'[k] = sid[k]
  BY Zenon DEF SendDoes, SendTells, Hears, SameUser
<1>3. news'[h][sid[k]] = Message(k, t)
  BY <1>1, <1>2, Zenon
<1>4. Message(k, t) # NoNews
  BY MaxGenAssumption DEF Message, Gens, NoGen, NoNews
<1> QED  BY <1>2, <1>3, <1>4, Zenon DEF View

LEMMA GensApart == NoGen \notin Gens
  BY DEF Gens, NoGen

LEMMA GhostStep ==
  ASSUME Shape, Shape', EndingInv, OwnInv, TellInv, ShownInv, FreshInv, GhostInv,
         NEW k \in Gens, Others(k), StepOf(k)
  PROVE  GhostInv'
<1> SUFFICES ASSUME NEW h \in Gens, NEW g \in Gens, Hears(h)', sid'[g] # NoSID,
                    sid'[g] # sid'[h], View(h, sid[g])' = g, ~BannedEarly(g)'
             PROVE  Active(g)' \/ \E t \in Removals : Due(h, g, t)'
  BY Zenon DEF GhostInv, GhostAt
<1>1. g # NoGen /\ sid'[g] \in SIDs
  BY GensApart DEF Shape, TypeOK, SessionType
<1>2. PICK s \in SIDs : s = sid'[g]
  BY <1>1, Zenon
<1>3. /\ TellAt(g) /\ BaseAt(g) /\ LockAt(g) /\ OwnAt(g) /\ PhaseAt(k) /\ BaseAt(h)
      /\ FreshAt(h) /\ ShownAt(h, s) /\ GhostAt(h, g) /\ ~BannedEarly(g)
  BY EarlyBanStays, Zenon DEF EndingInv, OwnInv, TellInv, TellAt, FreshInv, ShownInv, GhostInv
<1>4. /\ sid[g] = s /\ (View(h, s) = g \/ Active(g))
      /\ View(h, s)' = g
  <2>1. View(h, s)' = g
    BY <1>2, Zenon DEF View
  <2>2. CASE View(h, s)' = View(h, s)
    BY <1>1, <1>3, <2>1, <2>2, Zenon DEF ShownAt
  <2>3. ASSUME NEW x \in Gens, ShownNow(h, s, x) PROVE sid[g] = s /\ Active(g)
    BY <2>1, <2>3, Zenon DEF ShownNow
  <2>4. ASSUME NEW t \in Threads, ToldNow(k, t, h, s) PROVE sid[g] = s /\ Active(g)
    <3>1. t = "auth" /\ g = k /\ s = sid[k] /\ SendDoes(k, t, h)
      BY <1>1, <2>1, <2>4, Zenon DEF Message, ToldNow
    <3>2. Where(k, "auth") = "send"
      BY <3>1, Zenon DEF SendDoes
    <3>3. Active(k)
      BY <1>3, <3>2, Zenon DEF PhaseAt
    <3> QED  BY <3>1, <3>3, Zenon
  <2> QED  BY <2>1, <2>2, <2>3, <2>4, ViewSteps, Zenon
<1>5. Hears(h)
  <2> SUFFICES ASSUME BeginDoes(h), UNCHANGED views PROVE FALSE
    BY <1>3, HearsBack, Zenon
  <2>1. auth[h] \in Early
    BY Zenon DEF BeginDoes, Early
  <2>2. View(h, s)' = NoGen
    BY <1>3, <2>1, Zenon DEF FreshAt, View
  <2> QED  BY <1>1, <1>4, <2>2, Zenon
<1>6. sid[g] # NoSID /\ sid[g] # sid[h]
  <2>1. sid[h] # NoSID /\ s # NoSID
    BY <1>2, <1>5, Zenon DEF Hears, Deliverable, Bound
  <2>2. sid'[h] = sid[h]
    BY <2>1, SidStays, Zenon
  <2> QED  BY <1>2, <1>4, <2>1, <2>2, Zenon
<1>7. CASE Active(g)
  <2>1. CASE k # g
    BY <1>7, <2>1, SessionStays, Zenon DEF Others
  <2>2. CASE k = g /\ ~Active(g)'
    <3>1. PICK t \in Removals : Told(g, t)'
      BY <1>3, <1>7, <2>2, StopIsTold, Zenon DEF TellAt
    <3> QED  BY <3>1, Zenon DEF Due
  <2> QED  BY <2>1, <2>2, Zenon
<1>8. CASE ~Active(g)
  <2>1. PICK t \in Removals : Due(h, g, t)
    BY <1>3, <1>4, <1>5, <1>6, <1>8, Zenon DEF GhostAt
  <2>2. t \in Threads /\ t # "auth"
    BY Zenon DEF Removals
  <2>3. CASE k # g
    <3>1. MailStays(g, {})
      BY <2>3, SessionStays, Zenon DEF Others
    <3> QED  BY <2>1, <2>2, <3>1, Zenon DEF MailStays, Due
  <2>4. CASE k = g /\ ~Due(h, g, t)'
    <3>1. SendDoes(g, t, h)
      BY <1>3, <1>5, <1>6, <2>1, <2>2, <2>4, DueStays, Zenon DEF TellAt, Hears
    <3>2. View(h, sid[g])' = NoGen
      BY <1>4, <1>5, <2>2, <3>1, SendShows, Zenon DEF Message
    <3> QED  BY <1>1, <3>2, Zenon
  <2> QED  BY <2>1, <2>3, <2>4, Zenon
<1> QED  BY <1>7, <1>8, Zenon

ViewInv == ShownInv /\ FreshInv /\ GhostInv

LEMMA ViewInit == Init => ViewInv
<1> SUFFICES ASSUME Init PROVE ViewInv
  OBVIOUS
<1>1. \A h \in Gens, s \in SIDs : base[h][s] = NoGen /\ news[h][s] = NoNews
  BY Zenon DEF Init
<1>2. \A g \in Gens : sid[g] = NoSID
  BY Zenon DEF Init
<1> QED  BY <1>1, <1>2, Zenon DEF ViewInv, ShownInv, ShownAt, View, FreshInv, FreshAt,
            GhostInv, GhostAt

-----------------------------------------------------------------------------
(* Everybody is seen.                                                      *)

(* The user of an ID is the latest session that was given it.              *)
OrderInv == \A f, g \in Gens : Live(g) /\ sid[f] = sid[g] => f <= g

(* A session comes to be bound and not closing by Bind, Active by Commit.  *)
LEMMA EntryBack ==
  ASSUME NEW k, StepOf(k), Bound(k)', state'[k] # "Closing"
  PROVE  BindDoes(k) \/ CommitDoes(k) \/ (Bound(k) /\ state'[k] = state[k])
<1>1. state'[k] = state[k] /\ (Bound(k)' <=> Bound(k)) => Bound(k) /\ state'[k] = state[k]
  OBVIOUS
<1>2. SameEntry(k) => Bound(k) /\ state'[k] = state[k]
  BY Zenon DEF SameEntry
<1>3. AddDoes(k) => Bound(k) /\ state'[k] = state[k]
  BY <1>2, Zenon DEF AddDoes
<1>4. ASSUME AuthDoes(k), ~BindDoes(k), ~CommitDoes(k) PROVE Bound(k) /\ state'[k] = state[k]
  BY <1>1, <1>2, <1>4, Zenon DEF AuthDoes, PhaseDoes, BeginDoes, BeginRefusedDoes, RejectDoes,
     AbortDoes, AnnouncedDoes, RosterDoes
<1>5. ASSUME EndDoes(k) PROVE Bound(k) /\ state'[k] = state[k]
  BY <1>2, <1>5, Zenon DEF EndDoes, StartDoes, FailDoes, LeaveDoes
<1>6. ASSUME NEW t, ThreadDoes(k, t) PROVE Bound(k) /\ state'[k] = state[k]
  <2>1. ~HoldDoes(k, t) /\ ~UnregisterDoes(k, t)
    BY Zenon DEF HoldDoes, UnregisterDoes
  <2>2. CloseDoes(k, t) => Bound(k) /\ state'[k] = state[k]
    BY Zenon DEF CloseDoes
  <2>3. ReleaseDoes(k, t) => Bound(k) /\ state'[k] = state[k]
    BY <1>1, Zenon DEF ReleaseDoes
  <2> QED  BY <1>2, <1>6, <2>1, <2>2, <2>3, Zenon DEF ThreadDoes, HoldStaleDoes, BroadcastDoes,
              SendDoes, FinalDoes, AbortSyncDoes, RemoveDoes, UnregisterStaleDoes
<1> QED  BY <1>3, <1>4, <1>5, <1>6, Zenon DEF StepOf

LEMMA ActiveBack ==
  ASSUME NEW k \in Gens, Others(k), StepOf(k), NEW g \in Gens, Active(g)'
  PROVE  Active(g) \/ CommitDoes(g)
<1>1. CASE g # k
  BY <1>1, SessionStays, Zenon DEF Others
<1>2. CASE g = k
  <2>1. Bound(k)' /\ state'[k] = "Active" /\ state'[k] # "Closing" /\ state'[k] # "Syncing"
    BY <1>2, Zenon DEF Active
  <2>2. ~BindDoes(k)
    BY <2>1, Zenon DEF BindDoes
  <2> QED  BY <1>2, <2>1, <2>2, EntryBack, Zenon DEF Active
<1> QED  BY <1>1, <1>2, Zenon

(* A client that follows what the others do: bound, with a queue or about  *)
(* to get one, and not failed.                                             *)
Attends(h) == Deliverable(h) /\ (mapped[h] \/ auth[h] = "begin") /\ auth[h] # "ended"

LEMMA AttendsBack ==
  ASSUME Shape, NEW k \in Gens, Others(k), StepOf(k), NEW h \in Gens, BaseAt(h), Attends(h)'
  PROVE  Attends(h) \/ BindDoes(h)
<1>1. CASE h # k
  BY <1>1, SessionStays, Zenon DEF Others, Attends
<1>2. CASE h = k /\ ~BindDoes(k)
  <2>1. Bound(k)' /\ state'[k] # "Closing" /\ auth'[k] # "ended"
    BY <1>2, Zenon DEF Attends, Deliverable
  <2>2. Deliverable(k)
    <3>1. CommitDoes(k) => Deliverable(k)
      BY Zenon DEF CommitDoes, MayInitial, Deliverable
    <3> QED  BY <1>2, <2>1, <3>1, EntryBack, Zenon DEF Attends, Deliverable
  <2>3. auth[k] # "ended"
    <3>1. SamePhase(k) => auth[k] # "ended"
      BY <2>1, Zenon DEF SamePhase
    <3>2. AddDoes(k) \/ AuthDoes(k) => auth[k] # "ended"
      BY Zenon DEF AddDoes, AuthDoes, BindDoes, PhaseDoes, BeginDoes, BeginRefusedDoes, RejectDoes,
         AbortDoes, CommitDoes, AnnouncedDoes, RosterDoes
    <3> QED  BY <3>1, <3>2, PhaseMoves, Zenon
  <2>4. mapped[k] \/ auth[k] = "begin"
    <3>1. CASE mapped'[k]
      BY <1>2, <2>2, <3>1, HearsBack, Zenon DEF Attends, Hears, BeginDoes
    <3>2. CASE auth'[k] = "begin"
      <4>1. SamePhase(k) => auth[k] = "begin"
        BY <3>2, Zenon DEF SamePhase
      <4>2. ~AddDoes(k) /\ ~AuthDoes(k)
        BY <1>2, <3>2, Zenon DEF AddDoes, AuthDoes, PhaseDoes, BeginDoes, BeginRefusedDoes, RejectDoes,
           AbortDoes, CommitDoes, AnnouncedDoes, RosterDoes
      <4> QED  BY <4>1, <4>2, PhaseMoves, Zenon
    <3> QED  BY <1>2, <3>1, <3>2, Zenon DEF Attends
  <2> QED  BY <1>2, <2>2, <2>3, <2>4, Zenon DEF Attends
<1> QED  BY <1>1, <1>2, Zenon

(* What client h has heard of an ID stays, or is what it is sent now.      *)
LEMMA NewsSteps ==
  ASSUME Shape, NEW k \in Gens, StepOf(k), NEW h \in Gens, NEW s \in SIDs
  PROVE  news'[h][s] = news[h][s] \/ \E t \in Threads : ToldNow(k, t, h, s)
<1>1. ASSUME NEW x \in Gens, Shows(k, x) PROVE news'[h][s] = news[h][s]
  BY <1>1, Zenon DEF Shows
<1>2. ASSUME NEW t \in Threads, NEW i \in Gens, SendDoes(k, t, i), Heard(k, t, i)
      PROVE  news'[h][s] = news[h][s] \/ ToldNow(k, t, h, s)
  <2>1. news'[h][s] = IF h = i /\ s = sid[k] THEN Message(k, t) ELSE news[h][s]
    BY <1>2, Zenon DEF Heard
  <2>2. Message(k, t) # NoNews
    BY MaxGenAssumption DEF Message, Gens, NoGen, NoNews
  <2>3. h = i /\ s = sid[k] => View(h, s)' = Message(k, t)
    BY <2>1, <2>2, Zenon DEF View
  <2> QED  BY <1>2, <2>1, <2>3, Zenon DEF Heard, ToldNow
<1>3. UNCHANGED views => news'[h][s] = news[h][s]
  BY Zenon
<1> QED  BY <1>1, <1>2, <1>3, ViewsDo, Zenon DEF ViewsMove

(* The predecessors of a session that is held back are quiet ...           *)
LEMMA HeldBackStays ==
  ASSUME Shape, NEW k \in Gens, Others(k), StepOf(k), NEW g \in Gens, sid[g] # NoSID, HeldBack(g)'
  PROVE  HeldBack(g)
<1> SUFFICES ASSUME NEW f \in 1 .. g - 1, NEW c \in Causes \ {"kick"}, sid[f] = sid[g]
             PROVE  <<f, c>> \notin ends
  BY Zenon DEF HeldBack
<1>1. f \in Gens
  BY MaxGenAssumption DEF Gens
<1>2. sid'[f] = sid'[g]
  BY <1>1, SidStays, Zenon
<1>3. ends \subseteq ends'
  BY EndsGrow, Zenon
<1> QED  BY <1>2, <1>3, Zenon DEF HeldBack

LEMMA HeldBackQuiet ==
  ASSUME CauseInv, NEW g \in Gens, HeldBack(g), NEW f \in Gens, f <= g, f # g, sid[f] = sid[g]
  PROVE  Quiet(f)
<1>1. f \in 1 .. g - 1
  BY MaxGenAssumption DEF Gens
<1>2. ASSUME NEW c, c # "kick" PROVE <<f, c>> \notin ends
  BY <1>1, <1>2, Zenon DEF HeldBack, CauseInv
<1> QED  BY <1>2, Zenon DEF Quiet

(* ... so that all that is told of its ID is that it has joined.           *)
LEMMA OnlyJoinTold ==
  ASSUME EndingInv, OwnInv, TellInv, QuietInv, CauseInv, OrderInv, NEW g \in Gens, Active(g),
         HeldBack(g), ~BannedEarly(g), NEW k \in Gens, NEW t \in Threads, NEW h, SendDoes(k, t, h), sid[k] = sid[g]
  PROVE  t = "auth" /\ k = g
<1>1. Bound(g) /\ state[g] = "Active" /\ Live(g)
  BY Zenon DEF Active, Deliverable, OwnInv, OwnAt
<1>2. \A x : Bound(x) /\ sid[x] = sid[g] => x = g
  BY <1>1, Zenon DEF Bound
<1>3. CASE t = "auth"
  <2>1. Where(k, "auth") = "send"
    BY <1>3, Zenon DEF SendDoes
  <2>2. Bound(k)
    BY <2>1, Zenon DEF TellInv, TellAt, PhaseAt, Active
  <2> QED  BY <1>2, <1>3, <2>2, Zenon
<1>4. CASE t # "auth"
  <2>1. t \in Removals /\ ToTell(k, t)
    <3>1. h \in Todo(k, t)
      BY SendMailIf, Zenon DEF SendMail
    <3> QED  BY <1>4, <3>1, Zenon DEF Removals, ToTell
  <2>2. k # g
    <3>1. state[k] = "Closing"
      BY <1>4, <2>1, Zenon DEF TellInv, TellAt, MailAt, MailOf
    <3> QED  BY <1>1, <3>1, Zenon
  <2>3. k <= g
    BY <1>1, Zenon DEF OrderInv
  <2>4. CalmAt(k)
    BY <2>2, <2>3, HeldBackQuiet, Zenon DEF QuietInv
  <2>5. Live(k)
    BY <2>1, <2>4, Zenon DEF CalmAt
  <2> QED  BY <1>1, <2>2, <2>5, Zenon DEF Live
<1> QED  BY <1>3, <1>4, Zenon

(* A client that attends shows every Active session, or will be told, or   *)
(* has its initial snapshot before it.                                     *)
Starting == {"begin", "crypt", "register", "snapshot"}
Expects(h, g) ==
  /\ news[h][sid[g]] = NoNews
  /\ auth[h] \in Starting \/ (auth[h] = "roster" /\ g \in roster[h])
SeenAt(h, g) ==
  Active(g) /\ HeldBack(g) /\ ~BannedEarly(g) /\ Attends(h) /\ sid[h] # sid[g] =>
    View(h, sid[g]) = g \/ Due(h, g, "auth") \/ Expects(h, g)
SeenInv == \A h, g \in Gens : SeenAt(h, g)

(* A client that expects a session gets to show it.                        *)
LEMMA ExpectsStep ==
  ASSUME Shape, NEW h \in Gens, StepOf(h), NEW g \in Gens, Active(g), Live(g), sid[g] # sid[h],
         Expects(h, g), Attends(h)', sid'[g] = sid[g], news'[h][sid[g]] = NoNews
  PROVE  Expects(h, g)' \/ View(h, sid[g])' = g
<1>1. auth[h] \in {"begin", "crypt", "register", "snapshot", "roster"}
  BY Zenon DEF Expects, Starting
<1>2. Bound(h)' /\ auth'[h] # "ended"
  BY Zenon DEF Attends, Deliverable
<1>3. ASSUME auth'[h] \in Starting \/ (auth'[h] = "roster" /\ g \in roster'[h])
      PROVE  Expects(h, g)'
  BY <1>3, Zenon DEF Expects
<1>4. CASE SamePhase(h)
  BY <1>3, <1>4, Zenon DEF SamePhase, Expects
<1>5. ~AddDoes(h) /\ ~BindDoes(h) /\ ~RejectDoes(h) /\ ~AnnouncedDoes(h) /\ ~BeginRefusedDoes(h)
      /\ ~AbortDoes(h)
  BY <1>1, <1>2, Zenon DEF AddDoes, BindDoes, RejectDoes, AnnouncedDoes, BeginRefusedDoes, AbortDoes
<1>6. ~CommitDoes(h)
  BY Zenon DEF Expects, Starting, CommitDoes
<1>7. CASE PhaseDoes(h)
  <2>1. \/ auth'[h] \in {"register", "snapshot"}
        \/ auth'[h] = "roster" /\ \A x \in Gens : Live(x) /\ sid[x] # sid[h] => x \in roster'[h]
    BY <1>1, <1>7, Zenon DEF PhaseDoes
  <2> QED  BY <1>3, <2>1, Zenon DEF Starting
<1>8. CASE BeginDoes(h)
  BY <1>3, <1>8, Zenon DEF BeginDoes, Starting
<1>9. CASE RosterDoes(h)
  <2>1. auth[h] = "roster" /\ auth'[h] = "roster" /\ g \in roster[h]
    BY <1>9, Zenon DEF RosterDoes, Expects, Starting
  <2>2. PICK x \in roster[h] :
          /\ roster'[h] = roster[h] \ {x}
          /\ Active(x) => base' = [base EXCEPT ![h][sid[x]] = x]
    BY <1>9, Zenon DEF RosterDoes
  <2>3. CASE x # g
    BY <1>3, <2>1, <2>2, <2>3, Zenon
  <2>4. CASE x = g
    <3>1. x \in Gens /\ Active(x)
      BY <2>4, Zenon
    <3>2. BaseTakes(h, x)
      BY <2>2, <3>1, Taking, Zenon
    <3> QED  BY <2>4, <3>2, Zenon DEF BaseTakes, View
  <2> QED  BY <2>3, <2>4, Zenon
<1> QED  BY <1>4, <1>5, <1>6, <1>7, <1>8, <1>9, PhaseMoves, Zenon DEF AuthDoes

LEMMA SeenStep ==
  ASSUME Shape, Shape', EndingInv, OwnInv, TellInv, QuietInv, CauseInv, OrderInv, FreshInv',
         SeenInv, NEW k \in Gens, Others(k), StepOf(k)
  PROVE  SeenInv'
<1> SUFFICES ASSUME NEW h \in Gens, NEW g \in Gens, Active(g)', HeldBack(g)', ~BannedEarly(g)',
                    Attends(h)', sid'[h] # sid'[g]
             PROVE  View(h, sid[g])' = g \/ Due(h, g, "auth")' \/ Expects(h, g)'
  BY Zenon DEF SeenInv, SeenAt
<1>1. PICK s \in SIDs : s = sid'[g]
  BY DEF Active, Bound, Shape, TypeOK, SessionType
<1>2. /\ View(h, s)' = g => View(h, sid[g])' = g
      /\ news'[h][s] = NoNews /\ auth'[h] \in Starting => Expects(h, g)'
  BY <1>1, Zenon DEF View, Expects
<1>3. auth'[h] = "begin" => Expects(h, g)'
  <2>1. "begin" \in Early /\ "begin" \in Starting
    BY Zenon DEF Early, Starting
  <2> QED  BY <1>2, <2>1, Zenon DEF FreshInv, FreshAt
<1>4. CASE CommitDoes(g)
  BY <1>4, CommitMailIf, Zenon DEF CommitDoes, CommitMail, Due
<1>5. CASE BindDoes(h)
  BY <1>3, <1>5, Zenon DEF BindDoes
<1>6. CASE Active(g) /\ Attends(h)
  <2>1. sid[g] # NoSID /\ sid[h] # NoSID
    BY <1>6, Zenon DEF Active, Attends, Deliverable, Bound
  <2>2. sid[g] = s /\ sid[h] # s /\ HeldBack(g) /\ ~BannedEarly(g)
    BY <1>1, <2>1, SidStays, HeldBackStays, EarlyBanStays, Zenon
  <2>3. ASSUME NEW t \in Threads, ToldNow(k, t, h, s) PROVE View(h, s)' = g
    <3>1. t = "auth" /\ k = g
      BY <1>6, <2>2, <2>3, OnlyJoinTold, Zenon DEF ToldNow
    <3> QED  BY <2>3, <3>1, Zenon DEF ToldNow, Message
  <2>4. CASE View(h, s) = g
    <3>1. ASSUME NEW x \in Gens, ShownNow(h, s, x) PROVE View(h, s)' = g
      <4>1. x = g
        BY <1>6, <2>2, <3>1, Zenon DEF ShownNow, Active, Bound
      <4> QED  BY <3>1, <4>1, Zenon DEF ShownNow
    <3> QED  BY <1>2, <2>3, <2>4, <3>1, ViewSteps, Zenon
  <2>5. CASE Due(h, g, "auth")
    <3>1. CASE k # g
      <4>1. MailStays(g, {}) /\ "auth" \in Threads
        BY <3>1, SessionStays, Zenon DEF Others, Threads
      <4> QED  BY <2>5, <4>1, Zenon DEF MailStays, Due
    <3>2. CASE k = g /\ SendDoes(g, "auth", h)
      <4>1. CASE Hears(h)
        <5>1. "auth" \in Threads
          BY Zenon DEF Threads
        <5> QED  BY <2>2, <3>2, <4>1, <5>1, SendShows, Zenon DEF Message
      <4>2. CASE ~Hears(h)
        <5>1. auth[h] = "begin" /\ h # g
          BY <1>6, <2>2, <4>2, Zenon DEF Attends, Hears
        <5> QED  BY <1>3, <3>2, <5>1, Zenon DEF Others, SameSession, SamePhase
      <4> QED  BY <4>1, <4>2, Zenon
    <3>3. CASE k = g /\ ~SendDoes(g, "auth", h)
      <4>1. LockAt(g) /\ MailAt(g) /\ "auth" \in Threads /\ Deliverable(h)
        BY <1>6, Zenon DEF EndingInv, TellInv, TellAt, Threads, Attends
      <4> QED  BY <2>2, <2>5, <3>3, <4>1, DueStays, Zenon
    <3> QED  BY <3>1, <3>2, <3>3, Zenon
  <2>6. CASE Expects(h, g)
    <3>1. news[h][s] = NoNews /\ Live(g)
      BY <1>6, <2>2, <2>6, Zenon DEF Expects, OwnInv, OwnAt, Deliverable, Active
    <3>2. CASE news'[h][s] = NoNews
      <4>1. CASE h = k
        BY <1>1, <1>2, <1>6, <2>2, <2>6, <3>1, <3>2, <4>1, ExpectsStep, Zenon
      <4>2. CASE h # k
        <5>1. auth'[h] = auth[h] /\ roster'[h] = roster[h]
          BY <4>2, Zenon DEF Others, SameSession, SamePhase
        <5> QED  BY <1>1, <2>6, <3>2, <5>1, Zenon DEF Expects
      <4> QED  BY <4>1, <4>2, Zenon
    <3> QED  BY <1>2, <2>3, <3>1, <3>2, NewsSteps, Zenon
  <2> QED  BY <1>6, <2>2, <2>4, <2>5, <2>6, Zenon DEF SeenInv, SeenAt
<1> QED  BY <1>4, <1>5, <1>6, ActiveBack, AttendsBack, Zenon DEF EndingInv

JoinInv == QuietInv /\ CauseInv /\ OrderInv /\ SeenInv

LEMMA JoinInit == Init => JoinInv
<1> SUFFICES ASSUME Init PROVE JoinInv
  OBVIOUS
<1>1. ends = {} /\ \A g \in Gens : sid[g] = NoSID
  BY Zenon DEF Init
<1> QED  BY <1>1, QuietInit, Zenon
         DEF JoinInv, CauseInv, OrderInv, Live, SeenInv, SeenAt, Active, Bound

=============================================================================
