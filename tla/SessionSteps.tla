---------------------------- MODULE SessionSteps ----------------------------
(***************************************************************************)
(* The effects of the steps of SessionLifecycle on one session, the        *)
(* vocabulary of its proofs.  Every step is a step of one session: it      *)
(* leaves the others as they were (Others), and what it does to its own is *)
(* one of the predicates ...Does, which speak of that session only.        *)
(* SessionStepProofs shows that every step has such an effect, and         *)
(* SessionEffectProofs what the effects keep.                              *)
(***************************************************************************)
EXTENDS SessionLifecycle

-----------------------------------------------------------------------------
(* The paths: what a thread can have left to do, and what follows a step.  *)

Rests(t) ==
  CASE t = "kick" ->
         {<<>>, <<"hold", "broadcast", "release", "final", "remove", "unregister">>,
          <<"broadcast", "release", "final", "remove", "unregister">>,
          <<"send", "release", "final", "remove", "unregister">>,
          <<"release", "final", "remove", "unregister">>,
          <<"final", "remove", "unregister">>, <<"remove", "unregister">>,
          <<"unregister">>}
    [] t = "ban" ->
         {<<>>, <<"close", "broadcast", "final", "remove", "unregister">>,
          <<"broadcast", "final", "remove", "unregister">>,
          <<"send", "final", "remove", "unregister">>,
          <<"final", "remove", "unregister">>, <<"remove", "unregister">>,
          <<"unregister">>}
    [] t = "fail" ->
         {<<>>, <<"hold", "broadcast", "release", "unregister", "remove">>,
          <<"broadcast", "release", "unregister", "remove">>,
          <<"send", "release", "unregister", "remove">>,
          <<"release", "unregister", "remove">>, <<"unregister", "remove">>,
          <<"remove">>}
    [] t = "drop" ->
         {<<>>, <<"unregister", "remove", "broadcast">>, <<"remove", "broadcast">>,
          <<"broadcast">>, <<"send">>}
    [] t = "auth" ->
         {<<>>, <<"abort", "unregister", "remove">>, <<"unregister", "remove">>,
          <<"remove">>, <<"broadcast">>, <<"send">>}

Pos(q) == IF q = <<>> THEN "end" ELSE Head(q)

AfterSend(t) ==
  CASE t \in {"kick", "fail"} -> "release" [] t = "ban" -> "final" [] OTHER -> "end"

After(t, s) ==
  CASE s \in {"hold", "close"} -> "broadcast"
    [] s \in {"broadcast", "send"} -> AfterSend(t)
    [] s = "release" -> IF t = "kick" THEN "final" ELSE "unregister"
    [] s = "final" -> "remove"
    [] s = "abort" -> "unregister"
    [] s = "remove" -> IF t \in {"kick", "ban"} THEN "unregister"
                       ELSE IF t = "drop" THEN "broadcast" ELSE "end"
    [] s = "unregister" -> IF t \in {"kick", "ban"} THEN "end" ELSE "remove"

-----------------------------------------------------------------------------
(* Types.                                                                  *)

States == {"none", "Syncing", "Active", "Closing"}
Phases == {"none", "bind", "begin", "refused", "crypt", "register", "snapshot",
           "roster", "announce", "done", "ended"}
Pairs == Gens \X Threads

SessionType ==
  /\ generation \in 0 .. MaxGen
  /\ sid \in [Gens -> SIDs \cup {NoSID}]
  /\ users \in [SIDs -> 0 .. MaxGen] /\ entries \in [SIDs -> 0 .. MaxGen]
  /\ state \in [Gens -> States] /\ announced \in [Gens -> BOOLEAN]
  /\ lock \in [Gens -> Threads \cup {"free"}]
  /\ mapped \in [Gens -> BOOLEAN] /\ open \in [Gens -> BOOLEAN]
  /\ auth \in [Gens -> Phases] /\ roster \in [Gens -> SUBSET Gens]
  /\ told \in [Pairs -> BOOLEAN] /\ todo \in [Pairs -> SUBSET Gens]

RestType ==
  /\ rest = [x \in Pairs |-> rest[x]]
  /\ \A g \in Gens, t \in Threads : rest[g, t] \in Rests(t)

ViewType ==
  /\ base \in [Gens -> [SIDs -> 0 .. MaxGen]]
  /\ news \in [Gens -> [SIDs -> 0 .. NoNews]]

TypeOK == SessionType /\ RestType /\ ViewType

(* Where a thread is.                                                      *)
Where(g, t) == Pos(rest[g, t])

(* The three ways in which threads are moved.                              *)
Stay(g, T) == \A t \in Threads \ T : Where(g, t)' = Where(g, t)

-----------------------------------------------------------------------------
(* What is created, and what the steps of a session do to it.              *)

CreatedInv ==
  /\ \A g \in Gens : /\ auth[g] = "none" <=> g > generation
                     /\ sid[g] = NoSID <=> g > generation
                     /\ g > generation => \A t \in Threads : Where(g, t) = "end"
  /\ \A s \in SIDs : /\ users[s] # NoGen => sid[users[s]] = s
                     /\ entries[s] # NoGen => sid[entries[s]] = s

Shape == TypeOK /\ CreatedInv

SamePhase(g) == auth'[g] = auth[g] /\ roster'[g] = roster[g]
SameEntry(g) ==
  /\ state'[g] = state[g] /\ announced'[g] = announced[g] /\ lock'[g] = lock[g]
  /\ Bound(g)' <=> Bound(g)
SameUser(g) == sid'[g] = sid[g] /\ (Live(g)' <=> Live(g))
SameConn(g) == mapped'[g] = mapped[g] /\ open'[g] = open[g]
SameMail(g, T) ==
  \A t \in Threads \ T : told'[g, t] = told[g, t] /\ todo'[g, t] = todo[g, t]
SameThreads(g, T) == Stay(g, T) /\ SameMail(g, T)
SameSession(g) ==
  SamePhase(g) /\ SameEntry(g) /\ SameUser(g) /\ SameConn(g) /\ SameThreads(g, {})

Others(g) == \A h \in Gens \ {g} : SameSession(h)

-----------------------------------------------------------------------------
(* The steps of the authentication handler.                                *)

AddDoes(g) ==
  /\ auth[g] = "none" /\ auth'[g] = "bind" /\ roster'[g] = roster[g]
  /\ sid'[g] \in SIDs /\ Live(g)' /\ ~Bound(g) /\ SameEntry(g)
  /\ SameConn(g) /\ SameThreads(g, {}) /\ \A t \in Threads : Where(g, t) = "end"

BindDoes(g) ==
  /\ auth[g] = "bind" /\ auth'[g] = "begin" /\ roster'[g] = roster[g]
  /\ state'[g] = "Syncing" /\ announced'[g] = announced[g] /\ lock'[g] = lock[g]
  /\ Bound(g)' /\ SameUser(g) /\ SameConn(g) /\ SameThreads(g, {})

PhaseDoes(g) ==
  /\ \/ auth[g] = "bind" /\ auth'[g] = "refused" /\ roster'[g] = roster[g]
     \/ auth[g] = "crypt" /\ auth'[g] = "register" /\ roster'[g] = roster[g]
     \/ auth[g] = "register" /\ auth'[g] = "snapshot" /\ roster'[g] = roster[g]
     \/ /\ auth[g] = "snapshot" /\ auth'[g] = "roster"
        /\ \A h \in Gens : Live(h) /\ sid[h] # sid[g] => h \in roster'[g]
  /\ SameEntry(g) /\ SameUser(g) /\ SameConn(g) /\ SameThreads(g, {})

BeginDoes(g) ==
  /\ auth[g] = "begin" /\ auth'[g] = "crypt" /\ roster'[g] = roster[g]
  /\ Bound(g) /\ state[g] = "Syncing" /\ mapped'[g] /\ open'[g] = open[g]
  /\ SameEntry(g) /\ SameUser(g) /\ SameThreads(g, {})

BeginRefusedDoes(g) ==
  /\ auth[g] = "begin" /\ auth'[g] = "refused" /\ roster'[g] = roster[g]
  /\ ~(Bound(g) /\ state[g] = "Syncing") /\ ~Bound(g)'
  /\ state'[g] = state[g] /\ announced'[g] = announced[g] /\ lock'[g] = lock[g]
  /\ SameUser(g) /\ SameConn(g) /\ SameThreads(g, {})

(* A connection that is closed has its OnClose run.                        *)
Dropped(g) == Where(g, "drop")' = IF open[g] THEN "unregister" ELSE Where(g, "drop")

RejectDoes(g) ==
  /\ auth[g] = "refused" /\ auth'[g] = "ended" /\ roster'[g] = roster[g]
  /\ sid'[g] = sid[g] /\ ~Live(g)' /\ SameEntry(g) /\ mapped'[g] = mapped[g]
  /\ ~open'[g] /\ Dropped(g) /\ Stay(g, {"drop"}) /\ SameMail(g, {})

AbortDoes(g) ==
  /\ auth[g] \in {"crypt", "roster"} /\ auth'[g] = "ended"
  /\ SameEntry(g) /\ SameUser(g) /\ SameConn(g)
  /\ Where(g, "auth")' = "abort" /\ Stay(g, {"auth"}) /\ SameMail(g, {})

RosterDoes(g) ==
  /\ auth[g] = "roster" /\ auth'[g] = "roster"
  /\ \E h \in roster[g] :
       /\ roster'[g] = roster[g] \ {h}
       /\ IF Active(h) THEN MayInitial(g) /\ base' = [base EXCEPT ![g][sid[h]] = h]
                       ELSE UNCHANGED base
  /\ SameEntry(g) /\ SameUser(g) /\ SameConn(g) /\ SameThreads(g, {})

CommitTells(g) ==
  /\ told'[g, "auth"] /\ todo'[g, "auth"] = todo[g, "auth"] /\ SameMail(g, {"auth"})
CommitDoes(g) ==
  /\ auth[g] = "roster" /\ auth'[g] = "announce" /\ roster[g] = {} /\ roster'[g] = {}
  /\ MayInitial(g) /\ lock[g] = "free" /\ state'[g] = "Active" /\ lock'[g] = "auth"
  /\ announced'[g] = announced[g] /\ (Bound(g)' <=> Bound(g)) /\ SameUser(g) /\ SameConn(g)
  /\ Where(g, "auth")' = "broadcast" /\ Stay(g, {"auth"}) /\ CommitTells(g)

AnnouncedDoes(g) ==
  /\ auth[g] = "announce" /\ auth'[g] = "done" /\ roster'[g] = roster[g]
  /\ Where(g, "auth") = "end" /\ announced'[g] /\ lock'[g] = "free"
  /\ state'[g] = state[g] /\ (Bound(g)' <=> Bound(g)) /\ SameUser(g) /\ SameConn(g)
  /\ SameThreads(g, {})

AuthDoes(g) ==
  \/ /\ UNCHANGED views
     /\ \/ BindDoes(g) \/ PhaseDoes(g) \/ BeginDoes(g) \/ BeginRefusedDoes(g)
        \/ RejectDoes(g) \/ AbortDoes(g) \/ CommitDoes(g) \/ AnnouncedDoes(g)
  \/ RosterDoes(g) /\ UNCHANGED news

-----------------------------------------------------------------------------
(* The starts of the paths that end a session, and their steps.            *)

Moves(g, t, s) == Where(g, t)' = s /\ Stay(g, {t})
Goes(g, t, s) == /\ Where(g, t)' = s /\ Stay(g, {t, "drop"})
ConnClosed(g) == ~mapped'[g] /\ ~open'[g] /\ Dropped(g)
ConnKept(g) == SameConn(g) /\ Where(g, "drop")' = Where(g, "drop")

StartDoes(g, t) ==
  /\ Live(g) /\ t \in {"kick", "ban"}
  /\ Where(g, t) = "end" /\ Moves(g, t, IF t = "kick" THEN "hold" ELSE "close")
  /\ SamePhase(g) /\ SameEntry(g) /\ SameUser(g) /\ SameConn(g) /\ SameMail(g, {})

FailDoes(g) ==
  /\ mapped[g] /\ Deliverable(g)
  /\ Where(g, "fail") = "end" /\ Goes(g, "fail", "hold") /\ ConnClosed(g)
  /\ SamePhase(g) /\ SameEntry(g) /\ SameUser(g) /\ SameMail(g, {})

LeaveDoes(g) ==
  /\ auth[g] \in {"done", "ended"} /\ open[g]
  /\ mapped'[g] = mapped[g] /\ ~open'[g] /\ Dropped(g) /\ Stay(g, {"drop"})
  /\ SamePhase(g) /\ SameEntry(g) /\ SameUser(g) /\ SameMail(g, {})

CloseTells(g, t) ==
  told'[g, t] = (Bound(g) /\ FirstClose(g)) /\ todo'[g, t] = todo[g, t] /\ SameMail(g, {t})
CloseDoes(g, t) ==
  /\ t = "ban" /\ Where(g, t) = "close" /\ LockFree(g) /\ Moves(g, t, "broadcast")
  /\ CloseTells(g, t)
  /\ state'[g] = IF Bound(g) THEN "Closing" ELSE state[g]
  /\ announced'[g] = announced[g] /\ lock'[g] = lock[g] /\ (Bound(g)' <=> Bound(g))
  /\ SamePhase(g) /\ SameUser(g) /\ SameConn(g)

HoldTells(g, t) ==
  /\ told'[g, t] = (FirstClose(g) /\ (t = "kick" => Live(g)))
  /\ todo'[g, t] = todo[g, t] /\ SameMail(g, {t})
HoldDoes(g, t) ==
  /\ t \in {"kick", "fail"} /\ Where(g, t) = "hold" /\ Bound(g) /\ lock[g] = "free"
  /\ lock'[g] = t /\ state'[g] = "Closing" /\ Moves(g, t, "broadcast")
  /\ HoldTells(g, t)
  /\ announced'[g] = announced[g] /\ (Bound(g)' <=> Bound(g))
  /\ SamePhase(g) /\ SameUser(g) /\ SameConn(g)

HoldStaleDoes(g, t) ==
  /\ t \in {"kick", "fail"} /\ Where(g, t) = "hold" /\ ~Bound(g)
  /\ Moves(g, t, IF t = "kick" THEN "end" ELSE "unregister") /\ SameMail(g, {})
  /\ SamePhase(g) /\ SameEntry(g) /\ SameUser(g) /\ SameConn(g)

ReleaseDoes(g, t) ==
  /\ t \in {"kick", "fail"} /\ Where(g, t) = "release"
  /\ Moves(g, t, IF t = "kick" THEN "final" ELSE "unregister") /\ SameMail(g, {})
  /\ lock'[g] = "free" /\ state'[g] = state[g] /\ announced'[g] = announced[g]
  /\ (Bound(g)' <=> Bound(g)) /\ SamePhase(g) /\ SameUser(g) /\ SameConn(g)

BroadcastTells(g, t) ==
  /\ todo'[g, t] = (IF told[g, t] THEN Recipients(g) ELSE {})
  /\ told'[g, t] = FALSE /\ SameMail(g, {t})
BroadcastDoes(g, t) ==
  /\ Where(g, t) = "broadcast" /\ BroadcastTells(g, t)
  /\ Moves(g, t, IF todo'[g, t] = {} THEN AfterSend(t) ELSE "send")
  /\ SamePhase(g) /\ SameEntry(g) /\ SameUser(g) /\ SameConn(g)

SendTells(g, t, h) ==
  /\ h \in todo[g, t] /\ todo'[g, t] = todo[g, t] \ {h}
  /\ news' = IF Deliverable(h) /\ mapped[h]
             THEN [news EXCEPT ![h][sid[g]] = Message(g, t)] ELSE news
  /\ told'[g, t] = told[g, t] /\ SameMail(g, {t})
SendDoes(g, t, h) ==
  /\ Where(g, t) = "send" /\ SendTells(g, t, h)
  /\ Moves(g, t, IF todo'[g, t] = {} THEN AfterSend(t) ELSE "send")
  /\ SamePhase(g) /\ SameEntry(g) /\ SameUser(g) /\ SameConn(g)

FinalDoes(g, t) ==
  /\ t \in {"kick", "ban"} /\ Where(g, t) = "final" /\ Goes(g, t, "remove")
  /\ IF Bound(g) /\ mapped[g] THEN ConnClosed(g) ELSE ConnKept(g)
  /\ SamePhase(g) /\ SameEntry(g) /\ SameUser(g) /\ SameMail(g, {})

AbortSyncDoes(g, t) ==
  /\ t = "auth" /\ Where(g, t) = "abort" /\ Goes(g, t, "unregister")
  /\ IF mapped[g] THEN ConnClosed(g) ELSE ConnKept(g)
  /\ SamePhase(g) /\ SameEntry(g) /\ SameUser(g) /\ SameMail(g, {})

RemoveDoes(g, t) ==
  /\ Where(g, t) = "remove" /\ Moves(g, t, After(t, "remove"))
  /\ sid'[g] = sid[g] /\ ~Live(g)'
  /\ SamePhase(g) /\ SameEntry(g) /\ SameConn(g) /\ SameMail(g, {})

UnregisterTells(g, t) ==
  /\ told'[g, t] = (t = "drop" /\ FirstClose(g)) /\ todo'[g, t] = todo[g, t] /\ SameMail(g, {t})
UnregisterDoes(g, t) ==
  /\ Where(g, t) = "unregister" /\ Bound(g) /\ lock[g] = "free"
  /\ Moves(g, t, After(t, "unregister")) /\ UnregisterTells(g, t)
  /\ state'[g] = "Closing" /\ announced'[g] = announced[g] /\ lock'[g] = lock[g] /\ ~Bound(g)'
  /\ ~mapped'[g] /\ open'[g] = open[g] /\ SamePhase(g) /\ SameUser(g)

UnregisterStaleDoes(g, t) ==
  /\ Where(g, t) = "unregister" /\ ~Bound(g) /\ Moves(g, t, After(t, "unregister"))
  /\ SamePhase(g) /\ SameEntry(g) /\ SameUser(g) /\ SameConn(g) /\ SameMail(g, {})

ThreadDoes(g, t) ==
  \/ /\ UNCHANGED views
     /\ \/ CloseDoes(g, t) \/ HoldDoes(g, t) \/ HoldStaleDoes(g, t) \/ ReleaseDoes(g, t)
        \/ BroadcastDoes(g, t) \/ FinalDoes(g, t) \/ AbortSyncDoes(g, t) \/ RemoveDoes(g, t)
        \/ UnregisterDoes(g, t) \/ UnregisterStaleDoes(g, t)
  \/ /\ UNCHANGED base
     /\ \E h \in Gens : SendDoes(g, t, h)

-----------------------------------------------------------------------------
(* Every step is a step of one session.                                    *)

(* What is recorded of a kick or a ban.                                    *)
Reason(g, t) == IF t = "ban" /\ auth[g] = "bind" THEN "early" ELSE t
EndDoes(g) ==
  /\ UNCHANGED views
  /\ \/ \E t \in {"kick", "ban"} : StartDoes(g, t) /\ ends' = ends \cup {<<g, Reason(g, t)>>}
     \/ FailDoes(g) /\ ends' = ends \cup {<<g, "fail">>}
     \/ LeaveDoes(g) /\ ends' = ends \cup {<<g, "leave">>}

StepOf(g) ==
  \/ AddDoes(g) /\ UNCHANGED <<base, news, ends>>
  \/ AuthDoes(g) /\ UNCHANGED ends
  \/ EndDoes(g)
  \/ \E t \in Threads : ThreadDoes(g, t) /\ UNCHANGED ends

=============================================================================
