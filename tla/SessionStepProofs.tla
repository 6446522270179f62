------------------------- MODULE SessionStepProofs -------------------------
(***************************************************************************)
(* What the steps of SessionLifecycle do, for any number of session IDs,   *)
(* generations and faults: each leaves all sessions but one as they were,  *)
(* and has one of the effects of SessionSteps on that one (NextDoes).      *)
(* Types and the order of creation are kept (Shape).                       *)
(***************************************************************************)
EXTENDS SessionSteps, TLAPS

USE DEF registry, views, threads

-----------------------------------------------------------------------------
(* The paths: what a thread can have left to do, and what follows a step.  *)

LEMMA Prepend3 == ASSUME NEW a, NEW b, NEW c, NEW d PROVE <<a>> \o <<b, c, d>> = <<a, b, c, d>>
<1> DEFINE S == {a, b, c, d}  q == <<a>> \o <<b, c, d>>  r == <<a, b, c, d>>
<1>1. <<a>> \in Seq(S) /\ <<b, c, d>> \in Seq(S)
  OBVIOUS
<1>2. q \in Seq(S) /\ Len(q) = 4 /\ q[1] = a /\ q[2] = b /\ q[3] = c /\ q[4] = d
  BY <1>1
<1>3. r \in Seq(S) /\ Len(r) = 4 /\ r[1] = a /\ r[2] = b /\ r[3] = c /\ r[4] = d
  OBVIOUS
<1>4. q = r
  <2> HIDE DEF q, r, S
  <2>1. \A i \in 1 .. 4 : q[i] = r[i]
    BY <1>2, <1>3
  <2>2. q = [i \in 1 .. 4 |-> q[i]] /\ r = [i \in 1 .. 4 |-> r[i]]
    BY <1>2, <1>3
  <2> QED  BY <2>1, <2>2, Zenon
<1> QED  BY <1>4, Zenon

LEMMA Prepend4 ==
  ASSUME NEW a, NEW b, NEW c, NEW d, NEW e PROVE <<a>> \o <<b, c, d, e>> = <<a, b, c, d, e>>
<1> DEFINE S == {a, b, c, d, e}  q == <<a>> \o <<b, c, d, e>>  r == <<a, b, c, d, e>>
<1>1. <<a>> \in Seq(S) /\ <<b, c, d, e>> \in Seq(S)
  OBVIOUS
<1>2. q \in Seq(S) /\ Len(q) = 5 /\ q[1] = a /\ q[2] = b /\ q[3] = c /\ q[4] = d /\ q[5] = e
  BY <1>1
<1>3. r \in Seq(S) /\ Len(r) = 5 /\ r[1] = a /\ r[2] = b /\ r[3] = c /\ r[4] = d /\ r[5] = e
  OBVIOUS
<1>4. q = r
  <2> HIDE DEF q, r, S
  <2>1. \A i \in 1 .. 5 : q[i] = r[i]
    BY <1>2, <1>3
  <2>2. q = [i \in 1 .. 5 |-> q[i]] /\ r = [i \in 1 .. 5 |-> r[i]]
    BY <1>2, <1>3
  <2> QED  BY <2>1, <2>2, Zenon
<1> QED  BY <1>4, Zenon

LEMMA LastTwo ==
  ASSUME NEW a, NEW b, NEW c, NEW d, NEW e
  PROVE  SubSeq(<<a, b, c, d, e>>, 4, Len(<<a, b, c, d, e>>)) = <<d, e>>
<1> DEFINE S == {a, b, c, d, e}  p == <<a, b, c, d, e>>  q == SubSeq(p, 4, 5)  r == <<d, e>>
<1>1. p \in Seq(S) /\ Len(p) = 5
  OBVIOUS
<1>2. q \in Seq(S) /\ Len(q) = 2 /\ q[1] = d /\ q[2] = e
  BY <1>1
<1>3. r \in Seq(S) /\ Len(r) = 2 /\ r[1] = d /\ r[2] = e
  OBVIOUS
<1>4. q = r
  <2> HIDE DEF q, r, S
  <2>1. \A i \in 1 .. 2 : q[i] = r[i]
    BY <1>2, <1>3
  <2>2. q = [i \in 1 .. 2 |-> q[i]] /\ r = [i \in 1 .. 2 |-> r[i]]
    BY <1>2, <1>3
  <2> QED  BY <2>1, <2>2, Zenon
<1> QED  BY <1>1, <1>4, Zenon

LEMMA PathStarts ==
  ASSUME NEW t \in Threads
  PROVE  /\ Path(t) \in Rests(t) /\ <<>> \in Rests(t) /\ Pos(<<>>) = "end"
         /\ t \in {"kick", "fail"} => Pos(Path(t)) = "hold"
         /\ t = "ban" => Pos(Path(t)) = "close"
         /\ t = "drop" => Pos(Path(t)) = "unregister"
         /\ t = "auth" => Pos(Path(t)) = "abort"
         /\ <<"broadcast">> \in Rests("auth") /\ Pos(<<"broadcast">>) = "broadcast"
  BY DEF Threads, Path, Rests, Pos

(* A step of a path leads to the next; only some threads take a step.      *)
Walks(t, q) ==
  /\ Tail(q) \in Rests(t) /\ Pos(Tail(q)) = After(t, Head(q))
  /\ Pos(q) = Head(q) /\ Head(q) # "end"
  /\ Head(q) \in {"hold", "release"} => t \in {"kick", "fail"}
  /\ Head(q) = "close" => t = "ban"
  /\ Head(q) = "final" => t \in {"kick", "ban"}
  /\ Head(q) = "abort" => t = "auth"
  /\ Head(q) = "broadcast" =>
       /\ <<"send">> \o Tail(q) \in Rests(t) /\ Pos(<<"send">> \o Tail(q)) = "send"
       /\ <<>> \o Tail(q) = Tail(q)

LEMMA PathWalks == ASSUME NEW t \in Threads, NEW q \in Rests(t), q # <<>> PROVE Walks(t, q)
<1> USE DEF Walks, Pos, After, AfterSend
<1>1. CASE t = "kick"
  <2>1. CASE q = <<"hold", "broadcast", "release", "final", "remove", "unregister">>
    BY <1>1, <2>1 DEF Rests
  <2>2. CASE q = <<"broadcast", "release", "final", "remove", "unregister">>
    BY <1>1, <2>2, Prepend4 DEF Rests
  <2>3. CASE q = <<"send", "release", "final", "remove", "unregister">>
    BY <1>1, <2>3 DEF Rests
  <2>4. CASE q = <<"release", "final", "remove", "unregister">>
    BY <1>1, <2>4 DEF Rests
  <2>5. CASE q = <<"final", "remove", "unregister">>
    BY <1>1, <2>5 DEF Rests
  <2>6. CASE q = <<"remove", "unregister">>
    BY <1>1, <2>6 DEF Rests
  <2>7. CASE q = <<"unregister">>
    BY <1>1, <2>7 DEF Rests
  <2> QED  BY <1>1, <2>1, <2>2, <2>3, <2>4, <2>5, <2>6, <2>7, Zenon DEF Rests
<1>2. CASE t = "ban"
  <2>1. CASE q = <<"close", "broadcast", "final", "remove", "unregister">>
    BY <1>2, <2>1 DEF Rests
  <2>2. CASE q = <<"broadcast", "final", "remove", "unregister">>
    BY <1>2, <2>2, Prepend3 DEF Rests
  <2>3. CASE q = <<"send", "final", "remove", "unregister">>
    BY <1>2, <2>3 DEF Rests
  <2>4. CASE q = <<"final", "remove", "unregister">>
    BY <1>2, <2>4 DEF Rests
  <2>5. CASE q = <<"remove", "unregister">>
    BY <1>2, <2>5 DEF Rests
  <2>6. CASE q = <<"unregister">>
    BY <1>2, <2>6 DEF Rests
  <2> QED  BY <1>2, <2>1, <2>2, <2>3, <2>4, <2>5, <2>6, Zenon DEF Rests
<1>3. CASE t = "fail"
  <2>1. CASE q = <<"hold", "broadcast", "release", "unregister", "remove">>
    BY <1>3, <2>1 DEF Rests
  <2>2. CASE q = <<"broadcast", "release", "unregister", "remove">>
    BY <1>3, <2>2, Prepend3 DEF Rests
  <2>3. CASE q = <<"send", "release", "unregister", "remove">>
    BY <1>3, <2>3 DEF Rests
  <2>4. CASE q = <<"release", "unregister", "remove">>
    BY <1>3, <2>4 DEF Rests
  <2>5. CASE q = <<"unregister", "remove">>
    BY <1>3, <2>5 DEF Rests
  <2>6. CASE q = <<"remove">>
    BY <1>3, <2>6 DEF Rests
  <2> QED  BY <1>3, <2>1, <2>2, <2>3, <2>4, <2>5, <2>6, Zenon DEF Rests
<1>4. CASE t = "drop"
  <2>1. CASE q = <<"unregister", "remove", "broadcast">>
    BY <1>4, <2>1 DEF Rests
  <2>2. CASE q = <<"remove", "broadcast">>
    BY <1>4, <2>2 DEF Rests
  <2>3. CASE q = <<"broadcast">>
    BY <1>4, <2>3 DEF Rests
  <2>4. CASE q = <<"send">>
    BY <1>4, <2>4 DEF Rests
  <2> QED  BY <1>4, <2>1, <2>2, <2>3, <2>4, Zenon DEF Rests
<1>5. CASE t = "auth"
  <2>1. CASE q = <<"abort", "unregister", "remove">>
    BY <1>5, <2>1 DEF Rests
  <2>2. CASE q = <<"unregister", "remove">>
    BY <1>5, <2>2 DEF Rests
  <2>3. CASE q = <<"remove">>
    BY <1>5, <2>3 DEF Rests
  <2>4. CASE q = <<"broadcast">>
    BY <1>5, <2>4 DEF Rests
  <2>5. CASE q = <<"send">>
    BY <1>5, <2>5 DEF Rests
  <2> QED  BY <1>5, <2>1, <2>2, <2>3, <2>4, <2>5, Zenon DEF Rests
<1> QED  BY <1>1, <1>2, <1>3, <1>4, <1>5, Zenon DEF Threads

LEMMA PathSkips ==
  ASSUME NEW q \in Rests("fail"), q # <<>>, Head(q) = "hold"
  PROVE  /\ SubSeq(q, 4, Len(q)) \in Rests("fail")
         /\ Pos(SubSeq(q, 4, Len(q))) = "unregister"
<1>1. q = <<"hold", "broadcast", "release", "unregister", "remove">>
  BY DEF Rests
<1> QED  BY <1>1, LastTwo DEF Rests, Pos

-----------------------------------------------------------------------------
(* Types, and where a thread is.                                           *)

LEMMA GensAre == Gens \subseteq Nat /\ NoGen \notin Gens /\ NoNews \notin Gens
                 /\ \A n : n \in 0 .. MaxGen /\ n # NoGen <=> n \in Gens
  BY MaxGenAssumption DEF Gens, NoGen, NoNews

LEMMA GensAmong == NoGen \in 0 .. MaxGen /\ \A g \in Gens : g \in 0 .. MaxGen
  BY MaxGenAssumption DEF Gens, NoGen

LEMMA InitType == Init => TypeOK
<1> SUFFICES ASSUME Init PROVE TypeOK
  OBVIOUS
<1>1. SessionType
  BY MaxGenAssumption
  DEF Init, SessionType, States, Phases, Pairs, NoGen, Threads
<1>2. RestType
  BY PathStarts, Zenon DEF Init, RestType, Pairs
<1>3. ViewType
  BY MaxGenAssumption DEF Init, ViewType, NoGen, NoNews
<1> QED  BY <1>1, <1>2, <1>3, Zenon DEF TypeOK

LEMMA WhereAt ==
  ASSUME RestType, NEW g \in Gens, NEW t \in Threads
  PROVE  /\ rest[g, t] = <<>> <=> Where(g, t) = "end"
         /\ \A s : At(g, t, s) => Where(g, t) = s /\ s # "end" /\ Walks(t, rest[g, t])
<1>1. rest[g, t] \in Rests(t)
  BY Zenon DEF RestType
<1>2. rest[g, t] # <<>> => Walks(t, rest[g, t])
  BY <1>1, PathWalks, Zenon
<1> QED  BY <1>2, Zenon DEF Where, Pos, At, Walks

(* Who takes a step, and where it leads.                                   *)
Takes(t, s) ==
  /\ s = "close" => t = "ban" /\ After(t, "close") = "broadcast"
  /\ s = "hold" => t \in {"kick", "fail"} /\ After(t, "hold") = "broadcast"
  /\ s = "release" => /\ t \in {"kick", "fail"}
                      /\ After(t, "release") = IF t = "kick" THEN "final" ELSE "unregister"
  /\ s = "final" => /\ t \in {"kick", "ban"} /\ t \in Threads \ {"drop"}
                    /\ After(t, "final") = "remove"
  /\ s = "abort" => /\ t = "auth" /\ t \in Threads \ {"drop"}
                    /\ After(t, "abort") = "unregister"

LEMMA TakesStep ==
  ASSUME RestType, NEW g \in Gens, NEW t \in Threads, NEW s, At(g, t, s)
  PROVE  Where(g, t) = s /\ Takes(t, s)
<1>1. Where(g, t) = s /\ Head(rest[g, t]) = s /\ Walks(t, rest[g, t])
  BY WhereAt, Zenon DEF At
<1>2. ASSUME NEW q, Walks(t, q), Head(q) = s PROVE Takes(t, s)
  BY <1>2, Zenon DEF Takes, Walks, After, Threads
<1> QED  BY <1>1, <1>2, Zenon

LEMMA Gotos ==
  ASSUME RestType, NEW g \in Gens, NEW t \in Threads, NEW q \in Rests(t), Goto(g, t, q)
  PROVE  /\ RestType' /\ rest'[g, t] = q /\ Stay(g, {t})
         /\ \A h \in Gens \ {g} : Stay(h, {})
<1>1. /\ rest' = [x \in Pairs |-> rest'[x]] /\ rest'[<<g, t>>] = q
      /\ \A x \in Pairs : x # <<g, t>> => rest'[x] = rest[x]
  BY Zenon DEF Goto, RestType, Pairs
<1>2. \A h \in Gens, u \in Threads : <<h, u>> \in Pairs /\ (<<h, u>> = <<g, t>> <=> h = g /\ u = t)
  BY Zenon DEF Pairs
<1>3. \A h \in Gens, u \in Threads : h # g \/ u # t => rest'[h, u] = rest[h, u]
  BY <1>1, <1>2, Zenon
<1> QED  BY <1>1, <1>3, Zenon DEF RestType, Stay, Where

LEMMA Advances ==
  ASSUME RestType, NEW g \in Gens, NEW t \in Threads, NEW s, At(g, t, s), Advance(g, t)
  PROVE  /\ RestType' /\ Where(g, t)' = After(t, s) /\ Stay(g, {t})
         /\ \A h \in Gens \ {g} : Stay(h, {})
<1>1. Walks(t, rest[g, t]) /\ Head(rest[g, t]) = s
  BY WhereAt, Zenon DEF At
<1>2. Tail(rest[g, t]) \in Rests(t) /\ Pos(Tail(rest[g, t])) = After(t, s)
  BY <1>1, Zenon DEF Walks
<1> QED  BY <1>2, Gotos, Zenon DEF Advance, Where

(* A connection is closed ...                                              *)
LEMMA Closes ==
  ASSUME RestType, SessionType, NEW g \in Gens, CloseConn(g, rest)
  PROVE  /\ RestType' /\ Stay(g, {"drop"})
         /\ Where(g, "drop")' = IF open[g] THEN "unregister" ELSE Where(g, "drop")
         /\ \A h \in Gens \ {g} : Stay(h, {})
<1>1. "drop" \in Threads /\ Path("drop") \in Rests("drop") /\ Pos(Path("drop")) = "unregister"
  BY PathStarts, Zenon DEF Threads
<1>2. CASE open[g]
  BY <1>1, <1>2, Gotos, Zenon DEF CloseConn, Goto, Where
<1>3. CASE ~open[g]
  BY <1>3, Zenon DEF CloseConn, RestType, Stay, Where
<1> QED  BY <1>2, <1>3, Zenon

(* ... and thread t goes on with q.                                        *)
LEMMA ClosesAndGoes ==
  ASSUME RestType, SessionType, NEW g \in Gens, NEW t \in Threads \ {"drop"},
         NEW q \in Rests(t), CloseConn(g, [rest EXCEPT ![<<g, t>>] = q])
  PROVE  /\ RestType' /\ Stay(g, {t, "drop"}) /\ rest'[g, t] = q
         /\ Where(g, "drop")' = IF open[g] THEN "unregister" ELSE Where(g, "drop")
         /\ \A h \in Gens \ {g} : Stay(h, {})
<1>1. "drop" \in Threads /\ Path("drop") \in Rests("drop") /\ Pos(Path("drop")) = "unregister"
  BY PathStarts, Zenon DEF Threads
<1>2. CASE open[g]
  <2>1. rest' = [[rest EXCEPT ![<<g, t>>] = q] EXCEPT ![<<g, "drop">>] = Path("drop")]
    BY <1>2, Zenon DEF CloseConn
  <2>2. \A h \in Gens, u \in Threads :
          /\ <<h, u>> \in Pairs /\ (<<h, u>> = <<g, t>> <=> h = g /\ u = t)
          /\ <<h, u>> = <<g, "drop">> <=> h = g /\ u = "drop"
    BY Zenon DEF Pairs
  <2>3. /\ rest' = [x \in Pairs |-> rest'[x]]
        /\ rest'[<<g, t>>] = q /\ rest'[<<g, "drop">>] = Path("drop")
        /\ \A x \in Pairs : x # <<g, t>> /\ x # <<g, "drop">> => rest'[x] = rest[x]
    BY <1>1, <2>1, <2>2, Zenon DEF RestType
  <2>4. \A h \in Gens, u \in Threads : h # g \/ u \notin {t, "drop"} => rest'[h, u] = rest[h, u]
    BY <2>2, <2>3, Zenon
  <2> QED  BY <1>1, <1>2, <2>3, <2>4, Zenon DEF RestType, Stay, Where
<1>3. CASE ~open[g]
  <2>1. Goto(g, t, q)
    BY <1>3, Zenon DEF CloseConn, Goto
  <2> QED  BY <1>1, <1>3, <2>1, Gotos, ZenonT(30) DEF Stay, Where
<1> QED  BY <1>2, <1>3, Zenon

-----------------------------------------------------------------------------
(* Users and entries: a change of one session leaves the others theirs.    *)
LEMMA UsersStay == ASSUME UNCHANGED <<sid, users>>, NEW g PROVE SameUser(g)
  BY Zenon DEF SameUser, Live
LEMMA EntriesStay == ASSUME UNCHANGED <<sid, entries>>, NEW g PROVE Bound(g)' <=> Bound(g)
  BY Zenon DEF Bound

LEMMA UserRemoved ==
  ASSUME SessionType, NEW g \in Gens, sid[g] \in SIDs, UNCHANGED sid,
         users' = [users EXCEPT ![sid[g]] = IF @ = g THEN NoGen ELSE @]
  PROVE  sid'[g] = sid[g] /\ ~Live(g)' /\ \A h \in Gens \ {g} : SameUser(h)
<1>1. sid \in [Gens -> SIDs \cup {NoSID}] /\ users \in [SIDs -> 0 .. MaxGen]
  BY Zenon DEF SessionType
<1> QED  BY <1>1, GensAre, SIDsAssumption DEF Live, SameUser

LEMMA EntryRemoved ==
  ASSUME SessionType, NEW g \in Gens, sid[g] \in SIDs, UNCHANGED sid,
         \/ entries' = [entries EXCEPT ![sid[g]] = IF @ = g THEN NoGen ELSE @]
         \/ Bound(g) /\ entries' = [entries EXCEPT ![sid[g]] = NoGen]
  PROVE  ~Bound(g)' /\ \A h \in Gens \ {g} : Bound(h)' <=> Bound(h)
<1>1. sid \in [Gens -> SIDs \cup {NoSID}] /\ entries \in [SIDs -> 0 .. MaxGen]
  BY Zenon DEF SessionType
<1> QED  BY <1>1, GensAre, SIDsAssumption DEF Bound

LEMMA EntryAdded ==
  ASSUME SessionType, NEW g \in Gens, sid[g] \in SIDs, UNCHANGED sid,
         entries[sid[g]] = NoGen, entries' = [entries EXCEPT ![sid[g]] = g]
  PROVE  Bound(g)' /\ \A h \in Gens \ {g} : Bound(h)' <=> Bound(h)
<1>1. sid \in [Gens -> SIDs \cup {NoSID}] /\ entries \in [SIDs -> 0 .. MaxGen]
  BY Zenon DEF SessionType
<1> QED  BY <1>1, GensAre, SIDsAssumption, Zenon DEF Bound

(* A step of session g writes to nothing that is indexed by another.       *)
AtMost(new, old, g) == new = old \/ \E y : new = [old EXCEPT ![g] = y]
AtMostOne(new, old, g) == new = old \/ \E t \in Threads : \E y : new = [old EXCEPT ![<<g, t>>] = y]

LEMMA Framing ==
  ASSUME SessionType, NEW g \in Gens,
         AtMost(auth', auth, g), AtMost(roster', roster, g), AtMost(state', state, g),
         AtMost(announced', announced, g), AtMost(lock', lock, g),
         AtMost(mapped', mapped, g), AtMost(open', open, g),
         AtMostOne(told', told, g), AtMostOne(todo', todo, g),
         \A h \in Gens \ {g} : Stay(h, {}) /\ SameUser(h) /\ (Bound(h)' <=> Bound(h))
  PROVE  Others(g)
<1> SUFFICES ASSUME NEW h \in Gens \ {g} PROVE SameSession(h)
  BY Zenon DEF Others
<1>1. SamePhase(h)
  BY Zenon DEF SessionType, AtMost, SamePhase
<1>2. SameEntry(h)
  BY DEF SessionType, AtMost, SameEntry
<1>3. SameConn(h)
  BY DEF SessionType, AtMost, SameConn
<1>4. SameMail(h, {})
  <2> SUFFICES ASSUME NEW t \in Threads
               PROVE  told'[<<h, t>>] = told[<<h, t>>] /\ todo'[<<h, t>>] = todo[<<h, t>>]
    BY Zenon DEF SameMail
  <2>1. <<h, t>> \in Pairs /\ \A u : <<h, t>> # <<g, u>>
    BY Zenon DEF Pairs
  <2>2. told \in [Pairs -> BOOLEAN] /\ todo \in [Pairs -> SUBSET Gens]
    BY Zenon DEF SessionType
  <2> QED  BY <2>1, <2>2, Zenon DEF AtMostOne
<1> QED  BY <1>1, <1>2, <1>3, <1>4, Zenon DEF SameSession, SameThreads

LEMMA Unmoved ==
  ASSUME UNCHANGED rest, NEW g PROVE Stay(g, {}) /\ \A t : Where(g, t)' = Where(g, t)
  BY Zenon DEF Stay, Where

LEMMA Unsent == ASSUME UNCHANGED <<told, todo>>, NEW g, NEW T PROVE SameMail(g, T)
  BY Zenon DEF SameMail

LEMMA ToldSet ==
  ASSUME SessionType, NEW g \in Gens, NEW t \in Threads, NEW y,
         told' = [told EXCEPT ![<<g, t>>] = y]
  PROVE  told'[g, t] = y /\ \A u \in Threads \ {t} : told'[g, u] = told[g, u]
<1>1. told \in [Pairs -> BOOLEAN]
  BY Zenon DEF SessionType
<1>2. <<g, t>> \in Pairs /\ \A u \in Threads \ {t} : <<g, u>> \in Pairs /\ <<g, u>> # <<g, t>>
  BY Zenon DEF Pairs
<1> QED  BY <1>1, <1>2, Zenon

LEMMA TodoSet ==
  ASSUME SessionType, NEW g \in Gens, NEW t \in Threads, NEW y,
         todo' = [todo EXCEPT ![<<g, t>>] = y]
  PROVE  todo'[g, t] = y /\ \A u \in Threads \ {t} : todo'[g, u] = todo[g, u]
<1>1. todo \in [Pairs -> SUBSET Gens]
  BY Zenon DEF SessionType
<1>2. <<g, t>> \in Pairs /\ \A u \in Threads \ {t} : <<g, u>> \in Pairs /\ <<g, u>> # <<g, t>>
  BY Zenon DEF Pairs
<1> QED  BY <1>1, <1>2, Zenon

LEMMA Unwritten ==
  ASSUME NEW v, NEW g, NEW y, NEW t \in Threads
  PROVE  /\ AtMost(v, v, g) /\ AtMost([v EXCEPT ![g] = y], v, g)
         /\ AtMostOne(v, v, g) /\ AtMostOne([v EXCEPT ![<<g, t>>] = y], v, g)
  BY Zenon DEF AtMost, AtMostOne

LEMMA Created ==
  ASSUME Shape, NEW g \in Gens
  PROVE  /\ auth[g] # "none" => sid[g] \in SIDs
         /\ \A t \in Threads : Where(g, t) # "end" => sid[g] \in SIDs /\ auth[g] # "none"
         /\ Live(g) \/ Bound(g) => sid[g] \in SIDs /\ auth[g] # "none"
<1>1. sid[g] \in SIDs \cup {NoSID}
  BY Zenon DEF Shape, TypeOK, SessionType
<1> QED  BY <1>1, Zenon DEF Shape, CreatedInv, Live, Bound

-----------------------------------------------------------------------------
(* The steps of the authentication handler.                                *)

LEMMA BindEffect ==
  ASSUME Shape, NEW g \in Gens, Bind(g) PROVE Others(g) /\ BindDoes(g)
<1>1. /\ auth[g] = "bind" /\ entries[sid[g]] = NoGen
      /\ entries' = [entries EXCEPT ![sid[g]] = g]
      /\ state' = [state EXCEPT ![g] = "Syncing"] /\ auth' = [auth EXCEPT ![g] = "begin"]
      /\ UNCHANGED <<sid, users, announced, lock, mapped, open, roster, rest, told, todo>>
  BY Zenon DEF Bind
<1>2. SessionType /\ sid[g] \in SIDs /\ auth \in [Gens -> Phases] /\ state \in [Gens -> States]
  BY <1>1, Created, Zenon DEF Shape, TypeOK, SessionType
<1>3. Bound(g)' /\ \A h \in Gens \ {g} : Bound(h)' <=> Bound(h)
  BY <1>1, <1>2, EntryAdded, Zenon
<1>4. Others(g)
  BY <1>1, <1>2, <1>3, Framing, UsersStay, Unmoved, Unwritten, Zenon DEF Threads
<1>5. auth'[g] = "begin" /\ state'[g] = "Syncing"
  BY <1>1, <1>2, Zenon
<1>6. BindDoes(g)
  BY <1>1, <1>3, <1>5, UsersStay, Unmoved, Unsent, Zenon DEF BindDoes, SameConn, SameThreads
<1> QED  BY <1>4, <1>6, Zenon

LEMMA PhaseEffect ==
  ASSUME Shape, NEW g \in Gens,
         \/ BindRefused(g) \/ RegisterConnOnly(g) \/ SnapshotAll(g)
         \/ (CryptSetup(g) /\ open[g])
  PROVE  Others(g) /\ PhaseDoes(g) /\ UNCHANGED views
<1>1. /\ UNCHANGED <<sid, users, entries, state, announced, lock, mapped, open, rest, told, todo>>
      /\ UNCHANGED views
  BY Zenon DEF BindRefused, RegisterConnOnly, SnapshotAll, CryptSetup
<1>2. SessionType /\ auth \in [Gens -> Phases] /\ roster \in [Gens -> SUBSET Gens]
      /\ sid \in [Gens -> SIDs \cup {NoSID}]
  BY Zenon DEF Shape, TypeOK, SessionType
<1>3. \/ auth[g] = "bind" /\ auth' = [auth EXCEPT ![g] = "refused"] /\ UNCHANGED roster
      \/ auth[g] = "register" /\ auth' = [auth EXCEPT ![g] = "snapshot"] /\ UNCHANGED roster
      \/ auth[g] = "snapshot" /\ auth' = [auth EXCEPT ![g] = "roster"]
         /\ roster' = [roster EXCEPT ![g] = {users[s] : s \in SIDs \ {sid[g]}} \ {NoGen}]
      \/ auth[g] = "crypt" /\ auth' = [auth EXCEPT ![g] = "register"] /\ UNCHANGED roster
  BY Zenon DEF BindRefused, RegisterConnOnly, SnapshotAll, CryptSetup
<1>4. AtMost(auth', auth, g) /\ AtMost(roster', roster, g)
  BY <1>3, Zenon DEF AtMost
<1>5. Others(g)
  BY <1>1, <1>2, <1>4, Framing, UsersStay, EntriesStay, Unmoved, Unwritten, Zenon DEF Threads
<1>6. SameEntry(g) /\ SameUser(g) /\ SameConn(g) /\ SameThreads(g, {})
  BY <1>1, UsersStay, EntriesStay, Unmoved, Unsent, Zenon DEF SameEntry, SameConn, SameThreads
<1>7. \/ auth[g] = "bind" /\ auth'[g] = "refused" /\ roster'[g] = roster[g]
      \/ auth[g] = "crypt" /\ auth'[g] = "register" /\ roster'[g] = roster[g]
      \/ auth[g] = "register" /\ auth'[g] = "snapshot" /\ roster'[g] = roster[g]
      \/ /\ auth[g] = "snapshot" /\ auth'[g] = "roster"
         /\ roster'[g] = {users[s] : s \in SIDs \ {sid[g]}} \ {NoGen}
  BY <1>2, <1>3, Zenon
<1>8. roster'[g] = {users[s] : s \in SIDs \ {sid[g]}} \ {NoGen}
        => \A h \in Gens : Live(h) /\ sid[h] # sid[g] => h \in roster'[g]
  BY <1>2, GensAre, Zenon DEF Live
<1>9. PhaseDoes(g)
  BY <1>6, <1>7, <1>8, Zenon DEF PhaseDoes
<1> QED  BY <1>1, <1>5, <1>9, Zenon

LEMMA BeginEffect ==
  ASSUME Shape, NEW g \in Gens, BeginSync(g) PROVE Others(g) /\ BeginDoes(g)
<1>1. /\ auth[g] = "begin" /\ Bound(g) /\ state[g] = "Syncing"
      /\ mapped' = [mapped EXCEPT ![g] = TRUE] /\ auth' = [auth EXCEPT ![g] = "crypt"]
      /\ UNCHANGED <<sid, users, entries, state, announced, lock, open, roster, rest, told, todo>>
  BY Zenon DEF BeginSync
<1>2. SessionType /\ auth \in [Gens -> Phases] /\ mapped \in [Gens -> BOOLEAN]
  BY Zenon DEF Shape, TypeOK, SessionType
<1>3. Others(g)
  BY <1>1, <1>2, Framing, UsersStay, EntriesStay, Unmoved, Unwritten, Zenon DEF Threads
<1>4. auth'[g] = "crypt" /\ mapped'[g] = TRUE
  BY <1>1, <1>2, Zenon
<1> QED  BY <1>1, <1>3, <1>4, UsersStay, EntriesStay, Unmoved, Unsent, Zenon
            DEF BeginDoes, SameEntry, SameThreads

LEMMA BeginRefusedEffect ==
  ASSUME Shape, NEW g \in Gens, BeginSyncRefused(g) PROVE Others(g) /\ BeginRefusedDoes(g)
<1>1. /\ auth[g] = "begin" /\ ~(Bound(g) /\ state[g] = "Syncing")
      /\ entries' = [entries EXCEPT ![sid[g]] = IF @ = g THEN NoGen ELSE @]
      /\ auth' = [auth EXCEPT ![g] = "refused"]
      /\ UNCHANGED <<sid, users, state, announced, lock, mapped, open, roster, rest, told, todo>>
  BY Zenon DEF BeginSyncRefused
<1>2. SessionType /\ auth \in [Gens -> Phases] /\ sid[g] \in SIDs
  BY <1>1, Created, Zenon DEF Shape, TypeOK, SessionType
<1>3. ~Bound(g)' /\ \A h \in Gens \ {g} : Bound(h)' <=> Bound(h)
  BY <1>1, <1>2, EntryRemoved, Zenon
<1>4. Others(g)
  BY <1>1, <1>2, <1>3, Framing, UsersStay, Unmoved, Unwritten, Zenon DEF Threads
<1>5. auth'[g] = "refused"
  BY <1>1, <1>2, Zenon
<1> QED  BY <1>1, <1>3, <1>4, <1>5, UsersStay, Unmoved, Unsent, Zenon
            DEF BeginRefusedDoes, SameConn, SameThreads

LEMMA RejectEffect ==
  ASSUME Shape, NEW g \in Gens, Reject(g) PROVE Others(g) /\ RejectDoes(g)
<1>1. /\ auth[g] = "refused" /\ auth' = [auth EXCEPT ![g] = "ended"]
      /\ users' = [users EXCEPT ![sid[g]] = IF @ = g THEN NoGen ELSE @]
      /\ CloseConn(g, rest) /\ open' = [open EXCEPT ![g] = FALSE]
      /\ UNCHANGED <<sid, entries, state, announced, lock, mapped, roster, told, todo>>
  BY Zenon DEF Reject, CloseConn
<1>2. SessionType /\ RestType /\ auth \in [Gens -> Phases] /\ sid[g] \in SIDs
      /\ open \in [Gens -> BOOLEAN]
  BY <1>1, Created, Zenon DEF Shape, TypeOK, SessionType
<1>3. sid'[g] = sid[g] /\ ~Live(g)' /\ \A h \in Gens \ {g} : SameUser(h)
  BY <1>1, <1>2, UserRemoved, Zenon
<1>4. Stay(g, {"drop"}) /\ Dropped(g) /\ \A h \in Gens \ {g} : Stay(h, {})
  BY <1>1, <1>2, Closes, Zenon DEF Dropped
<1>5. Others(g)
  BY <1>1, <1>2, <1>3, <1>4, Framing, EntriesStay, Unwritten, Zenon DEF Threads
<1>6. auth'[g] = "ended" /\ open'[g] = FALSE
  BY <1>1, <1>2, Zenon
<1> QED  BY <1>1, <1>3, <1>4, <1>5, <1>6, EntriesStay, Unsent, Zenon DEF RejectDoes, SameEntry

LEMMA AbortEffect ==
  ASSUME Shape, NEW g \in Gens,
         \/ (CryptSetup(g) /\ ~open[g]) \/ CommitFails(g)
         \/ \E h \in Gens : SendRoster(g, h) /\ Abort(g) /\ UNCHANGED base
  PROVE  Others(g) /\ AbortDoes(g) /\ UNCHANGED views
<1>1. /\ auth[g] \in {"crypt", "roster"} /\ auth' = [auth EXCEPT ![g] = "ended"]
      /\ Goto(g, "auth", Path("auth")) /\ AtMost(roster', roster, g)
      /\ UNCHANGED <<sid, users, entries, state, announced, lock, mapped, open, told, todo>>
      /\ UNCHANGED views
  <2>1. CASE CryptSetup(g) /\ ~open[g]
    BY <2>1, Zenon DEF CryptSetup, Abort, AtMost
  <2>2. CASE CommitFails(g)
    BY <2>2, Zenon DEF CommitFails, Abort, AtMost
  <2>3. ASSUME NEW h \in Gens, SendRoster(g, h), Abort(g), UNCHANGED base
        PROVE  <1>1!:
    BY <2>3, Zenon DEF SendRoster, Abort, AtMost
  <2> QED  BY <2>1, <2>2, <2>3, Zenon
<1>2. SessionType /\ RestType /\ auth \in [Gens -> Phases]
  BY Zenon DEF Shape, TypeOK, SessionType
<1>3. "auth" \in Threads /\ Path("auth") \in Rests("auth") /\ Pos(Path("auth")) = "abort"
  BY PathStarts, Zenon DEF Threads
<1>4. /\ Stay(g, {"auth"}) /\ Where(g, "auth")' = "abort"
      /\ \A h \in Gens \ {g} : Stay(h, {})
  BY <1>1, <1>2, <1>3, Gotos, Zenon DEF Where
<1>5. Others(g)
  BY <1>1, <1>2, <1>4, Framing, UsersStay, EntriesStay, Unwritten, Zenon DEF Threads
<1>6. auth'[g] = "ended"
  BY <1>1, <1>2, Zenon
<1> QED  BY <1>1, <1>4, <1>5, <1>6, UsersStay, EntriesStay, Unsent, Zenon
            DEF AbortDoes, SameEntry, SameConn

LEMMA RosterEffect ==
  ASSUME Shape, NEW g \in Gens, NEW h \in Gens, SendRoster(g, h)
  PROVE  /\ Others(g) /\ UNCHANGED news
         /\ RosterDoes(g) \/ (AbortDoes(g) /\ UNCHANGED base)
<1>1. /\ auth[g] = "roster" /\ h \in roster[g] /\ roster' = [roster EXCEPT ![g] = @ \ {h}]
      /\ UNCHANGED <<sid, users, entries, state, announced, lock, mapped, open, news, told, todo>>
  BY Zenon DEF SendRoster
<1>2. SessionType /\ roster \in [Gens -> SUBSET Gens]
  BY Zenon DEF Shape, TypeOK, SessionType
<1>3. CASE /\ UNCHANGED <<auth, rest>>
           /\ IF Active(h) THEN MayInitial(g) /\ base' = [base EXCEPT ![g][sid[h]] = h]
                           ELSE UNCHANGED base
  <2>1. Others(g)
    BY <1>1, <1>2, <1>3, Framing, UsersStay, EntriesStay, Unmoved, Unwritten, Zenon DEF Threads
  <2>2. roster'[g] = roster[g] \ {h}
    BY <1>1, <1>2, Zenon
  <2>3. RosterDoes(g)
    BY <1>1, <1>3, <2>2, UsersStay, EntriesStay, Unmoved, Unsent, Zenon
    DEF RosterDoes, SameEntry, SameConn, SameThreads
  <2> QED  BY <1>1, <2>1, <2>3, Zenon
<1>4. CASE Abort(g) /\ UNCHANGED base
  BY <1>1, <1>4, AbortEffect, Zenon
<1>5. <1>3!1 \/ <1>4!1
  BY Zenon DEF SendRoster
<1> QED  BY <1>3, <1>4, <1>5, Zenon

LEMMA CommitEffect ==
  ASSUME Shape, NEW g \in Gens, Commit(g) PROVE Others(g) /\ CommitDoes(g)
<1>1. /\ auth[g] = "roster" /\ roster[g] = {} /\ MayInitial(g) /\ Bound(g) /\ lock[g] = "free"
      /\ state' = [state EXCEPT ![g] = "Active"] /\ lock' = [lock EXCEPT ![g] = "auth"]
      /\ auth' = [auth EXCEPT ![g] = "announce"] /\ Goto(g, "auth", <<"broadcast">>)
      /\ told' = [told EXCEPT ![<<g, "auth">>] = TRUE]
      /\ UNCHANGED <<sid, users, entries, announced, mapped, open, roster, todo>>
  BY Zenon DEF Commit, MayInitial, LockFree
<1>2. SessionType /\ RestType /\ auth \in [Gens -> Phases] /\ state \in [Gens -> States]
      /\ lock \in [Gens -> Threads \cup {"free"}] /\ told \in [Pairs -> BOOLEAN]
  BY Zenon DEF Shape, TypeOK, SessionType
<1>3. "auth" \in Threads /\ <<"broadcast">> \in Rests("auth") /\ Pos(<<"broadcast">>) = "broadcast"
  BY PathStarts, Zenon DEF Threads
<1>4. /\ Stay(g, {"auth"}) /\ Where(g, "auth")' = "broadcast"
      /\ \A h \in Gens \ {g} : Stay(h, {})
  <2>1. /\ Stay(g, {"auth"}) /\ rest'[g, "auth"] = <<"broadcast">>
        /\ \A h \in Gens \ {g} : Stay(h, {})
    BY <1>1, <1>2, <1>3, Gotos, Zenon
  <2> QED  BY <1>3, <2>1, Zenon DEF Where
<1>5. Others(g)
  BY <1>1, <1>2, <1>4, Framing, UsersStay, EntriesStay, Unwritten, Zenon DEF Threads
<1>6. auth'[g] = "announce" /\ state'[g] = "Active" /\ lock'[g] = "auth"
  BY <1>1, <1>2, Zenon
<1>7. /\ told'[g, "auth"] = TRUE
      /\ \A u \in Threads \ {"auth"} : told'[g, u] = told[g, u]
  BY <1>1, <1>2, <1>3, ToldSet, Zenon
<1>8. SameMail(g, {"auth"})
  BY <1>1, <1>7, Zenon DEF SameMail
<1> QED  BY <1>1, <1>4, <1>5, <1>6, <1>7, <1>8, UsersStay, EntriesStay, Zenon
            DEF CommitDoes, CommitTells, SameConn

LEMMA AnnouncedEffect ==
  ASSUME Shape, NEW g \in Gens, Announced(g) PROVE Others(g) /\ AnnouncedDoes(g)
<1>1. /\ auth[g] = "announce" /\ rest[g, "auth"] = <<>>
      /\ announced' = [announced EXCEPT ![g] = TRUE] /\ lock' = [lock EXCEPT ![g] = "free"]
      /\ auth' = [auth EXCEPT ![g] = "done"]
      /\ UNCHANGED <<sid, users, entries, state, mapped, open, roster, rest, told, todo>>
  BY Zenon DEF Announced
<1>2. SessionType /\ RestType /\ auth \in [Gens -> Phases] /\ announced \in [Gens -> BOOLEAN]
      /\ lock \in [Gens -> Threads \cup {"free"}]
  BY Zenon DEF Shape, TypeOK, SessionType
<1>3. Others(g)
  BY <1>1, <1>2, Framing, UsersStay, EntriesStay, Unmoved, Unwritten, Zenon DEF Threads
<1>4. auth'[g] = "done" /\ announced'[g] = TRUE /\ lock'[g] = "free"
  BY <1>1, <1>2, Zenon
<1>5. Where(g, "auth") = "end"
  BY <1>1, <1>2, WhereAt, Zenon DEF Threads
<1> QED  BY <1>1, <1>3, <1>4, <1>5, UsersStay, EntriesStay, Unmoved, Unsent, Zenon
            DEF AnnouncedDoes, SameConn, SameThreads

LEMMA AddEffect ==
  ASSUME Shape, NEW s \in SIDs, Add(s)
  PROVE  \E g \in Gens : g = generation + 1 /\ generation' = g /\ sid'[g] = s /\ Others(g) /\ AddDoes(g)
<1>1. /\ generation < MaxGen /\ users[s] = NoGen /\ generation' = generation + 1
      /\ sid' = [sid EXCEPT ![generation + 1] = s]
      /\ users' = [users EXCEPT ![s] = generation + 1]
      /\ auth' = [auth EXCEPT ![generation + 1] = "bind"]
      /\ UNCHANGED <<entries, state, announced, lock, mapped, open, roster, rest, told, todo>>
  BY Zenon DEF Add
<1>2. SessionType /\ auth \in [Gens -> Phases] /\ sid \in [Gens -> SIDs \cup {NoSID}]
      /\ users \in [SIDs -> 0 .. MaxGen] /\ entries \in [SIDs -> 0 .. MaxGen]
      /\ generation \in 0 .. MaxGen
  BY Zenon DEF Shape, TypeOK, SessionType
<1>3. PICK g \in Gens : g = generation + 1 /\ g > generation
  BY <1>1, <1>2, MaxGenAssumption DEF Gens
<1>4. /\ auth[g] = "none" /\ sid[g] = NoSID /\ \A t \in Threads : Where(g, t) = "end"
      /\ \A x \in SIDs : entries[x] # NoGen => sid[entries[x]] = x
  BY <1>3, Zenon DEF Shape, CreatedInv
<1>5. auth'[g] = "bind" /\ sid'[g] = s /\ users'[s] = g
  BY <1>1, <1>2, <1>3, Zenon
<1>6. Live(g)' /\ ~Live(g) /\ ~Bound(g) /\ s # NoSID
  BY <1>4, <1>5, SIDsAssumption, Zenon DEF Live, Bound
<1>7. entries[s] # g
  BY <1>3, <1>4, <1>6, GensAre, Zenon
<1>8. ~Bound(g)'
  BY <1>1, <1>5, <1>7, Zenon DEF Bound
<1>9. \A h \in Gens \ {g} : SameUser(h) /\ (Bound(h)' <=> Bound(h))
  BY <1>1, <1>2, <1>3, GensAre, Zenon DEF SameUser, Live, Bound
<1>10. Others(g)
  BY <1>1, <1>2, <1>3, <1>9, Framing, Unmoved, Unwritten, Zenon DEF Threads
<1>11. AddDoes(g)
  BY <1>1, <1>4, <1>5, <1>6, <1>8, Unmoved, Unsent, Zenon
  DEF AddDoes, SameEntry, SameConn, SameThreads
<1> QED  BY <1>1, <1>3, <1>5, <1>10, <1>11, Zenon

LEMMA AuthenticateDoes ==
  ASSUME Shape, NEW g \in Gens, Authenticate(g) PROVE Others(g) /\ AuthDoes(g)
<1>1. CASE Bind(g)
  BY <1>1, BindEffect, Zenon DEF AuthDoes, Bind
<1>2. CASE \/ BindRefused(g) \/ RegisterConnOnly(g) \/ SnapshotAll(g)
           \/ (CryptSetup(g) /\ open[g])
  BY <1>2, PhaseEffect, Zenon DEF AuthDoes
<1>3. CASE BeginSync(g)
  BY <1>3, BeginEffect, Zenon DEF AuthDoes, BeginSync
<1>4. CASE BeginSyncRefused(g)
  BY <1>4, BeginRefusedEffect, Zenon DEF AuthDoes, BeginSyncRefused
<1>5. CASE Reject(g)
  BY <1>5, RejectEffect, Zenon DEF AuthDoes, Reject
<1>6. CASE (CryptSetup(g) /\ ~open[g]) \/ CommitFails(g)
  BY <1>6, AbortEffect, Zenon DEF AuthDoes
<1>7. ASSUME NEW h \in Gens, SendRoster(g, h) PROVE Others(g) /\ AuthDoes(g)
  BY <1>7, RosterEffect, Zenon DEF AuthDoes
<1>8. CASE Commit(g)
  BY <1>8, CommitEffect, Zenon DEF AuthDoes, Commit
<1>9. CASE Announced(g)
  BY <1>9, AnnouncedEffect, Zenon DEF AuthDoes, Announced
<1> QED  BY <1>1, <1>2, <1>3, <1>4, <1>5, <1>6, <1>7, <1>8, <1>9, Zenon DEF Authenticate

-----------------------------------------------------------------------------
(* The starts of the paths that end a session, and their steps.            *)

LEMMA StartEffect ==
  ASSUME Shape, NEW g \in Gens, NEW t \in {"kick", "ban"}, NEW c, StartPath(g, t, c)
  PROVE  Others(g) /\ StartDoes(g, t) /\ ends' = ends \cup {<<g, c>>} /\ UNCHANGED views
<1>1. /\ ends' = ends \cup {<<g, c>>} /\ rest[g, t] = <<>> /\ Live(g) /\ Goto(g, t, Path(t))
      /\ UNCHANGED <<sid, users, entries, state, announced, lock, mapped, open, auth,
                     roster, told, todo>>
      /\ UNCHANGED views
  BY Zenon DEF StartPath, End
<1>2. SessionType /\ RestType /\ t \in Threads
  BY Zenon DEF Shape, TypeOK, Threads
<1>3. Path(t) \in Rests(t) /\ Pos(Path(t)) = IF t = "kick" THEN "hold" ELSE "close"
  BY <1>2, PathStarts, Zenon
<1>4. /\ Moves(g, t, IF t = "kick" THEN "hold" ELSE "close")
      /\ \A h \in Gens \ {g} : Stay(h, {})
  BY <1>1, <1>2, <1>3, Gotos, Zenon DEF Where, Moves
<1>5. Others(g)
  BY <1>1, <1>2, <1>4, Framing, UsersStay, EntriesStay, Unwritten, Zenon
<1>6. Where(g, t) = "end"
  BY <1>1, <1>2, WhereAt, Zenon
<1> QED  BY <1>1, <1>4, <1>5, <1>6, UsersStay, EntriesStay, Unsent, Zenon
            DEF StartDoes, SamePhase, SameEntry, SameConn

LEMMA FailEffect ==
  ASSUME Shape, NEW g \in Gens, QueueFails(g)
  PROVE  Others(g) /\ FailDoes(g) /\ ends' = ends \cup {<<g, "fail">>} /\ UNCHANGED views
<1>1. /\ ends' = ends \cup {<<g, "fail">>} /\ mapped[g] /\ Deliverable(g) /\ rest[g, "fail"] = <<>>
      /\ mapped' = [mapped EXCEPT ![g] = FALSE]
      /\ CloseConn(g, [rest EXCEPT ![<<g, "fail">>] = Path("fail")])
      /\ open' = [open EXCEPT ![g] = FALSE]
      /\ UNCHANGED <<sid, users, entries, state, announced, lock, auth, roster, told, todo>>
      /\ UNCHANGED views
  BY Zenon DEF QueueFails, End, CloseConn
<1>2. /\ SessionType /\ RestType /\ "fail" \in Threads \ {"drop"}
      /\ mapped \in [Gens -> BOOLEAN] /\ open \in [Gens -> BOOLEAN]
  BY Zenon DEF Shape, TypeOK, Threads, SessionType
<1>3. Path("fail") \in Rests("fail") /\ Pos(Path("fail")) = "hold"
  BY <1>2, PathStarts, Zenon
<1>4. /\ Goes(g, "fail", "hold") /\ Dropped(g) /\ \A h \in Gens \ {g} : Stay(h, {})
  <2>1. /\ Stay(g, {"fail", "drop"}) /\ rest'[g, "fail"] = Path("fail")
        /\ Where(g, "drop")' = IF open[g] THEN "unregister" ELSE Where(g, "drop")
        /\ \A h \in Gens \ {g} : Stay(h, {})
    BY <1>1, <1>2, <1>3, ClosesAndGoes, Zenon
  <2> QED  BY <1>3, <2>1, Zenon DEF Where, Goes, Dropped
<1>5. Others(g)
  <2>1. AtMost(mapped', mapped, g) /\ AtMost(open', open, g)
    BY <1>1, Zenon DEF AtMost
  <2> QED  BY <1>1, <1>2, <1>4, <2>1, Framing, UsersStay, EntriesStay, Unwritten, Zenon
<1>6. Where(g, "fail") = "end"
  BY <1>1, <1>2, WhereAt, Zenon
<1>7. mapped'[g] = FALSE /\ open'[g] = FALSE
  BY <1>1, <1>2, Zenon
<1> QED  BY <1>1, <1>4, <1>5, <1>6, <1>7, UsersStay, EntriesStay, Unsent, Zenon
            DEF FailDoes, SamePhase, SameEntry, ConnClosed

LEMMA LeaveEffect ==
  ASSUME Shape, NEW g \in Gens, Leave(g)
  PROVE  Others(g) /\ LeaveDoes(g) /\ ends' = ends \cup {<<g, "leave">>} /\ UNCHANGED views
<1>1. /\ ends' = ends \cup {<<g, "leave">>} /\ auth[g] \in {"done", "ended"} /\ open[g]
      /\ CloseConn(g, rest) /\ open' = [open EXCEPT ![g] = FALSE]
      /\ UNCHANGED <<sid, users, entries, state, announced, lock, mapped, auth, roster, told, todo>>
      /\ UNCHANGED views
  BY Zenon DEF Leave, End, CloseConn
<1>2. SessionType /\ RestType /\ open \in [Gens -> BOOLEAN]
  BY Zenon DEF Shape, TypeOK, SessionType
<1>3. Stay(g, {"drop"}) /\ Dropped(g) /\ \A h \in Gens \ {g} : Stay(h, {})
  BY <1>1, <1>2, Closes, Zenon DEF Dropped
<1>4. Others(g)
  BY <1>1, <1>2, <1>3, Framing, UsersStay, EntriesStay, Unwritten, Zenon DEF Threads
<1>5. open'[g] = FALSE
  BY <1>1, <1>2, Zenon
<1> QED  BY <1>1, <1>3, <1>4, <1>5, UsersStay, EntriesStay, Unsent, Zenon
            DEF LeaveDoes, SamePhase, SameEntry

LEMMA CloseEffect ==
  ASSUME Shape, NEW g \in Gens, NEW t \in Threads, Close(g, t)
  PROVE  Others(g) /\ CloseDoes(g, t)
<1>1. /\ At(g, t, "close") /\ LockFree(g) /\ Advance(g, t)
      /\ told' = [told EXCEPT ![<<g, t>>] = Bound(g) /\ FirstClose(g)]
      /\ state' = [state EXCEPT ![g] = IF Bound(g) THEN "Closing" ELSE @]
      /\ UNCHANGED <<sid, users, entries, announced, lock, mapped, open, auth, roster, todo>>
  BY Zenon DEF Close
<1>2. SessionType /\ RestType /\ state \in [Gens -> States]
  BY Zenon DEF Shape, TypeOK, SessionType
<1>3. t = "ban" /\ Where(g, t) = "close" /\ After(t, "close") = "broadcast"
  BY <1>1, <1>2, TakesStep, Zenon DEF Takes
<1>4. Moves(g, t, "broadcast") /\ \A h \in Gens \ {g} : Stay(h, {})
  BY <1>1, <1>2, <1>3, Advances, Zenon DEF Moves
<1>5. Others(g)
  BY <1>1, <1>2, <1>4, Framing, UsersStay, EntriesStay, Unwritten, Zenon
<1>6. state'[g] = IF Bound(g) THEN "Closing" ELSE state[g]
  BY <1>1, <1>2, Zenon
<1>7. /\ told'[g, t] = (Bound(g) /\ FirstClose(g))
      /\ \A u \in Threads \ {t} : told'[g, u] = told[g, u]
  <2> DEFINE y == Bound(g) /\ FirstClose(g)
  <2>1. told' = [told EXCEPT ![<<g, t>>] = y]
    BY <1>1, Zenon
  <2> HIDE DEF y
  <2>2. told'[g, t] = y /\ \A u \in Threads \ {t} : told'[g, u] = told[g, u]
    BY <1>2, <2>1, ToldSet, Zenon
  <2> QED  BY <2>2, Zenon DEF y
<1>8. SameMail(g, {t})
  BY <1>1, <1>7, Zenon DEF SameMail
<1> QED  BY <1>1, <1>3, <1>4, <1>5, <1>6, <1>7, <1>8, UsersStay, EntriesStay, Zenon
            DEF CloseDoes, CloseTells, SamePhase, SameConn

LEMMA HoldEffect ==
  ASSUME Shape, NEW g \in Gens, NEW t \in Threads, Hold(g, t)
  PROVE  Others(g) /\ HoldDoes(g, t)
<1>1. /\ At(g, t, "hold") /\ Bound(g) /\ lock[g] = "free" /\ Advance(g, t)
      /\ lock' = [lock EXCEPT ![g] = t] /\ state' = [state EXCEPT ![g] = "Closing"]
      /\ told' = [told EXCEPT ![<<g, t>>] = FirstClose(g) /\ (t = "kick" => Live(g))]
      /\ UNCHANGED <<sid, users, entries, announced, mapped, open, auth, roster, todo>>
  BY Zenon DEF Hold
<1>2. /\ SessionType /\ RestType /\ state \in [Gens -> States]
      /\ lock \in [Gens -> Threads \cup {"free"}]
  BY Zenon DEF Shape, TypeOK, SessionType
<1>3. t \in {"kick", "fail"} /\ Where(g, t) = "hold" /\ After(t, "hold") = "broadcast"
  BY <1>1, <1>2, TakesStep, ZenonT(30) DEF Takes
<1>4. Moves(g, t, "broadcast") /\ \A h \in Gens \ {g} : Stay(h, {})
  BY <1>1, <1>2, <1>3, Advances, Zenon DEF Moves
<1>5. Others(g)
  BY <1>1, <1>2, <1>4, Framing, UsersStay, EntriesStay, Unwritten, Zenon
<1>6. state'[g] = "Closing" /\ lock'[g] = t
  BY <1>1, <1>2, Zenon
<1>7. /\ told'[g, t] = (FirstClose(g) /\ (t = "kick" => Live(g)))
      /\ \A u \in Threads \ {t} : told'[g, u] = told[g, u]
  <2> DEFINE y == FirstClose(g) /\ (t = "kick" => Live(g))
  <2>1. told' = [told EXCEPT ![<<g, t>>] = y]
    BY <1>1, Zenon
  <2> HIDE DEF y
  <2>2. told'[g, t] = y /\ \A u \in Threads \ {t} : told'[g, u] = told[g, u]
    BY <1>2, <2>1, ToldSet, Zenon
  <2> QED  BY <2>2, Zenon DEF y
<1>8. SameMail(g, {t})
  BY <1>1, <1>7, Zenon DEF SameMail
<1> QED  BY <1>1, <1>3, <1>4, <1>5, <1>6, <1>7, <1>8, UsersStay, EntriesStay, Zenon
            DEF HoldDoes, HoldTells, SamePhase, SameConn

LEMMA HoldStaleEffect ==
  ASSUME Shape, NEW g \in Gens, NEW t \in Threads, HoldStale(g, t)
  PROVE  Others(g) /\ HoldStaleDoes(g, t)
<1> DEFINE q == IF t = "kick" THEN <<>> ELSE SubSeq(rest[g, t], 4, Len(rest[g, t]))
<1>1. /\ At(g, t, "hold") /\ ~Bound(g) /\ Goto(g, t, q)
      /\ UNCHANGED <<sid, users, entries, state, announced, lock, mapped, open, auth,
                     roster, told, todo>>
  BY Zenon DEF HoldStale
<1>2. SessionType /\ RestType /\ rest[g, t] \in Rests(t)
  BY Zenon DEF Shape, TypeOK, RestType
<1>3. /\ t \in {"kick", "fail"} /\ Where(g, t) = "hold"
      /\ rest[g, t] # <<>> /\ Head(rest[g, t]) = "hold"
  BY <1>1, <1>2, TakesStep, Zenon DEF Takes, At
<1>4. q \in Rests(t) /\ Pos(q) = IF t = "kick" THEN "end" ELSE "unregister"
  BY <1>2, <1>3, PathStarts, PathSkips, Zenon
<1> HIDE DEF q
<1>5. /\ Moves(g, t, IF t = "kick" THEN "end" ELSE "unregister")
      /\ \A h \in Gens \ {g} : Stay(h, {})
  BY <1>1, <1>2, <1>4, Gotos, Zenon DEF Moves, Where
<1>6. Others(g)
  BY <1>1, <1>2, <1>5, Framing, UsersStay, EntriesStay, Unwritten, Zenon
<1> QED  BY <1>1, <1>3, <1>5, <1>6, UsersStay, EntriesStay, Unsent, Zenon
            DEF HoldStaleDoes, SamePhase, SameEntry, SameConn

LEMMA ReleaseEffect ==
  ASSUME Shape, NEW g \in Gens, NEW t \in Threads, Release(g, t)
  PROVE  Others(g) /\ ReleaseDoes(g, t)
<1>1. /\ At(g, t, "release") /\ Advance(g, t) /\ lock' = [lock EXCEPT ![g] = "free"]
      /\ UNCHANGED <<sid, users, entries, state, announced, mapped, open, auth, roster, told, todo>>
  BY Zenon DEF Release
<1>2. SessionType /\ RestType /\ lock \in [Gens -> Threads \cup {"free"}]
  BY Zenon DEF Shape, TypeOK, SessionType
<1>3. /\ t \in {"kick", "fail"} /\ Where(g, t) = "release"
      /\ After(t, "release") = IF t = "kick" THEN "final" ELSE "unregister"
  <2>1. Where(g, t) = "release" /\ Takes(t, "release")
    BY <1>1, <1>2, TakesStep, Zenon
  <2> QED  BY <2>1, Zenon DEF Takes
<1>4. /\ Moves(g, t, IF t = "kick" THEN "final" ELSE "unregister")
      /\ \A h \in Gens \ {g} : Stay(h, {})
  <2>1. Where(g, t)' = After(t, "release") /\ Stay(g, {t}) /\ \A h \in Gens \ {g} : Stay(h, {})
    BY <1>1, <1>2, Advances, Zenon
  <2> QED  BY <1>3, <2>1, Zenon DEF Moves
<1>5. Others(g)
  BY <1>1, <1>2, <1>4, Framing, UsersStay, EntriesStay, Unwritten, Zenon
<1>6. lock'[g] = "free"
  BY <1>1, <1>2, Zenon
<1> QED  BY <1>1, <1>3, <1>4, <1>5, <1>6, UsersStay, EntriesStay, Unsent, Zenon
            DEF ReleaseDoes, SamePhase, SameConn

LEMMA BroadcastEffect ==
  ASSUME Shape, NEW g \in Gens, NEW t \in Threads, Broadcast(g, t)
  PROVE  Others(g) /\ BroadcastDoes(g, t)
<1> DEFINE to == IF told[g, t] THEN Recipients(g) ELSE {}
           q == (IF to = {} THEN <<>> ELSE <<"send">>) \o Tail(rest[g, t])
<1>1. /\ At(g, t, "broadcast") /\ Goto(g, t, q)
      /\ todo' = [todo EXCEPT ![<<g, t>>] = to] /\ told' = [told EXCEPT ![<<g, t>>] = FALSE]
      /\ UNCHANGED <<sid, users, entries, state, announced, lock, mapped, open, auth, roster>>
  BY Zenon DEF Broadcast
<1>2. SessionType /\ RestType
  BY Zenon DEF Shape, TypeOK
<1>3. Where(g, t) = "broadcast" /\ Head(rest[g, t]) = "broadcast" /\ Walks(t, rest[g, t])
  BY <1>1, <1>2, WhereAt, Zenon DEF At
<1> HIDE DEF to
<1>4. q \in Rests(t) /\ Pos(q) = IF to = {} THEN AfterSend(t) ELSE "send"
  BY <1>3, Zenon DEF Walks, After
<1> HIDE DEF q
<1>5. /\ Moves(g, t, IF to = {} THEN AfterSend(t) ELSE "send")
      /\ \A h \in Gens \ {g} : Stay(h, {})
  BY <1>1, <1>2, <1>4, Gotos, Zenon DEF Moves, Where
<1>6. Others(g)
  BY <1>1, <1>2, <1>5, Framing, UsersStay, EntriesStay, Unwritten, Zenon
<1>7. told'[g, t] = FALSE /\ \A u \in Threads \ {t} : told'[g, u] = told[g, u]
  BY <1>1, <1>2, ToldSet, Zenon
<1>8. todo'[g, t] = to /\ \A u \in Threads \ {t} : todo'[g, u] = todo[g, u]
  BY <1>1, <1>2, TodoSet, Zenon
<1>9. SameMail(g, {t})
  BY <1>7, <1>8, Zenon DEF SameMail
<1>10. Moves(g, t, IF todo'[g, t] = {} THEN AfterSend(t) ELSE "send")
  BY <1>5, <1>8, Zenon
<1>11. todo'[g, t] = IF told[g, t] THEN Recipients(g) ELSE {}
  BY <1>8, Zenon DEF to
<1> QED  BY <1>1, <1>3, <1>6, <1>7, <1>9, <1>10, <1>11, UsersStay, EntriesStay, Zenon
            DEF BroadcastDoes, BroadcastTells, SamePhase, SameEntry, SameConn

LEMMA SendEffect ==
  ASSUME Shape, NEW g \in Gens, NEW t \in Threads, NEW h \in Gens, Send(g, t, h)
  PROVE  Others(g) /\ SendDoes(g, t, h)
<1>1. /\ At(g, t, "send") /\ h \in todo[g, t]
      /\ news' = IF Deliverable(h) /\ mapped[h]
                 THEN [news EXCEPT ![h][sid[g]] = Message(g, t)] ELSE news
      /\ todo' = [todo EXCEPT ![<<g, t>>] = @ \ {h}]
      /\ IF todo[g, t] = {h} THEN Advance(g, t) ELSE UNCHANGED rest
      /\ UNCHANGED <<sid, users, entries, state, announced, lock, mapped, open, auth, roster, told>>
  BY Zenon DEF Send
<1>2. SessionType /\ RestType
  BY Zenon DEF Shape, TypeOK
<1>3. Where(g, t) = "send" /\ After(t, "send") = AfterSend(t)
  BY <1>1, <1>2, WhereAt, Zenon DEF After
<1>4. todo'[g, t] = todo[g, t] \ {h} /\ \A u \in Threads \ {t} : todo'[g, u] = todo[g, u]
  <2>1. todo' = [todo EXCEPT ![<<g, t>>] = todo[g, t] \ {h}]
    BY <1>1, Zenon
  <2> QED  BY <1>2, <2>1, TodoSet, Zenon
<1>5. todo'[g, t] = {} <=> todo[g, t] = {h}
  BY <1>1, <1>4, Zenon
<1>6. /\ Moves(g, t, IF todo'[g, t] = {} THEN AfterSend(t) ELSE "send")
      /\ \A k \in Gens \ {g} : Stay(k, {})
  <2>1. CASE todo[g, t] = {h}
    <3>1. /\ Where(g, t)' = After(t, "send") /\ Stay(g, {t})
          /\ \A k \in Gens \ {g} : Stay(k, {})
      BY <1>1, <1>2, <2>1, Advances, Zenon
    <3> QED  BY <1>3, <1>5, <2>1, <3>1, Zenon DEF Moves
  <2>2. CASE todo[g, t] # {h}
    BY <1>1, <1>3, <1>5, <2>2, Zenon DEF Moves, Stay, Where
  <2> QED  BY <2>1, <2>2, Zenon
<1>7. Others(g)
  BY <1>1, <1>2, <1>6, Framing, UsersStay, EntriesStay, Unwritten, Zenon
<1>8. SameMail(g, {t})
  BY <1>1, <1>4, Zenon DEF SameMail
<1> QED  BY <1>1, <1>3, <1>4, <1>6, <1>7, <1>8, UsersStay, EntriesStay, Zenon
            DEF SendDoes, SendTells, SamePhase, SameEntry, SameConn

(* A thread goes on, and the connection is closed or not.                  *)
LEMMA GoesOn ==
  ASSUME Shape, NEW g \in Gens, NEW t \in Threads \ {"drop"}, NEW s, At(g, t, s), NEW c \in BOOLEAN,
         LET next == [rest EXCEPT ![<<g, t>>] = Tail(@)] IN
         IF c
         THEN mapped' = [mapped EXCEPT ![g] = FALSE] /\ CloseConn(g, next)
         ELSE rest' = next /\ UNCHANGED <<mapped, open>>
  PROVE  /\ Goes(g, t, After(t, s)) /\ \A h \in Gens \ {g} : Stay(h, {})
         /\ IF c THEN ConnClosed(g) ELSE ConnKept(g)
         /\ AtMost(mapped', mapped, g) /\ AtMost(open', open, g) /\ RestType'
<1>1. /\ SessionType /\ RestType /\ t \in Threads /\ "drop" \in Threads \ {t}
      /\ mapped \in [Gens -> BOOLEAN] /\ open \in [Gens -> BOOLEAN]
  BY Zenon DEF Shape, TypeOK, SessionType, Threads
<1>2. Walks(t, rest[g, t]) /\ Head(rest[g, t]) = s
  BY <1>1, WhereAt, Zenon DEF At
<1>3. Tail(rest[g, t]) \in Rests(t) /\ Pos(Tail(rest[g, t])) = After(t, s)
  BY <1>2, Zenon DEF Walks
<1>4. CASE c
  <2>1. /\ mapped' = [mapped EXCEPT ![g] = FALSE] /\ open' = [open EXCEPT ![g] = FALSE]
        /\ CloseConn(g, [rest EXCEPT ![<<g, t>>] = Tail(rest[g, t])])
    BY <1>4, Zenon DEF CloseConn
  <2>2. mapped'[g] = FALSE /\ open'[g] = FALSE
    BY <1>1, <2>1, Zenon
  <2>3. /\ Stay(g, {t, "drop"}) /\ rest'[g, t] = Tail(rest[g, t]) /\ RestType' /\ Dropped(g)
        /\ \A h \in Gens \ {g} : Stay(h, {})
    BY <1>1, <1>3, <2>1, ClosesAndGoes, Zenon DEF Dropped
  <2> QED  BY <1>3, <1>4, <2>1, <2>2, <2>3, Zenon DEF Goes, ConnClosed, AtMost, Where
<1>5. CASE ~c
  <2>1. /\ rest' = [rest EXCEPT ![<<g, t>>] = Tail(rest[g, t])] /\ UNCHANGED <<mapped, open>>
    BY <1>5, Zenon
  <2>2. Goto(g, t, Tail(rest[g, t]))
    BY <2>1, Zenon DEF Goto
  <2>3. /\ Stay(g, {t}) /\ rest'[g, t] = Tail(rest[g, t]) /\ RestType'
        /\ \A h \in Gens \ {g} : Stay(h, {})
    BY <1>1, <1>3, <2>2, Gotos, Zenon
  <2>4. Stay(g, {t, "drop"}) /\ Where(g, "drop")' = Where(g, "drop")
    BY <1>1, <2>3, Zenon DEF Stay
  <2> QED  BY <1>3, <1>5, <2>1, <2>3, <2>4, Zenon DEF Goes, ConnKept, SameConn, AtMost, Where
<1> QED  BY <1>4, <1>5, Zenon

LEMMA FinalEffect ==
  ASSUME Shape, NEW g \in Gens, NEW t \in Threads, SendThenClose(g, t)
  PROVE  Others(g) /\ FinalDoes(g, t)
<1> DEFINE c == Bound(g) /\ mapped[g]
           next == [rest EXCEPT ![<<g, t>>] = Tail(@)]
<1>1. /\ At(g, t, "final")
      /\ IF c THEN mapped' = [mapped EXCEPT ![g] = FALSE] /\ CloseConn(g, next)
              ELSE rest' = next /\ UNCHANGED <<mapped, open>>
      /\ UNCHANGED <<sid, users, entries, state, announced, lock, auth, roster, told, todo>>
  BY Zenon DEF SendThenClose
<1>2. SessionType /\ RestType /\ mapped[g] \in BOOLEAN
  BY Zenon DEF Shape, TypeOK, SessionType
<1>3. /\ t \in {"kick", "ban"} /\ t \in Threads \ {"drop"} /\ Where(g, t) = "final"
      /\ After(t, "final") = "remove"
  BY <1>1, <1>2, TakesStep, Zenon DEF Takes
<1>4. c \in BOOLEAN
  BY Zenon DEF Bound
<1> HIDE DEF c
<1>5. /\ Goes(g, t, "remove") /\ \A h \in Gens \ {g} : Stay(h, {})
      /\ IF c THEN ConnClosed(g) ELSE ConnKept(g)
      /\ AtMost(mapped', mapped, g) /\ AtMost(open', open, g)
  BY <1>1, <1>3, <1>4, GoesOn, Zenon
<1>6. Others(g)
  BY <1>1, <1>2, <1>5, Framing, UsersStay, EntriesStay, Unwritten, Zenon
<1> QED  BY <1>1, <1>3, <1>5, <1>6, UsersStay, EntriesStay, Unsent, Zenon
            DEF FinalDoes, SamePhase, SameEntry, c

LEMMA AbortSyncEffect ==
  ASSUME Shape, NEW g \in Gens, NEW t \in Threads, AbortSync(g, t)
  PROVE  Others(g) /\ AbortSyncDoes(g, t)
<1> DEFINE c == mapped[g]
           next == [rest EXCEPT ![<<g, t>>] = Tail(@)]
<1>1. /\ At(g, t, "abort")
      /\ IF c THEN mapped' = [mapped EXCEPT ![g] = FALSE] /\ CloseConn(g, next)
              ELSE rest' = next /\ UNCHANGED <<mapped, open>>
      /\ UNCHANGED <<sid, users, entries, state, announced, lock, auth, roster, told, todo>>
  BY Zenon DEF AbortSync
<1>2. SessionType /\ RestType /\ c \in BOOLEAN
  BY Zenon DEF Shape, TypeOK, SessionType
<1>3. /\ t = "auth" /\ t \in Threads \ {"drop"} /\ Where(g, t) = "abort"
      /\ After(t, "abort") = "unregister"
  BY <1>1, <1>2, TakesStep, Zenon DEF Takes
<1> HIDE DEF c
<1>4. /\ Goes(g, t, "unregister") /\ \A h \in Gens \ {g} : Stay(h, {})
      /\ IF c THEN ConnClosed(g) ELSE ConnKept(g)
      /\ AtMost(mapped', mapped, g) /\ AtMost(open', open, g)
  BY <1>1, <1>2, <1>3, GoesOn, Zenon
<1>5. Others(g)
  BY <1>1, <1>2, <1>4, Framing, UsersStay, EntriesStay, Unwritten, Zenon
<1> QED  BY <1>1, <1>3, <1>4, <1>5, UsersStay, EntriesStay, Unsent, Zenon
            DEF AbortSyncDoes, SamePhase, SameEntry, c

LEMMA RemoveEffect ==
  ASSUME Shape, NEW g \in Gens, NEW t \in Threads, RemoveIfGeneration(g, t)
  PROVE  Others(g) /\ RemoveDoes(g, t)
<1>1. /\ At(g, t, "remove") /\ Advance(g, t)
      /\ users' = [users EXCEPT ![sid[g]] = IF @ = g THEN NoGen ELSE @]
      /\ UNCHANGED <<sid, entries, state, announced, lock, mapped, open, auth, roster, told, todo>>
  BY Zenon DEF RemoveIfGeneration
<1>2. SessionType /\ RestType
  BY Zenon DEF Shape, TypeOK
<1>3. Where(g, t) = "remove" /\ sid[g] \in SIDs
  BY <1>1, <1>2, WhereAt, Created, Zenon
<1>4. Moves(g, t, After(t, "remove")) /\ \A h \in Gens \ {g} : Stay(h, {})
  BY <1>1, <1>2, Advances, Zenon DEF Moves
<1>5. sid'[g] = sid[g] /\ ~Live(g)' /\ \A h \in Gens \ {g} : SameUser(h)
  BY <1>1, <1>2, <1>3, UserRemoved, Zenon
<1>6. Others(g)
  BY <1>1, <1>2, <1>4, <1>5, Framing, EntriesStay, Unwritten, Zenon
<1> QED  BY <1>1, <1>3, <1>4, <1>5, <1>6, EntriesStay, Unsent, Zenon
            DEF RemoveDoes, SamePhase, SameEntry, SameConn

LEMMA UnregisterEffect ==
  ASSUME Shape, NEW g \in Gens, NEW t \in Threads, Unregister(g, t)
  PROVE  Others(g) /\ UnregisterDoes(g, t)
<1> DEFINE y == t = "drop" /\ FirstClose(g)
<1>1. /\ At(g, t, "unregister") /\ Bound(g) /\ lock[g] = "free" /\ Advance(g, t)
      /\ told' = [told EXCEPT ![<<g, t>>] = y]
      /\ state' = [state EXCEPT ![g] = "Closing"] /\ mapped' = [mapped EXCEPT ![g] = FALSE]
      /\ entries' = [entries EXCEPT ![sid[g]] = NoGen]
      /\ UNCHANGED <<sid, users, announced, lock, open, auth, roster, todo>>
  BY Zenon DEF Unregister
<1> HIDE DEF y
<1>2. SessionType /\ RestType /\ state \in [Gens -> States] /\ mapped \in [Gens -> BOOLEAN]
  BY Zenon DEF Shape, TypeOK, SessionType
<1>3. Where(g, t) = "unregister" /\ sid[g] \in SIDs
  BY <1>1, <1>2, WhereAt, Created, Zenon
<1>4. Moves(g, t, After(t, "unregister")) /\ \A h \in Gens \ {g} : Stay(h, {})
  BY <1>1, <1>2, Advances, Zenon DEF Moves
<1>5. ~Bound(g)' /\ \A h \in Gens \ {g} : Bound(h)' <=> Bound(h)
  BY <1>1, <1>2, <1>3, EntryRemoved, Zenon
<1>6. AtMost(state', state, g) /\ AtMost(mapped', mapped, g)
  BY <1>1, Zenon DEF AtMost
<1>7. Others(g)
  BY <1>1, <1>2, <1>4, <1>5, <1>6, Framing, UsersStay, Unwritten, Zenon
<1>8. told'[g, t] = y /\ \A u \in Threads \ {t} : told'[g, u] = told[g, u]
  BY <1>1, <1>2, ToldSet, Zenon
<1>9. SameMail(g, {t}) /\ todo'[g, t] = todo[g, t]
  BY <1>1, <1>8, Zenon DEF SameMail
<1>10. state'[g] = "Closing" /\ mapped'[g] = FALSE
  BY <1>1, <1>2, Zenon
<1>11. announced'[g] = announced[g] /\ lock'[g] = lock[g] /\ open'[g] = open[g] /\ SamePhase(g)
  BY <1>1, Zenon DEF SamePhase
<1> QED  BY <1>1, <1>3, <1>4, <1>5, <1>7, <1>8, <1>9, <1>10, <1>11, UsersStay, Zenon
            DEF UnregisterDoes, UnregisterTells, y

LEMMA UnregisterStaleEffect ==
  ASSUME Shape, NEW g \in Gens, NEW t \in Threads, UnregisterStale(g, t)
  PROVE  Others(g) /\ UnregisterStaleDoes(g, t)
<1>1. /\ At(g, t, "unregister") /\ ~Bound(g) /\ Advance(g, t)
      /\ UNCHANGED <<sid, users, entries, state, announced, lock, mapped, open, auth,
                     roster, told, todo>>
  BY Zenon DEF UnregisterStale
<1>2. SessionType /\ RestType
  BY Zenon DEF Shape, TypeOK
<1>3. Where(g, t) = "unregister"
  BY <1>1, <1>2, WhereAt, Zenon
<1>4. Moves(g, t, After(t, "unregister")) /\ \A h \in Gens \ {g} : Stay(h, {})
  BY <1>1, <1>2, Advances, Zenon DEF Moves
<1>5. Others(g)
  BY <1>1, <1>2, <1>4, Framing, UsersStay, EntriesStay, Unwritten, Zenon
<1> QED  BY <1>1, <1>3, <1>4, <1>5, UsersStay, EntriesStay, Unsent, Zenon
            DEF UnregisterStaleDoes, SamePhase, SameEntry, SameConn

LEMMA ThreadStepDoes ==
  ASSUME Shape, NEW g \in Gens, NEW t \in Threads, Thread(g, t)
  PROVE  Others(g) /\ ThreadDoes(g, t) /\ UNCHANGED ends
<1>1. CASE Close(g, t)
  BY <1>1, CloseEffect, Zenon DEF ThreadDoes, Close
<1>2. CASE Hold(g, t)
  BY <1>2, HoldEffect, Zenon DEF ThreadDoes, Hold
<1>3. CASE HoldStale(g, t)
  BY <1>3, HoldStaleEffect, Zenon DEF ThreadDoes, HoldStale
<1>4. CASE Release(g, t)
  BY <1>4, ReleaseEffect, Zenon DEF ThreadDoes, Release
<1>5. CASE Broadcast(g, t)
  BY <1>5, BroadcastEffect, Zenon DEF ThreadDoes, Broadcast
<1>6. ASSUME NEW h \in Gens, Send(g, t, h) PROVE Others(g) /\ ThreadDoes(g, t) /\ UNCHANGED ends
  BY <1>6, SendEffect, Zenon DEF ThreadDoes, Send
<1>7. CASE SendThenClose(g, t)
  BY <1>7, FinalEffect, Zenon DEF ThreadDoes, SendThenClose
<1>8. CASE AbortSync(g, t)
  BY <1>8, AbortSyncEffect, Zenon DEF ThreadDoes, AbortSync
<1>9. CASE RemoveIfGeneration(g, t)
  BY <1>9, RemoveEffect, Zenon DEF ThreadDoes, RemoveIfGeneration
<1>10. CASE Unregister(g, t)
  BY <1>10, UnregisterEffect, Zenon DEF ThreadDoes, Unregister
<1>11. CASE UnregisterStale(g, t)
  BY <1>11, UnregisterStaleEffect, Zenon DEF ThreadDoes, UnregisterStale
<1> QED  BY <1>1, <1>2, <1>3, <1>4, <1>5, <1>6, <1>7, <1>8, <1>9, <1>10, <1>11, Zenon DEF Thread

-----------------------------------------------------------------------------
LEMMA NextDoes ==
  ASSUME Shape, Next PROVE \E g \in Gens : Others(g) /\ StepOf(g)
<1>1. ASSUME NEW s \in SIDs, Add(s) PROVE \E g \in Gens : Others(g) /\ StepOf(g)
  <2>1. PICK g \in Gens : Others(g) /\ AddDoes(g)
    BY <1>1, AddEffect, Zenon
  <2>2. UNCHANGED <<base, news, ends>>
    BY <1>1, Zenon DEF Add
  <2> QED  BY <2>1, <2>2, Zenon DEF StepOf
<1>2. ASSUME NEW g \in Gens, Authenticate(g) PROVE Others(g) /\ StepOf(g)
  <2>1. UNCHANGED ends
    BY <1>2, Zenon DEF Authenticate, Bind, BindRefused, BeginSync, BeginSyncRefused, Reject,
       CryptSetup, RegisterConnOnly, SnapshotAll, SendRoster, Commit, CommitFails, Announced
  <2> QED  BY <1>2, <2>1, AuthenticateDoes, Zenon DEF StepOf
<1>3. ASSUME NEW g \in Gens, Kick(g) PROVE Others(g) /\ StepOf(g)
  BY <1>3, StartEffect, Zenon DEF Kick, Reason, StepOf, EndDoes
<1>4. ASSUME NEW g \in Gens, Ban(g) PROVE Others(g) /\ StepOf(g)
  BY <1>4, StartEffect, Zenon DEF Ban, Reason, StepOf, EndDoes
<1>5. ASSUME NEW g \in Gens, QueueFails(g) PROVE Others(g) /\ StepOf(g)
  BY <1>5, FailEffect, Zenon DEF StepOf, EndDoes
<1>6. ASSUME NEW g \in Gens, Leave(g) PROVE Others(g) /\ StepOf(g)
  BY <1>6, LeaveEffect, Zenon DEF StepOf, EndDoes
<1>7. ASSUME NEW g \in Gens, NEW t \in Threads, Thread(g, t) PROVE Others(g) /\ StepOf(g)
  BY <1>7, ThreadStepDoes, Zenon DEF StepOf
<1> QED  BY <1>1, <1>2, <1>3, <1>4, <1>5, <1>6, <1>7, Zenon DEF Next

-----------------------------------------------------------------------------
(* Types and creation are kept.                                            *)

LEMMA AuthTypes ==
  ASSUME Shape, NEW g \in Gens, Authenticate(g) PROVE SessionType'
<1> USE DEF Shape, TypeOK, SessionType, States, Phases, Threads
<1>1. CASE Bind(g)
  BY <1>1, GensAmong, Zenon DEF Bind
<1>2. CASE BindRefused(g)
  BY <1>2, Zenon DEF BindRefused
<1>3. CASE BeginSync(g)
  BY <1>3, Zenon DEF BeginSync
<1>4. CASE BeginSyncRefused(g)
  BY <1>4, GensAmong, Zenon DEF BeginSyncRefused
<1>5. CASE Reject(g)
  BY <1>5, GensAmong, Zenon DEF Reject, CloseConn
<1>6. CASE CryptSetup(g)
  BY <1>6 DEF CryptSetup, Abort
<1>7. CASE RegisterConnOnly(g)
  BY <1>7, Zenon DEF RegisterConnOnly
<1>8. CASE SnapshotAll(g)
  BY <1>8, GensAre DEF SnapshotAll
<1>9. ASSUME NEW h \in Gens, SendRoster(g, h) PROVE SessionType'
  BY <1>9, SMTT(30) DEF SendRoster, Abort
<1>10. CASE Commit(g)
  BY <1>10, Zenon DEF Commit
<1>11. CASE CommitFails(g)
  BY <1>11, Zenon DEF CommitFails, Abort
<1>12. CASE Announced(g)
  BY <1>12, Zenon DEF Announced
<1> QED  BY <1>1, <1>2, <1>3, <1>4, <1>5, <1>6, <1>7, <1>8, <1>9, <1>10, <1>11, <1>12, Zenon
            DEF Authenticate

LEMMA EndTypes ==
  ASSUME Shape, NEW g \in Gens, Kick(g) \/ Ban(g) \/ QueueFails(g) \/ Leave(g) PROVE SessionType'
<1> USE DEF Shape, TypeOK, SessionType
<1>1. CASE Kick(g) \/ Ban(g)
  BY <1>1, Zenon DEF Kick, Ban, StartPath
<1>2. CASE QueueFails(g)
  BY <1>2, Zenon DEF QueueFails, CloseConn
<1>3. CASE Leave(g)
  BY <1>3, Zenon DEF Leave, CloseConn
<1> QED  BY <1>1, <1>2, <1>3, Zenon

LEMMA ThreadTypes ==
  ASSUME Shape, NEW g \in Gens, NEW t \in Threads, Thread(g, t) PROVE SessionType'
<1> USE DEF Shape, TypeOK, SessionType, States
<1>1. CASE Close(g, t)
  BY <1>1, Zenon DEF Close, FirstClose
<1>2. CASE Hold(g, t)
  BY <1>2, Zenon DEF Hold, FirstClose
<1>3. CASE HoldStale(g, t)
  BY <1>3, Zenon DEF HoldStale
<1>4. CASE Release(g, t)
  BY <1>4, Zenon DEF Release
<1>5. CASE Broadcast(g, t)
  BY <1>5, Zenon DEF Broadcast, Recipients
<1>6. ASSUME NEW h \in Gens, Send(g, t, h) PROVE SessionType'
  BY <1>6, Zenon DEF Send
<1>7. CASE SendThenClose(g, t)
  BY <1>7, Zenon DEF SendThenClose, CloseConn
<1>8. CASE AbortSync(g, t)
  BY <1>8, ZenonT(30) DEF AbortSync, CloseConn
<1>9. CASE RemoveIfGeneration(g, t)
  BY <1>9, GensAmong, Zenon DEF RemoveIfGeneration
<1>10. CASE Unregister(g, t)
  BY <1>10, GensAmong, Zenon DEF Unregister, FirstClose
<1>11. CASE UnregisterStale(g, t)
  BY <1>11, Zenon DEF UnregisterStale
<1> QED  BY <1>1, <1>2, <1>3, <1>4, <1>5, <1>6, <1>7, <1>8, <1>9, <1>10, <1>11, Zenon DEF Thread

LEMMA RestTypes == ASSUME Shape, Next PROVE RestType'
<1>1. RestType /\ SessionType
  BY Zenon DEF Shape, TypeOK
<1>2. CASE UNCHANGED rest
  BY <1>1, <1>2, Zenon DEF RestType
<1>3. ASSUME NEW g \in Gens, NEW t \in Threads, Goto(g, t, Path(t)) PROVE RestType'
  BY <1>1, <1>3, Gotos, PathStarts, Zenon
<1>4. ASSUME NEW g \in Gens, NEW t \in Threads, NEW s, At(g, t, s), Advance(g, t) PROVE RestType'
  BY <1>1, <1>4, Advances, Zenon
<1>5. ASSUME NEW g \in Gens, Authenticate(g) PROVE RestType'
  <2>1. CASE UNCHANGED rest \/ Goto(g, "auth", Path("auth"))
    BY <1>2, <1>3, <2>1, Zenon DEF Threads
  <2>2. CASE Reject(g)
    BY <1>1, <2>2, Closes, Zenon DEF Reject
  <2>3. CASE Commit(g)
    <3>1. "auth" \in Threads /\ <<"broadcast">> \in Rests("auth") /\ Goto(g, "auth", <<"broadcast">>)
      BY <2>3, PathStarts, Zenon DEF Commit, Threads
    <3> QED  BY <1>1, <3>1, Gotos, Zenon
  <2> QED  BY <1>5, <2>1, <2>2, <2>3, Zenon DEF Authenticate, Bind, BindRefused, BeginSync,
              BeginSyncRefused, CryptSetup, RegisterConnOnly, SnapshotAll, SendRoster,
              CommitFails, Announced, Abort
<1>6. ASSUME NEW g \in Gens, Kick(g) \/ Ban(g) PROVE RestType'
  BY <1>3, <1>6, Zenon DEF Kick, Ban, StartPath, Threads
<1>7. ASSUME NEW g \in Gens, QueueFails(g) PROVE RestType'
  <2>1. "fail" \in Threads \ {"drop"} /\ Path("fail") \in Rests("fail")
    BY PathStarts, Zenon DEF Threads
  <2> QED  BY <1>1, <1>7, <2>1, ClosesAndGoes, Zenon DEF QueueFails
<1>8. ASSUME NEW g \in Gens, Leave(g) PROVE RestType'
  BY <1>1, <1>8, Closes, Zenon DEF Leave
<1>9. ASSUME NEW g \in Gens, NEW t \in Threads, Thread(g, t) PROVE RestType'
  <2>1. CASE HoldStale(g, t)
    <3>1. rest[g, t] \in Rests(t) /\ At(g, t, "hold")
      BY <1>1, <2>1, Zenon DEF RestType, HoldStale
    <3>2. t \in {"kick", "fail"} /\ rest[g, t] # <<>> /\ Head(rest[g, t]) = "hold"
      BY <1>1, <3>1, WhereAt, Zenon DEF At, Walks
    <3>3. (IF t = "kick" THEN <<>> ELSE SubSeq(rest[g, t], 4, Len(rest[g, t]))) \in Rests(t)
      BY <3>1, <3>2, PathStarts, PathSkips, Zenon
    <3> QED  BY <1>1, <2>1, <3>3, Gotos, Zenon DEF HoldStale
  <2>2. CASE Broadcast(g, t)
    <3> DEFINE to == IF told[g, t] THEN Recipients(g) ELSE {}
    <3>1. /\ At(g, t, "broadcast")
          /\ Goto(g, t, (IF to = {} THEN <<>> ELSE <<"send">>) \o Tail(rest[g, t]))
      BY <2>2, Zenon DEF Broadcast
    <3> HIDE DEF to
    <3>2. Walks(t, rest[g, t]) /\ Head(rest[g, t]) = "broadcast"
      BY <1>1, <3>1, WhereAt, Zenon DEF At
    <3>3. (IF to = {} THEN <<>> ELSE <<"send">>) \o Tail(rest[g, t]) \in Rests(t)
      BY <3>2, Zenon DEF Walks
    <3> QED  BY <1>1, <3>1, <3>3, Gotos, Zenon
  <2>3. CASE SendThenClose(g, t)
    <3>1. At(g, t, "final") /\ t \in Threads \ {"drop"}
      BY <1>1, <2>3, WhereAt, Zenon DEF SendThenClose, Walks, At, Threads
    <3> DEFINE c == Bound(g) /\ mapped[g]
    <3>2. LET next == [rest EXCEPT ![<<g, t>>] = Tail(@)] IN
          IF c THEN mapped' = [mapped EXCEPT ![g] = FALSE] /\ CloseConn(g, next)
               ELSE rest' = next /\ UNCHANGED <<mapped, open>>
      BY <2>3, Zenon DEF SendThenClose
    <3>3. c \in BOOLEAN
      OBVIOUS
    <3> HIDE DEF c
    <3> QED  BY <3>1, <3>2, <3>3, GoesOn, Zenon
  <2>4. CASE AbortSync(g, t)
    <3>1. At(g, t, "abort") /\ t \in Threads \ {"drop"} /\ mapped[g] \in BOOLEAN
      BY <1>1, <2>4, WhereAt, Zenon DEF AbortSync, Walks, At, Threads, SessionType
    <3> QED  BY <2>4, <3>1, GoesOn, Zenon DEF AbortSync
  <2>5. CASE \/ Close(g, t) \/ Hold(g, t) \/ Release(g, t) \/ \E h \in Gens : Send(g, t, h)
             \/ RemoveIfGeneration(g, t) \/ Unregister(g, t) \/ UnregisterStale(g, t)
    <3>1. UNCHANGED rest \/ (Advance(g, t) /\ \E s : At(g, t, s))
      BY <2>5, Zenon DEF Close, Hold, Release, Send, RemoveIfGeneration, Unregister, UnregisterStale
    <3> QED  BY <1>2, <1>4, <3>1, Zenon
  <2> QED  BY <1>9, <2>1, <2>2, <2>3, <2>4, <2>5, Zenon DEF Thread
<1>10. ASSUME NEW s \in SIDs, Add(s) PROVE RestType'
  BY <1>2, <1>10, Zenon DEF Add
<1> QED  BY <1>5, <1>6, <1>7, <1>8, <1>9, <1>10, Zenon DEF Next

(* Only the initial roster and broadcasts tell a client anything.          *)
LEMMA ViewTypes ==
  ASSUME Shape, NEW g \in Gens, StepOf(g) PROVE ViewType'
<1>1. ViewType
  BY Zenon DEF Shape, TypeOK
<1>2. CASE UNCHANGED views
  BY <1>1, <1>2, Zenon DEF ViewType
<1>3. CASE RosterDoes(g) /\ UNCHANGED news
  <2>1. CASE UNCHANGED base
    BY <1>2, <1>3, <2>1, Zenon
  <2>2. ASSUME NEW h \in roster[g], Active(h), base' = [base EXCEPT ![g][sid[h]] = h]
        PROVE  ViewType'
    <3>1. h \in Gens
      BY Zenon DEF Shape, TypeOK, SessionType
    <3>2. sid[h] \in SIDs /\ h \in 0 .. MaxGen
      BY <2>2, <3>1, Created, GensAmong, Zenon DEF Active
    <3> QED  BY <1>1, <1>3, <2>2, <3>2, Zenon DEF ViewType
  <2>3. PICK h \in roster[g] : IF Active(h) THEN base' = [base EXCEPT ![g][sid[h]] = h]
                                           ELSE UNCHANGED base
    BY <1>3, Zenon DEF RosterDoes
  <2> QED  BY <2>1, <2>2, <2>3, Zenon
<1>4. ASSUME NEW t \in Threads, NEW h \in Gens, SendDoes(g, t, h), UNCHANGED base PROVE ViewType'
  <2>1. sid[g] \in SIDs /\ Message(g, t) \in 0 .. NoNews
    <3>1. Where(g, t) # "end"
      BY <1>4, Zenon DEF SendDoes
    <3>2. Message(g, t) \in 0 .. NoNews
      BY MaxGenAssumption DEF Message, Gens, NoGen, NoNews
    <3> QED  BY <3>1, <3>2, Created, Zenon
  <2> QED  BY <1>1, <1>4, <2>1, Zenon DEF ViewType, SendDoes, SendTells
<1> QED  BY <1>2, <1>3, <1>4, Zenon DEF StepOf, AuthDoes, EndDoes, ThreadDoes

(* What becomes of users and entries after a session is created.           *)
Kept == UNCHANGED <<generation, sid>>
UsersKept ==
  \/ UNCHANGED users
  \/ \E g \in Gens : users' = [users EXCEPT ![sid[g]] = IF @ = g THEN NoGen ELSE @]
EntriesKept ==
  \/ UNCHANGED entries
  \/ \E g \in Gens : entries' = [entries EXCEPT ![sid[g]] = g]
  \/ \E g \in Gens : entries' = [entries EXCEPT ![sid[g]] = IF @ = g THEN NoGen ELSE @]
  \/ \E g \in Gens : entries' = [entries EXCEPT ![sid[g]] = NoGen]

LEMMA Sources ==
  ASSUME Next, \A s \in SIDs : ~Add(s) PROVE Kept /\ UsersKept /\ EntriesKept
<1> USE DEF Kept, UsersKept, EntriesKept
<1>1. ASSUME NEW g \in Gens, Authenticate(g) PROVE Kept /\ UsersKept /\ EntriesKept
  <2>1. CASE Bind(g)
    BY <2>1, Zenon DEF Bind
  <2>2. CASE BeginSyncRefused(g)
    BY <2>2, Zenon DEF BeginSyncRefused
  <2>3. CASE Reject(g)
    BY <2>3, Zenon DEF Reject
  <2>4. CASE \/ BindRefused(g) \/ BeginSync(g) \/ CryptSetup(g) \/ RegisterConnOnly(g)
             \/ SnapshotAll(g) \/ \E h \in Gens : SendRoster(g, h)
    BY <2>4, Zenon DEF BindRefused, BeginSync, CryptSetup, RegisterConnOnly, SnapshotAll, SendRoster
  <2>5. CASE Commit(g) \/ CommitFails(g) \/ Announced(g)
    BY <2>5, Zenon DEF Commit, CommitFails, Announced
  <2> QED  BY <1>1, <2>1, <2>2, <2>3, <2>4, <2>5, Zenon DEF Authenticate
<1>2. ASSUME NEW g \in Gens, Kick(g) \/ Ban(g) \/ QueueFails(g) \/ Leave(g)
      PROVE  Kept /\ UsersKept /\ EntriesKept
  BY <1>2, Zenon DEF Kick, Ban, StartPath, QueueFails, Leave
<1>3. ASSUME NEW g \in Gens, NEW t \in Threads, Thread(g, t)
      PROVE  Kept /\ UsersKept /\ EntriesKept
  <2>1. CASE RemoveIfGeneration(g, t)
    BY <2>1, Zenon DEF RemoveIfGeneration
  <2>2. CASE Unregister(g, t)
    BY <2>2, Zenon DEF Unregister
  <2>3. CASE Close(g, t) \/ Hold(g, t) \/ HoldStale(g, t) \/ Release(g, t)
    BY <2>3, Zenon DEF Close, Hold, HoldStale, Release
  <2>4. CASE \/ Broadcast(g, t) \/ (\E h \in Gens : Send(g, t, h)) \/ UnregisterStale(g, t)
    BY <2>4, Zenon DEF Broadcast, Send, UnregisterStale
  <2>5. CASE SendThenClose(g, t) \/ AbortSync(g, t)
    BY <2>5, Zenon DEF SendThenClose, AbortSync
  <2> QED  BY <1>3, <2>1, <2>2, <2>3, <2>4, <2>5, Zenon DEF Thread
<1> QED  BY <1>1, <1>2, <1>3, Zenon DEF Next

LEMMA CreatedStep == ASSUME Shape, Next, SessionType' PROVE CreatedInv'
<1>1. /\ sid \in [Gens -> SIDs \cup {NoSID}] /\ users \in [SIDs -> 0 .. MaxGen]
      /\ entries \in [SIDs -> 0 .. MaxGen] /\ generation \in Nat /\ auth \in [Gens -> Phases]
  BY MaxGenAssumption DEF Shape, TypeOK, SessionType
<1>2. CreatedInv
  BY Zenon DEF Shape
<1>3. PICK g \in Gens : Others(g) /\ StepOf(g)
  BY NextDoes, Zenon
<1>4. CASE \E s \in SIDs : Add(s)
  <2>1. PICK s \in SIDs : Add(s)
    BY <1>4, Zenon
  <2>2. PICK k \in Gens : k = generation + 1 /\ generation' = k /\ sid'[k] = s /\ Others(k) /\ AddDoes(k)
    BY <2>1, AddEffect, Zenon
  <2>3. users[s] = NoGen /\ users' = [users EXCEPT ![s] = k] /\ UNCHANGED entries
    BY <2>1, <2>2, Zenon DEF Add
  <2>4. \A h \in Gens : /\ auth'[h] = "none" <=> h > generation'
                        /\ sid'[h] = NoSID <=> h > generation'
    <3>1. ASSUME NEW h \in Gens, h # k
          PROVE  /\ auth'[h] = auth[h] /\ sid'[h] = sid[h]
                 /\ h > generation' <=> h > generation
      BY <1>1, <2>2, <3>1, GensAre DEF Others, SameSession, SamePhase, SameUser
    <3>2. auth'[k] # "none" /\ sid'[k] # NoSID /\ ~(k > generation')
      BY <2>2, GensAre, SIDsAssumption DEF AddDoes
    <3> QED  BY <1>2, <3>1, <3>2, Zenon DEF CreatedInv
  <2>5. \A h \in Gens, t \in Threads : Where(h, t)' = Where(h, t)
    BY <2>2, ZenonT(30) DEF Others, SameSession, SameThreads, AddDoes, Stay
  <2>6. \A h \in Gens : h > generation' => h > generation
    BY <1>1, <2>2, GensAre
  <2>7. \A x \in SIDs : /\ users'[x] # NoGen => sid'[users'[x]] = x
                        /\ entries'[x] # NoGen => sid'[entries'[x]] = x
    <3>1. \A h \in Gens : h # k => sid'[h] = sid[h]
      BY <2>2, Zenon DEF Others, SameSession, SameUser
    <3>2. sid[k] = NoSID
      BY <1>1, <1>2, <2>2, GensAre DEF CreatedInv
    <3> QED  BY <1>1, <1>2, <2>2, <2>3, <3>1, <3>2, GensAre, SIDsAssumption DEF CreatedInv
  <2>8. \A h \in Gens : h > generation' => \A t \in Threads : Where(h, t)' = "end"
    BY <1>2, <2>5, <2>6, ZenonT(30) DEF CreatedInv
  <2> QED  BY <2>4, <2>7, <2>8, Zenon DEF CreatedInv
<1>5. CASE \A s \in SIDs : ~Add(s)
  <2>1. Kept /\ UsersKept /\ EntriesKept
    BY <1>5, Sources, Zenon
  <2>2. \A x \in SIDs : /\ users'[x] # NoGen => sid'[users'[x]] = x
                        /\ entries'[x] # NoGen => sid'[entries'[x]] = x
    <3>1. \A x \in SIDs : users'[x] # NoGen => sid'[users'[x]] = x
      BY <1>1, <1>2, <2>1 DEF CreatedInv, Kept, UsersKept
    <3>2. \A x \in SIDs : entries'[x] # NoGen => sid'[entries'[x]] = x
      BY <1>1, <1>2, <2>1 DEF CreatedInv, Kept, EntriesKept
    <3> QED  BY <3>1, <3>2, Zenon
  <2>3. /\ auth'[g] = "none" <=> auth[g] = "none"
        /\ auth[g] = "none" => \A t \in Threads : Where(g, t)' = "end"
    <3>1. CASE auth[g] = "none"
      <4>1. sid[g] = NoSID /\ ~Live(g) /\ ~Bound(g) /\ \A t \in Threads : Where(g, t) = "end"
        BY <1>2, <3>1, Zenon DEF CreatedInv, Live, Bound
      <4>2. ~AddDoes(g)
        BY <2>1, <4>1, SIDsAssumption, Zenon DEF AddDoes, Kept
      <4>3. ~AuthDoes(g)
        BY <3>1, Zenon DEF AuthDoes, BindDoes, PhaseDoes, BeginDoes, BeginRefusedDoes, RejectDoes,
           AbortDoes, CommitDoes, AnnouncedDoes, RosterDoes
      <4>4. ~EndDoes(g)
        BY <3>1, <4>1, Zenon DEF EndDoes, StartDoes, FailDoes, LeaveDoes, Deliverable
      <4>5. \A t \in Threads : ~ThreadDoes(g, t)
        BY <4>1, Zenon DEF ThreadDoes, CloseDoes, HoldDoes, HoldStaleDoes, ReleaseDoes, BroadcastDoes,
           FinalDoes, AbortSyncDoes, RemoveDoes, UnregisterDoes, UnregisterStaleDoes, SendDoes
      <4> QED  BY <1>3, <4>2, <4>3, <4>4, <4>5, Zenon DEF StepOf
    <3>2. CASE auth[g] # "none"
      <4>1. CASE AuthDoes(g)
        BY <3>2, <4>1, Zenon DEF AuthDoes, BindDoes, PhaseDoes, BeginDoes, BeginRefusedDoes, RejectDoes,
           AbortDoes, CommitDoes, AnnouncedDoes, RosterDoes
      <4>2. CASE EndDoes(g)
        BY <3>2, <4>2, Zenon DEF EndDoes, StartDoes, FailDoes, LeaveDoes, SamePhase
      <4>3. ASSUME NEW t \in Threads, ThreadDoes(g, t) PROVE auth'[g] = auth[g]
        BY <4>3, Zenon DEF ThreadDoes, CloseDoes, HoldDoes, HoldStaleDoes, ReleaseDoes,
           BroadcastDoes, FinalDoes, AbortSyncDoes, RemoveDoes, UnregisterDoes,
           UnregisterStaleDoes, SendDoes, SamePhase
      <4>4. ~AddDoes(g)
        BY <3>2, Zenon DEF AddDoes
      <4> QED  BY <1>3, <3>2, <4>1, <4>2, <4>3, <4>4, Zenon DEF StepOf
    <3> QED  BY <3>1, <3>2, Zenon
  <2>4. ASSUME NEW h \in Gens
        PROVE  /\ auth'[h] = "none" <=> h > generation'
               /\ sid'[h] = NoSID <=> h > generation'
               /\ h > generation' => \A t \in Threads : Where(h, t)' = "end"
    <3>1. sid' = sid /\ generation' = generation
      BY <2>1, Zenon DEF Kept
    <3>2. CASE h = g
      BY <1>2, <2>3, <3>1, <3>2, Zenon DEF CreatedInv
    <3>3. CASE h # g
      BY <1>2, <1>3, <3>1, <3>3, Zenon
      DEF CreatedInv, Others, SameSession, SamePhase, SameThreads, Stay
    <3> QED  BY <3>2, <3>3, Zenon
  <2> QED  BY <2>2, <2>4, Zenon DEF CreatedInv
<1> QED  BY <1>4, <1>5, Zenon

LEMMA ShapeStep == ASSUME Shape, [Next]_vars PROVE Shape'
<1>1. CASE Next
  <2>1. SessionType'
    <3>1. ASSUME NEW s \in SIDs, Add(s) PROVE SessionType'
      BY <3>1, MaxGenAssumption DEF Shape, TypeOK, SessionType, Add, Phases, Gens
    <3> QED  BY <1>1, <3>1, AuthTypes, EndTypes, ThreadTypes, Zenon DEF Next
  <2>2. RestType' /\ ViewType' /\ CreatedInv'
    BY <1>1, <2>1, RestTypes, NextDoes, ViewTypes, CreatedStep, Zenon
  <2> QED  BY <2>1, <2>2, Zenon DEF Shape, TypeOK
<1>2. CASE UNCHANGED vars
  BY <1>2, Zenon DEF vars, Shape, TypeOK, SessionType, RestType, ViewType, CreatedInv, Where
<1> QED  BY <1>1, <1>2, Zenon

LEMMA ShapeInit == Init => Shape
<1> SUFFICES ASSUME Init PROVE CreatedInv
  BY InitType, Zenon DEF Shape
<1>1. \A g \in Gens, t \in Threads : Where(g, t) = "end"
  BY Zenon DEF Init, Where, Pos
<1>2. \A g \in Gens : auth[g] = "none" /\ sid[g] = NoSID /\ g > generation
  BY DEF Init, Gens
<1>3. \A s \in SIDs : users[s] = NoGen /\ entries[s] = NoGen
  BY Zenon DEF Init
<1> QED  BY <1>1, <1>2, <1>3, Zenon DEF CreatedInv

LEMMA ShapeHolds == Spec => []Shape
  BY ShapeInit, ShapeStep, PTL DEF Spec

=============================================================================
