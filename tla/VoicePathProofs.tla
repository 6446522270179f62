--------------------------- MODULE VoicePathProofs ---------------------------
(***************************************************************************)
(* Proofs about VoicePath, for any number of connections, session IDs,     *)
(* addresses, packets and workers, with keys and in lite mode: a session   *)
(* with a key is credited only with packets that key sealed, and a whisper *)
(* reaches only those it was meant for.                                    *)
(***************************************************************************)
EXTENDS VoicePath, TLAPS

\* A connection past Bind: it will not be bound again.
Settled == {"bound", "leaving", "mapped", "active", "closed"}
Departed(c) == stage[c] \in Settled /\ ~Bound(c)

Types ==
  /\ holder \in [Sids -> Conns \cup {Nobody}]
  /\ DOMAIN bound = Sids
  /\ \A s \in Sids : DOMAIN bound[s] = {"conn", "state"} /\ bound[s].conn \in Conns \cup {Nobody}
  /\ sidOf \in [Conns -> Sids \cup {Nobody}]
  /\ stage \in [Conns -> Settled \cup {"new", "entered"}]
  /\ \A c \in Conns : stage[c] # "new" => sidOf[c] \in Sids
  /\ named \in [Conns -> SUBSET Conns]
  /\ DOMAIN heard = Conns /\ DOMAIN addrBySession = Conns
  /\ DOMAIN job = Workers /\ DOMAIN voiceTargets = Sids

\* An address belongs to a session with a key only if its own datagrams came
\* from there.
HeardAt(c, a) == c \in Lite \/ a \in heard[c]
Addresses == \A c \in Conns : addrBySession[c] # Nobody => HeardAt(c, addrBySession[c])

\* A stored target belongs to the session whose ID it is stored under, and
\* names whom that session meant.
TargetGood(s, spec) ==
  /\ DOMAIN spec = {"owner", "sessions", "channels"}
  /\ spec.owner \in Conns /\ sidOf[spec.owner] = s /\ stage[spec.owner] \in Settled
  /\ ~spec.channels => Named(spec) \subseteq named[spec.owner]

Targets ==
  \A s \in Sids : \A t : voiceTargets[s] = t => t = <<>> \/ \E spec : t = <<spec>> /\ TargetGood(s, spec)

\* A packet on its way.  One that resolved the target of a successor under the
\* same session ID belongs to a session that has gone: SendVoice drops it.
HasSender(j) == j.key \in Conns /\ j.ref \in Conns /\ Opens(j.ref, j) /\ stage[j.ref] \in Settled
HasList(j) == HasSender(j) /\ j.meant \subseteq Conns

JobGood(j) ==
  \/ j = NoJob
  \/ /\ j.pc \in {"cached", "trial"} /\ DOMAIN j = {"pc", "key", "addr"}
     /\ j.key \in Conns /\ j.addr \in heard[j.key]
  \/ /\ j.pc = "identified" /\ DOMAIN j = {"pc", "key", "addr", "sid", "crypt"}
     /\ j.key \in Conns /\ j.crypt \in Conns /\ Opens(j.crypt, j) /\ j.addr \in heard[j.key]
  \/ /\ j.pc \in {"adopted", "remember"} /\ DOMAIN j = {"pc", "key", "addr", "ref"}
     /\ HasSender(j) /\ j.addr \in heard[j.key]
  \/ j.pc = "route" /\ DOMAIN j = {"pc", "key", "ref"} /\ HasSender(j)
  \/ j.pc = "resolve" /\ DOMAIN j = {"pc", "key", "ref", "ids"} /\ HasSender(j) /\ j.ids \subseteq Sids
  \/ /\ j.pc \in {"send", "dispatch", "deliver"} /\ DOMAIN j = {"pc", "key", "ref", "to", "meant"}
     /\ HasList(j) /\ (j.to \subseteq j.meant \/ (j.pc = "send" /\ Departed(j.ref)))
  \/ /\ j.pc = "lookup" /\ DOMAIN j = {"pc", "key", "ref", "to", "meant", "cur"}
     /\ HasList(j) /\ j.to \subseteq j.meant /\ j.cur \in j.meant
  \/ /\ j.pc = "write" /\ DOMAIN j = {"pc", "key", "ref", "to", "meant", "conn", "addr"}
     /\ HasList(j) /\ j.to \subseteq j.meant /\ j.conn \in j.meant
     /\ j.addr # Nobody => HeardAt(j.conn, j.addr)

Jobs == \A w \in Workers : \A j : job[w] = j => JobGood(j)

VoiceInv == Types /\ Addresses /\ Targets /\ Jobs

LEMMA VoiceStart == VoiceInit => VoiceInv
<1>1. SUFFICES ASSUME VoiceInit PROVE VoiceInv
  OBVIOUS
<1>2. ASSUME NEW s \in Sids PROVE holder[s] \in Conns \cup {Nobody}
  <2>1. \E c \in Conns \cup {Nobody} : IF SeatedAt(s) = {} THEN c = Nobody ELSE c \in SeatedAt(s)
    BY VoiceAssumption, Zenon DEF SeatedAt
  <2>. QED  BY <1>1, <2>1, Zenon DEF VoiceInit
<1>3. DOMAIN holder = Sids
  BY <1>1, Zenon DEF VoiceInit
<1>4. holder \in [Sids -> Conns \cup {Nobody}]
  <2>1. holder = [s \in Sids |-> holder[s]]
    BY <1>1 DEF VoiceInit
  <2>. QED  BY <1>2, <2>1, Zenon
<1>5. /\ DOMAIN bound = Sids
      /\ \A s \in Sids : DOMAIN bound[s] = {"conn", "state"} /\ bound[s].conn \in Conns \cup {Nobody}
  BY <1>1, <1>2, Zenon DEF VoiceInit, Unbound
<1>6. /\ sidOf \in [Conns -> Sids \cup {Nobody}]
      /\ stage \in [Conns -> Settled \cup {"new", "entered"}]
      /\ \A c \in Conns : stage[c] # "new" => sidOf[c] \in Sids
  BY <1>1, VoiceAssumption, Zenon DEF VoiceInit, Settled
<1>7. Types
  BY <1>1, <1>4, <1>5, <1>6, Zenon DEF VoiceInit, Types
<1>8. Addresses /\ Targets /\ Jobs
  BY <1>1, Zenon DEF VoiceInit, Addresses, Targets, Jobs, JobGood
<1>. QED  BY <1>7, <1>8, Zenon DEF VoiceInv

\* Who is settled stays so, who has gone stays away, addresses are not unheard:
\* then a packet on its way is as good as before.
LEMMA JobFrame ==
  ASSUME \A c \in Conns : heard[c] \subseteq heard'[c],
         \A c \in Conns : stage[c] \in Settled => stage'[c] \in Settled,
         \A c \in Conns : Departed(c) => Departed(c)',
         NEW j, JobGood(j)
  PROVE  JobGood(j)'
<1>1. HasSender(j) => HasSender(j)'
  BY Zenon DEF HasSender, Opens
<1>2. HasList(j) => HasList(j)'
  BY <1>1, Zenon DEF HasList
<1>3. HasList(j) /\ Departed(j.ref) => Departed(j.ref)'
  BY Zenon DEF HasList, HasSender
<1>4. \A c \in Conns : \A a : /\ a \in heard[c] => a \in heard'[c]
                              /\ HeardAt(c, a) => HeardAt(c, a)'
  BY Zenon DEF HeardAt
<1>5. CASE j.pc \in {"cached", "trial", "identified"}
  BY <1>4, <1>5, Zenon DEF JobGood, Opens
<1>6. CASE j.pc \in {"adopted", "remember", "route", "resolve"}
  BY <1>1, <1>4, <1>6, Zenon DEF JobGood, HasSender, Opens
<1>7. CASE j.pc \in {"send", "dispatch", "deliver", "lookup"}
  BY <1>2, <1>3, <1>7, Zenon DEF JobGood
<1>8. CASE j.pc = "write"
  <2>1. HasList(j) /\ j.conn \in Conns /\ (j.addr # Nobody => HeardAt(j.conn, j.addr))
    BY <1>8 DEF JobGood, NoJob, HasList
  <2>2. HasList(j)' /\ (j.addr # Nobody => HeardAt(j.conn, j.addr)')
    BY <1>2, <1>4, <2>1, Zenon
  <2>. QED  BY <1>8, <2>2 DEF JobGood, NoJob
<1>9. CASE j = NoJob
  BY <1>9, Zenon DEF JobGood
<1>. QED  BY <1>5, <1>6, <1>7, <1>8, <1>9, Zenon DEF JobGood

\* A step of one packet.
LEMMA OneJob ==
  ASSUME VoiceInv, NEW w \in Workers, NEW r, Then(w, r), JobGood(r)', Addresses',
         UNCHANGED <<holder, bound, sidOf, stage, voiceTargets, named>>,
         DOMAIN heard' = Conns, DOMAIN addrBySession' = Conns,
         \A c \in Conns : heard[c] \subseteq heard'[c]
  PROVE  VoiceInv'
<1>1. Types'
  BY Zenon DEF VoiceInv, Types, Then
<1>2. Targets'
  BY DEF VoiceInv, Targets, TargetGood
<1>3. \A c : Departed(c) => Departed(c)'
  BY Zenon DEF Departed, Bound
<1>4. ASSUME NEW x \in Workers, NEW j, job'[x] = j PROVE JobGood(j)'
  <2>1. CASE x = w
    BY <1>4, <2>1, Zenon DEF VoiceInv, Types, Then
  <2>2. CASE x # w
    <3>1. JobGood(j)
      BY <1>4, <2>2, Zenon DEF VoiceInv, Jobs, Types, Then
    <3>. QED  BY <1>3, <3>1, JobFrame, Zenon
  <2>. QED  BY <2>1, <2>2, Zenon
<1>. QED  BY <1>1, <1>2, <1>4, Zenon DEF VoiceInv, Jobs

LEMMA OneJobOnly ==
  ASSUME VoiceInv, NEW w \in Workers, NEW r, Then(w, r), JobGood(r), UnchangedButJob
  PROVE  VoiceInv'
<1>1. UNCHANGED <<holder, bound, sidOf, stage, voiceTargets, named, heard, addrBySession>>
  BY Zenon DEF UnchangedButJob, sessVars, addrVars
<1>2. Addresses' /\ DOMAIN heard' = Conns /\ DOMAIN addrBySession' = Conns
  BY <1>1, Zenon DEF VoiceInv, Types, Addresses, HeardAt
<1>3. \A c : Departed(c) => Departed(c)'
  BY <1>1, Zenon DEF Departed, Bound
<1>4. JobGood(r)'
  BY <1>1, <1>3, JobFrame, Zenon
<1>. QED  BY <1>1, <1>2, <1>4, OneJob, Zenon

LEMMA JobOf ==
  ASSUME VoiceInv, NEW w \in Workers, NEW j, j = job[w]
  PROVE  JobGood(j)
BY Zenon DEF VoiceInv, Jobs

LEMMA NoJobGood == JobGood(NoJob)
BY Zenon DEF JobGood

LEMMA VoiceReceive ==
  ASSUME VoiceInv, NEW w \in Workers, NEW c \in Conns, NEW a \in Addrs, Receive(w, c, a)
  PROVE  VoiceInv'
<1>1. UNCHANGED <<holder, bound, sidOf, stage, voiceTargets, named, addrBySession>>
      /\ heard' = [heard EXCEPT ![c] = @ \cup {a}]
  BY Zenon DEF Receive, sessVars, addrVars
<1>2. DOMAIN heard' = Conns /\ DOMAIN addrBySession' = Conns /\ a \in heard'[c]
      /\ \A d \in Conns : heard[d] \subseteq heard'[d]
  BY <1>1, Zenon DEF VoiceInv, Types
<1>3. Addresses'
  BY <1>1, <1>2, Zenon DEF VoiceInv, Addresses, HeardAt
<1>4. PICK r : r = [pc |-> "cached", key |-> c, addr |-> a] /\ Then(w, r)
  BY Zenon DEF Receive
<1>5. JobGood(r)'
  BY <1>2, <1>4, Zenon DEF JobGood
<1>. QED  BY <1>1, <1>2, <1>3, <1>4, <1>5, OneJob, Zenon

LEMMA VoiceTunnel ==
  ASSUME VoiceInv, NEW w \in Workers, NEW c \in Conns, Tunnel(w, c)
  PROVE  VoiceInv'
<1>1. UNCHANGED <<holder, bound, sidOf, stage, voiceTargets, named, addrBySession, heard>>
  BY Zenon DEF Tunnel, sessVars, addrVars
<1>2. DOMAIN heard' = Conns /\ DOMAIN addrBySession' = Conns /\ Addresses'
  BY <1>1, Zenon DEF VoiceInv, Types, Addresses, HeardAt
<1>3. PICK r : r = [pc |-> "route", key |-> c, ref |-> c] /\ Then(w, r)
  BY Zenon DEF Tunnel
<1>4. JobGood(r)'
  BY <1>1, <1>3, Zenon DEF JobGood, HasSender, Opens, Tunnel, ConnActive, Settled
<1>. QED  BY <1>1, <1>2, <1>3, <1>4, OneJob, Zenon

LEMMA IdentifiedGood ==
  ASSUME NEW j, j.key \in Conns, j.addr \in heard[j.key], NEW s, NEW c, Opens(c, j),
         NEW r, r = Identified(j, s, c)
  PROVE  JobGood(r)
<1>1. /\ r.pc = "identified" /\ DOMAIN r = {"pc", "key", "addr", "sid", "crypt"}
      /\ r.key = j.key /\ r.addr = j.addr /\ r.crypt = c
  BY Zenon DEF Identified
<1>2. c \in Conns
  BY VoiceAssumption, Zenon DEF Opens
<1>. QED  BY <1>1, <1>2, Zenon DEF JobGood, Opens

LEMMA VoiceCached ==
  ASSUME VoiceInv, NEW w \in Workers, Cached(w)
  PROVE  VoiceInv'
<1>1. UNCHANGED <<holder, bound, sidOf, stage, voiceTargets, named, addrBySession, heard>>
  BY Zenon DEF Cached, sessVars
<1>2. DOMAIN heard' = Conns /\ DOMAIN addrBySession' = Conns /\ Addresses'
  BY <1>1, Zenon DEF VoiceInv, Types, Addresses, HeardAt
<1>3. PICK j : j = job[w]
  OBVIOUS
<1>4. JobGood(j) /\ j.pc = "cached"
  BY <1>3, JobOf, Zenon DEF Cached, Work
<1>5. DOMAIN j = {"pc", "key", "addr"} /\ j.key \in Conns /\ j.addr \in heard[j.key]
  BY <1>4 DEF JobGood, NoJob
<1>6. CASE Then(w, [j EXCEPT !.pc = "trial"])
  <2>1. PICK r : r = [j EXCEPT !.pc = "trial"] /\ Then(w, r)
    BY <1>6, Zenon
  <2>2. JobGood(r)'
    BY <1>1, <1>5, <2>1, Zenon DEF JobGood
  <2>. QED  BY <1>1, <1>2, <2>1, <2>2, OneJob, Zenon
<1>7. CASE \E sid, c : Opens(c, j) /\ Then(w, Identified(j, sid, c))
  <2>1. PICK sid, c, r : r = Identified(j, sid, c) /\ Opens(c, j) /\ Then(w, r)
    BY <1>7, Zenon
  <2>2. JobGood(r)
    BY <1>5, <2>1, IdentifiedGood, Zenon
  <2>3. \A d : Departed(d) => Departed(d)'
    BY <1>1, Zenon DEF Departed, Bound
  <2>4. JobGood(r)'
    BY <1>1, <2>2, <2>3, JobFrame, Zenon
  <2>. QED  BY <1>1, <1>2, <2>1, <2>4, OneJob, Zenon
<1>. QED  BY <1>3, <1>6, <1>7, Zenon DEF Cached

LEMMA VoiceTrial ==
  ASSUME VoiceInv, NEW w \in Workers, Trial(w)
  PROVE  VoiceInv'
<1>1. PICK j : j = job[w]
  OBVIOUS
<1>2. JobGood(j) /\ j.pc = "trial"
  BY <1>1, JobOf, Zenon DEF Trial, Work
<1>3. j.key \in Conns /\ j.addr \in heard[j.key]
  BY <1>2 DEF JobGood, NoJob
<1>4. PICK r : Then(w, r) /\ (r = NoJob \/ \E s, c : Opens(c, j) /\ r = Identified(j, s, c))
  BY <1>1, Zenon DEF Trial, Drop
<1>5. JobGood(r)
  BY <1>3, <1>4, NoJobGood, IdentifiedGood, Zenon
<1>. QED  BY <1>4, <1>5, OneJobOnly, Zenon DEF Trial

LEMMA VoiceAdopt ==
  ASSUME VoiceInv, NEW w \in Workers, Adopt(w)
  PROVE  VoiceInv'
<1>1. PICK j : j = job[w]
  OBVIOUS
<1>2. JobGood(j) /\ j.pc = "identified"
  BY <1>1, JobOf, Zenon DEF Adopt, Work
<1>3. j.key \in Conns /\ j.addr \in heard[j.key] /\ j.crypt \in Conns /\ Opens(j.crypt, j)
  BY <1>2 DEF JobGood, NoJob
<1>4. CASE Drop(w)
  BY <1>4, NoJobGood, OneJobOnly, Zenon DEF Drop, Adopt
<1>5. CASE ~Drop(w)
  <2>1. PICK r : /\ Then(w, r) /\ r = [pc |-> "adopted", key |-> j.key, addr |-> j.addr, ref |-> j.crypt]
                 /\ stage[j.crypt] = "active"
    BY <1>1, <1>3, <1>5, Zenon DEF Adopt, ConnActive
  <2>2. JobGood(r)
    BY <1>3, <2>1, Zenon DEF JobGood, HasSender, Opens, Settled
  <2>. QED  BY <2>1, <2>2, OneJobOnly, Zenon DEF Adopt
<1>. QED  BY <1>4, <1>5, Zenon

LEMMA VoiceConfirm ==
  ASSUME VoiceInv, NEW w \in Workers, Confirm(w)
  PROVE  VoiceInv'
<1>1. PICK j : j = job[w]
  OBVIOUS
<1>2. JobGood(j) /\ j.pc = "adopted"
  BY <1>1, JobOf, Zenon DEF Confirm, Work
<1>3. PICK r : Then(w, r) /\ (r = NoJob \/ r = [j EXCEPT !.pc = "remember"])
  BY <1>1, Zenon DEF Confirm, Drop
<1>4. JobGood(r)
  BY <1>2, <1>3 DEF JobGood, NoJob, HasSender, Opens
<1>. QED  BY <1>3, <1>4, OneJobOnly, Zenon DEF Confirm

LEMMA VoiceRemember ==
  ASSUME VoiceInv, NEW w \in Workers, Remember(w)
  PROVE  VoiceInv'
<1>1. PICK j : j = job[w]
  OBVIOUS
<1>2. JobGood(j) /\ j.pc = "remember"
  BY <1>1, JobOf, Zenon DEF Remember, Work
<1>3. HasSender(j) /\ HeardAt(j.ref, j.addr)
  BY <1>2 DEF JobGood, NoJob, HasSender, HeardAt, Opens
<1>4. UNCHANGED <<holder, bound, sidOf, stage, voiceTargets, named, heard>>
      /\ addrBySession' = [addrBySession EXCEPT ![j.ref] = j.addr]
  BY <1>1, Zenon DEF Remember, sessVars
<1>5. Addresses' /\ DOMAIN heard' = Conns /\ DOMAIN addrBySession' = Conns
  BY <1>3, <1>4, Zenon DEF VoiceInv, Types, Addresses, HasSender, HeardAt
<1>6. PICK r : Then(w, r) /\ (r = NoJob \/ r = [pc |-> "route", key |-> j.key, ref |-> j.ref])
  BY <1>1, Zenon DEF Remember, Drop
<1>7. JobGood(r)'
  BY <1>3, <1>4, <1>6 DEF JobGood, HasSender, Opens
<1>. QED  BY <1>4, <1>5, <1>6, <1>7, OneJob, Zenon

\* A target that another session stored under the same ID is resolved only
\* for a sender that has gone.
LEMMA VoiceWhisper ==
  ASSUME VoiceInv, NEW w \in Workers, Whisper(w)
  PROVE  VoiceInv'
<1>1. PICK j : j = job[w]
  OBVIOUS
<1>2. JobGood(j) /\ j.pc = "route"
  BY <1>1, JobOf, Zenon DEF Whisper, Work
<1>3. HasSender(j)
  BY <1>2 DEF JobGood, NoJob
<1>4. CASE Drop(w)
  BY <1>4, NoJobGood, OneJobOnly, Zenon DEF Drop, Whisper
<1>5. CASE ~Drop(w)
  <2>1. PICK t : t = voiceTargets[sidOf[j.ref]]
    OBVIOUS
  <2>2. PICK to, r : /\ t # <<>> /\ ActiveRef(t[1].owner)
                     /\ to \subseteq Recipients(t)
                     /\ r = Routed(j, to, IF t[1].channels THEN Conns ELSE named[j.ref])
                     /\ Then(w, r)
    BY <1>1, <1>5, <2>1, Zenon DEF Whisper
  <2>3. sidOf[j.ref] \in Sids
    BY <1>3, Zenon DEF HasSender, VoiceInv, Types, Settled
  <2>4. PICK spec : t = <<spec>> /\ TargetGood(sidOf[j.ref], spec)
    BY <2>1, <2>2, <2>3, Zenon DEF VoiceInv, Targets
  <2>5. t[1] = spec
    BY <2>4, Zenon
  <2>6. r.pc = "send" /\ DOMAIN r = {"pc", "key", "ref", "to", "meant"} /\ r.key = j.key /\ r.ref = j.ref
        /\ r.to = to /\ r.meant = (IF spec.channels THEN Conns ELSE named[j.ref])
    BY <2>2, <2>5, Zenon DEF Routed
  <2>7. HasList(r)
    BY <1>3, <2>6, Zenon DEF HasList, HasSender, Opens, VoiceInv, Types
  <2>8. CASE spec.channels
    <3>1. to \subseteq Conns
      BY <2>2, <2>5, <2>8, Zenon DEF Recipients
    <3>. QED  BY <2>2, <2>6, <2>7, <2>8, <3>1, OneJobOnly, Zenon DEF JobGood, Whisper
  <2>9. CASE ~spec.channels /\ spec.owner = j.ref
    <3>1. to \subseteq named[j.ref]
      BY <2>2, <2>4, <2>5, <2>9, Zenon DEF Recipients, TargetGood
    <3>. QED  BY <2>2, <2>6, <2>7, <2>9, <3>1, OneJobOnly, Zenon DEF JobGood, Whisper
  <2>10. CASE spec.owner # j.ref
    <3>1. Departed(j.ref)
      BY <1>3, <2>2, <2>4, <2>5, <2>10, Zenon DEF Departed, HasSender, TargetGood, ActiveRef, Bound
    <3>. QED  BY <2>2, <2>6, <2>7, <3>1, OneJobOnly, Zenon DEF JobGood, Whisper
  <2>. QED  BY <2>8, <2>9, <2>10, Zenon
<1>. QED  BY <1>4, <1>5, Zenon

LEMMA VoiceSpeak ==
  ASSUME VoiceInv, NEW w \in Workers, Speak(w) \/ ResolveSession(w) \/ Loopback(w)
  PROVE  VoiceInv'
<1>1. PICK j : j = job[w]
  OBVIOUS
<1>2. JobGood(j)
  BY <1>1, JobOf, Zenon
<1>3. CASE Speak(w)
  <2>1. j.pc = "route" /\ HasSender(j)
    BY <1>1, <1>2, <1>3 DEF Speak, Work, JobGood, NoJob
  <2>2. PICK ids, r : /\ ids \subseteq Sids /\ Then(w, r)
                      /\ r = [pc |-> "resolve", key |-> j.key, ref |-> j.ref, ids |-> ids]
    BY <1>1, <1>3, Zenon DEF Speak
  <2>3. JobGood(r)
    BY <2>1, <2>2, Zenon DEF JobGood, HasSender, Opens
  <2>. QED  BY <1>3, <2>2, <2>3, OneJobOnly, Zenon DEF Speak
<1>4. CASE ResolveSession(w)
  <2>1. j.pc = "resolve" /\ HasSender(j) /\ j.ids \subseteq Sids
    BY <1>1, <1>2, <1>4 DEF ResolveSession, Work, JobGood, NoJob
  <2>2. PICK to, r : /\ to = {bound[s].conn : s \in j.ids} \ {Nobody} /\ Then(w, r)
                     /\ r = Routed(j, to, Conns)
    BY <1>1, <1>4, Zenon DEF ResolveSession
  <2>3. to \subseteq Conns
    BY <2>1, <2>2 DEF VoiceInv, Types
  <2>4. JobGood(r)
    BY <2>1, <2>2, <2>3, Zenon DEF JobGood, HasList, HasSender, Opens, Routed
  <2>. QED  BY <1>4, <2>2, <2>4, OneJobOnly, Zenon DEF ResolveSession
<1>5. CASE Loopback(w)
  <2>1. j.pc = "route" /\ HasSender(j)
    BY <1>1, <1>2, <1>5 DEF Loopback, Work, JobGood, NoJob
  <2>2. PICK r : Then(w, r) /\ r = Routed(j, {j.ref}, {j.ref})
    BY <1>1, <1>5, Zenon DEF Loopback
  <2>3. JobGood(r)
    BY <2>1, <2>2, Zenon DEF JobGood, HasList, HasSender, Opens, Routed
  <2>. QED  BY <1>5, <2>2, <2>3, OneJobOnly, Zenon DEF Loopback
<1>. QED  BY <1>3, <1>4, <1>5, Zenon

LEMMA VoiceFilter ==
  ASSUME VoiceInv, NEW w \in Workers, SendVoice(w) \/ DispatchVoice(w)
  PROVE  VoiceInv'
<1>1. PICK j : j = job[w]
  OBVIOUS
<1>2. PICK next \in {"dispatch", "deliver"} : /\ Filter(w, next) /\ j.pc \in {"send", "dispatch"}
  BY <1>1, Zenon DEF SendVoice, DispatchVoice, Work
<1>3. JobGood(j)
  BY <1>1, JobOf, Zenon
<1>4. DOMAIN j = {"pc", "key", "ref", "to", "meant"} /\ HasList(j) /\ (j.to \subseteq j.meant \/ Departed(j.ref))
  BY <1>2, <1>3 DEF JobGood, NoJob
<1>5. CASE ~ActiveRef(j.ref)
  BY <1>1, <1>2, <1>5, NoJobGood, OneJobOnly, Zenon DEF Filter, Drop
<1>6. CASE ActiveRef(j.ref)
  <2>1. j.to \subseteq j.meant
    BY <1>4, <1>6, Zenon DEF Departed, ActiveRef
  <2>2. PICK r : Then(w, r) /\ r = [j EXCEPT !.pc = next, !.to = {c \in @ : ActiveRef(c)}]
    BY <1>1, <1>2, <1>6, Zenon DEF Filter
  <2>3. r.pc = next /\ DOMAIN r = {"pc", "key", "ref", "to", "meant"} /\ r.key = j.key /\ r.ref = j.ref
        /\ r.to \subseteq j.to /\ r.meant = j.meant
    BY <1>4, <2>2, Zenon
  <2>4. JobGood(r)
    BY <1>2, <1>4, <2>1, <2>3, Zenon DEF JobGood, HasList, HasSender, Opens
  <2>. QED  BY <1>2, <2>2, <2>4, OneJobOnly, Zenon DEF Filter
<1>. QED  BY <1>5, <1>6, Zenon

LEMMA VoiceDeliver ==
  ASSUME VoiceInv, NEW w \in Workers, Deliver(w)
  PROVE  VoiceInv'
<1>1. PICK j : j = job[w]
  OBVIOUS
<1>2. JobGood(j) /\ j.pc = "deliver"
  BY <1>1, JobOf, Zenon DEF Deliver, Work
<1>3. DOMAIN j = {"pc", "key", "ref", "to", "meant"} /\ HasList(j) /\ j.to \subseteq j.meant
  BY <1>2 DEF JobGood, NoJob
<1>4. CASE Drop(w)
  BY <1>4, NoJobGood, OneJobOnly, Zenon DEF Drop, Deliver
<1>5. CASE ~Drop(w)
  <2>1. PICK c, r : /\ c \in j.to
                    /\ Then(w, r)
                    /\ r = IF ActiveRef(c)
                           THEN [pc |-> "lookup", key |-> j.key, ref |-> j.ref,
                                 to |-> j.to \ {c}, meant |-> j.meant, cur |-> c]
                           ELSE [j EXCEPT !.to = @ \ {c}]
    BY <1>1, <1>5, Zenon DEF Deliver
  <2>2. JobGood(r)
    <3>1. CASE ActiveRef(c)
      BY <1>3, <2>1, <3>1, Zenon DEF JobGood, HasList, HasSender, Opens
    <3>2. CASE ~ActiveRef(c)
      BY <1>2, <1>3, <2>1, <3>2, Zenon DEF JobGood, HasList, HasSender, Opens
    <3>. QED  BY <3>1, <3>2, Zenon
  <2>. QED  BY <2>1, <2>2, OneJobOnly, Zenon DEF Deliver
<1>. QED  BY <1>4, <1>5, Zenon

LEMMA VoiceLookup ==
  ASSUME VoiceInv, NEW w \in Workers, Lookup(w) \/ WriteVoice(w)
  PROVE  VoiceInv'
<1>1. PICK j : j = job[w]
  OBVIOUS
<1>2. JobGood(j) /\ j.pc \in {"lookup", "write"}
  BY <1>1, JobOf, Zenon DEF Lookup, WriteVoice, Work
<1>3. HasList(j) /\ j.to \subseteq j.meant /\ (j.pc = "lookup" => j.cur \in j.meant)
  BY <1>2 DEF JobGood, NoJob
<1>4. JobGood(Skip(j))
  BY <1>3, Zenon DEF JobGood, Skip, HasList, HasSender, Opens
<1>5. j.pc = "lookup" => JobGood(Found(j, j.cur))
  BY <1>3, Zenon DEF JobGood, Found, HasList, HasSender, Opens, HeardAt, VoiceInv, Addresses
<1>6. PICK r : Then(w, r) /\ (r = Skip(j) \/ (j.pc = "lookup" /\ r = Found(j, j.cur)))
  BY <1>1, Zenon DEF Lookup, WriteVoice, Work
<1>7. JobGood(r)
  BY <1>4, <1>5, <1>6, Zenon
<1>. QED  BY <1>6, <1>7, OneJobOnly, Zenon DEF Lookup, WriteVoice

-----------------------------------------------------------------------------
\* Sessions come and go: no packet, target or address gets worse.
LEMMA LifeFrame ==
  ASSUME VoiceInv, Types', UNCHANGED <<job, named, heard>>,
         \A c \in Conns : addrBySession'[c] \in {addrBySession[c], Nobody},
         \A c \in Conns : stage[c] \in Settled =>
                            stage'[c] \in Settled /\ sidOf'[c] = sidOf[c] /\ (Bound(c)' => Bound(c)),
         \A s \in Sids : \A t : voiceTargets'[s] = t =>
            t = <<>> \/ \E spec : t = <<spec>> /\ TargetGood(s, spec)
  PROVE  VoiceInv'
<1>1. Addresses'
  BY Zenon DEF VoiceInv, Addresses, HeardAt
<1>2. ASSUME NEW s \in Sids, NEW spec, TargetGood(s, spec) PROVE TargetGood(s, spec)'
  BY <1>2, Zenon DEF TargetGood, Named
<1>3. Targets'
  BY <1>2, Zenon DEF Targets
<1>4. \A c \in Conns : Departed(c) => Departed(c)'
  BY Zenon DEF Departed
<1>5. ASSUME NEW x \in Workers, NEW j, job'[x] = j PROVE JobGood(j)'
  <2>1. JobGood(j)
    BY <1>5, Zenon DEF VoiceInv, Jobs
  <2>. QED  BY <1>4, <2>1, JobFrame, Zenon
<1>. QED  BY <1>1, <1>3, <1>5, Zenon DEF VoiceInv, Jobs

LEMMA LifeEnter ==
  ASSUME VoiceInv, NEW c \in Conns, Enter(c)
  PROVE  VoiceInv'
<1>1. Types'
  BY DEF VoiceInv, Types, Enter, addrVars, Settled
<1>2. \A d \in Conns : stage[d] \in Settled =>
                         stage'[d] \in Settled /\ sidOf'[d] = sidOf[d] /\ (Bound(d)' => Bound(d))
  BY Zenon DEF VoiceInv, Types, Enter, Settled, Bound
<1>3. UNCHANGED <<job, named, heard, addrBySession, voiceTargets>>
  BY Zenon DEF Enter, addrVars
<1>. QED  BY <1>1, <1>2, <1>3, LifeFrame, Zenon DEF VoiceInv, Targets

LEMMA LifeBind ==
  ASSUME VoiceInv, NEW c \in Conns, BindRef(c)
  PROVE  VoiceInv'
<1>1. UNCHANGED <<sidOf, job, named, heard, addrBySession, voiceTargets>> /\ stage[c] = "entered"
  BY Zenon DEF BindRef, addrVars
<1>2. PICK s : s = sidOf[c] /\ s \in Sids
  BY <1>1, Zenon DEF VoiceInv, Types
<1>3. stage' \in [Conns -> Settled \cup {"new", "entered"}]
      /\ (\A d \in Conns : d # c => stage'[d] = stage[d]) /\ stage'[c] # "new"
  BY Zenon DEF VoiceInv, Types, BindRef, Settled
<1>4. holder' \in [Sids -> Conns \cup {Nobody}]
  BY <1>2, Zenon DEF VoiceInv, Types, BindRef
<1>5. bound' = bound \/ bound' = [bound EXCEPT ![s] = [conn |-> c, state |-> "syncing"]]
  BY <1>2, Zenon DEF BindRef
<1>6. /\ DOMAIN bound' = Sids
      /\ \A i \in Sids : /\ DOMAIN bound'[i] = {"conn", "state"}
                         /\ bound'[i].conn \in Conns \cup {Nobody} /\ bound'[i].conn \in {bound[i].conn, c}
  BY <1>2, <1>5 DEF VoiceInv, Types
<1>7. Types'
  BY <1>1, <1>3, <1>4, <1>6, Zenon DEF VoiceInv, Types
<1>8. ASSUME NEW d \in Conns, stage[d] \in Settled
      PROVE  stage'[d] \in Settled /\ sidOf'[d] = sidOf[d] /\ (Bound(d)' => Bound(d))
  <2>1. d # c /\ sidOf[d] \in Sids
    BY <1>1, <1>8, Zenon DEF VoiceInv, Types, Settled
  <2>. QED  BY <1>1, <1>3, <1>6, <1>8, <2>1, Zenon DEF Bound
<1>. QED  BY <1>1, <1>7, <1>8, LifeFrame, Zenon DEF VoiceInv, Targets

LEMMA LifeMap ==
  ASSUME VoiceInv, NEW c \in Conns, MapConn(c) \/ Commit(c) \/ Depart(c)
  PROVE  VoiceInv'
<1>1. UNCHANGED <<holder, sidOf, job, named, heard, addrBySession, voiceTargets>> /\ stage[c] \in Settled
  BY Zenon DEF MapConn, Commit, Depart, addrVars, Settled
<1>2. stage' \in [Conns -> Settled \cup {"new", "entered"}]
      /\ (\A d \in Conns : d # c => stage'[d] = stage[d]) /\ stage'[c] \in Settled
  BY Zenon DEF VoiceInv, Types, MapConn, Commit, Depart, Settled
<1>3. \/ bound' = bound
      \/ \E v : bound' = [bound EXCEPT ![sidOf[c]].state = v]
  BY Zenon DEF MapConn, Commit, Depart
<1>4. DOMAIN bound' = Sids /\ \A s \in Sids : DOMAIN bound'[s] = {"conn", "state"} /\ bound'[s].conn = bound[s].conn
  BY <1>3 DEF VoiceInv, Types
<1>5. Types'
  BY <1>1, <1>2, <1>4, Zenon DEF VoiceInv, Types, Settled
<1>6. ASSUME NEW d \in Conns, stage[d] \in Settled
      PROVE  stage'[d] \in Settled /\ sidOf'[d] = sidOf[d] /\ (Bound(d)' => Bound(d))
  <2>1. sidOf[d] \in Sids
    BY <1>6, Zenon DEF VoiceInv, Types, Settled
  <2>. QED  BY <1>1, <1>2, <1>4, <1>6, <2>1, Zenon DEF Bound
<1>. QED  BY <1>1, <1>5, <1>6, LifeFrame, Zenon DEF VoiceInv, Targets

\* A target that loses a recipient is still its owner's.
LEMMA WithoutGood ==
  ASSUME NEW o, NEW spec, TargetGood(o, spec), NEW s, NEW t, t = Without(<<spec>>, s)
  PROVE  t = <<>> \/ \E x : t = <<x>> /\ TargetGood(o, x)
<1>1. PICK left : left = [i \in DOMAIN spec.sessions \ {s} |-> spec.sessions[i]]
  BY Zenon
<1>2. PICK x : x = [spec EXCEPT !.sessions = left]
  BY Zenon
<1>3. t = <<>> \/ t = <<x>>
  BY <1>1, <1>2, Zenon DEF Without
<1>4. DOMAIN x = DOMAIN spec /\ x.owner = spec.owner /\ x.channels = spec.channels /\ x.sessions = left
  BY <1>2, Zenon DEF TargetGood
<1>5. Named(x) \subseteq Named(spec)
  BY <1>1, <1>4 DEF Named
<1>6. TargetGood(o, x)
  BY <1>4, <1>5, Zenon DEF TargetGood
<1>. QED  BY <1>3, <1>6, Zenon

LEMMA LifeLeave ==
  ASSUME VoiceInv, NEW c \in Conns, LeaveStep(c)
  PROVE  VoiceInv'
<1>1. UNCHANGED <<sidOf, stage, job, named, heard>>
  BY Zenon DEF LeaveStep
<1>2. PICK s : s = sidOf[c]
  OBVIOUS
<1>3. holder' \in [Sids -> Conns \cup {Nobody}]
  BY Zenon DEF VoiceInv, Types, LeaveStep
<1>4. bound' = bound \/ bound' = [bound EXCEPT ![s].state = "closing"] \/ bound' = [bound EXCEPT ![s] = Unbound]
  BY <1>2, Zenon DEF LeaveStep
<1>5. DOMAIN bound' = Sids /\ \A i \in Sids : DOMAIN bound'[i] = {"conn", "state"} /\ bound'[i].conn \in {bound[i].conn, Nobody}
  BY <1>4 DEF VoiceInv, Types, Unbound
<1>6. DOMAIN addrBySession' = Conns /\ \A d \in Conns : addrBySession'[d] \in {addrBySession[d], Nobody}
  BY Zenon DEF VoiceInv, Types, LeaveStep
<1>7. voiceTargets' = voiceTargets \/ removeVoiceTargets(s)
  BY <1>2, Zenon DEF LeaveStep
<1>8. DOMAIN voiceTargets' = Sids
  BY <1>7, Zenon DEF VoiceInv, Types, removeVoiceTargets
<1>9. Types'
  BY <1>1, <1>3, <1>5, <1>6, <1>8, Zenon DEF VoiceInv, Types
<1>10. ASSUME NEW d \in Conns, stage[d] \in Settled
       PROVE  stage'[d] \in Settled /\ sidOf'[d] = sidOf[d] /\ (Bound(d)' => Bound(d))
  <2>1. sidOf[d] \in Sids
    BY <1>10, Zenon DEF VoiceInv, Types, Settled
  <2>. QED  BY <1>1, <1>5, <1>10, <2>1, VoiceAssumption, Zenon DEF Bound
<1>11. ASSUME NEW o \in Sids, NEW t, voiceTargets'[o] = t
       PROVE  t = <<>> \/ \E spec : t = <<spec>> /\ TargetGood(o, spec)
  <2>1. PICK u : u = voiceTargets[o]
    OBVIOUS
  <2>2. u = <<>> \/ \E spec : u = <<spec>> /\ TargetGood(o, spec)
    BY <2>1, Zenon DEF VoiceInv, Targets
  <2>3. t = <<>> \/ t = u \/ (Mentions(u, s) /\ t = Without(u, s))
    BY <1>7, <1>11, <2>1, Zenon DEF removeVoiceTargets
  <2>4. CASE Mentions(u, s) /\ t = Without(u, s)
    <3>1. PICK spec : u = <<spec>> /\ TargetGood(o, spec)
      BY <2>2, <2>4, Zenon DEF Mentions
    <3>. QED  BY <2>4, <3>1, WithoutGood
  <2>. QED  BY <2>2, <2>3, <2>4
<1>. QED  BY <1>1, <1>6, <1>9, <1>10, <1>11, LifeFrame, Zenon

\* named and the stored target change together.
LEMMA VoiceStore ==
  ASSUME VoiceInv, NEW c \in Conns, NEW q \in Requests, storeVoiceTarget(c, q.ids, q.channels)
  PROVE  VoiceInv'
<1>1. UNCHANGED <<holder, bound, sidOf, stage, addrBySession, job, heard>> /\ stage[c] = "active"
  BY Zenon DEF storeVoiceTarget, sessVars, addrVars, ConnActive
<1>2. PICK s : s = sidOf[c] /\ s \in Sids
  BY <1>1, Zenon DEF VoiceInv, Types
<1>3. PICK live : live = {i \in q.ids : holder[i] # Nobody /\ Bound(holder[i])}
  BY Zenon
<1>4. PICK spec : spec = [owner |-> c, sessions |-> [i \in live |-> holder[i]], channels |-> q.channels]
  BY Zenon
<1>5. voiceTargets' = [voiceTargets EXCEPT ![s] = IF live = {} /\ ~q.channels THEN <<>> ELSE <<spec>>]
      /\ named' = [named EXCEPT ![c] = {holder[i] : i \in q.ids} \ {Nobody}]
  BY <1>2, <1>3, <1>4, Zenon DEF storeVoiceTarget
<1>6. {holder[i] : i \in q.ids} \ {Nobody} \subseteq Conns
  BY VoiceAssumption DEF VoiceInv, Types
<1>7. Types'
  BY <1>1, <1>5, <1>6, Zenon DEF VoiceInv, Types
<1>8. TargetGood(s, spec)'
  <2>1. Named(spec) \subseteq {holder[i] : i \in q.ids} \ {Nobody}
    BY <1>3, <1>4, Zenon DEF Named
  <2>2. named'[c] = {holder[i] : i \in q.ids} \ {Nobody}
    BY <1>5, Zenon DEF VoiceInv, Types
  <2>. QED  BY <1>1, <1>2, <1>4, <2>1, <2>2, Zenon DEF TargetGood, Settled, Named
<1>9. ASSUME NEW o \in Sids, NEW t, voiceTargets'[o] = t
      PROVE  t = <<>> \/ \E x : t = <<x>> /\ TargetGood(o, x)'
  <2>1. CASE o = s
    BY <1>2, <1>5, <1>8, <1>9, <2>1, Zenon DEF VoiceInv, Types
  <2>2. CASE o # s
    <3>1. voiceTargets[o] = t
      BY <1>5, <1>9, <2>2, Zenon DEF VoiceInv, Types
    <3>2. ASSUME NEW x, TargetGood(o, x) PROVE TargetGood(o, x)'
      <4>1. x.owner # c /\ x.owner \in Conns
        BY <1>2, <2>2, <3>2, Zenon DEF TargetGood
      <4>2. named'[x.owner] = named[x.owner]
        BY <1>5, <4>1, Zenon DEF VoiceInv, Types
      <4>. QED  BY <1>1, <3>2, <4>2, Zenon DEF TargetGood, Named
    <3>. QED  BY <3>1, <3>2, Zenon DEF VoiceInv, Targets
  <2>. QED  BY <2>1, <2>2, Zenon
<1>10. Targets'
  BY <1>9, Zenon DEF Targets
<1>11. Addresses'
  BY <1>1, Zenon DEF VoiceInv, Addresses, HeardAt
<1>12. \A d : Departed(d) => Departed(d)'
  BY <1>1, Zenon DEF Departed, Bound
<1>13. ASSUME NEW x \in Workers, NEW j, job'[x] = j PROVE JobGood(j)'
  <2>1. JobGood(j)
    BY <1>1, <1>13, Zenon DEF VoiceInv, Jobs
  <2>. QED  BY <1>1, <1>12, <2>1, JobFrame, Zenon
<1>. QED  BY <1>7, <1>10, <1>11, <1>13, Zenon DEF VoiceInv, Jobs

-----------------------------------------------------------------------------
LEMMA VoiceStutter ==
  ASSUME VoiceInv, UNCHANGED voiceVars
  PROVE  VoiceInv'
<1>1. UNCHANGED <<holder, bound, sidOf, stage, addrBySession, voiceTargets, job, named, heard>>
  BY Zenon DEF voiceVars, sessVars, addrVars
<1>2. Types' /\ Addresses'
  BY <1>1, Zenon DEF VoiceInv, Types, Addresses, HeardAt
<1>3. \A c : Bound(c)' = Bound(c)
  BY <1>1, Zenon DEF Bound
<1>. QED  BY <1>1, <1>2, <1>3, LifeFrame, Zenon DEF VoiceInv, Targets

LEMMA VoiceStep == VoiceInv /\ [VoiceNext]_voiceVars => VoiceInv'
<1>1. SUFFICES ASSUME VoiceInv, [VoiceNext]_voiceVars PROVE VoiceInv'
  OBVIOUS
<1>2. CASE \E c \in Conns : Life(c)
  BY <1>1, <1>2, LifeEnter, LifeBind, LifeMap, LifeLeave, Zenon DEF Life
<1>3. CASE \E c \in Conns, r \in Requests : storeVoiceTarget(c, r.ids, r.channels)
  BY <1>1, <1>3, VoiceStore, Zenon
<1>4. CASE \E w \in Workers, c \in Conns, a \in Addrs : Receive(w, c, a)
  BY <1>1, <1>4, VoiceReceive, Zenon
<1>5. CASE \E w \in Workers, c \in Conns : Tunnel(w, c)
  BY <1>1, <1>5, VoiceTunnel, Zenon
<1>6. CASE \E w \in Workers : Cached(w) \/ Trial(w) \/ Adopt(w) \/ Confirm(w) \/ Remember(w)
  BY <1>1, <1>6, VoiceCached, VoiceTrial, VoiceAdopt, VoiceConfirm, VoiceRemember, Zenon
<1>7. CASE \E w \in Workers : \/ Whisper(w) \/ Speak(w) \/ Loopback(w) \/ ResolveSession(w)
                              \/ SendVoice(w) \/ DispatchVoice(w)
                              \/ Deliver(w) \/ Lookup(w) \/ WriteVoice(w)
  BY <1>1, <1>7, VoiceWhisper, VoiceSpeak, VoiceFilter, VoiceDeliver, VoiceLookup, Zenon
<1>8. CASE UNCHANGED voiceVars
  BY <1>1, <1>8, VoiceStutter, Zenon
<1>. QED  BY <1>1, <1>2, <1>3, <1>4, <1>5, <1>6, <1>7, <1>8, Zenon DEF VoiceNext

\* HandleUDP attributes a packet to a session that has a key only if that key
\* sealed it, however sessions and addresses change between its look-ups and
\* whichever sessions are in lite mode, whose packets may be anybody's.
THEOREM SpeakersHaveKeys == VoiceSpec => []SpeakerHasKey
<1>1. VoiceInv => SpeakerHasKey
  <2>1. SUFFICES ASSUME VoiceInv, NEW w \in Workers, NEW j, j = job[w],
                        j.pc \notin {"idle", "cached", "trial", "identified"}, j.ref \notin Lite
                 PROVE  j.ref = j.key
    BY Zenon DEF SpeakerHasKey
  <2>2. JobGood(j)
    BY <2>1, JobOf, Zenon
  <2>. QED  BY <2>1, <2>2 DEF JobGood, NoJob, HasList, HasSender, Opens
<1>. QED  BY <1>1, VoiceStart, VoiceStep, PTL DEF VoiceSpec

\* A whisper is written only on a connection the sender's own voice target
\* named, and by UDP, to a connection that has a key, only where its own
\* datagrams came from.
THEOREM WhispersReachNamed == VoiceSpec => []WhisperReachesNamed
<1>1. VoiceInv => WhisperReachesNamed
  <2>1. SUFFICES ASSUME VoiceInv, NEW w \in Workers, NEW j, j = job[w], j.pc = "write"
                 PROVE  /\ j.conn \in j.meant
                        /\ j.addr # Nobody /\ j.conn \notin Lite => j.addr \in heard[j.conn]
    BY Zenon DEF WhisperReachesNamed
  <2>2. JobGood(j)
    BY <2>1, JobOf, Zenon
  <2>. QED  BY <2>1, <2>2 DEF JobGood, NoJob, HeardAt
<1>. QED  BY <1>1, VoiceStart, VoiceStep, PTL DEF VoiceSpec
=============================================================================
