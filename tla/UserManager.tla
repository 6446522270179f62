---------------------------- MODULE UserManager ----------------------------
(***************************************************************************)
(* The table of connected users (internal/user): Manager with its two      *)
(* indexes bySession and byName, the generation counter and the revision   *)
(* of each user's authorization data, and the pool of session IDs.  Every  *)
(* operation runs under Manager.mu and is one step.                        *)
(*                                                                         *)
(* A user record keeps its name, its generation, its authorization         *)
(* revision, and in place of the fields authorizationChanged compares      *)
(* (channel, tokens, groups, certificate, ...) one value of Grants.  The   *)
(* two maps share pointers to the records: byName holds session IDs here.  *)
(***************************************************************************)
EXTENDS Integers, Sequences, FiniteSets

CONSTANTS Names,      \* user names
          Grants,     \* what a user's authorization depends on
          MaxUsers,   \* Manager.maxUsers; 0 means no limit
          MaxGen,     \* bound: sessions created in one behaviour
          MaxRev      \* bound: changes of one user's authorization

ASSUME MaxUsersAssumption == MaxUsers \in Nat
ASSUME BoundsAssumption == MaxGen \in Nat /\ MaxRev \in Nat \ {0}

VARIABLES
  bySession,   \* Manager.bySession: session ID -> user record
  byName,      \* Manager.byName: name -> session ID of the record
  generation,  \* Manager.generation
  next,        \* sessionPool.next
  free,        \* sessionPool.free
  inUse        \* sessionPool.inUse

pool == <<next, free, inUse>>
vars == <<bySession, byName, generation, next, free, inUse>>

User == [name : Names, generation : Nat \ {0}, revision : Nat \ {0},
         grant : Grants]

(* Every variable keeps its type: the maps hold records and live IDs, the  *)
(* pool hands out positive IDs and the free list is a list of them.        *)
TypeOK ==
  /\ DOMAIN bySession \subseteq Nat \ {0}
  /\ bySession \in [DOMAIN bySession -> User]
  /\ DOMAIN byName \subseteq Names
  /\ byName \in [DOMAIN byName -> Nat \ {0}]
  /\ generation \in Nat /\ next \in Nat \ {0}
  /\ free \in Seq(Nat \ {0}) /\ inUse \subseteq Nat \ {0}

Init ==
  /\ bySession = << >> /\ byName = << >> /\ generation = 0
  /\ next = 1 /\ free = << >> /\ inUse = {}

-----------------------------------------------------------------------------
(* Go's map operations m[k] = v and delete(m, k).                          *)
Put(f, k, v) == [x \in DOMAIN f \cup {k} |-> IF x = k THEN v ELSE f[x]]
Delete(f, k) == [x \in DOMAIN f \ {k} |-> f[x]]

(* sessionPool.Alloc, of a pool whose max is maxUsers * 2.                 *)
PoolFull == MaxUsers > 0 /\ Cardinality(inUse) >= 2 * MaxUsers
Exhausted == MaxUsers > 0 /\ next >= 4 * MaxUsers
CanAlloc == ~PoolFull /\ (free # << >> \/ ~Exhausted)

Allocated == IF free # << >> THEN free[Len(free)] ELSE next

(* Fault: the ID on top of the free list is handed out and stays there.    *)
AllocKeeping ==
  /\ inUse' = inUse \cup {Allocated}
  /\ next' = IF free # << >> THEN next ELSE next + 1
  /\ free' = free

Alloc ==
  /\ inUse' = inUse \cup {Allocated}
  /\ next' = IF free # << >> THEN next ELSE next + 1
  /\ free' = IF free # << >> THEN SubSeq(free, 1, Len(free) - 1) ELSE free

(* A failing Alloc has consumed an ID, unless the pool was full.           *)
AllocFails ==
  /\ next' = IF PoolFull THEN next ELSE next + 1
  /\ UNCHANGED <<free, inUse>>

(* Fault: the ID is not returned to the pool.                              *)
FreeNothing(s) == UNCHANGED pool

(* sessionPool.Free                                                        *)
Free(s) ==
  /\ inUse' = inUse \ {s}
  /\ free' = IF s \in inUse THEN Append(free, s) ELSE free
  /\ UNCHANGED next

-----------------------------------------------------------------------------
(* Add: refused if the name is taken or the server is full.                *)
HasRoom == MaxUsers > 0 => Cardinality(DOMAIN bySession) < MaxUsers

(* Fault: the generation counter is not advanced.                          *)
AddSameGeneration(n, a) ==
  /\ generation < MaxGen /\ n \notin DOMAIN byName /\ HasRoom
  /\ IF CanAlloc
     THEN LET u == [name |-> n, generation |-> generation + 1, revision |-> 1,
                    grant |-> a]
          IN  /\ bySession' = Put(bySession, Allocated, u)
              /\ byName' = Put(byName, n, Allocated)
              /\ Alloc
     ELSE AllocFails /\ UNCHANGED <<bySession, byName>>
  /\ UNCHANGED generation

Add(n, a) ==
  /\ generation < MaxGen /\ n \notin DOMAIN byName /\ HasRoom
  /\ IF CanAlloc
     THEN LET u == [name |-> n, generation |-> generation + 1, revision |-> 1,
                    grant |-> a]
          IN  /\ bySession' = Put(bySession, Allocated, u)
              /\ byName' = Put(byName, n, Allocated)
              /\ generation' = generation + 1
              /\ Alloc
     ELSE AllocFails /\ UNCHANGED <<bySession, byName, generation>>

(* RemoveIfGeneration of a session that is still there; a stale generation *)
(* changes nothing.  Remove is the same without the generation.            *)
RemoveIfGeneration(s, g) ==
  /\ s \in DOMAIN bySession /\ bySession[s].generation = g
  /\ bySession' = Delete(bySession, s)
  /\ byName' = Delete(byName, bySession[s].name)
  /\ Free(s)
  /\ UNCHANGED generation

(* Fault: a change of the authorization data keeps the revision.           *)
RevisedNever(u, a) == u.revision

(* authorizationChanged: the revision counts the changes.                  *)
Revised(u, a) == IF u.grant # a THEN u.revision + 1 ELSE u.revision

(* UpdateUser and SetChannel.                                              *)
UpdateUser(s, a) ==
  /\ s \in DOMAIN bySession /\ bySession[s].revision < MaxRev
  /\ bySession' = [bySession EXCEPT ![s].grant = a, ![s].revision =
                     Revised(bySession[s], a)]
  /\ UNCHANGED <<byName, generation, pool>>

(* Fault: the old name stays in the index.                                 *)
RenamedKeeping(s, n) == Put(byName, n, s)

(* The name index after a rename.                                          *)
Renamed(s, n) ==
  IF n = bySession[s].name THEN byName
  ELSE Put(Delete(byName, bySession[s].name), n, s)

(* updateIdentity: a name of another session is refused.                   *)
UpdateIdentity(s, n, a) ==
  /\ s \in DOMAIN bySession /\ bySession[s].revision < MaxRev
  /\ n \in DOMAIN byName => byName[n] = s
  /\ bySession' = [bySession EXCEPT ![s].name = n, ![s].grant = a,
                     ![s].revision = Revised(bySession[s], a)]
  /\ byName' = Renamed(s, n)
  /\ UNCHANGED <<generation, pool>>

Next ==
  \/ \E n \in Names, a \in Grants : Add(n, a)
  \/ \E s \in DOMAIN bySession, g \in 1 .. generation : RemoveIfGeneration(s, g)
  \/ \E s \in DOMAIN bySession, a \in Grants : UpdateUser(s, a)
  \/ \E s \in DOMAIN bySession, n \in Names, a \in Grants :
       UpdateIdentity(s, n, a)

Spec == Init /\ [][Next]_vars

-----------------------------------------------------------------------------
(* Properties.                                                             *)

(* The two indexes are inverse to each other through every join, removal   *)
(* and rename: a name finds the session that bears it, and no name is left *)
(* behind that would keep its owner from connecting again.                 *)
NameIndex ==
  /\ \A s \in DOMAIN bySession :
       bySession[s].name \in DOMAIN byName /\ byName[bySession[s].name] = s
  /\ \A n \in DOMAIN byName :
       byName[n] \in DOMAIN bySession /\ bySession[byName[n]].name = n

(* The IDs ever drawn are divided between the connected users and the free *)
(* list, each once: no ID is lost, and none is handed out twice.           *)
Freed == {free[i] : i \in 1 .. Len(free)}
PoolPartition ==
  /\ inUse = DOMAIN bySession
  /\ inUse \cap Freed = {} /\ inUse \cup Freed = 1 .. next - 1
  /\ \A i, j \in 1 .. Len(free) : free[i] = free[j] => i = j

(* A server that is not full always has an ID to give: the limits of the   *)
(* pool are never what turns a user away, however users come and go, and   *)
(* the IDs stay within 1 .. MaxUsers.                                      *)
AllocSucceeds ==
  /\ HasRoom => CanAlloc
  /\ MaxUsers > 0 => \A s \in DOMAIN bySession : s <= MaxUsers

(* A generation names one session: no two connected users share it, even   *)
(* after session IDs have been reused.                                     *)
GenerationsDiffer ==
  \A s, t \in DOMAIN bySession :
    /\ bySession[s].generation <= generation
    /\ bySession[s].generation = bySession[t].generation => s = t

(* What a cached permission is keyed by, the generation and the revision,  *)
(* never comes to stand for other authorization data: whatever a step does *)
(* to the record of a session, a changed grant has a higher revision.      *)
RevisionTracksGrant ==
  [][\A s \in DOMAIN bySession \cap DOMAIN bySession' :
       bySession'[s].generation = bySession[s].generation =>
         /\ bySession'[s].revision >= bySession[s].revision
         /\ bySession'[s].grant # bySession[s].grant =>
              bySession'[s].revision > bySession[s].revision]_vars

=============================================================================
