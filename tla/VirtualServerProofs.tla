------------------------ MODULE VirtualServerProofs ------------------------
(***************************************************************************)
(* Proofs about VirtualServer, for every table of channels that is a tree, *)
(* any number of users and any mixture of requests.                        *)
(***************************************************************************)
EXTENDS VirtualServer, FiniteSetTheorems, WellFoundedInduction, TLAPS

(***************************************************************************)
(* Induction over the natural numbers, as the least-number principle for a *)
(* set instead of a predicate.                                             *)
(***************************************************************************)
LEMMA LeastNat ==
  ASSUME NEW T, T \subseteq Nat, T # {}
  PROVE  \E n \in T : \A m \in T : n <= m
<1> DEFINE R == OpToRel(<, Nat)
<1>1. R = {ss \in Nat \X Nat : ss[1] < ss[2]}
  BY Zenon DEF OpToRel
<1>2. ASSUME NEW a \in Nat, NEW b \in Nat, a < b PROVE <<a, b>> \in R
  <2>1. <<a, b>> \in Nat \X Nat /\ <<a, b>>[1] = a /\ <<a, b>>[2] = b
    OBVIOUS
  <2>. QED  BY <1>1, <1>2, <2>1, Zenon
<1>3. IsWellFoundedOn(R, Nat)
  BY NatLessThanWellFounded, Zenon
<1> HIDE DEF R
<1>4. PICK n \in T : \A m \in T : ~(<<m, n>> \in R)
  BY <1>3, WFMin, Zenon
<1>5. ASSUME NEW m \in T PROVE n <= m
  <2>1. m \in Nat /\ n \in Nat /\ ~(m < n)
    BY <1>2, <1>4, <1>5, Zenon
  <2>. QED  BY <2>1
<1>. QED  BY <1>5, Zenon

LEMMA GreatestId ==
  ASSUME NEW D, D \subseteq Ids, D # {}
  PROVE  \E m \in D : \A i \in D : i <= m
<1> DEFINE T == {MaxId - i : i \in D}
<1>1. T \subseteq Nat /\ T # {}
  <2>1. PICK d : d \in D
    OBVIOUS
  <2>2. MaxId - d \in T
    BY <2>1, Zenon
  <2>. QED  BY <2>2, LimitsAssumption DEF Ids
<1> HIDE DEF T
<1>2. PICK n \in T : \A m \in T : n <= m
  BY <1>1, LeastNat, Zenon
<1>3. PICK m \in D : n = MaxId - m
  BY Zenon DEF T
<1>4. ASSUME NEW i \in D PROVE i <= m
  <2>1. n <= MaxId - i
    BY <1>2, <1>4, Zenon DEF T
  <2>. QED  BY <1>3, <2>1, LimitsAssumption DEF Ids
<1>. QED  BY <1>4, Zenon

(***************************************************************************)
(* The tree and its rows.  No handler's local state matters here: the      *)
(* managers check what they are asked against the tree as it is.           *)
(***************************************************************************)
Node == [parent : Ids, temp : BOOLEAN, links : SUBSET Ids]
Row  == [parent : Ids \cup {None}, temp : BOOLEAN, links : SUBSET Ids]

TreeInv ==
    /\ Live \subseteq Ids /\ 0 \in Live
    /\ tree \in [Live -> Node] /\ rows \in [Live -> Row]
    /\ nextId \in Nat /\ \A c \in Live : c < nextId
    /\ \A c \in Live :
        /\ rows[c].links = tree[c].links
        /\ tree[c].parent = IF rows[c].parent = None THEN 0 ELSE rows[c].parent
        /\ c # 0 => tree[c].parent \in Live /\ tree[c].parent < c

LEMMA IdsAreNat == Ids \subseteq Nat /\ 0 \in Ids /\ None \notin Ids /\ None # 0 /\ \A i \in Ids : i <= MaxId
BY LimitsAssumption DEF Ids, None

LEMMA TreeInitial == Init => TreeInv
<1>. SUFFICES ASSUME Init PROVE TreeInv
  OBVIOUS
<1>1. PICK r \in SavedRows : /\ rows = FixRootID(r)
                             /\ nextId = 1 + CHOOSE m \in DOMAIN r : \A i \in DOMAIN r : i <= m
  BY Zenon DEF Init
<1>2. PICK root \in DOMAIN r :
        /\ r[root].parent = None
        /\ \A c \in DOMAIN r \ {root} : root < c /\ r[c].parent \in DOMAIN r /\ r[c].parent < c
  BY SavedAssumption, Zenon DEF SavedTree
<1>3. DOMAIN r \subseteq Ids /\ r \in [DOMAIN r -> Row]
  BY SavedAssumption, Zenon DEF SavedTree, Row
<1>4. {i \in DOMAIN r : r[i].parent = None} = {root}
  BY <1>2, <1>3, IdsAreNat, Zenon
<1>5. rows = IF 0 \in DOMAIN r THEN r
             ELSE [i \in (DOMAIN r \ {root}) \cup {0} |->
                      IF i = 0 THEN r[root]
                      ELSE [r[i] EXCEPT !.parent = IF @ = root THEN 0 ELSE @]]
  BY <1>1, <1>4, Zenon DEF FixRootID
<1>6. /\ 0 \in DOMAIN rows /\ DOMAIN rows \subseteq DOMAIN r \cup {0} /\ rows \in [DOMAIN rows -> Row]
      /\ rows[0].parent = None
      /\ \A c \in DOMAIN rows \ {0} : rows[c].parent \in DOMAIN rows /\ rows[c].parent < c
  <2>1. CASE 0 \in DOMAIN r
    <3>1. root = 0
      BY <1>2, <1>3, <2>1, IdsAreNat
    <3>. QED  BY <1>2, <1>3, <1>5, <2>1, <3>1, IdsAreNat, Zenon
  <2>2. CASE 0 \notin DOMAIN r
    <3>1. DOMAIN rows = (DOMAIN r \ {root}) \cup {0} /\ rows[0] = r[root]
      BY <1>5, <2>2, Zenon
    <3>2. ASSUME NEW c \in DOMAIN rows \ {0}
          PROVE  /\ rows[c] = [r[c] EXCEPT !.parent = IF @ = root THEN 0 ELSE @]
                 /\ rows[c] \in Row /\ rows[c].parent \in DOMAIN rows /\ rows[c].parent < c
      <4>1. c \in DOMAIN r /\ c # root /\ rows[c] = [r[c] EXCEPT !.parent = IF @ = root THEN 0 ELSE @]
        BY <1>5, <2>2, <3>1, <3>2, Zenon
      <4>2. r[c] \in Row /\ r[c].parent \in DOMAIN r /\ r[c].parent < c /\ 0 < c /\ c \in Nat
        BY <1>2, <1>3, <2>2, <4>1, IdsAreNat
      <4>. QED  BY <1>3, <3>1, <4>1, <4>2, IdsAreNat, Zenon DEF Row
    <3>. QED  BY <1>2, <1>3, <1>5, <2>2, <3>1, <3>2, IdsAreNat, Zenon
  <2>. QED  BY <2>1, <2>2, Zenon
<1>7. nextId \in Nat /\ \A c \in DOMAIN rows : c < nextId
  <2>1. \E m \in DOMAIN r : \A i \in DOMAIN r : i <= m
    BY <1>3, GreatestId, Zenon
  <2>. QED  BY <1>1, <1>3, <1>6, <2>1, IdsAreNat
<1>8. tree = [i \in DOMAIN rows |-> [rows[i] EXCEPT !.parent = IF @ = None THEN 0 ELSE @]]
  BY Zenon DEF Init, Load
<1>. QED  BY <1>3, <1>6, <1>7, <1>8, IdsAreNat DEF TreeInv, Live, Node, Row
LEMMA TreeSame ==
  ASSUME TreeInv, UNCHANGED <<tree, rows, nextId>>
  PROVE  TreeInv'
BY Zenon DEF TreeInv, Live

LEMMA TreeCreate ==
  ASSUME TreeInv, NEW p, NEW c, NEW temp \in BOOLEAN, Create(p, c, temp)
  PROVE  TreeInv'
<1> DEFINE node == [parent |-> c, temp |-> temp, links |-> {}]
<1>1. /\ c \in Live /\ nextId <= MaxId /\ nextId' = nextId + 1
      /\ rows' = With(rows, nextId, node) /\ tree' = With(tree, nextId, node)
  BY Zenon DEF Create
<1>2. node \in Node /\ node \in Row /\ node.parent = c /\ node.links = {} /\ c # None /\ c < nextId
  BY <1>1, IdsAreNat, Zenon DEF TreeInv, Node, Row
<1> HIDE DEF node
<1>3. nextId \in Ids /\ nextId \notin Live /\ nextId # 0
  BY <1>1, LimitsAssumption, IdsAreNat DEF TreeInv, Ids
<1>4. Live' = Live \cup {nextId} /\ DOMAIN rows' = Live \cup {nextId}
  BY <1>1, Zenon DEF Live, TreeInv, With
<1>5. tree'[nextId] = node /\ rows'[nextId] = node /\ \A i \in Live : tree'[i] = tree[i] /\ rows'[i] = rows[i]
  BY <1>1, <1>3, Zenon DEF Live, TreeInv, With
<1>6. tree' \in [Live' -> Node] /\ rows' \in [Live' -> Row]
  BY <1>1, <1>2, <1>4, <1>5, Zenon DEF TreeInv, With, Live
<1>. QED  BY <1>1, <1>2, <1>3, <1>4, <1>5, <1>6, IdsAreNat DEF TreeInv

\* A change of one temp leaves the types, the parents and the links.
LEMMA TempSet ==
  ASSUME NEW D, NEW P, NEW L, NEW f \in [D -> [parent : P, temp : BOOLEAN, links : L]],
         NEW c \in D, NEW temp \in BOOLEAN, NEW g, g = [f EXCEPT ![c].temp = temp]
  PROVE  /\ g \in [D -> [parent : P, temp : BOOLEAN, links : L]]
         /\ \A i \in D : g[i].parent = f[i].parent /\ g[i].links = f[i].links
  OBVIOUS

LEMMA TreeUpdate ==
  ASSUME TreeInv, NEW p, NEW c, NEW temp \in BOOLEAN, Update(p, c, temp)
  PROVE  TreeInv'
<1>1. /\ c \in Live /\ tree' = [tree EXCEPT ![c].temp = temp] /\ nextId' = nextId
      /\ rows' = [rows EXCEPT ![c].temp = temp] \/ rows' = rows
  BY Zenon DEF Update
<1>2. tree \in [Live -> Node] /\ rows \in [Live -> Row]
  BY Zenon DEF TreeInv
<1>3. /\ tree' \in [Live -> Node]
      /\ \A i \in Live : tree'[i].parent = tree[i].parent /\ tree'[i].links = tree[i].links
  BY <1>1, <1>2, TempSet DEF Node
<1>4. /\ rows' \in [Live -> Row]
      /\ \A i \in Live : rows'[i].parent = rows[i].parent /\ rows'[i].links = rows[i].links
  <2>1. CASE rows' = [rows EXCEPT ![c].temp = temp]
    BY <1>1, <1>2, <2>1, TempSet DEF Row
  <2>2. CASE rows' = rows
    BY <1>2, <2>2, Zenon
  <2>. QED  BY <1>1, <2>1, <2>2, Zenon
<1>5. Live' = Live
  BY <1>3, Zenon DEF Live
<1>. QED  BY <1>1, <1>3, <1>4, <1>5 DEF TreeInv

\* What UpdateLinks does to a tree: only links change, and they stay in it.
LEMMA Relinked ==
  ASSUME TreeInv, NEW c \in Live, NEW want, want \subseteq Live \ {c}
  PROVE  /\ Relink(c, want) \in [Live -> Node]
         /\ \A i \in Live : /\ Relink(c, want)[i].parent = tree[i].parent
                            /\ Relink(c, want)[i].temp = tree[i].temp
         /\ Relink(c, want)[c].links = want
         /\ \A i \in Live \ {c} : \A j \in Live \ {i, c} :
                j \in Relink(c, want)[i].links <=> j \in tree[i].links
         /\ \A i \in Live \ {c} : c \in Relink(c, want)[i].links <=> i \in want
BY DEF Relink, TreeInv, Node

LEMMA TreeLinks ==
  ASSUME TreeInv, NEW c, NEW want, UpdateLinks(c, want), nextId' = nextId
  PROVE  TreeInv'
<1>1. CASE UNCHANGED <<tree, rows>>
  BY <1>1, TreeSame, Zenon
<1>2. CASE /\ c \in Live /\ want \subseteq Live \ {c} /\ tree' = Relink(c, want)
           /\ rows' = [i \in DOMAIN rows |-> [rows[i] EXCEPT !.links = Relink(c, want)[i].links]]
  <2>1. Live' = Live /\ tree' \in [Live -> Node] /\ \A i \in Live : tree'[i].parent = tree[i].parent
    BY <1>2, Relinked DEF Live
  <2>2. /\ DOMAIN rows = Live
        /\ rows' = [i \in Live |-> [rows[i] EXCEPT !.links = tree'[i].links]]
    BY <1>2, Zenon DEF TreeInv
  <2>3. /\ rows' \in [Live -> Row]
        /\ \A i \in Live : rows'[i].parent = rows[i].parent /\ rows'[i].links = tree'[i].links
    BY <2>1, <2>2 DEF TreeInv, Row, Node
  <2>. QED  BY <2>1, <2>3 DEF TreeInv
<1>. QED  BY <1>1, <1>2, Zenon DEF UpdateLinks

LEMMA TreeRemove ==
  ASSUME TreeInv, NEW c, Remove(c), nextId' = nextId
  PROVE  TreeInv'
<1>1. CASE UNCHANGED <<tree, rows>>
  BY <1>1, TreeSame, Zenon
<1>2. CASE MayRemove(c) /\ tree' = Without(tree, c) /\ rows' = Without(rows, c)
  <2>1. /\ Live' = Live \ {c} /\ DOMAIN rows' = Live \ {c} /\ c # 0 /\ c \in Live
        /\ \A i \in Live' : tree'[i] = tree[i] /\ rows'[i] = rows[i]
    BY <1>2, Zenon DEF TreeInv, Live, MayRemove, Without
  <2>2. tree' \in [Live' -> Node] /\ rows' \in [Live' -> Row]
    BY <1>2, <2>1, Zenon DEF TreeInv, Live, Without
  <2>3. ASSUME NEW i \in Live', i # 0 PROVE tree[i].parent # c
    BY <1>2, <2>1, <2>3, IdsAreNat, Zenon DEF MayRemove, Children, TreeInv, Live
  <2>. QED  BY <2>1, <2>2, <2>3 DEF TreeInv
<1>. QED  BY <1>1, <1>2, Zenon DEF Remove

\* What a step does to the tree.
TreeChange ==
    \/ UNCHANGED <<tree, rows, nextId>>
    \/ \E p \in Procs, c \in Ids, temp \in BOOLEAN : Create(p, c, temp) \/ Update(p, c, temp)
    \/ nextId' = nextId /\ \E c, want : UpdateLinks(c, want)
    \/ nextId' = nextId /\ \E c : Remove(c)

LEMMA TreeChanges ==
  ASSUME [Next]_vars
  PROVE  TreeChange
<1>1. ASSUME NEW p \in Procs, TreeStep(p) PROVE TreeChange
  <2>1. ASSUME NEW c \in Ids, NEW add, NEW remove, LinkRead(p, c, add, remove) PROVE TreeChange
    BY <2>1, Zenon DEF LinkRead, TreeChange
  <2>2. ASSUME NEW c \in Ids, CleanPick(p, c) \/ RemoveRead(p, c) PROVE TreeChange
    BY <2>2, Zenon DEF CleanPick, RemoveRead, TreeChange
  <2>3. CASE LinkWrite(p)
    BY <2>3, Zenon DEF LinkWrite, TreeChange
  <2>4. CASE CleanRemove(p)
    BY <2>4, Zenon DEF CleanRemove, TreeChange
  <2>5. CASE CleanDone(p) \/ EvictApply(p) \/ RemoveListeners(p)
    BY <2>5, Zenon DEF CleanDone, EvictApply, RemoveListeners, TreeChange
  <2>6. ASSUME NEW u \in Users, Evict(p, u) PROVE TreeChange
    BY <2>6, Zenon DEF Evict, TreeChange
  <2>7. CASE RemoveNode(p)
    BY <2>7, Zenon DEF RemoveNode, TreeChange
  <2>. QED  BY <1>1, <2>1, <2>2, <2>3, <2>4, <2>5, <2>6, <2>7, Zenon DEF TreeStep, TreeChange
<1>2. ASSUME NEW p \in Procs, StateStep(p) PROVE TreeChange
  BY <1>2, Zenon DEF StateStep, UserState, MoveUser, MaySpeak, Apply, Echo, CryptoRead, CryptoStore, TreeChange
<1>3. CASE RestStep
  <2>0. ASSUME NEW granted, EditACL(granted) PROVE TreeChange
    BY <2>0, Zenon DEF EditACL, TreeChange
  <2>1. ASSUME NEW c \in Ids, DeleteChannel(c) PROVE TreeChange
    BY <2>1, Zenon DEF DeleteChannel, TreeChange
  <2>2. ASSUME NEW c \in Ids, NEW want, LinkRest(c, want) PROVE TreeChange
    BY <2>2, Zenon DEF LinkRest, TreeChange
  <2>3. ASSUME NEW u \in Users, RefreshRead(u) \/ \E mute \in BOOLEAN : MuteSession(u, mute) PROVE TreeChange
    BY <2>3, Zenon DEF RefreshRead, MuteSession, TreeChange
  <2>4. CASE RefreshApply
    BY <2>4, Zenon DEF RefreshApply, TreeChange
  <2>. QED  BY <1>3, <2>0, <2>1, <2>2, <2>3, <2>4, Zenon DEF RestStep
<1>4. CASE ListenStep
  BY <1>4, Zenon DEF ListenStep, ListenAdd, ListenCheck, ListenRemove, TreeChange
<1>5. CASE UNCHANGED vars
  BY <1>5, Zenon DEF vars, TreeChange
<1>. QED  BY <1>1, <1>2, <1>3, <1>4, <1>5, Zenon DEF Next

LEMMA TreeStays == TreeInv /\ [Next]_vars => TreeInv'
<1>. SUFFICES ASSUME TreeInv, [Next]_vars PROVE TreeInv'
  OBVIOUS
<1>1. TreeChange
  BY TreeChanges, Zenon
<1>. QED  BY <1>1, TreeSame, TreeCreate, TreeUpdate, TreeLinks, TreeRemove, Zenon DEF TreeChange

LEMMA TreeAlways == Spec => []TreeInv
BY TreeInitial, TreeStays, PTL DEF Spec

(***************************************************************************)
(* A restart finds the tree that is in memory (load, fixRootID): rows and  *)
(* nodes have the same channels, parents and links, with the root at 0 and *)
(* every other channel below an older one, for every table that is a tree. *)
(***************************************************************************)
THEOREM RestartKeepsTree == Spec => []RestartFindsTree
<1>1. TreeInv => RestartFindsTree
  <2>. SUFFICES ASSUME TreeInv PROVE RestartFindsTree
    OBVIOUS
  <2>1. FixRootID(rows) = rows
    BY Zenon DEF FixRootID, TreeInv
  <2>2. \A c \in Live : Load(rows)[c].parent = IF rows[c].parent = None THEN 0 ELSE rows[c].parent
    BY DEF Load, TreeInv, Row
  <2>. QED  BY <2>1, <2>2, Zenon DEF RestartFindsTree, TreeInv
<1>. QED  BY <1>1, TreeAlways, PTL

\* LinksNeverSplit without its LET.
Even(t, a, b) == b \in t[a].links <=> a \in t[b].links
NoSplit == \A a, b \in Live \cap DOMAIN tree' : Even(tree, a, b) => Even(tree', a, b)

LEMMA LinksStepEven == TreeInv /\ [Next]_vars => NoSplit
<1>. SUFFICES ASSUME TreeInv, [Next]_vars, NEW a \in Live, a \in DOMAIN tree', NEW b \in Live, b \in DOMAIN tree',
                     Even(tree, a, b)
              PROVE  Even(tree', a, b)
  BY Zenon DEF NoSplit
<1>1. TreeChange
  BY TreeChanges, Zenon
<1>2. CASE UNCHANGED tree
  BY <1>2, Zenon DEF Even
<1>3. ASSUME NEW p, NEW c, NEW temp, Create(p, c, temp) PROVE Even(tree', a, b)
  <2>1. tree'[a] = tree[a] /\ tree'[b] = tree[b]
    BY <1>3 DEF Create, With, TreeInv, Live
  <2>. QED  BY <2>1, Zenon DEF Even
<1>4. ASSUME NEW p, NEW c, NEW temp, Update(p, c, temp) PROVE Even(tree', a, b)
  <2>1. tree'[a].links = tree[a].links /\ tree'[b].links = tree[b].links
    BY <1>4 DEF Update, TreeInv, Live, Node
  <2>. QED  BY <2>1, Zenon DEF Even
<1>5. ASSUME NEW c, NEW want, c \in Live, want \subseteq Live \ {c}, tree' = Relink(c, want) PROVE Even(tree', a, b)
  <2>1. CASE a = b
    BY <2>1, Zenon DEF Even
  <2>2. CASE a # b
    BY <1>5, <2>2, Relinked DEF Even
  <2>. QED  BY <2>1, <2>2, Zenon
<1>6. ASSUME NEW c, tree' = Without(tree, c) PROVE Even(tree', a, b)
  <2>1. tree'[a] = tree[a] /\ tree'[b] = tree[b]
    BY <1>6, Zenon DEF Without
  <2>. QED  BY <2>1, Zenon DEF Even
<1>. QED  BY <1>1, <1>2, <1>3, <1>4, <1>5, <1>6, Zenon DEF TreeChange, UpdateLinks, Remove

(***************************************************************************)
(* No step splits a link: UpdateLinks rewrites both ends of a link, or     *)
(* repairs one that was stored at one end only.                            *)
(***************************************************************************)
THEOREM LinksStayWhole == Spec => LinksNeverSplit
<1>1. TreeInv /\ [Next]_vars =>
        [LET even(t, a, b) == b \in t[a].links <=> a \in t[b].links
         IN  \A a, b \in Live \cap DOMAIN tree' : even(tree, a, b) => even(tree', a, b)]_vars
  BY LinksStepEven, Zenon DEF NoSplit, Even
<1>. QED  BY <1>1, TreeAlways, PTL DEF Spec, LinksNeverSplit

(***************************************************************************)
(* The voice flags.  A message is rewritten by Cascade before it is        *)
(* applied; what matters is that deafening comes with muting, un-muting    *)
(* with un-deafening, and that nothing else is added.                      *)
(***************************************************************************)
Paired(us, deaf, mute) ==
    /\ Has(us, deaf) /\ us[deaf] => Has(us, mute) /\ us[mute]
    /\ Has(us, mute) /\ ~us[mute] => Has(us, deaf) /\ ~us[deaf]

LEMMA CascadePairs ==
  ASSUME NEW us, IsMessage(us), NEW deaf \in Flags, NEW mute \in Flags, deaf # mute
  PROVE  /\ IsMessage(Cascade(us, deaf, mute))
         /\ Paired(Cascade(us, deaf, mute), deaf, mute)
         /\ \A f : f \notin {deaf, mute} =>
               /\ Has(Cascade(us, deaf, mute), f) <=> Has(us, f)
               /\ Has(us, f) => Cascade(us, deaf, mute)[f] = us[f]
         /\ DOMAIN us \cap {deaf, mute} = {} => Cascade(us, deaf, mute) = us
<1> DEFINE d == IF Has(us, deaf) /\ us[deaf] THEN With(us, mute, TRUE) ELSE us
<1> DEFINE m == IF Has(d, mute) /\ ~d[mute] THEN With(d, deaf, FALSE) ELSE d
<1>0. "channel" \notin Flags
  BY Zenon DEF Flags
<1>1. /\ IsMessage(d) /\ (Has(us, deaf) /\ us[deaf] => Has(d, mute) /\ d[mute])
      /\ (Has(d, deaf) <=> Has(us, deaf)) /\ (Has(us, deaf) => d[deaf] = us[deaf])
      /\ \A f : f # mute => (Has(d, f) <=> Has(us, f)) /\ (Has(us, f) => d[f] = us[f])
      /\ DOMAIN us \cap {deaf, mute} = {} => d = us
  BY <1>0, Zenon DEF IsMessage, With, Has
<1> HIDE DEF d
<1>2. /\ IsMessage(m) /\ (Has(d, mute) /\ ~d[mute] => Has(m, deaf) /\ ~m[deaf])
      /\ (Has(m, mute) <=> Has(d, mute)) /\ (Has(d, mute) => m[mute] = d[mute])
      /\ (~(Has(d, mute) /\ ~d[mute]) => m = d)
      /\ \A f : f # deaf => (Has(m, f) <=> Has(d, f)) /\ (Has(d, f) => m[f] = d[f])
  BY <1>0, <1>1, Zenon DEF IsMessage, With, Has
<1>3. Cascade(us, deaf, mute) = m
  BY Zenon DEF Cascade, d
<1> HIDE DEF m
<1>4. Paired(m, deaf, mute)
  BY <1>1, <1>2, Zenon DEF Paired
<1>5. \A f : f \notin {deaf, mute} => (Has(m, f) <=> Has(us, f)) /\ (Has(us, f) => m[f] = us[f])
  BY <1>1, <1>2, Zenon
<1>6. DOMAIN us \cap {deaf, mute} = {} => m = us
  BY <1>1, <1>2, Zenon DEF Has
<1>. QED  BY <1>2, <1>3, <1>4, <1>5, <1>6, Zenon

LEMMA RewrittenPairs ==
  ASSUME NEW us, IsMessage(us)
  PROVE  /\ IsMessage(Rewritten(us))
         /\ Paired(Rewritten(us), "selfDeaf", "selfMute") /\ Paired(Rewritten(us), "deaf", "mute")
         /\ DOMAIN us \cap SelfFields = {} => DOMAIN Rewritten(us) \cap SelfFields = {}
<1> DEFINE s == Cascade(us, "selfDeaf", "selfMute")
<1>1. /\ IsMessage(s) /\ Paired(s, "selfDeaf", "selfMute")
      /\ DOMAIN us \cap SelfFields = {} => s = us
  BY CascadePairs DEF Flags, SelfFields
<1> HIDE DEF s
<1> DEFINE r == Cascade(s, "deaf", "mute")
<1>2. /\ IsMessage(r) /\ Paired(r, "deaf", "mute")
      /\ \A f : f \notin {"deaf", "mute"} => (Has(r, f) <=> Has(s, f)) /\ (Has(s, f) => r[f] = s[f])
  BY <1>1, CascadePairs DEF Flags
<1> HIDE DEF r
<1>3. Paired(r, "selfDeaf", "selfMute")
  BY <1>1, <1>2, Zenon DEF Paired
<1>4. DOMAIN us \cap SelfFields = {} => DOMAIN r \cap SelfFields = {}
  BY <1>1, <1>2, Zenon DEF SelfFields, Has
<1>5. Rewritten(us) = r
  BY Zenon DEF Rewritten, r, s
<1>. QED  BY <1>1, <1>2, <1>3, <1>4, <1>5, Zenon

\* A user record: every flag and a channel.
Person(x) == IsMessage(x) /\ DOMAIN x = Flags \cup {"channel"}

Muted(x) == (x.deaf => x.mute) /\ (x.selfDeaf => x.selfMute)

LEMMA OverlayPerson ==
  ASSUME NEW x, Person(x), NEW us, IsMessage(us)
  PROVE  Person(Overlay(x, us)) /\ \A f \in Flags \cup {"channel"} : Overlay(x, us)[f] = IF Has(us, f) THEN us[f] ELSE x[f]
BY Zenon DEF Person, IsMessage, Overlay, Has

LEMMA OverlayMuted ==
  ASSUME NEW x, Person(x), Muted(x), NEW us, IsMessage(us),
         Paired(us, "selfDeaf", "selfMute"), Paired(us, "deaf", "mute")
  PROVE  Muted(Overlay(x, us))
<1> DEFINE y == Overlay(x, us)
<1>1. \A f \in Flags : y[f] = IF Has(us, f) THEN us[f] ELSE x[f]
  BY OverlayPerson, Zenon
<1> HIDE DEF y
<1>2. y.deaf => y.mute
  BY <1>1, Zenon DEF Flags, Muted, Paired
<1>3. y.selfDeaf => y.selfMute
  BY <1>1, Zenon DEF Flags, Muted, Paired
<1>. QED  BY <1>2, <1>3, Zenon DEF Muted, y

(***************************************************************************)
(* The handlers' local variables.  `Request' is a UserState in progress:   *)
(* self flags only travel in a request of their own session, and a request *)
(* that moves somebody carries the channel.                                *)
(***************************************************************************)
Request(p, r) ==
    /\ DOMAIN r = {"pc", "us", "who", "old", "may"}
    /\ IsMessage(r.us) /\ r.who \in Users /\ r.old \in Ids /\ r.may \in BOOLEAN
    /\ r.who = p \/ DOMAIN r.us \cap SelfFields = {}
    /\ r.pc \in {"move", "maySpeak"} => Has(r.us, "channel")

Resumes(p, next) == next = Idle \/ (next.pc = "maySpeak" /\ Request(p, next))

Handler(p, r) ==
    /\ r.pc \in {"move", "maySpeak", "apply", "echo"} => Request(p, r)
    /\ r.pc \in {"crypto", "store"} => r.todo \in Seq(Ids) /\ r.todo # <<>> /\ Resumes(p, r.next)
    /\ r.pc \in {"evict", "evicted", "remove"} => r.parent \in Ids
    /\ r.pc \in {"evict", "evicted"} => r.todo \subseteq Users
    /\ r.pc \in {"evicted", "suppress"} => r.who \in Users /\ r.may \in BOOLEAN

\* What clients know of u's self flags: everything, or all but the delta of
\* the request that is about to be broadcast.
SelfKnown(u) == \A f \in SelfFields :
    user[u][f] = IF h[u].pc = "echo" /\ h[u].who = u /\ Has(Delta(h[u].us), f)
                 THEN Delta(h[u].us)[f] ELSE view[u][f]

VoiceInv ==
    /\ work \in Workloads
    /\ user = [u \in Users |-> user[u]] /\ \A u \in Users : Person(user[u]) /\ Muted(user[u])
    /\ view \in [Users -> [SelfFields -> BOOLEAN]]
    /\ h = [p \in Procs |-> h[p]] /\ \A p \in Procs : Handler(p, h[p])
    /\ \A u \in Users : SelfKnown(u)

LEMMA VoiceInitial == Init => VoiceInv
<1>. SUFFICES ASSUME Init PROVE VoiceInv
  OBVIOUS
<1>1. /\ user = [u \in Users |-> [f \in Flags \cup {"channel"} |-> IF f = "channel" THEN 0 ELSE FALSE]]
      /\ view = [u \in Users |-> [f \in SelfFields |-> FALSE]]
      /\ h = [p \in Procs |-> Idle] /\ work \in Workloads
  BY Zenon DEF Init
<1>2. ASSUME NEW u \in Users PROVE Person(user[u]) /\ Muted(user[u])
  <2>1. user[u] = [f \in Flags \cup {"channel"} |-> IF f = "channel" THEN 0 ELSE FALSE]
    BY <1>1, Zenon
  <2>2. 0 \in Ids
    BY LimitsAssumption DEF Ids
  <2>3. Person(user[u])
    BY <2>1, <2>2, Zenon DEF Person, IsMessage
  <2>. QED  BY <2>1, <2>3, Zenon DEF Muted, Flags
<1>3. \A p \in Procs : h[p].pc = "idle"
  BY <1>1, Zenon DEF Idle
<1>4. \A p \in Procs : Handler(p, h[p])
  BY <1>3, Zenon DEF Handler
<1>5. \A u \in Users : SelfKnown(u)
  BY <1>1, <1>3, Zenon DEF SelfKnown, Procs, SelfFields, Flags
<1>6. user = [u \in Users |-> user[u]] /\ view \in [Users -> [SelfFields -> BOOLEAN]] /\ h = [p \in Procs |-> h[p]]
  BY <1>1, Zenon
<1>. QED  BY <1>1, <1>2, <1>4, <1>5, <1>6, Zenon DEF VoiceInv

SameSelf(x, y) == Person(x) /\ Muted(x) /\ \A f \in SelfFields : x[f] = y[f]

\* A step of p that leaves every self flag alone and broadcasts nothing.
LEMMA VoiceQuiet ==
  ASSUME VoiceInv, NEW p \in Procs, NEW s, Goto(p, s), Handler(p, s), s.pc # "echo", h[p].pc # "echo",
         UNCHANGED <<view, work>>,
         user' = user \/ \E t \in Users : \E x : SameSelf(x, user[t]) /\ user' = [user EXCEPT ![t] = x]
  PROVE  VoiceInv'
<1>1. h' = [h EXCEPT ![p] = s]
  BY Zenon DEF Goto
<1>2. h' = [q \in Procs |-> h'[q]] /\ h'[p] = s /\ \A q \in Procs \ {p} : h'[q] = h[q]
  BY <1>1, Zenon DEF VoiceInv
<1>3. \A q \in Procs : Handler(q, h'[q])
  BY <1>2, Zenon DEF VoiceInv
<1>4. /\ user' = [u \in Users |-> user'[u]]
      /\ \A u \in Users : Person(user'[u]) /\ Muted(user'[u]) /\ \A f \in SelfFields : user'[u][f] = user[u][f]
  <2>1. CASE user' = user
    BY <2>1, Zenon DEF VoiceInv
  <2>2. ASSUME NEW t \in Users, NEW x, SameSelf(x, user[t]), user' = [user EXCEPT ![t] = x]
        PROVE  <1>4!:
    BY <2>2, Zenon DEF VoiceInv, SameSelf
  <2>. QED  BY <2>1, <2>2, Zenon
<1>5. ASSUME NEW u \in Users PROVE SelfKnown(u)'
  <2>1. u \in Procs /\ SelfKnown(u)
    BY Zenon DEF VoiceInv, Procs
  <2>2. CASE u = p
    BY <1>2, <1>4, <2>1, <2>2, Zenon DEF SelfKnown
  <2>3. CASE u # p
    <3>1. h'[u] = h[u]
      BY <1>2, <2>1, <2>3, Zenon
    <3>. QED  BY <1>4, <2>1, <3>1 DEF SelfKnown
  <2>. QED  BY <2>2, <2>3, Zenon
<1>. QED  BY <1>2, <1>3, <1>4, <1>5, Zenon DEF VoiceInv

LEMMA EnterChannel ==
  ASSUME NEW x, Person(x), Muted(x), NEW c \in Ids
  PROVE  LET y == [x EXCEPT !.channel = c]
         IN  Person(y) /\ Muted(y) /\ (\A f \in Flags : y[f] = x[f]) /\ y.channel = c
<1> DEFINE y == [x EXCEPT !.channel = c]
<1>1. "channel" \notin Flags
  BY Zenon DEF Flags
<1>2. DOMAIN x = Flags \cup {"channel"}
  BY Zenon DEF Person
<1>3. y = [f \in Flags \cup {"channel"} |-> IF f = "channel" THEN c ELSE x[f]]
  BY <1>2, Zenon
<1> HIDE DEF y
<1>4. Person(y)
  BY <1>1, <1>3, Zenon DEF Person, IsMessage
<1>5. (\A f \in Flags : y[f] = x[f]) /\ y.channel = c
  BY <1>1, <1>3, Zenon
<1>6. Muted(y)
  BY <1>5, Zenon DEF Muted, Flags
<1>. QED  BY <1>4, <1>5, <1>6, Zenon DEF y

LEMMA EnterFlags ==
  ASSUME NEW x, NEW may \in BOOLEAN, DOMAIN x \subseteq Flags \cup {"channel"}, Flags \subseteq DOMAIN x,
         IsMessage(x), Muted(x)
  PROVE  LET y == EnterEffects(x, may)
         IN  /\ IsMessage(y) /\ DOMAIN y = DOMAIN x /\ Muted(y)
             /\ \A f \in DOMAIN x : f \notin {"priority", "suppress"} => y[f] = x[f]
<1> DEFINE y == EnterEffects(x, may)
<1>2. y = [f \in DOMAIN x |-> IF f = "priority" THEN FALSE ELSE IF f = "suppress" THEN ~may ELSE x[f]]
  BY Zenon DEF EnterEffects, Flags, IsMessage
<1> HIDE DEF y
<1>4. IsMessage(y) /\ DOMAIN y = DOMAIN x
  BY <1>2, Zenon DEF IsMessage
<1>5. \A f \in DOMAIN x : f \notin {"priority", "suppress"} => y[f] = x[f]
  BY <1>2, Zenon
<1>6. Muted(y)
  BY <1>5, Zenon DEF Muted, Flags
<1>. QED  BY <1>4, <1>5, <1>6, Zenon DEF y

LEMMA Suppressed ==
  ASSUME NEW x, Person(x), Muted(x), NEW b \in BOOLEAN
  PROVE  LET y == [x EXCEPT !.suppress = b]
         IN  Person(y) /\ Muted(y) /\ \A f \in Flags \cup {"channel"} : f # "suppress" => y[f] = x[f]
<1> DEFINE y == [x EXCEPT !.suppress = b]
<1>2. y = [f \in Flags \cup {"channel"} |-> IF f = "suppress" THEN b ELSE x[f]]
  BY Zenon DEF Person
<1> HIDE DEF y
<1>4. Person(y)
  BY <1>2, Zenon DEF Person, IsMessage
<1>5. \A f \in Flags \cup {"channel"} : f # "suppress" => y[f] = x[f]
  BY <1>2, Zenon
<1>6. Muted(y)
  BY <1>5, Zenon DEF Muted, Flags
<1>. QED  BY <1>4, <1>5, <1>6, Zenon DEF y

\* The record UpdateUser leaves: the rewritten message over the flags, and on
\* a move the effects of entering a channel.
Final(x, us, may) ==
    LET flags == Overlay([f \in Flags |-> x[f]], Rewritten(us))
    IN  Overlay(x, IF Has(us, "channel") THEN EnterEffects(flags, may) ELSE flags)

LEMMA FinalPerson ==
  ASSUME NEW x, Person(x), Muted(x), NEW us, IsMessage(us), NEW may \in BOOLEAN
  PROVE  /\ Person(Final(x, us, may)) /\ Muted(Final(x, us, may))
         /\ Final(x, us, may).channel = x.channel
         /\ \A f \in SelfFields :
               Final(x, us, may)[f] = IF Has(Rewritten(us), f) THEN Rewritten(us)[f] ELSE x[f]
<1> DEFINE base == [f \in Flags |-> x[f]]
           flags == Overlay(base, Rewritten(us))
           last == IF Has(us, "channel") THEN EnterEffects(flags, may) ELSE flags
           y == Overlay(x, last)
<1>0. "channel" \notin Flags /\ SelfFields \subseteq Flags \ {"priority", "suppress"}
  BY Zenon DEF Flags, SelfFields
<1>1. /\ IsMessage(Rewritten(us)) /\ Paired(Rewritten(us), "selfDeaf", "selfMute")
      /\ Paired(Rewritten(us), "deaf", "mute")
  BY RewrittenPairs, Zenon
<1>2. DOMAIN flags = Flags /\ \A f \in Flags : flags[f] = IF Has(Rewritten(us), f) THEN Rewritten(us)[f] ELSE x[f]
  BY Zenon DEF Overlay
<1>3. IsMessage(flags)
  BY <1>0, <1>1, <1>2, Zenon DEF IsMessage, Person, Overlay, Has
<1>4. Muted(flags)
  BY <1>1, <1>2, Zenon DEF Muted, Paired, Flags
<1> HIDE DEF flags
<1>5. /\ IsMessage(last) /\ DOMAIN last = Flags /\ Muted(last)
      /\ \A f \in Flags : f \notin {"priority", "suppress"} => last[f] = flags[f]
  <2>1. CASE Has(us, "channel")
    BY <1>2, <1>3, <1>4, <2>1, EnterFlags, Zenon
  <2>2. CASE ~Has(us, "channel")
    BY <1>2, <1>3, <1>4, <2>2, Zenon
  <2>. QED  BY <2>1, <2>2, Zenon
<1> HIDE DEF last
<1>6. Person(y) /\ \A f \in Flags \cup {"channel"} : y[f] = IF f \in Flags THEN last[f] ELSE x[f]
  BY <1>5, OverlayPerson DEF Has
<1> HIDE DEF y
<1>7. Muted(y)
  BY <1>5, <1>6, Zenon DEF Muted, Flags
<1>8. y.channel = x.channel
  BY <1>0, <1>6, Zenon
<1>9. \A f \in SelfFields : y[f] = IF Has(Rewritten(us), f) THEN Rewritten(us)[f] ELSE x[f]
  BY <1>0, <1>2, <1>5, <1>6, Zenon
<1>10. Final(x, us, may) = y
  BY Zenon DEF Final, y, last, flags
<1>. QED  BY <1>6, <1>7, <1>8, <1>9, <1>10, Zenon

LEMMA VoiceApply ==
  ASSUME VoiceInv, NEW p \in Procs, Apply(p)
  PROVE  VoiceInv'
<1> DEFINE t == h[p].who
           us == h[p].us
           x == Final(user[t], us, h[p].may)
           s == [h[p] EXCEPT !.pc = "echo"]
<1>1. /\ h[p].pc = "apply" /\ user' = [user EXCEPT ![t] = x] /\ h' = [h EXCEPT ![p] = s]
      /\ view' = view /\ work' = work
  BY Zenon DEF Apply, At, Goto, Final
<1>2. Request(p, h[p])
  BY <1>1, Zenon DEF VoiceInv, Handler
<1>3. /\ t \in Users /\ IsMessage(us) /\ h[p].may \in BOOLEAN
      /\ s.pc = "echo" /\ s.us = us /\ s.who = t /\ Request(p, s)
  BY <1>2, Zenon DEF Request
<1>4. /\ Person(x) /\ Muted(x)
      /\ \A f \in SelfFields : x[f] = IF Has(Delta(us), f) THEN Delta(us)[f] ELSE user[t][f]
  BY <1>3, FinalPerson DEF VoiceInv, Delta
<1> HIDE DEF x, s
<1>5. h' = [q \in Procs |-> h'[q]] /\ h'[p] = s /\ \A q \in Procs \ {p} : h'[q] = h[q]
  BY <1>1, Zenon DEF VoiceInv
<1>6. Handler(p, s)
  BY <1>3, Zenon DEF Handler
<1>7. user' = [u \in Users |-> user'[u]] /\ user'[t] = x /\ \A u \in Users \ {t} : user'[u] = user[u]
  BY <1>1, <1>3, Zenon DEF VoiceInv
<1>8. ASSUME NEW u \in Users PROVE SelfKnown(u)'
  <2>1. u \in Procs /\ SelfKnown(u)
    BY Zenon DEF VoiceInv, Procs
  <2>2. CASE u = p /\ u = t
    <3>1. h'[u].pc = "echo" /\ h'[u].who = u /\ h'[u].us = us
      BY <1>3, <1>5, <2>2, Zenon
    <3>2. h[u].pc = "apply" /\ view'[u] = view[u]
      BY <1>1, <2>2, Zenon
    <3>3. \A f \in SelfFields : user[u][f] = view[u][f]
      BY <2>1, <3>2, Zenon DEF SelfKnown
    <3>4. \A f \in SelfFields : user'[u][f] = IF Has(Delta(us), f) THEN Delta(us)[f] ELSE user[u][f]
      BY <1>4, <1>7, <2>2, Zenon
    <3>. QED  BY <3>1, <3>2, <3>3, <3>4, Zenon DEF SelfKnown
  <2>3. CASE u = p /\ u # t
    BY <1>1, <1>3, <1>5, <1>7, <2>1, <2>3, Zenon DEF SelfKnown
  <2>4. CASE u # p /\ u = t
    <3>1. DOMAIN us \cap SelfFields = {}
      BY <1>2, <2>4, Zenon DEF Request
    <3>2. \A f \in SelfFields : user'[u][f] = user[u][f]
      BY <1>3, <1>4, <1>7, <2>4, <3>1, RewrittenPairs, Zenon DEF Delta, Has
    <3>. QED  BY <1>1, <1>5, <2>1, <2>4, <3>2, ZenonT(30) DEF SelfKnown
  <2>5. CASE u # p /\ u # t
    BY <1>1, <1>5, <1>7, <2>1, <2>5, Zenon DEF SelfKnown
  <2>. QED  BY <2>2, <2>3, <2>4, <2>5, Zenon
<1>. QED  BY <1>1, <1>4, <1>5, <1>6, <1>7, <1>8, Zenon DEF VoiceInv

LEMMA VoiceEcho ==
  ASSUME VoiceInv, NEW p \in Procs, Echo(p)
  PROVE  VoiceInv'
<1> DEFINE t == h[p].who
           d == Delta(h[p].us)
           v == Overlay(view[t], d)
<1>1. /\ h[p].pc = "echo" /\ view' = [view EXCEPT ![t] = v] /\ h' = [h EXCEPT ![p] = Idle]
      /\ user' = user /\ work' = work
  BY Zenon DEF Echo, At, Goto
<1>2. Request(p, h[p])
  BY <1>1, Zenon DEF VoiceInv, Handler
<1>3. t \in Users /\ IsMessage(d) /\ (DOMAIN h[p].us \cap SelfFields = {} => DOMAIN d \cap SelfFields = {})
  BY <1>2, RewrittenPairs, Zenon DEF Request, Delta
<1>4. v \in [SelfFields -> BOOLEAN] /\ \A f \in SelfFields : v[f] = IF Has(d, f) THEN d[f] ELSE view[t][f]
  <2>1. view[t] \in [SelfFields -> BOOLEAN]
    BY <1>3, Zenon DEF VoiceInv
  <2>2. "channel" \notin SelfFields
    BY Zenon DEF SelfFields
  <2>. QED  BY <1>3, <2>1, <2>2, Zenon DEF Overlay, Has, IsMessage
<1> HIDE DEF v, d
<1>5. /\ h' = [q \in Procs |-> h'[q]] /\ h'[p] = Idle /\ \A q \in Procs \ {p} : h'[q] = h[q]
      /\ view' \in [Users -> [SelfFields -> BOOLEAN]] /\ view'[t] = v /\ \A u \in Users \ {t} : view'[u] = view[u]
  BY <1>1, <1>3, <1>4, Zenon DEF VoiceInv
<1>6. Handler(p, Idle) /\ Idle.pc = "idle"
  BY Zenon DEF Handler, Idle
<1>7. ASSUME NEW u \in Users PROVE SelfKnown(u)'
  <2>1. u \in Procs /\ SelfKnown(u)
    BY Zenon DEF VoiceInv, Procs
  <2>2. CASE u = p /\ u = t
    <3>1. \A f \in SelfFields : user[u][f] = v[f]
      BY <1>1, <1>4, <2>1, <2>2, Zenon DEF SelfKnown, d
    <3>2. user'[u] = user[u] /\ view'[u] = v /\ h'[u].pc # "echo"
      BY <1>1, <1>5, <1>6, <2>2, Zenon
    <3>. QED  BY <3>1, <3>2, Zenon DEF SelfKnown
  <2>3. CASE u = p /\ u # t
    BY <1>1, <1>5, <1>6, <2>1, <2>3, Zenon DEF SelfKnown
  <2>4. CASE u # p /\ u = t
    <3>1. DOMAIN d \cap SelfFields = {}
      BY <1>2, <1>3, <2>4, Zenon DEF Request
    <3>2. \A f \in SelfFields : view'[u][f] = view[u][f]
      BY <1>4, <1>5, <2>4, <3>1, Zenon DEF Has
    <3>. QED  BY <1>1, <1>5, <2>1, <2>4, <3>2, ZenonT(30) DEF SelfKnown
  <2>5. CASE u # p /\ u # t
    BY <1>1, <1>5, <2>1, <2>5 DEF SelfKnown
  <2>. QED  BY <2>2, <2>3, <2>4, <2>5, Zenon
<1>. QED  BY <1>1, <1>5, <1>6, <1>7, Zenon DEF VoiceInv

LEMMA VoiceMoves ==
  ASSUME VoiceInv, TreeInv, NEW p \in Procs,
         \/ \E t \in Users, us \in work.messages : UserState(p, t, us)
         \/ MoveUser(p) \/ MaySpeak(p) \/ CryptoRead(p) \/ CryptoStore(p)
  PROVE  VoiceInv'
<1>0. Handler(p, h[p]) /\ Handler(p, Idle) /\ Idle.pc = "idle"
  BY Zenon DEF VoiceInv, Handler, Idle
<1>1. ASSUME NEW t \in Users, NEW us \in work.messages, UserState(p, t, us) PROVE VoiceInv'
  <2> DEFINE s == [pc |-> IF Has(us, "channel") THEN "move" ELSE "apply",
                   us |-> us, who |-> t, old |-> user[t].channel, may |-> TRUE]
  <2>1. IsMessage(us) /\ user[t].channel \in Ids
    BY WorkloadsAssumption, ZenonT(30) DEF VoiceInv, Person, IsMessage
  <2>2. Goto(p, s) /\ UNCHANGED <<user, view, work>> /\ h[p] = Idle /\ (p = t \/ DOMAIN us \cap SelfFields = {})
    BY <1>1, Zenon DEF UserState, Starts
  <2>3. Request(p, s) /\ s.pc \in {"move", "apply"}
    BY <2>1, <2>2, Zenon DEF Request
  <2>4. Handler(p, s)
    BY <2>3, Zenon DEF Handler
  <2> HIDE DEF s
  <2>. QED  BY <1>0, <2>2, <2>3, <2>4, VoiceQuiet, Zenon
<1>2. CASE MoveUser(p)
  <2> DEFINE r == h[p]
             next == [r EXCEPT !.pc = "maySpeak"]
             todo == <<r.old, r.us.channel>>
             s == Recompute(todo, next)
             x == [user[r.who] EXCEPT !.channel = r.us.channel]
  <2>1. /\ r.pc = "move" /\ Goto(p, s) /\ UNCHANGED <<view, work>>
        /\ user' = [user EXCEPT ![r.who].channel = r.us.channel]
    BY <1>2, Zenon DEF MoveUser, At, MoveTouches
  <2>2. Request(p, r)
    BY <1>0, <2>1, Zenon DEF Handler
  <2>3. r.who \in Users /\ r.old \in Ids /\ r.us.channel \in Ids /\ Has(r.us, "channel")
    BY <2>1, <2>2, Zenon DEF Request, IsMessage, Has
  <2>4. next.pc = "maySpeak" /\ next.us = r.us /\ Request(p, next)
    BY <2>2, <2>3, Zenon DEF Request
  <2>5. todo \in Seq(Ids) /\ todo # <<>>
    BY <2>3
  <2> HIDE DEF next, todo
  <2>6. s.pc = "crypto" /\ Handler(p, s)
    BY <2>4, <2>5, Zenon DEF Handler, Resumes, Recompute
  <2>7. Person(x) /\ Muted(x) /\ \A f \in Flags : x[f] = user[r.who][f]
    <3>1. Person(user[r.who]) /\ Muted(user[r.who])
      BY <2>3, Zenon DEF VoiceInv
    <3>. QED  BY <2>3, <3>1, EnterChannel
  <2>8. user' = [user EXCEPT ![r.who] = x]
    BY <2>1, Zenon
  <2> HIDE DEF s, x
  <2>9. SameSelf(x, user[r.who])
    BY <2>7, Zenon DEF SameSelf, Flags, SelfFields
  <2>. QED  BY <2>1, <2>3, <2>6, <2>8, <2>9, VoiceQuiet, Zenon
<1>3. CASE MaySpeak(p)
  <2> DEFINE r == h[p]
             may == <<r.who, r.us.channel>> \in speak
             s == [r EXCEPT !.pc = "apply", !.may = may]
  <2>1. r.pc = "maySpeak" /\ Goto(p, s) /\ UNCHANGED <<user, view, work>>
    BY <1>3, Zenon DEF MaySpeak, At
  <2>2. Request(p, r)
    BY <1>0, <2>1, Zenon DEF Handler
  <2>0. may \in BOOLEAN
    OBVIOUS
  <2> HIDE DEF may
  <2>3. s.pc = "apply" /\ Request(p, s)
    BY <2>0, <2>2, Zenon DEF Request
  <2> HIDE DEF s
  <2>4. Handler(p, s)
    BY <2>3, Zenon DEF Handler
  <2>. QED  BY <2>1, <2>3, <2>4, VoiceQuiet, Zenon
<1>4. CASE CryptoRead(p)
  <2> DEFINE s == [pc |-> "store", mode |-> Aggregate(Head(h[p].todo)), todo |-> h[p].todo, next |-> h[p].next]
  <2>1. h[p].pc = "crypto" /\ Goto(p, s) /\ UNCHANGED <<user, view, work>>
    BY <1>4, Zenon DEF CryptoRead, At
  <2>2. s.pc = "store" /\ Handler(p, s)
    BY <1>0, <2>1, Zenon DEF Handler
  <2> HIDE DEF s
  <2>. QED  BY <2>1, <2>2, VoiceQuiet, Zenon
<1>5. CASE CryptoStore(p)
  <2> DEFINE s == IF Tail(h[p].todo) = <<>> THEN h[p].next ELSE Recompute(Tail(h[p].todo), h[p].next)
  <2>1. h[p].pc = "store" /\ Goto(p, s) /\ UNCHANGED <<user, view, work>>
    BY <1>5, Zenon DEF CryptoStore, At
  <2>2. h[p].todo \in Seq(Ids) /\ h[p].todo # <<>> /\ Resumes(p, h[p].next)
    BY <1>0, <2>1, Zenon DEF Handler
  <2>3. Tail(h[p].todo) \in Seq(Ids)
    BY <2>2
  <2>4. Handler(p, h[p].next) /\ h[p].next.pc # "echo"
    BY <1>0, <2>2, Zenon DEF Resumes, Handler
  <2>5. ASSUME Tail(h[p].todo) # <<>> PROVE Handler(p, Recompute(Tail(h[p].todo), h[p].next))
    BY <2>2, <2>3, <2>5, Zenon DEF Handler, Recompute
  <2>6. Handler(p, s) /\ s.pc # "echo"
    BY <2>4, <2>5, Zenon DEF Recompute
  <2> HIDE DEF s
  <2>. QED  BY <2>1, <2>6, VoiceQuiet, Zenon
<1>. QED  BY <1>1, <1>2, <1>3, <1>4, <1>5, Zenon

LEMMA VoiceRemovals ==
  ASSUME VoiceInv, TreeInv, NEW p \in Procs, TreeStep(p)
  PROVE  VoiceInv'
<1>0. Handler(p, h[p]) /\ Handler(p, Idle) /\ Idle.pc = "idle"
  BY Zenon DEF VoiceInv, Handler, Idle
<1>1. ASSUME NEW c \in Ids, NEW temp \in BOOLEAN, Create(p, c, temp) \/ Update(p, c, temp) PROVE VoiceInv'
  <2>1. h[p] = Idle /\ h' = h /\ UNCHANGED <<user, view, work>>
    BY <1>1, Zenon DEF Create, Update, Starts
  <2>2. Goto(p, Idle)
    BY <2>1, Zenon DEF Goto, VoiceInv
  <2>. QED  BY <1>0, <2>1, <2>2, VoiceQuiet, Zenon
<1>2. ASSUME NEW c \in Ids, NEW add, NEW remove, LinkRead(p, c, add, remove) PROVE VoiceInv'
  <2> DEFINE s == [pc |-> "link", ch |-> c, want |-> (tree[c].links \cup add) \ remove]
  <2>1. h[p] = Idle /\ Goto(p, s) /\ UNCHANGED <<user, view, work>>
    BY <1>2, Zenon DEF LinkRead, Starts
  <2>2. s.pc = "link" /\ Handler(p, s)
    BY Zenon DEF Handler
  <2> HIDE DEF s
  <2>. QED  BY <1>0, <2>1, <2>2, VoiceQuiet, Zenon
<1>3. ASSUME NEW c \in Ids, CleanPick(p, c) PROVE VoiceInv'
  <2> DEFINE s == [pc |-> "cleaning", ch |-> c]
  <2>1. h[p].pc # "echo" /\ Goto(p, s) /\ UNCHANGED <<user, view, work>>
    BY <1>0, <1>3, Zenon DEF CleanPick, Starts, At
  <2>2. s.pc = "cleaning" /\ Handler(p, s)
    BY Zenon DEF Handler
  <2> HIDE DEF s
  <2>. QED  BY <2>1, <2>2, VoiceQuiet, Zenon
<1>4. ASSUME NEW c \in Ids, RemoveRead(p, c) PROVE VoiceInv'
  <2> DEFINE s == [pc |-> "evict", ch |-> c, parent |-> tree[c].parent, todo |-> Members(c)]
  <2>1. h[p] = Idle /\ Goto(p, s) /\ UNCHANGED <<user, view, work>> /\ c \in Live
    BY <1>4, Zenon DEF RemoveRead, Starts
  <2>2. s.pc = "evict" /\ s.parent \in Ids /\ s.todo \subseteq Users
    BY <2>1, Zenon DEF TreeInv, Node, Members
  <2>3. Handler(p, s)
    BY <2>2, Zenon DEF Handler
  <2> HIDE DEF s
  <2>. QED  BY <1>0, <2>1, <2>2, <2>3, VoiceQuiet, Zenon
<1>5. CASE LinkWrite(p) \/ CleanDone(p)
  <2>1. h[p].pc # "echo" /\ Goto(p, Idle) /\ UNCHANGED <<user, view, work>>
    BY <1>5, Zenon DEF LinkWrite, CleanDone, At
  <2>. QED  BY <1>0, <2>1, VoiceQuiet, Zenon
<1>6. CASE CleanRemove(p)
  <2> DEFINE s == [pc |-> "cleaning", ch |-> None]
  <2>1. h[p].pc # "echo" /\ Goto(p, s) /\ UNCHANGED <<user, view, work>>
    BY <1>6, Zenon DEF CleanRemove, At
  <2>2. s.pc = "cleaning" /\ Handler(p, s)
    BY Zenon DEF Handler
  <2> HIDE DEF s
  <2>. QED  BY <2>1, <2>2, VoiceQuiet, Zenon
<1>7. ASSUME NEW u \in Users, Evict(p, u) PROVE VoiceInv'
  <2> DEFINE x == [user[u] EXCEPT !.channel = h[p].parent]
             s == [pc |-> "evicted", ch |-> h[p].ch, parent |-> h[p].parent, who |-> u,
                   todo |-> h[p].todo \ {u}, may |-> <<u, h[p].parent>> \in speak]
  <2>1. /\ h[p].pc = "evict" /\ Goto(p, s) /\ UNCHANGED <<view, work>>
        /\ user' = [user EXCEPT ![u] = x]
    BY <1>7, Zenon DEF Evict, At
  <2>2. h[p].parent \in Ids /\ h[p].todo \subseteq Users
    BY <1>0, <2>1, Zenon DEF Handler
  <2>3. s.pc = "evicted" /\ s.parent \in Ids /\ s.todo \subseteq Users /\ s.who \in Users /\ s.may \in BOOLEAN
    <3>1. (<<u, h[p].parent>> \in speak) \in BOOLEAN
      OBVIOUS
    <3>2. s.pc = "evicted" /\ s.parent = h[p].parent /\ s.todo = h[p].todo \ {u} /\ s.who = u
          /\ s.may = (<<u, h[p].parent>> \in speak)
      BY Zenon
    <3>. QED  BY <2>2, <3>1, <3>2, Zenon
  <2>4. Person(x) /\ Muted(x) /\ \A f \in Flags : x[f] = user[u][f]
    BY <2>2, EnterChannel DEF VoiceInv
  <2> HIDE DEF s, x
  <2>5. Handler(p, s)
    BY <2>3, Zenon DEF Handler
  <2>6. SameSelf(x, user[u])
    BY <2>4, Zenon DEF SameSelf, Flags, SelfFields
  <2>. QED  BY <2>1, <2>3, <2>5, <2>6, VoiceQuiet, Zenon
<1>8. CASE EvictApply(p)
  <2> DEFINE t == h[p].who
             x == EnterEffects(user[t], h[p].may)
             s == [pc |-> "evict", ch |-> h[p].ch, parent |-> h[p].parent, todo |-> h[p].todo]
  <2>1. /\ h[p].pc = "evicted" /\ Goto(p, s) /\ UNCHANGED <<view, work>>
        /\ user' = [user EXCEPT ![t] = x]
    BY <1>8, Zenon DEF EvictApply, At
  <2>2. h[p].parent \in Ids /\ h[p].todo \subseteq Users /\ t \in Users /\ h[p].may \in BOOLEAN
    BY <1>0, <2>1, Zenon DEF Handler
  <2>3. s.pc = "evict" /\ s.parent \in Ids /\ s.todo \subseteq Users
    BY <2>2, Zenon
  <2>4. Person(user[t]) /\ Muted(user[t])
    BY <2>2, Zenon DEF VoiceInv
  <2>5. SameSelf(x, user[t])
    BY <2>2, <2>4, EnterFlags, Zenon DEF SameSelf, Person, SelfFields, Flags
  <2> HIDE DEF s, x
  <2>6. Handler(p, s)
    BY <2>3, Zenon DEF Handler
  <2>. QED  BY <2>1, <2>2, <2>3, <2>5, <2>6, VoiceQuiet, Zenon
<1>9. CASE RemoveListeners(p)
  <2> DEFINE s == [pc |-> "remove", ch |-> h[p].ch, parent |-> h[p].parent]
  <2>1. h[p].pc = "evict" /\ Goto(p, s) /\ UNCHANGED <<user, view, work>>
    BY <1>9, Zenon DEF RemoveListeners, At
  <2>2. s.pc = "remove" /\ s.parent \in Ids
    BY <1>0, <2>1, Zenon DEF Handler
  <2> HIDE DEF s
  <2>3. Handler(p, s)
    BY <2>2, Zenon DEF Handler
  <2>. QED  BY <2>1, <2>2, <2>3, VoiceQuiet, Zenon
<1>10. CASE RemoveNode(p)
  <2> DEFINE todo == <<h[p].parent>>
             s == Recompute(todo, Idle)
  <2>1. h[p].pc = "remove" /\ Goto(p, s) /\ UNCHANGED <<user, view, work>>
    BY <1>10, Zenon DEF RemoveNode, At
  <2>2. todo \in Seq(Ids) /\ todo # <<>>
    BY <1>0, <2>1 DEF Handler
  <2> HIDE DEF todo
  <2>3. s.pc = "crypto" /\ Handler(p, s)
    BY <2>2, Zenon DEF Handler, Resumes, Recompute
  <2> HIDE DEF s
  <2>. QED  BY <2>1, <2>3, VoiceQuiet, Zenon
<1>. QED  BY <1>1, <1>2, <1>3, <1>4, <1>5, <1>6, <1>7, <1>8, <1>9, <1>10, Zenon DEF TreeStep

LEMMA VoiceRest ==
  ASSUME VoiceInv, RestStep
  PROVE  VoiceInv'
<1>0. Rest \in Procs /\ Handler(Rest, h[Rest]) /\ Handler(Rest, Idle) /\ Idle.pc = "idle"
  BY Zenon DEF VoiceInv, Handler, Idle, Procs
<1>1. ASSUME NEW c \in Ids, DeleteChannel(c) PROVE VoiceInv'
  <2>1. h[Rest] = Idle /\ h' = h /\ UNCHANGED <<user, view, work>>
    BY <1>1, Zenon DEF DeleteChannel, Starts
  <2>2. Goto(Rest, Idle)
    BY <1>0, <2>1, Zenon DEF Goto, VoiceInv
  <2>. QED  BY <1>0, <2>1, <2>2, VoiceQuiet, Zenon
<1>2. ASSUME NEW granted, EditACL(granted) PROVE VoiceInv'
  <2> DEFINE s == [pc |-> "refresh", todo |-> [u \in Users |-> user[u].channel]]
  <2>1. h[Rest] = Idle /\ Goto(Rest, s) /\ UNCHANGED <<user, view, work>>
    BY <1>2, Zenon DEF EditACL, Starts
  <2>2. s.pc = "refresh" /\ Handler(Rest, s)
    BY Zenon DEF Handler
  <2> HIDE DEF s
  <2>. QED  BY <1>0, <2>1, <2>2, VoiceQuiet, Zenon
<1>3. ASSUME NEW c \in Ids, NEW want, LinkRest(c, want) PROVE VoiceInv'
  <2>1. h[Rest] = Idle /\ h' = h /\ UNCHANGED <<user, view, work>>
    BY <1>3, Zenon DEF LinkRest, Starts
  <2>2. Goto(Rest, Idle)
    BY <1>0, <2>1, Zenon DEF Goto, VoiceInv
  <2>. QED  BY <1>0, <2>1, <2>2, VoiceQuiet, Zenon
<1>4. ASSUME NEW u \in Users, RefreshRead(u) PROVE VoiceInv'
  <2> DEFINE s == [pc |-> "suppress", todo |-> h[Rest].todo, who |-> u, may |-> <<u, h[Rest].todo[u]>> \in speak]
  <2>1. h[Rest].pc = "refresh" /\ Goto(Rest, s) /\ UNCHANGED <<user, view, work>>
    BY <1>4, Zenon DEF RefreshRead, At
  <2>2. s.pc = "suppress" /\ s.who \in Users /\ s.may \in BOOLEAN
    OBVIOUS
  <2> HIDE DEF s
  <2>3. Handler(Rest, s)
    BY <2>2, Zenon DEF Handler
  <2>. QED  BY <1>0, <2>1, <2>2, <2>3, VoiceQuiet, Zenon
<1>5. ASSUME NEW u \in Users, NEW mute \in BOOLEAN, MuteSession(u, mute) PROVE VoiceInv'
  <2> DEFINE us == [mute |-> mute]
             d == Cascade(us, "deaf", "mute")
             x == Overlay(user[u], d)
  <2>1. h[Rest] = Idle /\ h' = h /\ UNCHANGED <<view, work>> /\ user' = [user EXCEPT ![u] = x]
    BY <1>5, Zenon DEF MuteSession, Starts
  <2>2. IsMessage(us) /\ DOMAIN us = {"mute"}
    BY DEF IsMessage, Flags
  <2> HIDE DEF us
  <2>3. /\ IsMessage(d) /\ Paired(d, "deaf", "mute")
        /\ \A f \in SelfFields : ~Has(d, f)
    BY <2>2, CascadePairs DEF Flags, SelfFields, Has
  <2> HIDE DEF d
  <2>4. Person(user[u]) /\ Muted(user[u])
    BY Zenon DEF VoiceInv
  <2>5. Paired(d, "selfDeaf", "selfMute")
    BY <2>3, Zenon DEF Paired, SelfFields
  <2>6. SameSelf(x, user[u])
    BY <2>3, <2>4, <2>5, OverlayPerson, OverlayMuted DEF SameSelf, Flags, SelfFields
  <2>7. Goto(Rest, Idle)
    BY <1>0, <2>1, Zenon DEF Goto, VoiceInv
  <2> HIDE DEF x
  <2>8. h[Rest].pc # "echo"
    BY <1>0, <2>1, Zenon
  <2>. QED  BY <1>0, <2>1, <2>6, <2>7, <2>8, VoiceQuiet, Zenon
<1>6. CASE RefreshApply
  <2> DEFINE t == h[Rest].who
             left == Without(h[Rest].todo, t)
             s == IF DOMAIN left = {} THEN Idle ELSE [pc |-> "refresh", todo |-> left]
             b == ~h[Rest].may
             x == [user[t] EXCEPT !.suppress = b]
  <2>1. h[Rest].pc = "suppress" /\ Goto(Rest, s) /\ UNCHANGED <<view, work>> /\ user' = [user EXCEPT ![t] = x]
    BY <1>6, Zenon DEF RefreshApply, At
  <2>2. t \in Users /\ h[Rest].may \in BOOLEAN
    BY <1>0, <2>1, Zenon DEF Handler
  <2>3. s.pc \in {"idle", "refresh"} /\ Handler(Rest, s)
    BY <1>0, Zenon DEF Handler
  <2>4. Person(user[t]) /\ Muted(user[t])
    BY <2>2, Zenon DEF VoiceInv
  <2>5. b \in BOOLEAN
    OBVIOUS
  <2> HIDE DEF b
  <2>6. Person(x) /\ Muted(x) /\ \A f \in Flags \cup {"channel"} : f # "suppress" => x[f] = user[t][f]
    BY <2>4, <2>5, Suppressed, Zenon
  <2> HIDE DEF x, s
  <2>7. SameSelf(x, user[t])
    BY <2>6, Zenon DEF SameSelf, SelfFields, Flags
  <2>8. s.pc # "echo" /\ h[Rest].pc # "echo"
    BY <2>1, <2>3, Zenon
  <2>. QED  BY <1>0, <2>1, <2>2, <2>3, <2>7, <2>8, VoiceQuiet, Zenon
<1>. QED  BY <1>1, <1>2, <1>3, <1>4, <1>5, <1>6, Zenon DEF RestStep

LEMMA VoiceListen ==
  ASSUME VoiceInv, ListenStep
  PROVE  VoiceInv'
<1>1. PICK u \in Users : ListenAdd(u) \/ \E c \in Ids : ListenCheck(u, c) \/ ListenRemove(u, c)
  BY Zenon DEF ListenStep
<1>2. u \in Procs /\ Handler(u, Idle) /\ Idle.pc = "idle"
  BY Zenon DEF Procs, Handler, Idle
<1>3. CASE ListenAdd(u)
  <2>1. h[u].pc = "listen" /\ Goto(u, Idle) /\ UNCHANGED <<user, view, work>>
    BY <1>3, Zenon DEF ListenAdd, At
  <2>. QED  BY <1>2, <2>1, VoiceQuiet, Zenon
<1>4. ASSUME NEW c \in Ids, ListenCheck(u, c) PROVE VoiceInv'
  <2> DEFINE s == [pc |-> "listen", ch |-> c]
  <2>1. h[u] = Idle /\ Goto(u, s) /\ UNCHANGED <<user, view, work>>
    BY <1>4, Zenon DEF ListenCheck, Starts
  <2>2. s.pc = "listen" /\ Handler(u, s)
    BY Zenon DEF Handler
  <2> HIDE DEF s
  <2>. QED  BY <1>2, <2>1, <2>2, VoiceQuiet, Zenon
<1>5. ASSUME NEW c \in Ids, ListenRemove(u, c) PROVE VoiceInv'
  <2>1. h[u] = Idle /\ h' = h /\ UNCHANGED <<user, view, work>>
    BY <1>5, Zenon DEF ListenRemove, Starts
  <2>2. Goto(u, Idle)
    BY <1>2, <2>1, Zenon DEF Goto, VoiceInv
  <2>. QED  BY <1>2, <2>1, <2>2, VoiceQuiet, Zenon
<1>. QED  BY <1>1, <1>3, <1>4, <1>5, Zenon

LEMMA VoiceStays == VoiceInv /\ TreeInv /\ [Next]_vars => VoiceInv'
<1>. SUFFICES ASSUME VoiceInv, TreeInv, [Next]_vars PROVE VoiceInv'
  OBVIOUS
<1>1. ASSUME NEW p \in Procs, StateStep(p) PROVE VoiceInv'
  BY <1>1, VoiceMoves, VoiceApply, VoiceEcho, Zenon DEF StateStep
<1>2. CASE UNCHANGED vars
  BY <1>2 DEF vars, VoiceInv, SelfKnown
<1>. QED  BY <1>1, <1>2, VoiceRemovals, VoiceRest, VoiceListen DEF Next

LEMMA VoiceAlways == Spec => []VoiceInv
BY VoiceInitial, VoiceStays, TreeAlways, PTL DEF Spec

(***************************************************************************)
(* Whoever is deafened is muted, for both kinds of flag: the cascades of   *)
(* voicestate.go keep the pair through any mixture of client, administrator *)
(* and REST requests, however their steps interleave.                      *)
(***************************************************************************)
THEOREM DeafStaysMuted == Spec => []DeafIsMuted
<1>1. VoiceInv => DeafIsMuted
  BY Zenon DEF VoiceInv, DeafIsMuted, Muted
<1>. QED  BY <1>1, VoiceAlways, PTL

(***************************************************************************)
(* When a session has no request in progress, a client that applied the    *)
(* deltas of handleUserState knows that session's self flags exactly: the  *)
(* delta broadcast is the rewritten message, and nobody else's request     *)
(* touches a self flag.                                                    *)
(***************************************************************************)
THEOREM SelfFlagsKnown == Spec => []SelfViewSettles
<1>1. VoiceInv => SelfViewSettles
  BY DEF VoiceInv, SelfViewSettles, SelfKnown, Idle
<1>. QED  BY <1>1, VoiceAlways, PTL

(***************************************************************************)
(* Listeners.  Between the check and the addition a session's own handler  *)
(* runs nothing else, and every other handler only removes pairs.          *)
(***************************************************************************)
ListenInv == \A u \in Users :
    /\ PerUser > 0 => Cardinality(Listens(u)) <= PerUser
    /\ h[u].pc = "listen" => h[u].ch \in Ids /\ (PerUser > 0 => Cardinality(Listens(u)) + 1 <= PerUser)

\* What a step does to the listeners.
ListenChange ==
    \/ /\ \A l \in listening' : l \in listening
       /\ \A u \in Users : h'[u].pc = "listen" => h'[u] = h[u]
    \/ \E u \in Users : ListenAdd(u)
    \/ \E u \in Users, c \in Ids : ListenCheck(u, c)

LEMMA ListenFinite ==
  ASSUME NEW u
  PROVE  IsFiniteSet(Ids) /\ IsFiniteSet(Listens(u)) /\ Cardinality(Listens(u)) \in Nat
<1>1. IsFiniteSet(Ids)
  BY FS_Interval, LimitsAssumption DEF Ids
<1>2. Listens(u) \in SUBSET Ids
  BY Zenon DEF Listens
<1>3. IsFiniteSet(Listens(u))
  BY <1>1, <1>2, FS_Subset, Zenon
<1>. QED  BY <1>1, <1>3, FS_CardinalityType, Zenon

LEMMA ListenKeeps ==
  ASSUME ListenInv, \A l \in listening' : l \in listening,
         \A u \in Users : h'[u].pc = "listen" => h'[u] = h[u]
  PROVE  ListenInv'
<1>. SUFFICES ASSUME NEW u \in Users
              PROVE  /\ PerUser > 0 => Cardinality(Listens(u)') <= PerUser
                     /\ h'[u].pc = "listen" =>
                            h'[u].ch \in Ids /\ (PerUser > 0 => Cardinality(Listens(u)') + 1 <= PerUser)
  BY Zenon DEF ListenInv
<1>1. Listens(u)' \in SUBSET Listens(u)
  BY Zenon DEF Listens
<1>2. IsFiniteSet(Listens(u)) /\ Cardinality(Listens(u)) \in Nat
  BY ListenFinite, Zenon
<1>3. Cardinality(Listens(u)') <= Cardinality(Listens(u)) /\ Cardinality(Listens(u)') \in Nat
  BY <1>1, <1>2, FS_Subset, FS_CardinalityType, Zenon
<1>. QED  BY <1>2, <1>3, LimitsAssumption DEF ListenInv

LEMMA ListenAdds ==
  ASSUME ListenInv, VoiceInv, NEW u \in Users, ListenAdd(u)
  PROVE  ListenInv'
<1>1. /\ h[u].pc = "listen" /\ listening' = listening \cup {<<u, h[u].ch>>}
      /\ h' = [h EXCEPT ![u] = Idle]
  BY Zenon DEF ListenAdd, At, Goto
<1>2. h[u].ch \in Ids /\ (PerUser > 0 => Cardinality(Listens(u)) + 1 <= PerUser)
  BY <1>1, Zenon DEF ListenInv
<1>3. Listens(u)' = Listens(u) \cup {h[u].ch} /\ \A v \in Users \ {u} : Listens(v)' = Listens(v)
  <2>1. \A v, c : <<v, c>> \in listening' <=> <<v, c>> \in listening \/ (v = u /\ c = h[u].ch)
    BY <1>1, Zenon
  <2>. QED  BY <1>2, <2>1, Zenon DEF Listens
<1>4. IsFiniteSet(Listens(u)) /\ Cardinality(Listens(u)) \in Nat
  BY ListenFinite, Zenon
<1>5. PerUser > 0 => Cardinality(Listens(u)') <= PerUser
  <2>1. Cardinality(Listens(u) \cup {h[u].ch}) \in {Cardinality(Listens(u)), Cardinality(Listens(u)) + 1}
    BY <1>4, FS_AddElement, Zenon
  <2>. QED  BY <1>2, <1>3, <1>4, <2>1, LimitsAssumption
<1>6. u \in Procs /\ h'[u] = Idle /\ \A v \in Users \ {u} : h'[v] = h[v]
  BY <1>1, Zenon DEF VoiceInv, Procs
<1>7. h'[u].pc # "listen"
  BY <1>6 DEF Idle
<1>8. ASSUME NEW v \in Users \ {u}
      PROVE  /\ PerUser > 0 => Cardinality(Listens(v)') <= PerUser
             /\ h'[v].pc = "listen" =>
                    h'[v].ch \in Ids /\ (PerUser > 0 => Cardinality(Listens(v)') + 1 <= PerUser)
  BY <1>3, <1>6, Zenon DEF ListenInv
<1>. QED  BY <1>5, <1>7, <1>8, Zenon DEF ListenInv

LEMMA ListenChecks ==
  ASSUME ListenInv, VoiceInv, NEW u \in Users, NEW c \in Ids, ListenCheck(u, c)
  PROVE  ListenInv'
<1> DEFINE s == [pc |-> "listen", ch |-> c]
<1>1. h' = [h EXCEPT ![u] = s] /\ listening' = listening /\ (PerUser > 0 => Cardinality(Listens(u)) + 1 <= PerUser)
  BY Zenon DEF ListenCheck, Goto, MayListen
<1>2. u \in Procs /\ h'[u] = s /\ \A v \in Users \ {u} : h'[v] = h[v]
  BY <1>1, Zenon DEF VoiceInv, Procs
<1>3. \A v : Listens(v)' = Listens(v)
  BY <1>1, Zenon DEF Listens
<1>. QED  BY <1>1, <1>2, <1>3 DEF ListenInv

\* A handler step to another place than "listen".
LEMMA GotoElsewhere ==
  ASSUME VoiceInv, NEW p \in Procs, NEW s, Goto(p, s), s.pc # "listen"
  PROVE  \A u \in Users : h'[u].pc = "listen" => h'[u] = h[u]
<1>1. h'[p] = s /\ \A q \in Procs \ {p} : h'[q] = h[q]
  BY Zenon DEF VoiceInv, Goto
<1>. QED  BY <1>1, Zenon DEF Procs

LEMMA ListenTree ==
  ASSUME VoiceInv, NEW p \in Procs, TreeStep(p)
  PROVE  ListenChange
<1> USE DEF ListenChange
<1>0. Idle.pc = "idle"
  BY Zenon DEF Idle
<1>1. ASSUME NEW c \in Ids, NEW temp \in BOOLEAN, Create(p, c, temp) \/ Update(p, c, temp) PROVE ListenChange
  BY <1>1, Zenon DEF Create, Update
<1>2. ASSUME NEW c \in Ids, NEW add, NEW remove, LinkRead(p, c, add, remove) PROVE ListenChange
  BY <1>2, GotoElsewhere, Zenon DEF LinkRead
<1>3. ASSUME NEW c \in Ids, CleanPick(p, c) PROVE ListenChange
  BY <1>3, GotoElsewhere, Zenon DEF CleanPick
<1>4. ASSUME NEW c \in Ids, RemoveRead(p, c) PROVE ListenChange
  BY <1>4, GotoElsewhere, Zenon DEF RemoveRead
<1>5. CASE LinkWrite(p) \/ CleanDone(p)
  BY <1>0, <1>5, GotoElsewhere, Zenon DEF LinkWrite, CleanDone
<1>6. CASE CleanRemove(p)
  BY <1>6, GotoElsewhere, Zenon DEF CleanRemove
<1>7. ASSUME NEW u \in Users, Evict(p, u) PROVE ListenChange
  BY <1>7, GotoElsewhere, Zenon DEF Evict
<1>8. CASE EvictApply(p)
  BY <1>8, GotoElsewhere, Zenon DEF EvictApply
<1>9. CASE RemoveListeners(p)
  BY <1>9, GotoElsewhere, Zenon DEF RemoveListeners
<1>10. CASE RemoveNode(p)
  BY <1>10, GotoElsewhere, Zenon DEF RemoveNode, Recompute
<1>. QED  BY <1>1, <1>2, <1>3, <1>4, <1>5, <1>6, <1>7, <1>8, <1>9, <1>10, Zenon DEF TreeStep

LEMMA ListenState ==
  ASSUME VoiceInv, NEW p \in Procs, StateStep(p)
  PROVE  ListenChange
<1> USE DEF ListenChange
<1>0. Idle.pc = "idle" /\ Handler(p, h[p])
  BY Zenon DEF Idle, VoiceInv
<1>1. ASSUME NEW t \in Users, NEW us \in work.messages, UserState(p, t, us) PROVE ListenChange
  BY <1>1, GotoElsewhere, Zenon DEF UserState
<1>2. CASE MoveUser(p)
  BY <1>2, GotoElsewhere, Zenon DEF MoveUser, Recompute
<1>3. CASE MaySpeak(p)
  <2>1. [h[p] EXCEPT !.pc = "apply", !.may = <<h[p].who, h[p].us.channel>> \in speak].pc = "apply"
    BY <1>0, <1>3, Zenon DEF MaySpeak, At, Handler, Request
  <2>. QED  BY <1>3, <2>1, GotoElsewhere, Zenon DEF MaySpeak
<1>4. CASE Apply(p)
  <2>1. [h[p] EXCEPT !.pc = "echo"].pc = "echo"
    BY <1>0, <1>4, Zenon DEF Apply, At, Handler, Request
  <2>. QED  BY <1>4, <2>1, GotoElsewhere, Zenon DEF Apply
<1>5. CASE Echo(p)
  BY <1>0, <1>5, GotoElsewhere, Zenon DEF Echo
<1>6. CASE CryptoRead(p)
  BY <1>6, GotoElsewhere, Zenon DEF CryptoRead
<1>7. CASE CryptoStore(p)
  <2>1. h[p].next.pc # "listen"
    BY <1>0, <1>7, Zenon DEF CryptoStore, At, Handler, Resumes
  <2>2. Recompute(Tail(h[p].todo), h[p].next).pc # "listen"
    BY Zenon DEF Recompute
  <2>. QED  BY <1>7, <2>1, <2>2, GotoElsewhere, Zenon DEF CryptoStore
<1>. QED  BY <1>1, <1>2, <1>3, <1>4, <1>5, <1>6, <1>7, Zenon DEF StateStep

LEMMA ListenRest ==
  ASSUME VoiceInv, RestStep
  PROVE  ListenChange
<1> USE DEF ListenChange
<1>0. Idle.pc = "idle" /\ Rest \in Procs
  BY Zenon DEF Idle, Procs
<1>1. ASSUME NEW c \in Ids, DeleteChannel(c) PROVE ListenChange
  BY <1>1, Zenon DEF DeleteChannel
<1>2. ASSUME NEW granted, EditACL(granted) PROVE ListenChange
  BY <1>0, <1>2, GotoElsewhere, Zenon DEF EditACL
<1>3. ASSUME NEW c \in Ids, NEW want, LinkRest(c, want) PROVE ListenChange
  BY <1>3, Zenon DEF LinkRest
<1>4. ASSUME NEW u \in Users, RefreshRead(u) PROVE ListenChange
  BY <1>0, <1>4, GotoElsewhere, Zenon DEF RefreshRead
<1>5. ASSUME NEW u \in Users, NEW mute \in BOOLEAN, MuteSession(u, mute) PROVE ListenChange
  BY <1>5, Zenon DEF MuteSession
<1>6. CASE RefreshApply
  <2> DEFINE left == Without(h[Rest].todo, h[Rest].who)
             s == IF DOMAIN left = {} THEN Idle ELSE [pc |-> "refresh", todo |-> left]
  <2>1. Goto(Rest, s) /\ listening' = listening
    BY <1>6, Zenon DEF RefreshApply
  <2>2. s.pc # "listen"
    BY <1>0, Zenon
  <2> HIDE DEF s
  <2>. QED  BY <1>0, <2>1, <2>2, GotoElsewhere, Zenon
<1>. QED  BY <1>1, <1>2, <1>3, <1>4, <1>5, <1>6, Zenon DEF RestStep

LEMMA ListenStays == ListenInv /\ VoiceInv /\ [Next]_vars => ListenInv'
<1>. SUFFICES ASSUME ListenInv, VoiceInv, [Next]_vars PROVE ListenInv'
  OBVIOUS
<1>1. ASSUME ListenStep PROVE ListenChange
  <2>1. ASSUME NEW u \in Users, NEW c \in Ids, ListenRemove(u, c) PROVE ListenChange
    <3>1. listening' = listening \ {<<u, c>>} /\ h' = h
      BY <2>1, Zenon DEF ListenRemove
    <3>. QED  BY <3>1, Zenon DEF ListenChange
  <2>. QED  BY <1>1, <2>1, Zenon DEF ListenStep, ListenChange
<1>2. ASSUME UNCHANGED vars PROVE ListenChange
  <2>1. listening' = listening /\ h' = h
    BY <1>2, Zenon DEF vars
  <2>. QED  BY <2>1, Zenon DEF ListenChange
<1>3. ListenChange
  BY <1>1, <1>2, ListenTree, ListenState, ListenRest, Zenon DEF Next
<1>. QED  BY <1>3, ListenKeeps, ListenAdds, ListenChecks, Zenon DEF ListenChange

(***************************************************************************)
(* No session listens to more channels than the per-user limit             *)
(* (applyListening), although check and addition hold the lock separately: *)
(* only the session's own handler adds its pairs, one at a time.           *)
(***************************************************************************)
THEOREM ListenersWithinLimit == Spec => []ListenerLimit
<1>1. Init => ListenInv
  <2>. SUFFICES ASSUME Init PROVE ListenInv
    OBVIOUS
  <2>1. \A u : Listens(u) = {}
    BY Zenon DEF Init, Listens
  <2>2. Cardinality({}) = 0
    BY FS_EmptySet, Zenon
  <2>3. \A u \in Users : h[u].pc = "idle"
    BY Zenon DEF Init, Idle, Procs
  <2>. QED  BY <2>1, <2>2, <2>3, LimitsAssumption DEF ListenInv
<1>2. ListenInv => ListenerLimit
  BY Zenon DEF ListenInv, ListenerLimit
<1>. QED  BY <1>1, <1>2, ListenStays, VoiceAlways, PTL DEF Spec

(***************************************************************************)
(* Linked channels.  ConnectedChannelIDs adds the neighbours of what it    *)
(* has seen, one round at a time; a path found from one end is found from  *)
(* the other end in as many rounds.                                        *)
(***************************************************************************)
Around(s) == s \cup {i \in Live : \E j \in s : Adjacent(j, i)}

Rounds(c, m, f) == f = [n \in 0..m |-> IF n = 0 THEN {c} ELSE Around(f[n - 1])]

Unrolled(c, m, f) == \A n \in 0..m : f[n] = IF n = 0 THEN {c} ELSE Around(f[n - 1])

LEMMA RoundsAt ==
  ASSUME NEW c, NEW m, NEW f, Rounds(c, m, f)
  PROVE  Unrolled(c, m, f)
<1>. SUFFICES ASSUME NEW n \in 0..m PROVE f[n] = IF n = 0 THEN {c} ELSE Around(f[n - 1])
  BY Zenon DEF Unrolled
<1>1. \A g : f = [k \in 0..m |-> IF k = 0 THEN {c} ELSE Around(g[k - 1])] =>
            f[n] = IF n = 0 THEN {c} ELSE Around(g[n - 1])
  OBVIOUS
<1>. QED  BY <1>1, Zenon DEF Rounds

LEMMA RoundsExist ==
  ASSUME NEW c, NEW m \in Nat
  PROVE  \E f : Rounds(c, m, f)
<1> DEFINE T == {k \in Nat : ~ \E f : Rounds(c, k, f)}
<1>. SUFFICES ASSUME T # {} PROVE FALSE
  OBVIOUS
<1>1. PICK k \in T : \A i \in T : k <= i
  BY LeastNat, Zenon
<1>2. CASE k = 0
  <2>1. Rounds(c, 0, [n \in 0..0 |-> {c}])
    BY DEF Rounds
  <2>. QED  BY <1>1, <1>2, <2>1, Zenon
<1>3. CASE k # 0
  <2>1. k - 1 \in Nat /\ k - 1 \notin T
    BY <1>1, <1>3
  <2>2. PICK f : Rounds(c, k - 1, f)
    BY <2>1, Zenon
  <2> DEFINE g == [n \in 0..k |-> IF n = k THEN Around(f[k - 1]) ELSE f[n]]
  <2>3. \A n \in 0..(k - 1) : g[n] = f[n] /\ f[n] = IF n = 0 THEN {c} ELSE Around(f[n - 1])
    <3>1. \A n \in 0..(k - 1) : f[n] = IF n = 0 THEN {c} ELSE Around(f[n - 1])
      <4>1. Unrolled(c, k - 1, f)
        BY <2>2, RoundsAt, Zenon
      <4>. QED  BY <4>1, Zenon DEF Unrolled
    <3>2. \A n \in 0..(k - 1) : g[n] = f[n]
      BY <2>1
    <3>. QED  BY <3>1, <3>2, Zenon
  <2>4. \A n \in 0..k : g[n] = IF n = 0 THEN {c} ELSE Around(g[n - 1])
    <3>. TAKE n \in 0..k
    <3>1. CASE n = k
      <4>1. g[k] = Around(f[k - 1]) /\ g[k - 1] = f[k - 1]
        BY <2>1
      <4>. QED  BY <1>3, <3>1, <4>1, Zenon
    <3>2. CASE n # k
      <4>1. n \in 0..(k - 1) /\ (n # 0 => n - 1 \in 0..(k - 1))
        BY <2>1, <3>2
      <4>. QED  BY <2>3, <4>1, Zenon
    <3>. QED  BY <3>1, <3>2, Zenon
  <2>5. Rounds(c, k, g)
    BY <2>4, Zenon DEF Rounds
  <2>. QED  BY <1>1, <2>5, Zenon
<1>. QED  BY <1>2, <1>3, Zenon

\* The channels within n links of c.
Within(c) == CHOOSE f : Rounds(c, MaxId, f)

LEMMA WithinRounds ==
  ASSUME NEW c
  PROVE  /\ Within(c)[0] = {c}
         /\ \A n \in Nat : n + 1 <= MaxId => Within(c)[n + 1] = Around(Within(c)[n])
         /\ c \in Live => ConnectedChannelIDs(c) = Within(c)[MaxId]
<1> DEFINE f == Within(c)
<1>1. Rounds(c, MaxId, f)
  BY RoundsExist, LimitsAssumption, Zenon DEF Within
<1>2. c \in Live => ConnectedChannelIDs(c) = f[MaxId]
  BY Zenon DEF ConnectedChannelIDs, Within, Rounds, Around
<1> HIDE DEF f
<1>3. f[0] = {c} /\ \A n \in Nat : n + 1 <= MaxId => f[n + 1] = Around(f[n])
  <2>1. \A n \in 0..MaxId : f[n] = IF n = 0 THEN {c} ELSE Around(f[n - 1])
    <3>1. Unrolled(c, MaxId, f)
      BY <1>1, RoundsAt, Zenon
    <3>. QED  BY <3>1, Zenon DEF Unrolled
  <2>2. 0 \in 0..MaxId /\ f[0] = {c}
    BY <2>1, LimitsAssumption
  <2>3. ASSUME NEW n \in Nat, n + 1 <= MaxId PROVE f[n + 1] = Around(f[n])
    <3>1. n + 1 \in 0..MaxId /\ n + 1 # 0 /\ (n + 1) - 1 = n
      BY <2>3, LimitsAssumption
    <3>. QED  BY <2>1, <3>1, Zenon
  <2>. QED  BY <2>2, <2>3, Zenon
<1>. QED  BY <1>2, <1>3, Zenon DEF f

LEMMA WithinLive ==
  ASSUME NEW n \in Nat, n <= MaxId
  PROVE  \A c \in Live : Within(c)[n] \subseteq Live
<1> DEFINE P(k) == \A c \in Live : Within(c)[k] \subseteq Live
           T == {k \in Nat : k <= MaxId /\ ~P(k)}
<1>. SUFFICES ASSUME T # {} PROVE FALSE
  OBVIOUS
<1>1. PICK k \in T : \A i \in T : k <= i
  BY LeastNat, Zenon
<1>2. k \in Nat /\ k <= MaxId /\ ~P(k)
  BY <1>1, Zenon
<1>3. CASE k = 0
  BY <1>2, <1>3, WithinRounds, Zenon
<1>4. CASE k # 0
  <2> DEFINE m == k - 1
  <2>1. m \in Nat /\ k = m + 1 /\ m + 1 <= MaxId /\ m <= MaxId /\ m \notin T
    BY <1>1, <1>2, <1>4, LimitsAssumption
  <2>2. P(m)
    BY <2>1, Zenon
  <2> HIDE DEF m, T
  <2>3. P(k)
    BY <2>1, <2>2, WithinRounds DEF Around
  <2>. QED  BY <1>2, <2>3, Zenon
<1>. QED  BY <1>3, <1>4, Zenon

\* A path that starts with a link is as long as its links.
LEMMA FirstLink ==
  ASSUME NEW n \in Nat, n + 1 <= MaxId
  PROVE  \A c, d \in Live : d \in Within(c)[n + 1] <=>
            d \in Within(c)[n] \/ \E j \in Live : Adjacent(c, j) /\ d \in Within(j)[n]
<1> DEFINE P(k) == \A c, d \in Live : d \in Within(c)[k + 1] <=>
                     d \in Within(c)[k] \/ \E j \in Live : Adjacent(c, j) /\ d \in Within(j)[k]
           T == {k \in Nat : k + 1 <= MaxId /\ ~P(k)}
<1>. SUFFICES ASSUME T # {} PROVE FALSE
  OBVIOUS
<1>1. PICK k \in T : \A i \in T : k <= i
  BY LeastNat, Zenon
<1>2. k \in Nat /\ k + 1 <= MaxId /\ ~P(k)
  BY <1>1, Zenon
<1>3. \A c, d : d \in Within(c)[k + 1] <=> d \in Within(c)[k] \/ (d \in Live /\ \E j \in Within(c)[k] : Adjacent(j, d))
  BY <1>2, WithinRounds DEF Around
<1>4. CASE k = 0
  <2>1. \A c : Within(c)[0] = {c}
    BY WithinRounds, Zenon
  <2>2. P(0)
    BY <1>3, <1>4, <2>1
  <2>. QED  BY <1>2, <1>4, <2>2, Zenon
<1>5. CASE k # 0
  <2> DEFINE m == k - 1
  <2>1. m \in Nat /\ k = m + 1 /\ m + 1 <= MaxId /\ m <= MaxId /\ m \notin T
    BY <1>1, <1>2, <1>5, LimitsAssumption
  <2>2. \A c, d \in Live : d \in Within(c)[k] <=>
            d \in Within(c)[m] \/ \E j \in Live : Adjacent(c, j) /\ d \in Within(j)[m]
    BY <2>1, Zenon
  <2>3. \A c, d : d \in Within(c)[k] <=> d \in Within(c)[m] \/ (d \in Live /\ \E j \in Within(c)[m] : Adjacent(j, d))
    BY <2>1, WithinRounds DEF Around
  <2> HIDE DEF m, T
  <2>4. ASSUME NEW c \in Live, NEW d \in Live, d \in Within(c)[k + 1]
        PROVE  d \in Within(c)[k] \/ \E j \in Live : Adjacent(c, j) /\ d \in Within(j)[k]
    <3>1. CASE d \notin Within(c)[k]
      <4>1. PICK i \in Within(c)[k] : Adjacent(i, d)
        BY <1>3, <2>4, <3>1, Zenon
      <4>2. i \notin Within(c)[m]
        BY <2>3, <3>1, <4>1, Zenon
      <4>3. i \in Live
        BY <2>3, <4>1, <4>2, Zenon
      <4>4. PICK j \in Live : Adjacent(c, j) /\ i \in Within(j)[m]
        BY <2>2, <4>1, <4>2, <4>3, Zenon
      <4>. QED  BY <2>3, <4>1, <4>4, Zenon
    <3>. QED  BY <3>1, Zenon
  <2>5. ASSUME NEW c \in Live, NEW d \in Live, NEW j \in Live, Adjacent(c, j), d \in Within(j)[k]
        PROVE  d \in Within(c)[k + 1]
    <3>1. CASE d \in Within(j)[m]
      BY <1>3, <2>2, <2>5, <3>1, Zenon
    <3>2. CASE d \notin Within(j)[m]
      <4>1. PICK i \in Within(j)[m] : Adjacent(i, d)
        BY <2>3, <2>5, <3>2, Zenon
      <4>2. CASE i \in Live
        BY <1>3, <2>2, <2>5, <4>1, <4>2, Zenon
      <4>3. CASE i \notin Live
        <5>. QED  BY <4>1, <4>3, WithinLive, <2>5, <2>1, Zenon
      <4>. QED  BY <4>2, <4>3, Zenon
    <3>. QED  BY <3>1, <3>2, Zenon
  <2>6. P(k)
    BY <1>3, <2>4, <2>5, Zenon
  <2>. QED  BY <1>2, <2>6, Zenon
<1>. QED  BY <1>4, <1>5, Zenon

LEMMA SameWayBack ==
  ASSUME NEW n \in Nat, n <= MaxId
  PROVE  \A c, d \in Live : d \in Within(c)[n] <=> c \in Within(d)[n]
<1> DEFINE P(k) == \A c, d \in Live : d \in Within(c)[k] <=> c \in Within(d)[k]
           T == {k \in Nat : k <= MaxId /\ ~P(k)}
<1>. SUFFICES ASSUME T # {} PROVE FALSE
  OBVIOUS
<1>1. PICK k \in T : \A i \in T : k <= i
  BY LeastNat, Zenon
<1>2. k \in Nat /\ k <= MaxId /\ ~P(k)
  BY <1>1, Zenon
<1>3. CASE k = 0
  <2>1. \A c : Within(c)[0] = {c}
    BY WithinRounds, Zenon
  <2>2. P(0)
    BY <2>1
  <2>. QED  BY <1>2, <1>3, <2>2, Zenon
<1>4. CASE k # 0
  <2> DEFINE m == k - 1
  <2>1. m \in Nat /\ k = m + 1 /\ m + 1 <= MaxId /\ m <= MaxId /\ m \notin T
    BY <1>1, <1>2, <1>4, LimitsAssumption
  <2>2. \A c, d \in Live : d \in Within(c)[m] <=> c \in Within(d)[m]
    BY <2>1, Zenon
  <2>3. \A c, d : d \in Within(c)[k] <=> d \in Within(c)[m] \/ (d \in Live /\ \E j \in Within(c)[m] : Adjacent(j, d))
    BY <2>1, WithinRounds DEF Around
  <2>4. \A c, d \in Live : d \in Within(c)[k] <=>
            d \in Within(c)[m] \/ \E j \in Live : Adjacent(c, j) /\ d \in Within(j)[m]
    BY <2>1, FirstLink, Zenon
  <2>5. \A a, b : Adjacent(a, b) <=> Adjacent(b, a)
    BY Zenon DEF Adjacent
  <2>6. \A c \in Live : Within(c)[m] \subseteq Live
    BY <2>1, WithinLive, Zenon
  <2> HIDE DEF m, T
  <2>7. P(k)
    BY <2>2, <2>3, <2>4, <2>5, <2>6
  <2>. QED  BY <1>2, <2>7, Zenon
<1>. QED  BY <1>3, <1>4, Zenon

LEMMA ConnectedMutual ==
  ASSUME NEW c, NEW d, d \in ConnectedChannelIDs(c)
  PROVE  c \in ConnectedChannelIDs(d)
<1>1. c \in Live
  BY Zenon DEF ConnectedChannelIDs
<1>2. d \in Within(c)[MaxId]
  BY <1>1, WithinRounds, Zenon
<1>3. d \in Live
  BY <1>1, <1>2, WithinLive, LimitsAssumption
<1>. QED  BY <1>1, <1>2, <1>3, SameWayBack, WithinRounds, LimitsAssumption

(***************************************************************************)
(* Two users who may each speak in the other's channel reach each other or *)
(* not at all (RouteRef over ConnectedChannelIDs), in whatever way their   *)
(* channels are linked, however many links lie between them, and whatever  *)
(* each may do in the channels on the way.                                 *)
(***************************************************************************)
THEOREM ReachStaysMutual == Spec => []ReachIsMutual
<1>1. ReachIsMutual
  <2>. SUFFICES ASSUME NEW s \in Users, NEW r \in Users, CanSenderSpeak(s), CanSenderSpeak(r),
                       <<s, user[r].channel>> \in speak, <<r, user[s].channel>> \in speak
                PROVE  r \in Occupants(s) <=> s \in Occupants(r)
    BY Zenon DEF ReachIsMutual
  <2>. QED  BY ConnectedMutual, Zenon DEF Occupants, Scanned
<1>. QED  BY <1>1, PTL

(***************************************************************************)
(* The crypto mode of a channel.  With one actor, a channel whose users    *)
(* have different modes is recorded as mixed unless the handler in         *)
(* progress still owes it a look: it is on the list of the recomputation,  *)
(* or it takes in the users of the channel being removed.                  *)
(***************************************************************************)
Solo == Cardinality(work.actors) = 1

Modes(c)    == {Mode[u] : u \in Members(c)}
Recorded(c) == Cardinality(Modes(c)) > 1 => crypto[c] = {"mixed"}

Owes(r, c) ==
    \/ r.pc \in {"crypto", "store"} /\ \E i \in 1..Len(r.todo) : r.todo[i] = c
    \/ r.pc \in {"evict", "evicted", "remove"} /\ r.parent = c

CryptoInv ==
    /\ crypto = [c \in Ids |-> crypto[c]]
    /\ \A p \in Procs : h[p] # Idle => p \in work.actors
    /\ Solo => \A c \in Ids : Recorded(c) \/ \E p \in Procs : Owes(h[p], c)
    /\ Solo => \A p \in Procs, c \in Ids :
                  h[p].pc = "store" /\ Head(h[p].todo) = c => h[p].mode = Aggregate(c)

LEMMA MembersFinite ==
  ASSUME NEW c
  PROVE  /\ IsFiniteSet(Members(c)) /\ IsFiniteSet(Modes(c)) /\ Cardinality(Modes(c)) \in Nat
         /\ "mixed" \notin Modes(c)
<1>1. Members(c) \in SUBSET Users
  BY Zenon DEF Members
<1>2. IsFiniteSet(Members(c))
  BY <1>1, FS_Subset, UsersAssumption, Zenon
<1>3. IsFiniteSet(Modes(c))
  <2>1. Modes(c) \in SUBSET {"lite", "legacy", "secure"}
    BY <1>1, ModeAssumption, Zenon DEF Modes
  <2>2. IsFiniteSet({"lite"}) /\ IsFiniteSet({"legacy"}) /\ IsFiniteSet({"secure"})
    BY FS_Singleton, Zenon
  <2>3. IsFiniteSet({"lite"} \cup {"legacy"} \cup {"secure"})
    BY <2>2, FS_Union, Zenon
  <2>4. {"lite"} \cup {"legacy"} \cup {"secure"} = {"lite", "legacy", "secure"}
    OBVIOUS
  <2>. QED  BY <2>1, <2>3, <2>4, FS_Subset, Zenon
<1>4. "mixed" \notin Modes(c)
  BY <1>1, ModeAssumption, Zenon DEF Modes
<1>. QED  BY <1>2, <1>3, <1>4, FS_CardinalityType, Zenon

LEMMA AggregateMixed ==
  ASSUME NEW c
  PROVE  Aggregate(c) = {"mixed"} <=> Cardinality(Modes(c)) > 1
<1>1. Aggregate(c) = IF Cardinality(Modes(c)) > 1 THEN {"mixed"} ELSE Modes(c)
  BY Zenon DEF Aggregate, Modes
<1>2. Modes(c) # {"mixed"}
  BY MembersFinite, Zenon
<1>. QED  BY <1>1, <1>2, Zenon

LEMMA Alone ==
  ASSUME CryptoInv, VoiceInv, Solo, NEW p \in work.actors, NEW q \in Procs, q # p
  PROVE  h[q] = Idle
<1>1. IsFiniteSet(work.actors)
  BY WorkloadsAssumption, Zenon DEF VoiceInv
<1>2. PICK a : work.actors = {a}
  BY <1>1, FS_Singleton, Zenon DEF Solo
<1>. QED  BY <1>2, Zenon DEF CryptoInv

\* Users who leave a channel cannot make it mixed.
LEMMA LeavingRecorded ==
  ASSUME NEW c, Members(c)' \subseteq Members(c), crypto' = crypto, Recorded(c)
  PROVE  Recorded(c)'
<1>1. Modes(c)' \in SUBSET Modes(c)
  BY Zenon DEF Modes
<1>2. IsFiniteSet(Modes(c)) /\ Cardinality(Modes(c)) \in Nat
  BY MembersFinite, Zenon
<1>3. Cardinality(Modes(c)') <= Cardinality(Modes(c)) /\ Cardinality(Modes(c)') \in Nat
  BY <1>1, <1>2, FS_Subset, FS_CardinalityType, Zenon
<1>. QED  BY <1>2, <1>3 DEF Recorded

\* A step of p that records nothing: the debt it leaves covers every channel
\* that was owed a look or has been entered.
LEMMA CryptoQuiet ==
  ASSUME CryptoInv, VoiceInv, NEW p \in Procs, NEW s, Goto(p, s), p \in work.actors \/ h[p] # Idle,
         UNCHANGED <<crypto, work>>, s.pc # "store",
         \A c \in Ids : Owes(h[p], c) => Owes(s, c),
         \A c \in Ids : Members(c)' \subseteq Members(c) \/ Owes(s, c)
  PROVE  CryptoInv'
<1>1. p \in work.actors
  BY Zenon DEF CryptoInv
<1>2. h'[p] = s /\ \A q \in Procs \ {p} : h'[q] = h[q]
  BY Zenon DEF Goto, VoiceInv
<1>3. \A q \in Procs : h'[q] # Idle => q \in work'.actors
  BY <1>1, <1>2, Zenon DEF CryptoInv
<1>4. ASSUME Solo', NEW c \in Ids PROVE Recorded(c)' \/ \E q \in Procs : Owes(h'[q], c)
  <2>1. Solo /\ \A q \in Procs \ {p} : h[q] = Idle
    BY <1>1, <1>4, Alone, Zenon DEF Solo
  <2>2. \A q \in Procs \ {p} : ~Owes(h[q], c)
    BY <2>1 DEF Owes, Idle
  <2>3. CASE Owes(s, c)
    BY <1>2, <2>3, Zenon
  <2>4. CASE ~Owes(s, c)
    <3>1. Members(c)' \subseteq Members(c) /\ ~Owes(h[p], c)
      BY <2>4, Zenon
    <3>2. Recorded(c)
      BY <2>1, <2>2, <3>1, Zenon DEF CryptoInv
    <3>. QED  BY <3>1, <3>2, LeavingRecorded, Zenon
  <2>. QED  BY <2>3, <2>4, Zenon
<1>5. ASSUME Solo', NEW q \in Procs, h'[q].pc = "store" PROVE FALSE
  <2>1. Solo
    BY <1>5, Zenon DEF Solo
  <2>2. q # p
    BY <1>2, <1>5, Zenon
  <2>3. h[q] = Idle
    BY <1>1, <2>1, <2>2, Alone, Zenon
  <2>. QED  BY <1>2, <1>5, <2>2, <2>3 DEF Idle
<1>6. crypto' = [c \in Ids |-> crypto'[c]]
  BY Zenon DEF CryptoInv
<1>. QED  BY <1>3, <1>4, <1>5, <1>6, Zenon DEF CryptoInv

LEMMA CryptoReads ==
  ASSUME CryptoInv, VoiceInv, NEW p \in Procs, CryptoRead(p)
  PROVE  CryptoInv'
<1> DEFINE s == [pc |-> "store", mode |-> Aggregate(Head(h[p].todo)), todo |-> h[p].todo, next |-> h[p].next]
<1>1. h[p].pc = "crypto" /\ h' = [h EXCEPT ![p] = s] /\ UNCHANGED <<user, crypto, work>>
  BY Zenon DEF CryptoRead, At, Goto
<1>2. h'[p] = s /\ \A q \in Procs \ {p} : h'[q] = h[q]
  BY <1>1, Zenon DEF VoiceInv
<1>3. s.pc = "store" /\ s.todo = h[p].todo /\ s.mode = Aggregate(Head(s.todo))
  OBVIOUS
<1> HIDE DEF s
<1>4. \A c : Owes(h[p], c) => Owes(s, c)
  BY <1>1, <1>3, Zenon DEF Owes
<1>5. p \in work.actors
  BY <1>1 DEF CryptoInv, Idle
<1>6. \A q \in Procs : h'[q] # Idle => q \in work'.actors
  BY <1>1, <1>2, <1>5, Zenon DEF CryptoInv
<1>7. \A c : Members(c)' = Members(c) /\ Modes(c)' = Modes(c) /\ Aggregate(c)' = Aggregate(c)
  BY <1>1, Zenon DEF Members, Modes, Aggregate
<1>8. Solo' = Solo
  BY <1>1, Zenon DEF Solo
<1>9. ASSUME Solo', NEW c \in Ids PROVE Recorded(c)' \/ \E q \in Procs : Owes(h'[q], c)
  BY <1>1, <1>2, <1>4, <1>7, <1>8, <1>9, Zenon DEF CryptoInv, Recorded
<1>10. ASSUME Solo', NEW q \in Procs, NEW c \in Ids, h'[q].pc = "store", Head(h'[q].todo) = c
       PROVE  h'[q].mode = Aggregate(c)'
  <2>1. CASE q = p
    BY <1>2, <1>3, <1>7, <1>10, <2>1, Zenon
  <2>2. CASE q # p
    <3>1. h[q] = Idle
      BY <1>5, <1>8, <1>10, <2>2, Alone, Zenon
    <3>. QED  BY <1>2, <1>10, <2>2, <3>1 DEF Idle
  <2>. QED  BY <2>1, <2>2, Zenon
<1>11. crypto' = [c \in Ids |-> crypto'[c]]
  BY <1>1, Zenon DEF CryptoInv
<1>. QED  BY <1>6, <1>9, <1>10, <1>11, Zenon DEF CryptoInv

LEMMA TailKeeps ==
  ASSUME NEW S, NEW q \in Seq(S), q # <<>>, NEW i \in 1..Len(q), q[i] # Head(q)
  PROVE  i # 1 /\ i - 1 \in 1..Len(Tail(q)) /\ Tail(q)[i - 1] = q[i] /\ Tail(q) # <<>>
<1>1. Head(q) = q[1] /\ Len(Tail(q)) = Len(q) - 1 /\ Len(q) \in Nat
  OBVIOUS
<1>2. i # 1 /\ i - 1 \in 1..Len(Tail(q))
  BY <1>1
<1>3. Tail(q)[i - 1] = q[(i - 1) + 1]
  BY <1>2
<1>4. (i - 1) + 1 = i /\ Len(Tail(q)) # 0 /\ Len(<<>>) = 0
  BY <1>1, <1>2
<1>. QED  BY <1>2, <1>3, <1>4, Zenon

LEMMA CryptoStores ==
  ASSUME CryptoInv, VoiceInv, NEW p \in Procs, CryptoStore(p)
  PROVE  CryptoInv'
<1> DEFINE r == h[p]
           first == Head(r.todo)
           s == IF Tail(r.todo) = <<>> THEN r.next ELSE Recompute(Tail(r.todo), r.next)
<1>1. /\ r.pc = "store" /\ h' = [h EXCEPT ![p] = s] /\ UNCHANGED <<user, work>>
      /\ crypto' = [crypto EXCEPT ![first] = r.mode]
  BY Zenon DEF CryptoStore, At, Goto
<1>2. r.todo \in Seq(Ids) /\ r.todo # <<>> /\ Resumes(p, r.next)
  BY <1>1, Zenon DEF VoiceInv, Handler
<1>3. h'[p] = s /\ \A q \in Procs \ {p} : h'[q] = h[q]
  BY <1>1, Zenon DEF VoiceInv
<1>4. first \in Ids /\ r.next.pc \in {"idle", "maySpeak"}
  BY <1>2 DEF Resumes, Idle
<1>5. s.pc # "store"
  BY <1>4, Zenon DEF Recompute
<1>6. ASSUME NEW c, c # first, Owes(r, c) PROVE Owes(s, c)
  <2>1. PICK i \in 1..Len(r.todo) : r.todo[i] = c
    BY <1>1, <1>6, Zenon DEF Owes
  <2>2. i # 1 /\ i - 1 \in 1..Len(Tail(r.todo)) /\ Tail(r.todo)[i - 1] = c /\ Tail(r.todo) # <<>>
    <3>1. c # Head(r.todo)
      BY <1>6, Zenon
    <3> HIDE DEF r
    <3>. QED  BY <1>2, <2>1, <3>1, TailKeeps, Zenon
  <2>. QED  BY <2>2, Zenon DEF Owes, Recompute
<1>7. p \in work.actors
  BY <1>1 DEF CryptoInv, Idle
<1> HIDE DEF s
<1>8. \A q \in Procs : h'[q] # Idle => q \in work'.actors
  BY <1>1, <1>3, <1>7, Zenon DEF CryptoInv
<1>9. \A c : Members(c)' = Members(c) /\ Modes(c)' = Modes(c)
  BY <1>1, Zenon DEF Members, Modes
<1>10. Solo' = Solo
  BY <1>1, Zenon DEF Solo
<1>11. crypto' = [c \in Ids |-> crypto'[c]] /\ crypto'[first] = r.mode /\ \A c \in Ids \ {first} : crypto'[c] = crypto[c]
  BY <1>1, <1>4, Zenon DEF CryptoInv
<1>12. ASSUME Solo', NEW c \in Ids PROVE Recorded(c)' \/ \E q \in Procs : Owes(h'[q], c)
  <2>1. CASE c = first
    <3>1. r.mode = Aggregate(first)
      BY <1>1, <1>4, <1>10, <1>12, Zenon DEF CryptoInv
    <3>. QED  BY <1>9, <1>11, <2>1, <3>1, AggregateMixed, Zenon DEF Recorded
  <2>2. CASE c # first /\ Recorded(c)
    BY <1>9, <1>11, <2>2, Zenon DEF Recorded
  <2>3. CASE c # first /\ ~Recorded(c)
    <3>1. PICK q \in Procs : Owes(h[q], c)
      BY <1>10, <1>12, <2>3, Zenon DEF CryptoInv
    <3>2. CASE q = p
      BY <1>3, <1>6, <2>3, <3>1, <3>2, Zenon
    <3>3. CASE q # p
      BY <1>3, <3>1, <3>3, Zenon
    <3>. QED  BY <3>2, <3>3, Zenon
  <2>. QED  BY <2>1, <2>2, <2>3, Zenon
<1>13. ASSUME Solo', NEW q \in Procs, h'[q].pc = "store" PROVE FALSE
  <2>1. q # p
    BY <1>3, <1>5, <1>13, Zenon
  <2>2. h[q] = Idle
    BY <1>7, <1>10, <1>13, <2>1, Alone, Zenon
  <2>. QED  BY <1>3, <1>13, <2>1, <2>2 DEF Idle
<1>. QED  BY <1>8, <1>11, <1>12, <1>13, Zenon DEF CryptoInv

\* A step that moves nobody and leaves no debt behind.
LEMMA CryptoIdle ==
  ASSUME CryptoInv, VoiceInv, NEW p \in Procs, NEW s, Goto(p, s), p \in work.actors \/ h[p] # Idle,
         UNCHANGED <<crypto, work>>, s.pc # "store",
         h[p].pc \notin {"crypto", "store", "evict", "evicted", "remove"},
         \A u \in Users : user'[u].channel = user[u].channel
  PROVE  CryptoInv'
<1>1. \A c \in Ids : Owes(h[p], c) => Owes(s, c)
  BY Zenon DEF Owes
<1>2. \A c \in Ids : Members(c)' \subseteq Members(c)
  BY Zenon DEF Members
<1>. QED  BY <1>1, <1>2, CryptoQuiet, Zenon

LEMMA CryptoTree ==
  ASSUME CryptoInv, VoiceInv, NEW p \in Procs, TreeStep(p)
  PROVE  CryptoInv'
<1>0. Idle.pc = "idle"
  BY Zenon DEF Idle
<1>1. ASSUME NEW c \in Ids, NEW temp \in BOOLEAN, Create(p, c, temp) \/ Update(p, c, temp) PROVE CryptoInv'
  <2>1. h[p] = Idle /\ h' = h /\ UNCHANGED <<user, crypto, work>> /\ p \in work.actors
    BY <1>1, Zenon DEF Create, Update, Starts
  <2>2. Goto(p, Idle)
    BY <2>1, Zenon DEF Goto, VoiceInv
  <2>. QED  BY <1>0, <2>1, <2>2, CryptoIdle, Zenon
<1>2. ASSUME NEW c \in Ids, NEW add, NEW remove, LinkRead(p, c, add, remove) PROVE CryptoInv'
  <2> DEFINE s == [pc |-> "link", ch |-> c, want |-> (tree[c].links \cup add) \ remove]
  <2>1. h[p] = Idle /\ p \in work.actors /\ Goto(p, s) /\ UNCHANGED <<user, crypto, work>>
    BY <1>2, Zenon DEF LinkRead, Starts
  <2>2. s.pc = "link"
    OBVIOUS
  <2> HIDE DEF s
  <2>. QED  BY <1>0, <2>1, <2>2, CryptoIdle, Zenon
<1>3. ASSUME NEW c \in Ids, CleanPick(p, c) PROVE CryptoInv'
  <2> DEFINE s == [pc |-> "cleaning", ch |-> c]
  <2>1. /\ h[p].pc \in {"idle", "cleaning"} /\ (p \in work.actors \/ h[p] # Idle)
        /\ Goto(p, s) /\ UNCHANGED <<user, crypto, work>>
    BY <1>0, <1>3, Zenon DEF CleanPick, Starts, At
  <2>2. s.pc = "cleaning"
    OBVIOUS
  <2> HIDE DEF s
  <2>. QED  BY <2>1, <2>2, CryptoIdle, Zenon
<1>4. ASSUME NEW c \in Ids, RemoveRead(p, c) PROVE CryptoInv'
  <2> DEFINE s == [pc |-> "evict", ch |-> c, parent |-> tree[c].parent, todo |-> Members(c)]
  <2>1. h[p] = Idle /\ p \in work.actors /\ Goto(p, s) /\ UNCHANGED <<user, crypto, work>>
    BY <1>4, Zenon DEF RemoveRead, Starts
  <2>2. s.pc = "evict"
    OBVIOUS
  <2> HIDE DEF s
  <2>. QED  BY <1>0, <2>1, <2>2, CryptoIdle, Zenon
<1>5. CASE LinkWrite(p) \/ CleanDone(p)
  <2>1. h[p].pc \in {"link", "cleaning"} /\ Goto(p, Idle) /\ UNCHANGED <<user, crypto, work>>
    BY <1>5, Zenon DEF LinkWrite, CleanDone, At
  <2>. QED  BY <1>0, <2>1, CryptoIdle, Zenon
<1>6. CASE CleanRemove(p)
  <2> DEFINE s == [pc |-> "cleaning", ch |-> None]
  <2>1. h[p].pc = "cleaning" /\ Goto(p, s) /\ UNCHANGED <<user, crypto, work>>
    BY <1>6, Zenon DEF CleanRemove, At
  <2>2. s.pc = "cleaning"
    OBVIOUS
  <2> HIDE DEF s
  <2>. QED  BY <1>0, <2>1, <2>2, CryptoIdle, Zenon
<1>7. ASSUME NEW u \in Users, Evict(p, u) PROVE CryptoInv'
  <2> DEFINE d == h[p].parent
             s == [pc |-> "evicted", ch |-> h[p].ch, parent |-> d, who |-> u,
                   todo |-> h[p].todo \ {u}, may |-> <<u, d>> \in speak]
  <2>1. /\ h[p].pc = "evict" /\ Goto(p, s) /\ UNCHANGED <<crypto, work>>
        /\ user' = [user EXCEPT ![u].channel = d]
    BY <1>7, Zenon DEF Evict, At
  <2>2. s.pc = "evicted" /\ s.parent = d
    OBVIOUS
  <2>3. \A c \in Ids : Owes(h[p], c) => Owes(s, c)
    BY <2>1, <2>2, Zenon DEF Owes
  <2>4. \A c \in Ids : Members(c)' \subseteq Members(c) \/ Owes(s, c)
    <3>1. \A v \in Users : user'[v].channel = IF v = u THEN d ELSE user[v].channel
      BY <2>1, Zenon DEF VoiceInv, Person
    <3>2. \A c \in Ids : c # d => Members(c)' \subseteq Members(c)
      BY <3>1, Zenon DEF Members
    <3>. QED  BY <2>2, <3>2, Zenon DEF Owes
  <2> HIDE DEF s
  <2>. QED  BY <1>0, <2>1, <2>2, <2>3, <2>4, CryptoQuiet, Zenon
<1>8. CASE EvictApply(p)
  <2> DEFINE t == h[p].who
             s == [pc |-> "evict", ch |-> h[p].ch, parent |-> h[p].parent, todo |-> h[p].todo]
  <2>1. /\ h[p].pc = "evicted" /\ Goto(p, s) /\ UNCHANGED <<crypto, work>>
        /\ user' = [user EXCEPT ![t] = EnterEffects(user[t], h[p].may)]
    BY <1>8, Zenon DEF EvictApply, At
  <2>2. s.pc = "evict" /\ s.parent = h[p].parent
    OBVIOUS
  <2>3. \A c \in Ids : Owes(h[p], c) => Owes(s, c)
    BY <2>1, <2>2, Zenon DEF Owes
  <2>4. t \in Users /\ h[p].may \in BOOLEAN
    BY <2>1, Zenon DEF VoiceInv, Handler
  <2>5. EnterEffects(user[t], h[p].may).channel = user[t].channel
    BY <2>4, Zenon DEF EnterEffects, VoiceInv, Person
  <2>6. \A v \in Users : user'[v].channel = user[v].channel
    BY <2>1, <2>4, <2>5, Zenon DEF VoiceInv
  <2>7. \A c \in Ids : Members(c)' \subseteq Members(c)
    BY <2>6, Zenon DEF Members
  <2> HIDE DEF s
  <2>. QED  BY <1>0, <2>1, <2>2, <2>3, <2>7, CryptoQuiet, Zenon
<1>9. CASE RemoveListeners(p)
  <2> DEFINE s == [pc |-> "remove", ch |-> h[p].ch, parent |-> h[p].parent]
  <2>1. h[p].pc = "evict" /\ Goto(p, s) /\ UNCHANGED <<user, crypto, work>>
    BY <1>9, Zenon DEF RemoveListeners, At
  <2>2. s.pc = "remove" /\ s.parent = h[p].parent
    OBVIOUS
  <2>3. \A c \in Ids : (Owes(h[p], c) => Owes(s, c)) /\ Members(c)' \subseteq Members(c)
    BY <2>1, <2>2, Zenon DEF Owes, Members
  <2> HIDE DEF s
  <2>. QED  BY <1>0, <2>1, <2>2, <2>3, CryptoQuiet, Zenon
<1>10. CASE RemoveNode(p)
  <2> DEFINE todo == <<h[p].parent>>
             s == Recompute(todo, Idle)
  <2>1. h[p].pc = "remove" /\ Goto(p, s) /\ UNCHANGED <<user, crypto, work>>
    BY <1>10, Zenon DEF RemoveNode, At
  <2>2. 1 \in 1 .. Len(todo) /\ todo[1] = h[p].parent
    OBVIOUS
  <2> HIDE DEF todo
  <2>3. s.pc = "crypto" /\ s.todo = todo
    BY Zenon DEF Recompute
  <2> HIDE DEF s
  <2>4. \A c \in Ids : (Owes(h[p], c) => Owes(s, c)) /\ Members(c)' \subseteq Members(c)
    <3>1. Owes(s, h[p].parent)
      BY <2>2, <2>3, Zenon DEF Owes
    <3>2. \A c : Owes(h[p], c) => c = h[p].parent
      BY <2>1, Zenon DEF Owes
    <3>. QED  BY <2>1, <3>1, <3>2, Zenon DEF Members
  <2>. QED  BY <1>0, <2>1, <2>3, <2>4, CryptoQuiet, Zenon
<1>. QED  BY <1>1, <1>2, <1>3, <1>4, <1>5, <1>6, <1>7, <1>8, <1>9, <1>10, Zenon DEF TreeStep

LEMMA CryptoState ==
  ASSUME CryptoInv, VoiceInv, NEW p \in Procs, StateStep(p)
  PROVE  CryptoInv'
<1>0. Idle.pc = "idle" /\ Handler(p, h[p])
  BY Zenon DEF Idle, VoiceInv
<1>1. ASSUME NEW t \in Users, NEW us \in work.messages, UserState(p, t, us) PROVE CryptoInv'
  <2> DEFINE s == [pc |-> IF Has(us, "channel") THEN "move" ELSE "apply",
                   us |-> us, who |-> t, old |-> user[t].channel, may |-> TRUE]
  <2>1. h[p] = Idle /\ p \in work.actors /\ Goto(p, s) /\ UNCHANGED <<user, crypto, work>>
    BY <1>1, Zenon DEF UserState, Starts
  <2>2. s.pc # "store"
    BY Zenon
  <2> HIDE DEF s
  <2>. QED  BY <1>0, <2>1, <2>2, CryptoIdle, Zenon
<1>2. CASE MoveUser(p)
  <2> DEFINE r == h[p]
             d == r.us.channel
             todo == <<r.old, d>>
             s == Recompute(todo, [r EXCEPT !.pc = "maySpeak"])
  <2>1. /\ r.pc = "move" /\ Goto(p, s) /\ UNCHANGED <<crypto, work>>
        /\ user' = [user EXCEPT ![r.who].channel = d]
    BY <1>2, Zenon DEF MoveUser, At, MoveTouches
  <2>2. Len(todo) = 2 /\ todo[2] = d
    OBVIOUS
  <2> HIDE DEF todo
  <2>3. s.pc = "crypto" /\ s.todo = todo
    BY Zenon DEF Recompute
  <2>4. r.who \in Users
    BY <1>0, <2>1, Zenon DEF Handler, Request
  <2>5. \A c \in Ids : Members(c)' \subseteq Members(c) \/ Owes(s, c)
    <3>1. \A v \in Users : user'[v].channel = IF v = r.who THEN d ELSE user[v].channel
      BY <2>1, <2>4, Zenon DEF VoiceInv, Person
    <3>2. \A c \in Ids : c # d => Members(c)' \subseteq Members(c)
      BY <3>1, Zenon DEF Members
    <3>. QED  BY <2>2, <2>3, <3>2 DEF Owes
  <2>6. \A c \in Ids : Owes(h[p], c) => Owes(s, c)
    BY <2>1, Zenon DEF Owes
  <2> HIDE DEF s
  <2>. QED  BY <1>0, <2>1, <2>3, <2>5, <2>6, CryptoQuiet, Zenon
<1>3. CASE MaySpeak(p)
  <2> DEFINE s == [h[p] EXCEPT !.pc = "apply", !.may = <<h[p].who, h[p].us.channel>> \in speak]
  <2>1. h[p].pc = "maySpeak" /\ Goto(p, s) /\ UNCHANGED <<user, crypto, work>>
    BY <1>3, Zenon DEF MaySpeak, At
  <2>2. s.pc = "apply"
    BY <1>0, <2>1, Zenon DEF Handler, Request
  <2> HIDE DEF s
  <2>. QED  BY <1>0, <2>1, <2>2, CryptoIdle, Zenon
<1>4. CASE Apply(p)
  <2> DEFINE s == [h[p] EXCEPT !.pc = "echo"]
             t == h[p].who
  <2>1. /\ h[p].pc = "apply" /\ Goto(p, s) /\ UNCHANGED <<crypto, work>>
        /\ user' = [user EXCEPT ![t] = Final(user[t], h[p].us, h[p].may)]
    BY <1>4, Zenon DEF Apply, At, Final
  <2>2. s.pc = "echo" /\ t \in Users /\ IsMessage(h[p].us) /\ h[p].may \in BOOLEAN
    BY <1>0, <2>1, Zenon DEF Handler, Request
  <2>3. Final(user[t], h[p].us, h[p].may).channel = user[t].channel
    BY <2>2, FinalPerson DEF VoiceInv
  <2>4. \A v \in Users : user'[v].channel = user[v].channel
    BY <2>1, <2>2, <2>3, Zenon DEF VoiceInv
  <2> HIDE DEF s
  <2>. QED  BY <1>0, <2>1, <2>2, <2>4, CryptoIdle, Zenon
<1>5. CASE Echo(p)
  <2>1. h[p].pc = "echo" /\ Goto(p, Idle) /\ UNCHANGED <<user, crypto, work>>
    BY <1>5, Zenon DEF Echo, At
  <2>. QED  BY <1>0, <2>1, CryptoIdle, Zenon
<1>. QED  BY <1>1, <1>2, <1>3, <1>4, <1>5, CryptoReads, CryptoStores, Zenon DEF StateStep

LEMMA CryptoRest ==
  ASSUME CryptoInv, VoiceInv, RestStep
  PROVE  CryptoInv'
<1>0. Idle.pc = "idle" /\ Rest \in Procs
  BY Zenon DEF Idle, Procs
<1>1. ASSUME h[Rest] = Idle, Rest \in work.actors, UNCHANGED <<h, crypto, work>>,
             \A u \in Users : user'[u].channel = user[u].channel
      PROVE  CryptoInv'
  <2>1. Goto(Rest, Idle)
    BY <1>0, <1>1, Zenon DEF Goto, VoiceInv
  <2>. QED  BY <1>0, <1>1, <2>1, CryptoIdle, Zenon
<1>2. ASSUME NEW c \in Ids, DeleteChannel(c) PROVE CryptoInv'
  BY <1>1, <1>2, Zenon DEF DeleteChannel, Starts
<1>3. ASSUME NEW granted, EditACL(granted) PROVE CryptoInv'
  <2> DEFINE s == [pc |-> "refresh", todo |-> [u \in Users |-> user[u].channel]]
  <2>1. h[Rest] = Idle /\ Rest \in work.actors /\ Goto(Rest, s) /\ UNCHANGED <<user, crypto, work>>
    BY <1>3, Zenon DEF EditACL, Starts
  <2>2. s.pc = "refresh"
    OBVIOUS
  <2> HIDE DEF s
  <2>. QED  BY <1>0, <2>1, <2>2, CryptoIdle, Zenon
<1>4. ASSUME NEW c \in Ids, NEW want, LinkRest(c, want) PROVE CryptoInv'
  BY <1>1, <1>4, Zenon DEF LinkRest, Starts
<1>5. ASSUME NEW u \in Users, RefreshRead(u) PROVE CryptoInv'
  <2> DEFINE s == [pc |-> "suppress", todo |-> h[Rest].todo, who |-> u, may |-> <<u, h[Rest].todo[u]>> \in speak]
  <2>1. h[Rest].pc = "refresh" /\ Goto(Rest, s) /\ UNCHANGED <<user, crypto, work>>
    BY <1>5, Zenon DEF RefreshRead, At
  <2>2. s.pc = "suppress"
    OBVIOUS
  <2> HIDE DEF s
  <2>. QED  BY <1>0, <2>1, <2>2, CryptoIdle, Zenon
<1>6. ASSUME NEW u \in Users, NEW mute \in BOOLEAN, MuteSession(u, mute) PROVE CryptoInv'
  <2> DEFINE us == [mute |-> mute]
             d == Cascade(us, "deaf", "mute")
  <2>1. /\ h[Rest] = Idle /\ Rest \in work.actors /\ UNCHANGED <<h, crypto, work>>
        /\ user' = [user EXCEPT ![u] = Overlay(user[u], d)]
    BY <1>6, Zenon DEF MuteSession, Starts
  <2>2. IsMessage(us) /\ DOMAIN us = {"mute"}
    BY DEF IsMessage, Flags
  <2> HIDE DEF us
  <2>3. IsMessage(d) /\ ~Has(d, "channel")
    BY <2>2, CascadePairs DEF Flags, Has
  <2> HIDE DEF d
  <2>4. Overlay(user[u], d).channel = user[u].channel
    BY <2>3, OverlayPerson DEF VoiceInv
  <2>5. \A v \in Users : user'[v].channel = user[v].channel
    BY <2>1, <2>4, Zenon DEF VoiceInv
  <2>. QED  BY <1>1, <2>1, <2>5, Zenon
<1>7. CASE RefreshApply
  <2> DEFINE t == h[Rest].who
             left == Without(h[Rest].todo, t)
             s == IF DOMAIN left = {} THEN Idle ELSE [pc |-> "refresh", todo |-> left]
  <2>1. /\ h[Rest].pc = "suppress" /\ Goto(Rest, s) /\ UNCHANGED <<crypto, work>>
        /\ user' = [user EXCEPT ![t].suppress = ~h[Rest].may]
    BY <1>7, Zenon DEF RefreshApply, At
  <2>2. s.pc \in {"idle", "refresh"}
    BY <1>0, Zenon
  <2>3. \A v \in Users : user'[v].channel = user[v].channel
    BY <2>1 DEF VoiceInv, Person
  <2> HIDE DEF s
  <2>. QED  BY <1>0, <2>1, <2>2, <2>3, CryptoIdle, Zenon
<1>. QED  BY <1>2, <1>3, <1>4, <1>5, <1>6, <1>7, Zenon DEF RestStep

LEMMA CryptoListen ==
  ASSUME CryptoInv, VoiceInv, ListenStep
  PROVE  CryptoInv'
<1>1. PICK u \in Users : ListenAdd(u) \/ \E c \in Ids : ListenCheck(u, c) \/ ListenRemove(u, c)
  BY Zenon DEF ListenStep
<1>2. u \in Procs /\ Idle.pc = "idle"
  BY Zenon DEF Procs, Idle
<1>3. CASE ListenAdd(u)
  <2>1. h[u].pc = "listen" /\ Goto(u, Idle) /\ UNCHANGED <<user, crypto, work>>
    BY <1>3, Zenon DEF ListenAdd, At
  <2>. QED  BY <1>2, <2>1, CryptoIdle, Zenon
<1>4. ASSUME NEW c \in Ids, ListenCheck(u, c) PROVE CryptoInv'
  <2> DEFINE s == [pc |-> "listen", ch |-> c]
  <2>1. h[u] = Idle /\ u \in work.actors /\ Goto(u, s) /\ UNCHANGED <<user, crypto, work>>
    BY <1>4, Zenon DEF ListenCheck, Starts
  <2>2. s.pc = "listen"
    OBVIOUS
  <2> HIDE DEF s
  <2>. QED  BY <1>2, <2>1, <2>2, CryptoIdle, Zenon
<1>5. ASSUME NEW c \in Ids, ListenRemove(u, c) PROVE CryptoInv'
  <2>1. h[u] = Idle /\ u \in work.actors /\ h' = h /\ UNCHANGED <<user, crypto, work>>
    BY <1>5, Zenon DEF ListenRemove, Starts
  <2>2. Goto(u, Idle)
    BY <1>2, <2>1, Zenon DEF Goto, VoiceInv
  <2>. QED  BY <1>2, <2>1, <2>2, CryptoIdle, Zenon
<1>. QED  BY <1>1, <1>3, <1>4, <1>5, Zenon

LEMMA CryptoInitial == Init => CryptoInv
<1>. SUFFICES ASSUME Init PROVE CryptoInv
  OBVIOUS
<1>1. crypto = [c \in Ids |-> Aggregate(c)] /\ h = [p \in Procs |-> Idle]
  BY Zenon DEF Init
<1>2. \A p \in Procs : h[p] = Idle /\ h[p].pc = "idle"
  BY <1>1, Zenon DEF Idle
<1>3. \A c \in Ids : Recorded(c)
  BY <1>1, AggregateMixed, Zenon DEF Recorded
<1>4. crypto = [c \in Ids |-> crypto[c]]
  BY <1>1, Zenon
<1>. QED  BY <1>2, <1>3, <1>4, Zenon DEF CryptoInv

LEMMA CryptoStays == CryptoInv /\ VoiceInv /\ [Next]_vars => CryptoInv'
<1>. SUFFICES ASSUME CryptoInv, VoiceInv, [Next]_vars PROVE CryptoInv'
  OBVIOUS
<1>1. CASE UNCHANGED vars
  <2>1. UNCHANGED <<user, crypto, h, work>>
    BY <1>1, Zenon DEF vars
  <2>2. \A c : Modes(c)' = Modes(c) /\ Aggregate(c)' = Aggregate(c)
    BY <2>1, Zenon DEF Modes, Members, Aggregate
  <2>. QED  BY <2>1, <2>2, Zenon DEF CryptoInv, Solo, Recorded
<1>. QED  BY <1>1, CryptoTree, CryptoState, CryptoRest, CryptoListen, Zenon DEF Next

(***************************************************************************)
(* With one actor, when its request is done every channel whose users have *)
(* different crypto modes is recorded as mixed, for any number of users    *)
(* and channels (UpdateChannelCrypto after moves and removals).            *)
(***************************************************************************)
THEOREM MixedStaysRecorded == Spec => []MixedIsRecorded
<1>1. CryptoInv /\ TreeInv => MixedIsRecorded
  <2>. SUFFICES ASSUME CryptoInv, TreeInv, Solo, \A p \in Procs : h[p] = Idle,
                       NEW c \in Live, Aggregate(c) = {"mixed"}
                PROVE  crypto[c] = {"mixed"}
    BY Zenon DEF MixedIsRecorded, Solo
  <2>1. c \in Ids /\ \A p \in Procs : ~Owes(h[p], c)
    BY DEF TreeInv, Owes, Idle
  <2>. QED  BY <2>1, AggregateMixed, Zenon DEF CryptoInv, Recorded
<1>. QED  BY <1>1, CryptoInitial, CryptoStays, VoiceAlways, TreeAlways, PTL DEF Spec
=============================================================================
