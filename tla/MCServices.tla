----------------------------- MODULE MCServices -----------------------------
(***************************************************************************)
(* Five components that share no state with each other, each for TLC:      *)
(* Connection with MessageCodec, CryptState, AccessControl, VoicePath and  *)
(* UserManager.  A behaviour is one component's, the others keep their     *)
(* first state, so that the state spaces add up.                           *)
(***************************************************************************)
EXTENDS Connection, CryptState, AccessControl, VoicePath, UserManager, TLC

CONSTANTS t1, t2, c1, c2, c3, s1, s2, AclChanges

(***************************************************************************)
(* Connection.                                                             *)
(***************************************************************************)
\* Values at the ends of their ranges.
ValuesOf(row) ==
    LET one == CASE row.kind = "u32"   -> {1, 2 ^ Narrow - 1}
                 [] row.kind = "u64"   -> {2 ^ Narrow, 2 ^ Wide - 1}
                 [] row.kind = "i32"   -> {-1, 2 ^ (Narrow - 1) - 1, -(2 ^ (Narrow - 1))}
                 [] row.kind = "bool"  -> {TRUE}
                 [] row.kind = "bytes" -> {<<0>>, <<9, 15, 8>>}
                 [] row.kind = "f32"   -> {<<0, 8, 1, 15>>}
                 [] row.kind = "VolumeAdjustment" ->
                        {[Blank(VolumeAdjustment) EXCEPT !.ListeningChannel = 9]}
                 [] row.kind = "BanEntry" -> {[Blank(BanEntry) EXCEPT !.Address = <<1, 2>>, !.Duration = 63]}
                 [] row.kind = "VoiceTargetTarget" ->
                        {Blank(VoiceTargetTarget),
                         [Blank(VoiceTargetTarget) EXCEPT !.Session = <<7, 0>>],
                         [Blank(VoiceTargetTarget) EXCEPT !.has = {"ChannelID"}]}
    IN  IF Repeated(row) THEN {<<v, w>> : v \in one, w \in one} ELSE one

\* Nothing set, one field set, one field present at zero, everything set.
MessagesOf(type) ==
    LET rows == TableOf(type)
        idx  == DOMAIN rows
        full == [f \in DOMAIN Blank(rows) |->
                    IF f = "has" THEN {}
                    ELSE LET row == rows[CHOOSE i \in idx : rows[i].name = f] IN CHOOSE v \in ValuesOf(row) : TRUE]
    IN  {Blank(rows), full}
        \cup UNION {{[Blank(rows) EXCEPT ![rows[i].name] = v] : v \in ValuesOf(rows[i])} : i \in idx}
        \cup {[Blank(rows) EXCEPT !.has = {rows[i].name}] : i \in {j \in idx : Tracked(rows[j])}}

Plain(type, m) == [type |-> type, msg |-> m, after |-> 0, unknown |-> <<>>]

AllMessages == UNION {{Plain(t, m) : m \in MessagesOf(t)} : t \in MessageTypes}

\* Field 40, which no message has, in each of the four wire types.
Unknown == {AppendTag(40, 0) \o AppendVarint(2 ^ Wide - 1), AppendTag(40, 1) \o <<8, 1, 8, 1, 8, 1, 8, 1>>,
            AppendBytes(40, <<8, 5>>), AppendTag(40, 5) \o <<8, 1, 8, 1>>}

NewerMessages ==
    UNION {{[type |-> t, msg |-> m, after |-> k, unknown |-> u] :
                m \in MessagesOf(t), k \in {0, 2, Len(TableOf(t))}, u \in Unknown} : t \in {3, 11, 19}}

Small == Plain(6, [Blank(ChannelRemove) EXCEPT !.ChannelID = 1])

MCLoads ==
    {[send |-> (t1 :> {m} @@ t2 :> {}), flush |-> FALSE, active |-> TRUE] : m \in AllMessages \cup NewerMessages}
    \cup {[send |-> (t1 :> {Small} @@ t2 :> {Small}), flush |-> TRUE, active |-> TRUE],
          [send |-> (t1 :> {Small} @@ t2 :> {Plain(0, Blank(Version))}), flush |-> FALSE, active |-> FALSE]}

(***************************************************************************)
(* AccessControl: channel 2 below 1 below the root, a user in 1 who is in  *)
(* the root's admin group, an API administrator and the superuser.         *)
(***************************************************************************)
Sel(kind, name, invert, here) ==
    [kind |-> kind, name |-> name, invert |-> invert, here |-> here, min |-> 0, lo |-> 1, hi |-> 9]
AclRow(who, here, subs, grant, deny) ==
    [who |-> who, here |-> here, subs |-> subs, grant |-> grant, deny |-> deny]
NoGroups == [n \in {} |-> {}]
Rows(rows) == [rows |-> rows, groups |-> NoGroups]
Node(p, i) == [parent |-> p, inherit |-> i]
TreeWith(p2, i1) == (0 :> Node(0, TRUE)) @@ (1 :> Node(0, i1)) @@ (2 :> Node(p2, TRUE))
ProfileOf(id, c) == [id |-> id, channel |-> c, super |-> FALSE, tokens |-> {}, cert |-> "c",
                     verified |-> FALSE, external |-> {}]
Member == [ProfileOf(1, 1) EXCEPT !.tokens = {"x"}, !.verified = TRUE, !.external = {"ext"}]
MCProfiles == {Member, ProfileOf(7, 0), [ProfileOf(0, 2) EXCEPT !.super = TRUE]}

Admins == [rows |-> <<AclRow(Sel("group", "admin", FALSE, FALSE), TRUE, TRUE, {"Write"}, {})>>,
           groups |-> ("admin" :> [inherit |-> TRUE, inheritable |-> TRUE, add |-> {1}, remove |-> {}])]
Restricted == Rows(<<AclRow(Sel("in", "", TRUE, FALSE), TRUE, TRUE, {}, {"Enter"}),
                     AclRow(Sel("group", Group, FALSE, FALSE), TRUE, FALSE, {"Move"}, {"Speak"})>>)
MCPut == {Restricted}
MCTrees == {TreeWith(0, TRUE), TreeWith(1, FALSE), (0 :> Node(0, TRUE)) @@ (1 :> Node(0, TRUE))}

Changing == [tree |-> TreeWith(1, TRUE), acls |-> [c \in 0..2 |-> IF c = 0 THEN Admins ELSE Rows(<<>>)],
             people |-> (1 :> Member), admins |-> {7}, callers |-> Callers, budget |-> AclChanges]

\* For the rule: two rows on different channels, inheritance on or off.
Effects == {<<{}, {"Traverse"}>>, <<{"Write"}, {}>>, <<{}, {"Write", "Speak"}>>,
            <<{"Kick", "Traverse"}, {"Enter"}>>, <<{"Move", "Enter"}, {"Kick"}>>}
Where == {<<TRUE, TRUE>>, <<TRUE, FALSE>>, <<FALSE, TRUE>>}
Everyone == Sel("all", "", FALSE, FALSE)
Anyone == {Sel("user", 1, FALSE, FALSE), Sel("auth", "", TRUE, FALSE), Sel("token", "x", FALSE, FALSE),
           Sel("cert", "c", FALSE, FALSE), Sel("strong", "", FALSE, FALSE), Sel("none", "", FALSE, FALSE),
           Sel("empty", "", TRUE, FALSE),
           Sel("in", "", FALSE, TRUE), Sel("out", "", FALSE, FALSE), Sel("sub", "", FALSE, FALSE),
           Sel("group", "ext", FALSE, FALSE), Sel("group", "admin", TRUE, FALSE)}
RowsFor(who) == {AclRow(s, w[1], w[2], e[1], e[2]) : s \in who, w \in Where, e \in Effects}
Fixed(t, c, first, second) ==
    [tree |-> t,
     acls |-> [d \in 0..2 |-> [Admins EXCEPT !.rows =
                  (IF d = 0 THEN <<first>> ELSE <<>>) \o (IF d = c THEN <<second>> ELSE <<>>)]],
     people |-> (1 :> Member), admins |-> {7}, callers |-> {}, budget |-> 0]
Ruled ==
    {Fixed(t, c, first, second) : t \in {TreeWith(1, TRUE), TreeWith(1, FALSE)}, c \in 0..2,
                                  first \in RowsFor({Everyone}), second \in RowsFor({Everyone})}
    \cup {Fixed(TreeWith(1, TRUE), 1, first, AclRow(Everyone, TRUE, TRUE, {"Speak"}, {"Traverse"})) :
             first \in {AclRow(s, TRUE, TRUE, {"Write"}, {"Speak"}) : s \in Anyone}}
Quiet == [tree |-> (0 :> Node(0, TRUE)), acls |-> (0 :> Rows(<<>>)), people |-> [n \in {} |-> 0],
          admins |-> {}, callers |-> {}, budget |-> 0]
MCWorlds == {Changing} \cup Ruled

(***************************************************************************)
(* VoicePath: two sessions, and a connection that may take over either ID. *)
(***************************************************************************)
MCSeats == (c1 :> s1) @@ (c2 :> s2)
MCRequests == {[ids |-> {s2}, channels |-> FALSE], [ids |-> {s2}, channels |-> TRUE]}

-----------------------------------------------------------------------------
VARIABLE part    \* the component that this behaviour is about

allVars == <<connVars, cryptVars, aclVars, voiceVars, vars, part>>

AllInit ==
    /\ part \in {"connection", "crypt", "acl", "voice", "users"}
    /\ load \in IF part = "connection" THEN Loads ELSE {CHOOSE l \in Loads : TRUE}
    /\ mode \in IF part = "crypt" THEN {"lite", "legacy", "secure"} ELSE {"lite"}
    /\ start \in IF part = "crypt" THEN Starts ELSE {CHOOSE n \in Starts : TRUE}
    /\ ConnInit /\ CryptInit
    /\ IF part = "acl" THEN AclInit ELSE AclStart(Quiet)
    /\ VoiceInit /\ Init

AllNext ==
    \/ part = "connection" /\ ConnNext /\ UNCHANGED <<cryptVars, aclVars, voiceVars, vars, part>>
    \/ part = "crypt" /\ CryptNext /\ UNCHANGED <<connVars, aclVars, voiceVars, vars, part>>
    \/ part = "acl" /\ AclNext /\ UNCHANGED <<connVars, cryptVars, voiceVars, vars, part>>
    \/ part = "voice" /\ VoiceNext /\ UNCHANGED <<connVars, cryptVars, aclVars, vars, part>>
    \/ part = "users" /\ Next /\ UNCHANGED <<connVars, cryptVars, aclVars, voiceVars, part>>

AllSpec == AllInit /\ [][AllNext]_allVars
=============================================================================
