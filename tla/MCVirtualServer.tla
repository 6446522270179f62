-------------------------- MODULE MCVirtualServer --------------------------
EXTENDS VirtualServer, TLC

CONSTANTS u1, u2

Row(parent, links) == [parent |-> parent, temp |-> FALSE, links |-> links]

\* A new database, whose root row got identifier 1; and one an older version
\* wrote, with a link stored at one end only.
MCSavedRows == {(1 :> Row(None, {})),
                (0 :> Row(None, {1})) @@ (1 :> Row(0, {})) @@ (2 :> Row(1, {}))}

MCMode == (u1 :> "secure") @@ (u2 :> "legacy")

Moves == {[channel |-> 0], [channel |-> 1]}

Voice == {[selfDeaf |-> TRUE], [selfDeaf |-> FALSE], [selfMute |-> FALSE],
          [deaf |-> TRUE], [mute |-> FALSE, priority |-> TRUE]}

Work(kinds, actors, messages) ==
    [kinds |-> kinds, actors |-> actors, messages |-> messages]

\* Handlers that meet in the tree, in the voice flags, in the suppress flag, in
\* where users are and in who listens; and one client's, one after the other.
MCWorkloads == {
    Work({"create", "update", "link", "delete"}, {u1, Rest}, {}),
    Work({"state", "mute"}, {u1, Rest}, Voice),
    Work({"state", "acl"}, {u1, Rest}, {[channel |-> 1], [suppress |-> FALSE]}),
    Work({"state", "remove"}, {u1, u2}, Moves),
    Work({"remove", "listen"}, {u1, u2}, {}),
    Work({"create", "update", "clean", "remove", "state"}, {u1},
         Moves \cup {[priority |-> TRUE]})}

\* A channel is removed over REST while somebody is in it.
MCOrphan == {Work({"state", "delete"}, {u1, Rest}, Moves)}

\* A move into a channel that is linked meets an ACL edit.
MCDenied == {Work({"state", "acl"}, {u1, Rest}, {[channel |-> 1]})}
=============================================================================
