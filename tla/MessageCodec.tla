---------------------------- MODULE MessageCodec ----------------------------
(***************************************************************************)
(* The control messages on the wire: the hand-written protobuf primitives  *)
(* (pkg/mumble/protocol/wire), the Marshal and Unmarshal methods of every  *)
(* message (pkg/mumble/protocol/messages) and the packet header (framing). *)
(*                                                                         *)
(* All Marshal methods have one shape, and so have all Unmarshal methods:  *)
(* a message is therefore a table of its fields, and Marshal and Unmarshal *)
(* interpret the table.  A row is the field's number and name, the Go type *)
(* it is kept in and the condition under which Marshal writes it.          *)
(*                                                                         *)
(* The widths are parameters, so that TLC can work with short ones: a byte *)
(* has GroupBits + 1 bits (8 in the code), of which a varint uses          *)
(* GroupBits; uint32 and int32 have Narrow bits, uint64 has Wide.          *)
(***************************************************************************)
EXTENDS Integers, Sequences, FiniteSets, SequencesExt

CONSTANTS GroupBits, Narrow, Wide

ASSUME WidthAssumption ==
    /\ GroupBits \in Nat \ {0}
    /\ Narrow \in Nat \ {0} /\ Wide \in Nat /\ Narrow <= Wide

Continue  == 2 ^ GroupBits                       \* 0x80
MaxGroups == (Wide + GroupBits - 1) \div GroupBits  \* 10

Fail == [ok |-> FALSE]
After(b, n) == SubSeq(b, n + 1, Len(b))

(***************************************************************************)
(* wire.go                                                                 *)
(***************************************************************************)
RECURSIVE AppendVarint(_)
AppendVarint(v) ==
    IF v >= Continue THEN <<(v % Continue) + Continue>> \o AppendVarint(v \div Continue)
    ELSE <<v>>

\* Bits beyond the width are shifted out.
ReadVarint(b) ==
    LET ends == {i \in 1..Len(b) : i <= MaxGroups /\ b[i] < Continue}
        n    == Min(ends)
        sum[i \in 0..Len(b)] ==
            IF i = 0 THEN 0 ELSE sum[i - 1] + (b[i] % Continue) * Continue ^ (i - 1)
    IN  IF ends = {} THEN Fail ELSE [ok |-> TRUE, v |-> sum[n] % 2 ^ Wide, n |-> n]

AppendTag(num, wireType) == AppendVarint(num * 8 + wireType)
AppendBytes(num, data)   == AppendTag(num, 2) \o AppendVarint(Len(data)) \o data

ReadLengthDelimited(b) ==
    LET l == ReadVarint(b)
    IN  IF ~l.ok \/ (l.ok /\ Len(b) - l.n < l.v) THEN Fail
        ELSE [ok |-> TRUE, v |-> SubSeq(b, l.n + 1, l.n + l.v), n |-> l.n + l.v]

\* Fault: the bytes of a length-delimited field are left in the buffer.
SkipLengthOnly(b, wireType) ==
    IF wireType \in {0, 2} THEN ReadVarint(b)
    ELSE IF Len(b) < 4 THEN Fail ELSE [ok |-> TRUE, n |-> IF wireType = 1 THEN 8 ELSE 4]

SkipField(b, wireType) ==
    LET fixed(n) == IF Len(b) < n THEN Fail ELSE [ok |-> TRUE, n |-> n]
    IN  CASE wireType = 0 -> ReadVarint(b)
          [] wireType = 1 -> fixed(8)
          [] wireType = 2 -> ReadLengthDelimited(b)
          [] wireType = 5 -> fixed(4)
          [] OTHER        -> Fail

(***************************************************************************)
(* The messages.  A rule says when Marshal writes a field:                 *)
(*   always    whatever its value                                          *)
(*   nonzero   unless it has Go's zero value                               *)
(*   has       if its presence bit is set, or its value is not zero        *)
(*   given     if its presence bit is set                                  *)
(*   false     only when false                                             *)
(*   each      once per element, and eachFilled leaves out empty elements  *)
(* Unmarshal sets the presence bit of the `has' and `given' fields.        *)
(***************************************************************************)
Row(num, name, kind, rule) == [num |-> num, name |-> name, kind |-> kind, rule |-> rule]

Version == <<Row(1, "VersionV1", "u32", "nonzero"), Row(2, "Release", "bytes", "nonzero"),
    Row(3, "OS", "bytes", "nonzero"), Row(4, "OSVersion", "bytes", "nonzero"),
    Row(5, "VersionV2", "u64", "nonzero"), Row(6, "CryptoModes", "u32", "nonzero")>>

Authenticate == <<Row(1, "Username", "bytes", "nonzero"), Row(2, "Password", "bytes", "nonzero"),
    Row(3, "Tokens", "bytes", "each"), Row(4, "CeltVersions", "i32", "each"),
    Row(5, "Opus", "bool", "nonzero"), Row(6, "ClientType", "i32", "nonzero")>>

Ping == <<Row(1, "Timestamp", "u64", "nonzero"), Row(2, "Good", "u32", "nonzero"),
    Row(3, "Late", "u32", "nonzero"), Row(4, "Lost", "u32", "nonzero"),
    Row(5, "Resync", "u32", "nonzero"), Row(6, "UDPPackets", "u32", "nonzero"),
    Row(7, "TCPPackets", "u32", "nonzero"), Row(8, "UDPPingAvg", "f32", "nonzero"),
    Row(9, "UDPPingVar", "f32", "nonzero"), Row(10, "TCPPingAvg", "f32", "nonzero"),
    Row(11, "TCPPingVar", "f32", "nonzero")>>

Reject == <<Row(1, "Type", "u32", "nonzero"), Row(2, "Reason", "bytes", "nonzero")>>

ServerSync == <<Row(1, "Session", "u32", "nonzero"), Row(2, "MaxBandwidth", "u32", "nonzero"),
    Row(3, "WelcomeText", "bytes", "nonzero"), Row(4, "Permissions", "u64", "nonzero")>>

ChannelRemove == <<Row(1, "ChannelID", "u32", "always")>>

ChannelState == <<Row(1, "ChannelID", "u32", "always"), Row(2, "Parent", "u32", "given"),
    Row(3, "Name", "bytes", "nonzero"), Row(4, "Links", "u32", "each"),
    Row(5, "Description", "bytes", "nonzero"), Row(6, "LinksAdd", "u32", "each"),
    Row(7, "LinksRemove", "u32", "each"), Row(8, "Temporary", "bool", "nonzero"),
    Row(9, "Position", "i32", "nonzero"), Row(10, "DescriptionHash", "bytes", "nonzero"),
    Row(11, "MaxUsers", "u32", "nonzero"), Row(12, "IsEnterRestricted", "bool", "has"),
    Row(13, "CanEnter", "bool", "has")>>

UserRemove == <<Row(1, "Session", "u32", "always"), Row(2, "Actor", "u32", "nonzero"),
    Row(3, "Reason", "bytes", "nonzero"), Row(4, "Ban", "bool", "nonzero")>>

UserStateFlags == <<Row(1, "Session", "u32", "has"), Row(2, "Actor", "u32", "has"),
    Row(3, "Name", "bytes", "has"), Row(4, "UserID", "u32", "has"),
    Row(5, "ChannelID", "u32", "has"), Row(6, "Mute", "bool", "has"),
    Row(7, "Deaf", "bool", "has"), Row(8, "Suppress", "bool", "has"),
    Row(9, "SelfMute", "bool", "has"), Row(10, "SelfDeaf", "bool", "has")>>

UserStateContent == <<Row(11, "Texture", "bytes", "has"), Row(12, "PluginContext", "bytes", "has"),
    Row(13, "PluginIdentity", "bytes", "has"), Row(14, "Comment", "bytes", "has"),
    Row(15, "Hash", "bytes", "has"), Row(16, "CommentHash", "bytes", "has"),
    Row(17, "TextureHash", "bytes", "has"), Row(18, "PrioritySpeaker", "bool", "has"),
    Row(19, "Recording", "bool", "has")>>

UserStateLists == <<Row(20, "TemporaryAccessTokens", "bytes", "each"),
    Row(21, "ListeningChannelAdd", "u32", "each"), Row(22, "ListeningChannelRemove", "u32", "each"),
    Row(23, "ListeningVolumeAdjustment", "VolumeAdjustment", "each")>>

UserState == UserStateFlags \o UserStateContent \o UserStateLists

VolumeAdjustment == <<Row(1, "ListeningChannel", "u32", "always"),
    Row(2, "VolumeAdjustment", "f32", "nonzero")>>

BanList == <<Row(1, "Bans", "BanEntry", "each"), Row(2, "Query", "bool", "nonzero")>>

BanEntry == <<Row(1, "Address", "bytes", "always"), Row(2, "Mask", "u32", "always"),
    Row(3, "Name", "bytes", "nonzero"), Row(4, "Hash", "bytes", "nonzero"),
    Row(5, "Reason", "bytes", "nonzero"), Row(6, "Start", "bytes", "nonzero"),
    Row(7, "Duration", "u32", "nonzero")>>

TextMessage == <<Row(1, "Actor", "u32", "nonzero"), Row(2, "Session", "u32", "each"),
    Row(3, "ChannelID", "u32", "each"), Row(4, "TreeID", "u32", "each"),
    Row(5, "Message", "bytes", "always")>>

PermissionDenied == <<Row(1, "Permission", "u32", "nonzero"), Row(2, "ChannelID", "u32", "always"),
    Row(3, "Session", "u32", "nonzero"), Row(4, "Reason", "bytes", "nonzero"),
    Row(5, "Type", "u32", "nonzero"), Row(6, "Name", "bytes", "nonzero")>>

ACL == <<Row(1, "ChannelID", "u32", "always"), Row(2, "InheritACLs", "bool", "false"),
    Row(5, "Query", "bool", "nonzero")>>

QueryUsers == <<Row(1, "IDs", "u32", "each"), Row(2, "Names", "bytes", "each")>>

\* A nil Key and an empty one read back alike.
CryptSetup == <<Row(1, "Key", "bytes", "nonzero"), Row(2, "ClientNonce", "bytes", "nonzero"),
    Row(3, "ServerNonce", "bytes", "nonzero")>>

ContextActionModify == <<Row(1, "Action", "bytes", "always"), Row(2, "Text", "bytes", "nonzero"),
    Row(3, "Context", "u32", "nonzero"), Row(4, "Operation", "u32", "nonzero")>>

ContextAction == <<Row(1, "Session", "u32", "nonzero"), Row(2, "ChannelID", "u32", "always"),
    Row(3, "Action", "bytes", "always")>>

UserList == <<>>

VoiceTarget == <<Row(1, "ID", "u32", "nonzero"), Row(2, "Targets", "VoiceTargetTarget", "eachFilled")>>

VoiceTargetTarget == <<Row(1, "Session", "u32", "each"), Row(2, "ChannelID", "u32", "has"),
    Row(3, "Group", "bytes", "nonzero"), Row(4, "Links", "bool", "nonzero"),
    Row(5, "Children", "bool", "nonzero")>>

PermissionQuery == <<Row(1, "ChannelID", "u32", "always"), Row(2, "Permissions", "u32", "nonzero"),
    Row(3, "Flush", "bool", "nonzero")>>

CodecVersion == <<Row(1, "Alpha", "i32", "always"), Row(2, "Beta", "i32", "always"),
    Row(3, "PreferAlpha", "bool", "always"), Row(4, "Opus", "bool", "nonzero")>>

UserStats == <<Row(1, "Session", "u32", "nonzero")>>

RequestBlob == <<Row(1, "SessionTexture", "u32", "each"), Row(2, "SessionComment", "u32", "each"),
    Row(3, "ChannelDescription", "u32", "each")>>

ServerConfig == <<Row(1, "MaxBandwidth", "u32", "nonzero"), Row(2, "WelcomeText", "bytes", "nonzero"),
    Row(3, "AllowHTML", "bool", "nonzero"), Row(4, "MessageLength", "u32", "nonzero"),
    Row(5, "ImageMessageLength", "u32", "nonzero"), Row(6, "MaxUsers", "u32", "nonzero"),
    Row(7, "RecordingAllowed", "bool", "nonzero")>>

SuggestConfig == <<Row(1, "VersionV1", "u32", "nonzero"), Row(2, "Positional", "bool", "nonzero"),
    Row(3, "PushToTalk", "bool", "nonzero"), Row(4, "VersionV2", "u64", "nonzero")>>

PluginDataTransmission == <<Row(1, "SenderSession", "u32", "nonzero"),
    Row(2, "ReceiverSessions", "u32", "each"), Row(3, "Data", "bytes", "nonzero"),
    Row(4, "DataID", "bytes", "nonzero")>>

\* ReadMessage's switch: message type i is the (i + 1)-th table.  UDPTunnel
\* (type 1) is not a message; it has a raw payload.
Tables == <<Version, <<>>, Authenticate, Ping, Reject, ServerSync, ChannelRemove, ChannelState,
    UserRemove, UserState, BanList, TextMessage, PermissionDenied, ACL, QueryUsers, CryptSetup,
    ContextActionModify, ContextAction, UserList, VoiceTarget, PermissionQuery, CodecVersion,
    UserStats, RequestBlob, ServerConfig, SuggestConfig, PluginDataTransmission>>

VersionType == 0
UDPTunnelType == 1
AuthenticateType == 2
MessageTypes == (0..(Len(Tables) - 1)) \ {UDPTunnelType}
TableOf(type) == Tables[type + 1]

Nested == [VolumeAdjustment |-> VolumeAdjustment, BanEntry |-> BanEntry,
           VoiceTargetTarget |-> VoiceTargetTarget]

\* The errors of these nested messages are not looked at: what was read until
\* then is kept.
Lenient == {"VolumeAdjustment", "BanEntry"}

Tracked(row)  == row.rule \in {"has", "given"}
Repeated(row) == row.rule \in {"each", "eachFilled"}

Zero(row) ==
    CASE Repeated(row) \/ row.kind = "bytes" -> <<>>
      [] row.kind = "bool" -> FALSE
      [] row.kind = "f32"  -> <<0, 0, 0, 0>>
      [] OTHER             -> 0

\* The zero value of a message; `has' holds its presence bits.
Blank(rows) ==
    [f \in {rows[i].name : i \in DOMAIN rows} \cup {"has"} |->
        IF f = "has" THEN {}
        ELSE LET i == CHOOSE j \in DOMAIN rows : rows[j].name = f IN Zero(rows[i])]

(***************************************************************************)
(* Marshal.                                                                *)
(***************************************************************************)
\* Fault: an explicit false or zero is left out.
WrittenNonzero(row, m) ==
    IF row.rule = "always" THEN TRUE
    ELSE IF row.rule = "false" THEN ~m[row.name]
    ELSE m[row.name] # Zero(row)

Written(row, m) ==
    CASE row.rule = "always"  -> TRUE
      [] row.rule = "nonzero" -> m[row.name] # Zero(row)
      [] row.rule = "has"     -> row.name \in m.has \/ m[row.name] # Zero(row)
      [] row.rule = "given"   -> row.name \in m.has
      [] row.rule = "false"   -> ~m[row.name]

RECURSIVE Marshal(_, _)

\* One field.  A negative int32 is extended to the wide width.
PutField(num, kind, v) ==
    CASE kind = "bytes" -> AppendBytes(num, v)
      [] kind = "f32"   -> AppendTag(num, 5) \o v
      [] kind = "bool"  -> AppendTag(num, 0) \o AppendVarint(IF v THEN 1 ELSE 0)
      [] kind \in {"u32", "u64", "i32"} -> AppendTag(num, 0) \o AppendVarint(v % 2 ^ Wide)
      [] OTHER -> AppendBytes(num, Marshal(Nested[kind], v))

PutRow(row, m) ==
    IF Repeated(row)
    THEN LET v      == m[row.name]
             skip(i) == row.rule = "eachFilled" /\ Marshal(Nested[row.kind], v[i]) = <<>>
         IN  FlattenSeq([i \in DOMAIN v |-> IF skip(i) THEN <<>> ELSE PutField(row.num, row.kind, v[i])])
    ELSE IF Written(row, m) THEN PutField(row.num, row.kind, m[row.name]) ELSE <<>>

Marshal(rows, m) == FlattenSeq([i \in DOMAIN rows |-> PutRow(rows[i], m)])

(***************************************************************************)
(* Unmarshal.  The wire type of a known field is not compared.             *)
(***************************************************************************)
RECURSIVE Unmarshal(_, _, _)

Signed(v) == IF v < 2 ^ (Narrow - 1) THEN v ELSE v - 2 ^ Narrow

\* The value of a varint in the Go type it is kept in.
Convert(kind, v) ==
    CASE kind = "u32"  -> v % 2 ^ Narrow
      [] kind = "i32"  -> Signed(v % 2 ^ Narrow)
      [] kind = "u64"  -> v
      [] kind = "bool" -> v # 0

\* A fixed32 cut short is not consumed, and nothing is stored (n = 0).
Get(kind, b) ==
    CASE kind = "bytes" -> ReadLengthDelimited(b)
      [] kind = "f32" -> IF Len(b) < 4 THEN [ok |-> TRUE, n |-> 0]
                         ELSE [ok |-> TRUE, v |-> SubSeq(b, 1, 4), n |-> 4]
      [] kind \in {"u32", "u64", "i32", "bool"} ->
            LET r == ReadVarint(b)
            IN  IF r.ok THEN [ok |-> TRUE, v |-> Convert(kind, r.v), n |-> r.n] ELSE Fail
      [] OTHER ->
            LET r == ReadLengthDelimited(b)
                m == Unmarshal(Nested[kind], r.v, Blank(Nested[kind]))
            IN  IF r.ok /\ (m.ok \/ kind \in Lenient) THEN [ok |-> TRUE, v |-> m.msg, n |-> r.n]
                ELSE Fail

Store(row, v, m) ==
    [m EXCEPT ![row.name] = IF Repeated(row) THEN Append(@, v) ELSE v,
              !.has = IF Tracked(row) THEN @ \cup {row.name} ELSE @]

Unmarshal(rows, b, m) ==
    LET tag   == ReadVarint(b)
        rest  == After(b, tag.n)
        known == {i \in DOMAIN rows : rows[i].num = tag.v \div 8}
        row   == rows[CHOOSE i \in known : TRUE]
        got   == IF known = {} THEN SkipField(rest, tag.v % 8) ELSE Get(row.kind, rest)
    IN  IF b = <<>> THEN [ok |-> TRUE, msg |-> m]
        ELSE IF ~tag.ok \/ (tag.ok /\ ~got.ok) THEN [ok |-> FALSE, msg |-> m]
        ELSE Unmarshal(rows, After(rest, got.n),
                       IF known = {} \/ got.n = 0 THEN m ELSE Store(row, got.v, m))

(***************************************************************************)
(* framing.go: two bytes of type and four of length, both big-endian.      *)
(***************************************************************************)
BigEndian(v, n) == [i \in 1..n |-> (v \div (2 * Continue) ^ (n - i)) % (2 * Continue)]

FromBigEndian(b) ==
    LET sum[i \in 0..Len(b)] == IF i = 0 THEN 0 ELSE sum[i - 1] * 2 * Continue + b[i]
    IN  sum[Len(b)]

HeaderSize == 6

WritePacket(type, payload) == BigEndian(type, 2) \o BigEndian(Len(payload), 4) \o payload

PacketType(b)   == FromBigEndian(SubSeq(b, 1, 2))
PacketLength(b) == FromBigEndian(SubSeq(b, 3, 6))
=============================================================================
