CONSTANTS
  t1 = t1  t2 = t2
  GroupBits = 3
  Narrow = 6
  Wide = 10
  Threads = {t1, t2}
  Loads <- MCLoads
  QueueCap = 1
  MaxPayload = 90
  Segment = 5
  IvSize = 6
  LateWindow = 2
  NonceSpace = 216
  BitsPerByte = 2
  BitmapBytes = 2
  Starts = {3, 11, 34}
  MaxSent = 8
  Callers = {1}
  Worlds <- MCWorlds
  TreeChoices <- MCTrees
  PutChoices <- MCPut
  Profiles <- MCProfiles
  ApiIDs = {7}
  Sessions = {1}
  Targets = {2}
  AccountIDs = {1, 7}
  Group = "t"
  AclChanges = 2
  c1 = c1  c2 = c2  c3 = c3  s1 = s1  s2 = s2
  Conns = {c1, c2, c3}
  Lite = {c2}
  Sids = {s1, s2}
  Addrs = {a1}
  Nobody = Nobody
  Requests <- MCRequests
  Seats <- MCSeats
  Workers = {w1}
  MaxPackets = 2
  MaxDepartures = 1
  Names = {n1, n2, n3}
  Grants = {g1, g2}
  MaxUsers = 2
  MaxGen = 5
  MaxRev = 2
SPECIFICATION AllSpec
INVARIANTS
  MessagesArrive
  FlushedBeforeClose
  LegacyOpensOnce
  AnswersFresh
  TemporaryMembersLive
  EvaluateFollowsRule
  SpeakerHasKey
  WhisperReachesNamed
  NameIndex
  PoolPartition
  AllocSucceeds
  GenerationsDiffer
PROPERTIES
  RevisionTracksGrant
CHECK_DEADLOCK FALSE
