CONSTANTS
  SIDs = {s1, s2}
  NoSID = NoSID
  MaxGen = 2
  MaxEnds = 1
  Causes = {"kick", "ban", "early", "leave", "fail"}
SPECIFICATION FairSpec
CHECK_DEADLOCK FALSE
PROPERTIES
  DisconnectEndsSession
  AuthenticationEnds
