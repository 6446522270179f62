CONSTANTS
  SIDs = {s1, s2}
  NoSID = NoSID
  MaxGen = 3
  MaxEnds = 1
  Causes = {"leave"}
SPECIFICATION Spec
SYMMETRY Symmetry
CHECK_DEADLOCK FALSE
INVARIANTS
  IDHeldUntilRemoved
