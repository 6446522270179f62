CONSTANTS
    u1 = u1
    u2 = u2
    Users = {u1, u2}
    Rest = Rest
    MaxId = 2
    SavedRows <- MCSavedRows
    Mode <- MCMode
    Workloads <- MCOrphan
    PerUser = 1
    PerChannel = 2
SPECIFICATION Spec
INVARIANT UsersInTree
CHECK_DEADLOCK FALSE
