SPECIFICATION Spec
CONSTANTS
    ana = ana
    ben = ben
    cem = cem
    r1 = r1
    r2 = r2
    Creator = ana
    MaxInvites = 1
    Users <- MCUsers
    Requests <- MCRequests
SYMMETRY
    Interchangeable
INVARIANTS
    TypeOK
    OneOwner
    InviteSpentOnce
CHECK_DEADLOCK FALSE
