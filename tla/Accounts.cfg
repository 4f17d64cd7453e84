CONSTANTS
    Invites = {v1}
    Passwords = {p1, p2}
    First = p1
    MaxUsers = 3
    MaxSessions = 3
    MaxBirths = 3
    Slots = {r1, r2}
    MaxRequests = 3
    MaxDrops = 2
SPECIFICATION Spec
INVARIANT OwnerRemains
INVARIANT InviteRedeemedOnce
 
CHECK_DEADLOCK FALSE
SYMMETRY Slot_symmetry
