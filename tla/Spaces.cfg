SPECIFICATION Spec
CONSTANTS
    owner = owner
    guest1 = guest1
    guest2 = guest2
    theirs = theirs
    People = {owner, guest1, guest2}
    Owner = owner
    Items = {theirs}
    OwnerOf <- MCOwnerOf
    NoOne = NoOne
    Requests = {r1, r2}
    MaxInvites = 2
SYMMETRY Symmetric
INVARIANTS InviteAdmitsOne ShelfIsContributed
PROPERTIES AdmissionSpendsAnInvite
CHECK_DEADLOCK FALSE
