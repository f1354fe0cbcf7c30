SPECIFICATION SignInSpec
CONSTANTS
    google = google
    facebook = facebook
    other = other
    address = address
    Identities = {google, facebook, other}
    Email <- MCEmail
    Vouched <- MCVouched
    Shy <- MCShy
    NoEmail = NoEmail
    Nobody = Nobody
    UserAgents = {b1, b2}
    MaxFlows = 4
SYMMETRY Symmetric
INVARIANTS SessionWhereItBegan PeopleAreNotMerged SignedInAsLinked
CHECK_DEADLOCK FALSE
