CONSTANTS
    IdBits = 2
    MaxClientCreates = 6
    MaxChannelCreates = 3
SPECIFICATION Spec
INVARIANTS
    TypeOK
    MembershipMatchesAssignment
PROPERTIES
    DestroyedClientLeaves
