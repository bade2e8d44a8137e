SPECIFICATION QuerySpec
SYMMETRY ChecksumSymmetry
CONSTANTS
    Addr = {a1}
    Checksum = {c1, c2}
    NoChecksum = noChecksum
    RoleName = {"admin", "editor"}
    RoleAdmin = "admin"
    RoleEditor = "editor"
    Status = {"active"}
    NoStatus = noStatus
    NoAddr = noAddr
    MaxRegistries = 2
    MaxVersions = 4
    MaxMembers = 2
    Limits = {0, 3}
    DefaultPageLimit = 1
    MaxPageLimit = 2
INVARIANTS
    NothingMissed
    RegistryPagesStable
    AnswersLatest
