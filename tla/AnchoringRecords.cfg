\* Many versions in few registries, with two accounts.
CONSTANTS
    Addr = {a1, a2}
    Checksum = {c1, c2}
    NoChecksum = NoChecksum
    RoleName = {"admin", "editor"}
    RoleAdmin = "admin"
    RoleEditor = "editor"
    Status = {"active", "revoked"}
    NoStatus = NoStatus
    NoAddr = NoAddr
    GenesisStates <- NoGenesisStates
    Utf8Roles <- NoUtf8Roles
    MaxRegistries = 2
    MaxVersions = 3
    MaxMembers = 2
SPECIFICATION Spec
SYMMETRY Symmetry
INVARIANTS
    TypeOK
    StreamsDense
    OneLatestVersion
    OneStreamPerChecksum
    RoundTrip
PROPERTIES
    AddOnly
    ImplementsLedger
