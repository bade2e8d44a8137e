\* Many role changes, one record per registry.
CONSTANTS
    Addr = {a1, a2}
    Checksum = {c1}
    NoChecksum = NoChecksum
    RoleName = {"admin", "editor"}
    RoleAdmin = "admin"
    RoleEditor = "editor"
    Status = {"active"}
    NoStatus = NoStatus
    NoAddr = NoAddr
    GenesisStates <- NoGenesisStates
    Utf8Roles <- NoUtf8Roles
    MaxRegistries = 2
    MaxVersions = 2
    MaxMembers = 5
SPECIFICATION Spec
SYMMETRY AddrSymmetry
INVARIANTS
    RegistryHasAdmin
    HeldRolesRevocable
PROPERTIES
    AuthorityIsolated
