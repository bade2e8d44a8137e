SPECIFICATION Spec
CONSTANTS
    Addr = {a1, a2}
    Checksum = {c1, c2}
    NoChecksum = noChecksum
    RoleName = {"admin", "editor"}
    RoleAdmin = "admin"
    RoleEditor = "editor"
    Status = {"active"}
    NoStatus = noStatus
    NoAddr = noAddr
    GenesisStates <- NoGenesisStates
    Utf8Roles <- NoUtf8Roles
    MaxRegistries = 2
    MaxVersions = 3
    MaxMembers = 2
INVARIANTS
    RolesSurviveExport
