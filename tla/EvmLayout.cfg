SPECIFICATION GenesisSpec
SYMMETRY ChecksumSymmetry
CONSTANTS
    Addr = {a1, a2}
    Checksum = {c1, c2}
    NoChecksum = noChecksum
    RoleName = {"admin", "editor"}
    RoleAdmin = "admin"
    RoleEditor = "editor"
    Status = {"active"}
    NoStatus = noStatus
    NoAddr = noAddr
    GenesisStates <- LayoutGenesisStates
    Utf8Roles <- NoUtf8Roles
    NameOf <- SomeNames
    IdsPerWord = 2
    DumpBlockPairs = 4
    MaxRegistries = 3
    MaxVersions = 3
    MaxMembers = 2
INVARIANTS
    
    GapsRefused
    
    DumpComplete
