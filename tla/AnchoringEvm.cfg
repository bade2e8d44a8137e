SPECIFICATION EvmSpec
CONSTANTS
    Addr = {eoa, contract}
    EOA = {eoa}
    Checksum = {c1}
    NoChecksum = noChecksum
    RoleName = {"admin", "editor"}
    RoleAdmin = "admin"
    RoleEditor = "editor"
    Status = {"active"}
    NoStatus = noStatus
    NoAddr = noAddr
    MaxRegistries = 2
    MaxVersions = 2
    MaxMembers = 2
    MaxDepth = 2
    MaxCalls = 2
INVARIANTS
    CallsAtomic
    OnlySignersAct
