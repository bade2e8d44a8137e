\* A chain from a genesis file with holes, or a v1 chain that upgrades.
SPECIFICATION UpgradeSpec
SYMMETRY ChecksumSymmetry
CONSTANTS
    Addr = {a1}
    Checksum = {c1, c2}
    NoChecksum = noChecksum
    RoleName = {"admin", "editor"}
    RoleAdmin = "admin"
    RoleEditor = "editor"
    Status = {"active"}
    NoStatus = noStatus
    NoAddr = noAddr
    Name = {n1}
    GenesisStates <- SomeGenesisStates
    Utf8Roles <- NoUtf8Roles
    MaxRegistries = 3
    MaxVersions = 3
    MaxMembers = 3
INVARIANTS
    GenesisConsistent
    UpgradedStateValid
PROPERTIES
    UpgradeKeepsRecords
