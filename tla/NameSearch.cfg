SPECIFICATION SearchSpec
CONSTANTS
    Name = {n1, n2}
    Matching = {n1}
    Genesis <- MCGenesis
    Limit = 1
    MaxRegistries = 4
INVARIANTS
    IndexFaithful
    PagesExact
PROPERTIES
    StartRepairs
    EventuallyIndexed
    PagingEnds
