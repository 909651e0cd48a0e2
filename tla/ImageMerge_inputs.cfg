\* Two merges of two inputs that each may change once meanwhile.
SPECIFICATION Spec
CONSTANTS
    amd64 = amd64
    arm64 = arm64
    m1 = m1
    m2 = m2
    Merges = {m1, m2}
    Platforms <- MCPlatforms
    Content <- MCContent
    Archives <- MCArchives
    None = None
    Foreign = Foreign
    MaxDepth = 1
    MaxVisited = 3
    MaxWrites = 1
INVARIANTS
    OutputAsVerified
    OutputIntact
PROPERTIES
    WalkDecides
CHECK_DEADLOCK FALSE
