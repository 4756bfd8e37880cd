SPECIFICATION Spec
CONSTANTS
    a = a
    b = b
    s = s
    Names <- MCNames
    Elsewhere = elsewhere
    PinnedPath <- MCPinnedPath
    Archives <- MCArchives
INVARIANTS
    OrderIsNoMatter
    TreeIsArchive
PROPERTIES
    Ends
