SPECIFICATION Spec
CONSTANTS
    s1 = s1
    s2 = s2
    u1 = u1
    u2 = u2
    u3 = u3
    t1 = t1
    l1 = l1
    l2 = l2
    l3 = l3
    h1 = h1
    h2 = h2
    Item <- AllItems
    Hash <- TwoHashes
    content <- Contents
    Session <- TwoSessions
    Upload <- ThreeUploads
    sessionOf <- TwoPages
    Task <- OneTask
    Listed <- ThreeFiles
    listing <- OneList
INVARIANTS
    UniqueContent
    RowsHaveFiles
    NoStrayFiles
    TrueReport
\* Pages are left and runs end.
CHECK_DEADLOCK FALSE
