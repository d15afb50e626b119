CONSTANTS
    c1 = c1
    s1 = s1
    Controllers <- MC_Controllers
    SwitchIds <- MC_SwitchIds
    InitValid <- MC_InitValid
    SelSets <- MC_SelSets
    JunkBytes <- MC_JunkBytes
    Ipv6Words <- MC_Ipv6Words

SPECIFICATION Spec

INVARIANT ValidFlagsKept
