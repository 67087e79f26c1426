CONSTANTS
    w1 = w1
    w2 = w2
    d1 = d1
    d2 = d2
    alice = alice
    bob = bob
    cmp = cmp
    p1 = p1
    p2 = p2
    k1 = k1
    k2 = k2
    Nothing = Nothing
    Workspaces <- TwoWorkspaces
    Namespaces <- OneNamespace
    Versions <- TwoVersions
    Drafts <- TwoDrafts
    Principals <- TwoPrincipals
    Definitions <- AllDefinitions
    Campaigns <- OneCampaign
    Proposals <- TwoProposals
    Checkpoints <- OneCheckpoint
    StoreRaises = TRUE
    MaxLog = 3
SYMMETRY Symmetric
SPECIFICATION Spec
INVARIANTS
    StatusHonest
    PacksResolve
    BindingReplays
    ActivationsWereCompatible
PROPERTY PublishedImmutable
CHECK_DEADLOCK FALSE
