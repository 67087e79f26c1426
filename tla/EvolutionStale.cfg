CONSTANTS
    w1 = w1
    w2 = w2
    d1 = d1
    d2 = d2
    alice = alice
    bob = bob
    cmp = cmp
    p1 = p1
    p2 = p2
    k1 = k1
    k2 = k2
    Nothing = Nothing
    Workspaces <- TwoWorkspaces
    Namespaces <- OneNamespace
    Versions <- TwoVersions
    Drafts <- OneDraft
    Principals <- OnePrincipal
    Definitions <- Independent
    Campaigns <- OneCampaign
    Proposals <- TwoProposals
    Checkpoints <- TwoCheckpoints
    StoreRaises = FALSE
    MaxLog = 5
SYMMETRY Symmetric
SPECIFICATION Spec
PROPERTY NoKeyLost
CHECK_DEADLOCK FALSE
