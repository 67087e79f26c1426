CONSTANTS
    w = w
    cmp = cmp
    hero = hero
    scout = scout
    road = road
    path = path
    camp = camp
    chest = chest
    Nothing = Nothing
    Worlds <- OneWorld
    Campaigns <- OneCampaign
    Actors <- TwoActors
    Places <- ThreePlaces
    Objects <- OneObject
    Home <- HomeDef
    Rank <- RankDef
    Maps <- MapsDef
    StoreRaises = TRUE
    MaxLog = 6
SYMMETRY Symmetric
SPECIFICATION Spec
INVARIANTS
    SecretsEarned
    JourneysConnected
CHECK_DEADLOCK FALSE
