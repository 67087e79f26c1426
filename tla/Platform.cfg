CONSTANTS
    cmp = cmp
    game = game
    errand = errand
    hero = hero
    smith = smith
    brawl = brawl
    master = master
    player = player
    Nothing = Nothing
    Campaigns <- OneCampaign
    Sessions <- OneSession
    Quests <- OneQuest
    Actors <- TwoActors
    Encounters <- OneEncounter
    Principals <- TwoPrincipals
    Home <- HomeDef
    Prices <- OnePrice
    MaxLog = 6
    MaxRaises = 1
SYMMETRY Symmetric
SPECIFICATION Spec
INVARIANTS
    RecapSpansSession
    SessionsOpenTogether
    QuestsRunOnce
    PursesBalance
    ReplayHeals
CHECK_DEADLOCK FALSE
