CONSTANTS
    hero = hero
    wolf = wolf
    bear = bear
    ghost = ghost
    e1 = e1
    e2 = e2
    t1 = t1
    t2 = t2
    Nothing = Nothing
    Actors <- Trio
    Rank <- RankDef
    Profile <- ProfileDef
    MaxHp <- Frail
    Bonus <- BonusDef
    Defense <- DefenseDef
    Encounters <- TwoEncounters
    Lineups <- LooseLineups
    Tasks <- TwoTasks
    Rolls <- Sure
    AttackDamage <- Deadly
    PowerDamage <- PowerDef
    Suspends = TRUE
    DriveLimit = 2
    MaxRound = 1
SPECIFICATION Spec
INVARIANTS
    RewardsOnce
    ControllersHandOver
PROPERTY OverspentOnlyAcross
CHECK_DEADLOCK FALSE
