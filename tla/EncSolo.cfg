CONSTANTS
    hero = hero
    wolf = wolf
    bear = bear
    ghost = ghost
    e1 = e1
    e2 = e2
    t1 = t1
    t2 = t2
    Nothing = Nothing
    Actors <- Quartet
    Rank <- RankDef
    Profile <- ProfileDef
    MaxHp <- Hardy
    Bonus <- BonusDef
    Defense <- DefenseDef
    Encounters <- OneEncounter
    Lineups <- SoloLineups
    Tasks <- OneTask
    Rolls <- RollsDef
    AttackDamage <- AttackDef
    PowerDamage <- PowerSolo
    Suspends = FALSE
    DriveLimit = 4
    MaxRound = 4
SPECIFICATION FairSpec
INVARIANTS
    TurnHolderAlive
    DecidedByLastStanding
PROPERTIES
    RefusedOnlyFallen
    EventuallyAnswered
CHECK_DEADLOCK FALSE
