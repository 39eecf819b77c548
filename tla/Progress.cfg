SPECIFICATION Spec
CONSTANTS
    Start <- MCStart
    ExpTable <- MCExpTable
    Skill = {1000, 2000000, 2000001}
    SkillInfo <- MCSkillInfo
    Bonus <- MCBonus
    LevelRoll = {2}
    JobRoll <- MCJobRoll
    Amount <- MCAmount
    MaxPackets = 5
INVARIANTS StatsShown PointsConserved
CHECK_DEADLOCK FALSE
