----------------------------- MODULE MCProgress -----------------------------
(* A beginner about to advance, a noblesse where the extra points change,  *)
(* a fighter whose HP are near the limit and a magician with points to     *)
(* spend.                                                                  *)
EXTENDS Progress, TLC

Common == [exp |-> 0, sp |-> 0, hp |-> 50, maxHp |-> 100, mp |-> 5, maxMp |-> 30, fame |-> 0,
           str |-> 4, dex |-> 4, int |-> 4, luk |-> 4]

Character(level, job, stats, ap) ==
    [s \in Stat |-> CASE s = "level" -> level [] s = "job" -> job [] s = "ap" -> ap
                      [] s \in DOMAIN stats -> stats[s]
                      [] OTHER -> Common[s]]

MCStart ==
    {Character(9, 0, [str |-> 48, dex |-> 9], 0),
     Character(16, 1000, [str |-> 52, dex |-> 10], 42),
     Character(30, 110, [str |-> 35, hp |-> 29000, maxHp |-> 29990], 123),
     Character(10, 200, [int |-> 20, sp |-> 3], 38)}

MCExpTable == [n \in 1 .. 60 |-> 2]

MCSkillInfo ==
    (1000 :> [reqId |-> 0, reqLevel |-> 0, levelCount |-> 2, mpCon |-> 3])
    @@ (2000000 :> [reqId |-> 0, reqLevel |-> 0, levelCount |-> 2, mpCon |-> 0])
    @@ (2000001 :> [reqId |-> 2000000, reqLevel |-> 2, levelCount |-> 1, mpCon |-> 10])

MCJobRoll == {-50, 50}

MCAmount == {3, -6}

MCBonus == {NoBonus, [hp |-> 40, mp |-> 0, int |-> 20]}
=============================================================================
