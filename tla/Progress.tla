------------------------------ MODULE Progress ------------------------------
(***************************************************************************)
(* Level, points, vitals and skills of one character, and what its client  *)
(* has been told of them: client.c's client_gain_exp, client_adjust_*,     *)
(* client_assign_sp, client_change_job, client_reset_stats, the effects of *)
(* consumables and of equipment, the setters of character.c, and the       *)
(* packets and script calls of channel/main.c and scripting/client.c that  *)
(* reach them.                                                             *)
(*                                                                         *)
(* A changed stat is marked in client->stats and told by the next          *)
(* client_commit_stats, or it is told at once.  Mesos and items are in     *)
(* Inventory, the monster book is left out.                                *)
(***************************************************************************)
EXTENDS Integers, FiniteSets

CONSTANTS
    Start,          \* the characters the model starts with
    ExpTable,       \* EXP_TABLE, per level up to the highest the model needs
    Skill,          \* skill ids
    SkillInfo,      \* per skill: reqId (0: none), reqLevel, levelCount, mpCon
    Bonus,          \* what worn equipment can add: hp, mp and int
    LevelRoll,      \* the values rand() % n takes at a level-up
    JobRoll,        \* the values of random() % n, an int16_t, at an advancement
    Amount,         \* amounts of AUTO_AP_ASSIGN, a uint32 taken as an int16_t
    MaxPackets      \* bound: packets and script calls handled

HighestLevel == 200
Int16Max == 32767
Int16Min == -32768

ASSUME LevelsCost ==
    DOMAIN ExpTable \subseteq 1 .. HighestLevel /\ \A n \in DOMAIN ExpTable : ExpTable[n] > 0
ASSUME RollsInRange == LevelRoll \subseteq 0 .. 2 /\ JobRoll \subseteq -50 .. 50
ASSUME AmountInRange == \A n \in Amount : n \in Int /\ Int16Min <= n /\ n <= Int16Max

VARIABLES
    chr,        \* the stats, by name
    extra,      \* eMaxHp, eMaxMp and eint
    skills,     \* the learnt skills: level and masterLevel
    pending,    \* client->stats
    shown,      \* what the client was last told of every stat
    online,     \* FALSE after a kick
    overdrawn,  \* history: more was taken from a stat than it had
    left        \* packets left

vars == <<chr, extra, skills, pending, shown, online, overdrawn, left>>

Stat == {"level", "job", "exp", "str", "dex", "int", "luk", "ap", "sp",
         "hp", "maxHp", "mp", "maxMp", "fame"}
Points == {"str", "dex", "int", "luk"}

HPMax == 30000

Least(a, b) == IF a < b THEN a ELSE b
Clamp(n, low, high) == IF n < low THEN low ELSE Least(n, high)

(* What an int16_t keeps of n.                                             *)
Int16(n) == ((n + 32768) % 65536) - 32768
-----------------------------------------------------------------------------
(* The setters of character.c.                                             *)
EffectiveHp(c) == Least(c.maxHp + extra.hp, HPMax)
EffectiveMp(c) == Least(c.maxMp + extra.mp, HPMax)
EffectiveInt(c) == Least(c.int + extra.int, Int16Max)

SetHp(c, hp) == [c EXCEPT !.hp = Clamp(hp, 0, EffectiveHp(c))]
SetMp(c, mp) == [c EXCEPT !.mp = Clamp(mp, 0, EffectiveMp(c))]
SetMaxHp(c, hp) == [c EXCEPT !.maxHp = Clamp(hp, 0, HPMax)]
SetMaxMp(c, mp) == [c EXCEPT !.maxMp = Clamp(Int16(mp), 0, HPMax)]

Saturated(n) == Clamp(n, Int16Min, Int16Max)

(* A packet or a script call is handled: the stats in told are sent; those *)
(* in dirty are marked, and sent as well when it ends in a commit.         *)
Tell(c, told) ==
    /\ chr' = c
    /\ shown' = [s \in Stat |-> IF s \in told THEN c[s] ELSE shown[s]]

Handled == online /\ left > 0 /\ left' = left - 1

Commit(c, dirty, told) == Tell(c, told \cup dirty \cup pending) /\ pending' = {}
Later(c, dirty, told) == Tell(c, told) /\ pending' = pending \cup dirty
Now(c, told) == Tell(c, told) /\ pending' = pending

Same == UNCHANGED <<extra, skills, online, overdrawn>>

(* client_set_hp and client_set_mp do and mark nothing when the value is   *)
(* the one there is, even one above a maximum that has fallen since.       *)
ClientSetHp(c, hp) == IF hp = c.hp THEN c ELSE SetHp(c, hp)
ClientSetMp(c, mp) == IF mp = c.mp THEN c ELSE SetMp(c, mp)

Marks(stat, value) == IF value = chr[stat] THEN {} ELSE {stat}
-----------------------------------------------------------------------------
(* job.h                                                                   *)
JobIsA(job, base) ==
    \/ job \div 10 = base \div 10 /\ job >= base
    \/ (base \div 10) % 10 = 0 /\ job \div 100 = base \div 100

Novice(job) == job \in {0, 1000, 2000}
Cygnus(job) == job \div 1000 = 1
Mage(job) == JobIsA(job, 200) \/ JobIsA(job, 1200)

(* client_gain_exp, one level: points, then vitals.                        *)
LevelAp(c) ==
    5 + (IF ~Cygnus(c.job) \/ c.level <= 10 THEN 0
         ELSE IF c.level <= 17 THEN 2 ELSE IF c.level < 77 THEN 1 ELSE 0)

LevelPoints(c) ==
    IF Novice(c.job) /\ c.level <= 10
    THEN IF c.level <= 5 THEN [c EXCEPT !.str = Int16(@ + 5)]
                         ELSE [c EXCEPT !.str = Int16(@ + 4), !.dex = Int16(@ + 1)]
    ELSE [c EXCEPT !.ap = Int16(@ + LevelAp(c)), !.sp = @ + IF Novice(c.job) THEN 0 ELSE 3]

(* MUTANT of PointMarks: dex changes without its bit.                      *)
PointMarksNoDex(c) ==
    IF Novice(c.job) /\ c.level <= 10 THEN {"str"}
    ELSE {"ap"} \cup (IF Novice(c.job) THEN {} ELSE {"sp"})

PointMarks(c) ==
    IF Novice(c.job) /\ c.level <= 10 THEN IF c.level <= 5 THEN {"str"} ELSE {"str", "dex"}
    ELSE {"ap"} \cup (IF Novice(c.job) THEN {} ELSE {"sp"})

SkillLevel(id) == IF id \in DOMAIN skills THEN skills[id].level ELSE 0

(* maxHp and maxMp gained by a level, without the share of int.            *)
Growth(job, r) ==
    CASE Novice(job) -> <<r + 12, r + 10>>
      [] JobIsA(job, 110) \/ JobIsA(job, 1100) -> <<r + 24, r + 4>>
      [] JobIsA(job, 200) -> <<r + 10, r + 22 + 2 * SkillLevel(2000001)>>
      [] JobIsA(job, 1200) -> <<r + 10, r + 22 + 2 * SkillLevel(12000000)>>
      [] \E base \in {300, 400, 1300, 1400} : JobIsA(job, base) -> <<r + 20, r + 14>>
      [] JobIsA(job, 500) \/ JobIsA(job, 1500) -> <<r + 22, r + 18>>
      [] JobIsA(job, 2100) -> <<r + 44, r + 4>>
      [] OTHER -> <<0, 0>>

LevelVitals(c, r) ==
    LET share == EffectiveInt(c) \div (IF Mage(c.job) THEN 20 ELSE 10)
        raised == SetMaxMp(SetMaxHp(c, c.maxHp + Growth(c.job, r)[1]),
                           c.maxMp + Growth(c.job, r)[2])
        grown == SetMaxMp(raised, raised.maxMp + share)
    IN  SetMp(SetHp(grown, EffectiveHp(grown)), EffectiveMp(grown))

(* character_gain_exp and the rest of the loop's body: g holds the         *)
(* character, the experience still to give (below 0: the loop has ended)   *)
(* and the stats marked so far.  STAT_LEVEL is sent in the loop.           *)
GainStep(g, r) ==
    LET remaining == ExpTable[g.c.level] - g.c.exp
        up == LevelPoints([g.c EXCEPT !.exp = 0, !.level = @ + 1])
    IN  IF g.exp < 0 THEN g
        ELSE IF g.exp < remaining
        THEN [g EXCEPT !.c.exp = @ + g.exp, !.exp = @ - remaining]
        ELSE [c |-> LevelVitals(up, r), exp |-> g.exp - remaining,
              marks |-> g.marks \cup PointMarks(up) \cup {"maxHp", "maxMp", "hp", "mp"},
              told |-> {"level"}]

(* Every level takes some experience, which bounds the loop.               *)
Loop(exp, r) ==
    LET run[n \in 0 .. exp + 1] ==
            IF n = 0 THEN [c |-> chr, exp |-> exp, marks |-> {"exp"}, told |-> {}]
            ELSE GainStep(run[n - 1], r)
    IN  run[exp + 1]

(* client_kill_monster, gainExp and end_quest commit; a start_quest whose  *)
(* items do not fit returns before it does.                                *)
GainExp(exp, r, commits) ==
    /\ Handled
    /\ chr.level + exp + 1 \in DOMAIN ExpTable
    /\ LET g == Loop(exp, r)
       IN  IF commits THEN Commit(g.c, g.marks, g.told) ELSE Later(g.c, g.marks, g.told)
    /\ Same
-----------------------------------------------------------------------------
(* client_adjust_str and the three others, as changes of a character.  An  *)
(* amount below zero is accepted: it moves points from the stat to ap, and *)
(* the stat is cut at 0 when it has less, while ap gets them all.          *)
Adjusted(c, stat, amount) ==
    LET n == Least(amount, Int16Max - c[stat])
        value == Int16(c[stat] + n)
    IN  IF amount = 0 \/ c.ap < amount THEN c
        ELSE [c EXCEPT ![stat] = IF value < 0 THEN 0 ELSE value, !.ap = Int16(@ - n)]

Overdraws(c, stat, amount) == c.ap >= amount /\ c[stat] + amount < 0

AdjustMarks(c, stat, amount) == IF amount = 0 \/ c.ap < amount THEN {} ELSE {stat, "ap"}

(* AP_ASSIGN                                                               *)
AssignAp(stat) ==
    /\ Handled
    /\ Commit(Adjusted(chr, stat, 1), AdjustMarks(chr, stat, 1), {})
    /\ Same

(* AUTO_AP_ASSIGN                                                          *)
AutoAssignAp(stat1, n1, stat2, n2) ==
    /\ Handled
    /\ LET c == Adjusted(chr, stat1, n1)
       IN  Commit(Adjusted(c, stat2, n2),
                  AdjustMarks(chr, stat1, n1) \cup AdjustMarks(c, stat2, n2), {})
    /\ overdrawn' = (overdrawn \/ Overdraws(chr, stat1, n1)
                               \/ Overdraws(Adjusted(chr, stat1, n1), stat2, n2))
    /\ UNCHANGED <<extra, skills, online>>

(* client_assign_sp: the point is spent before the skill is looked at.     *)
SkillJob(id) == id \div 10000
MayLearn(id) ==
    LET job == SkillJob(id)
        info == SkillInfo[id]
    IN  /\ job % 1000 # 0 => chr.job \div 100 = job \div 100
        /\ (job \div 10) % 10 # 0 => chr.job % 10 >= job % 10
        /\ info.reqId # 0 => info.reqId \in DOMAIN skills /\ SkillLevel(info.reqId) >= info.reqLevel

Learnt(id) ==
    [level |-> 1, masterLevel |-> IF SkillJob(id) % 10 = 2 THEN 0 ELSE SkillInfo[id].levelCount]

AssignSp(id) ==
    /\ Handled
    /\ id \notin 1000 .. 1002 => chr.sp > 0
    /\ IF id \in 1000 .. 1002 THEN Now(chr, {}) ELSE Now([chr EXCEPT !.sp = @ - 1], {"sp"})
    /\ \/ /\ id \notin DOMAIN skills /\ MayLearn(id)
          /\ skills' = [i \in DOMAIN skills \cup {id} |-> IF i = id THEN Learnt(id) ELSE skills[i]]
          /\ UNCHANGED online
       \/ /\ id \notin DOMAIN skills /\ ~MayLearn(id)
          /\ online' = FALSE /\ UNCHANGED skills
       \/ /\ id \in DOMAIN skills
          /\ skills' = [skills EXCEPT ![id].level = IF @ < skills[id].masterLevel THEN @ + 1 ELSE @]
          /\ UNCHANGED online
    /\ UNCHANGED <<extra, overdrawn>>
-----------------------------------------------------------------------------
(* client_change_job and client_reset_stats, which the scripts that advance *)
(* a beginner call one after the other.                                    *)
Raise(max, lo, r) == Least(max + lo + r, HPMax)

ChangedJob(c, job, r) ==
    LET new == [c EXCEPT !.job = job, !.sp = Saturated(@ + IF job % 10 = 2 THEN 3 ELSE 1)]
        hp(lo) == [new EXCEPT !.maxHp = Raise(@, lo, r)]
        both(lo1, lo2, n) == [new EXCEPT !.maxHp = Raise(@, lo1, r), !.maxMp = Raise(@, lo2, Clamp(r, 0, n))]
        mp(lo) == [new EXCEPT !.maxMp = Raise(@, lo, r)]
    IN  CASE job % 1000 = 100 -> hp(200)
          [] job % 1000 = 200 -> mp(100)
          [] job % 1000 \notin {100, 200} /\ job % 100 = 0 -> both(100, 25, 25)
          [] job % 100 # 0 /\ job % 1000 < 200 -> hp(300)
          [] job % 100 # 0 /\ job % 1000 \in 201 .. 299 -> mp(450)
          [] job % 100 # 0 /\ job % 1000 > 300 -> both(300, 150, 50)

(* The stat a first job needs, how much of it, and the level it begins at. *)
Required(job) ==
    CASE job \in {100, 1100, 2100} -> <<"str", 35, 10>>
      [] job \in {200, 1200} -> <<"int", 20, 8>>
      [] job \in {300, 1300, 400, 1400} -> <<"dex", 25, 10>>
      [] job \in {500, 1500} -> <<"dex", 20, 10>>

Total(c) == c.str + c.dex + c.int + c.luk

(* MUTANT of ResetStats: the points in luk are not given back.             *)
ResetStatsNoLuk(c) ==
    LET req == Required(c.job)
        bare == [c EXCEPT !.ap = Int16(@ + c.str + c.int + c.dex - 12 - (req[2] - 4)),
                          !.str = 4, !.dex = 4, !.int = 4, !.luk = 4, !.sp = 1 + (c.level - req[3]) * 3]
    IN  [bare EXCEPT ![req[1]] = req[2]]

ResetStats(c) ==
    LET req == Required(c.job)
        bare == [c EXCEPT !.ap = Int16(@ + Total(c) - 16 - (req[2] - 4)),
                          !.str = 4, !.dex = 4, !.int = 4, !.luk = 4, !.sp = 1 + (c.level - req[3]) * 3]
    IN  [bare EXCEPT ![req[1]] = req[2]]

Advance(job, r) ==
    /\ Handled
    /\ chr.job = 0 /\ chr.level >= Required(job)[3]
    /\ Commit(ResetStats(ChangedJob(chr, job, r)), {"job", "sp", "maxHp", "maxMp"},
              Points \cup {"ap", "sp"})
    /\ Same
-----------------------------------------------------------------------------
(* TAKE_DAMAGE, from a monster that is alive.                              *)
TakeDamage(n) ==
    /\ Handled
    /\ Commit(ClientSetHp(chr, Saturated(chr.hp - n)), Marks("hp", Saturated(chr.hp - n)), {})
    /\ Same

(* HEAL_OVER_TIME                                                          *)
Heal(hp, mp) ==
    /\ Handled
    /\ Commit(ClientSetMp(ClientSetHp(chr, Saturated(chr.hp + hp)), Saturated(chr.mp + mp)),
              Marks("hp", Saturated(chr.hp + hp)) \cup Marks("mp", Saturated(chr.mp + mp)), {})
    /\ Same

(* The script call setHp, which does not commit.                           *)
ScriptSetHp(hp) == Handled /\ Later(ClientSetHp(chr, hp), Marks("hp", hp), {}) /\ Same

(* gainHp and gainMp of a script, and a revival in the nearest town.       *)
GainHp(n) == Handled /\ Now(SetHp(chr, Saturated(chr.hp + n)), {"hp"}) /\ Same
GainMp(n) == Handled /\ Now(SetMp(chr, Saturated(chr.mp + n)), {"mp"}) /\ Same
Revive == Handled /\ chr.hp = 0 /\ Now(SetHp(chr, 50), {"hp"}) /\ Same

(* gainFame of a script.                                                   *)
GainFame(n) == Handled /\ Commit([chr EXCEPT !.fame = Saturated(@ + n)], {"fame"}, {}) /\ Same

(* client_use_item and client_use_item_immediate: what a consumable heals, *)
(* as an amount and a percentage of the maximum.                           *)
Healed(now, top, n, percent) ==
    LET gain == n + (top * percent) \div 100
    IN  IF now > top - gain THEN top ELSE now + gain

UseItem(hp, hpR, mp, mpR) ==
    /\ Handled
    /\ LET hurt == hp # 0 \/ hpR # 0
           tired == mp # 0 \/ mpR # 0
           c == [chr EXCEPT !.hp = IF hurt THEN Healed(@, EffectiveHp(chr), hp, hpR) ELSE @,
                            !.mp = IF tired THEN Healed(@, EffectiveMp(chr), mp, mpR) ELSE @]
       IN  Now(c, (IF hurt THEN {"hp"} ELSE {}) \cup (IF tired THEN {"mp"} ELSE {}))
    /\ Same

(* client_apply_skill, without the projectiles (Inventory has them).       *)
ApplySkill(id) ==
    /\ Handled /\ id \in DOMAIN skills
    /\ Now(SetMp(chr, Saturated(chr.mp - SkillInfo[id].mpCon)), {"mp"})
    /\ Same

(* client_equip: the bonus changes, the vitals stay.                       *)
Equip(bonus) ==
    /\ Handled
    /\ extra' = bonus
    /\ UNCHANGED <<chr, skills, pending, shown, online, overdrawn>>

(* client_unequip: vitals above the new maximum are cut and told.          *)
Cut(c, bonus) ==
    [c EXCEPT !.hp = Least(@, Least(c.maxHp + bonus.hp, HPMax)),
              !.mp = Least(@, Least(c.maxMp + bonus.mp, HPMax))]

Unequip(bonus) ==
    /\ Handled
    /\ extra' = bonus
    /\ LET c == Cut(chr, bonus)
       IN  Now(c, {s \in {"hp", "mp"} : c[s] # chr[s]})
    /\ UNCHANGED <<skills, online, overdrawn>>

(* A login sends the whole character.                                      *)
Login ==
    /\ ~online
    /\ online' = TRUE /\ pending' = {}
    /\ shown' = chr
    /\ UNCHANGED <<chr, extra, skills, overdrawn, left>>
-----------------------------------------------------------------------------
NoBonus == [hp |-> 0, mp |-> 0, int |-> 0]

Init ==
    /\ chr \in Start
    /\ extra = NoBonus
    /\ skills = <<>>
    /\ pending = {} /\ shown = chr
    /\ online = TRUE /\ overdrawn = FALSE /\ left = MaxPackets

(* MAGIC_ATTACK, with a skill.  What the attack does to the monsters is in *)
(* MapMonsters.                                                            *)
MagicAttack == \E id \in Skill : ApplySkill(id)

Next ==
    \/ \E exp \in {1, 2, 5}, r \in LevelRoll, commits \in BOOLEAN : GainExp(exp, r, commits)
    \/ \E stat \in Points : AssignAp(stat)
    \/ \E n1, n2 \in Amount : AutoAssignAp("str", n1, "dex", n2)
    \/ \E id \in Skill : AssignSp(id)
    \/ MagicAttack
    \/ \E job \in {100, 200, 300, 400}, r \in JobRoll : Advance(job, r)
    \/ \E n \in {20, 40000} : TakeDamage(n)
    \/ (\E hp \in {0, 10} : Heal(hp, 3)) \/ ScriptSetHp(25) \/ GainHp(-5) \/ GainMp(10) \/ Revive \/ GainFame(1)
    \/ UseItem(50, 0, 0, 0) \/ UseItem(0, 50, 0, 50)
    \/ \E bonus \in Bonus : Equip(bonus) \/ Unequip(bonus)
    \/ Login

Spec == Init /\ [][Next]_vars
-----------------------------------------------------------------------------
(* The client of a character that is online shows the server's value of    *)
(* every stat that is not marked for the next commit: no handler changes   *)
(* a stat, in a loop of level-ups or by an advancement, without marking or *)
(* sending it.                                                             *)
StatsShown == online => \A s \in Stat \ pending : shown[s] = chr[s]

(* Points are neither made nor lost and never owed: what is assigned and   *)
(* what is free add up to what the levels brought, over level-ups of       *)
(* beginners and of jobs, the extra points of a Cygnus knight, assignments *)
(* and the reset of an advancement.  The one exception is an               *)
(* AUTO_AP_ASSIGN that takes more from a stat than it has: that makes      *)
(* points, and nothing is claimed of the character from then on.           *)
Brought(c) ==
    25 + 5 * (c.level - 1)
       + (IF Cygnus(c.job) THEN 2 * Cardinality(11 .. Least(c.level, 17)) + Cardinality(18 .. Least(c.level, 76))
          ELSE 0)

Balanced(c) == c.ap >= 0 /\ Total(c) + c.ap = Brought(c)
PointsConserved == ~overdrawn => Balanced(chr)

(* A character that is loaded has integers for stats, no negative points,  *)
(* what its levels brought, and a level of the table.                      *)
ASSUME StartBalanced ==
    \A c \in Start : /\ c \in [Stat -> Int] /\ (\A p \in Points : c[p] >= 0)
                     /\ c.level <= HighestLevel /\ Balanced(c)
=============================================================================
