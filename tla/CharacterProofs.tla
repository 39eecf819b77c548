-------------------------- MODULE CharacterProofs --------------------------
(***************************************************************************)
(* Proofs about a character: Progress, and from the line below its last    *)
(* theorem on, Quests.                                                     *)
(*                                                                         *)
(* Progress.  The client shows the server's value of every stat that is    *)
(* not marked, and the points of a character are what its levels brought.  *)
(* Every handler replaces chr by a character that differs from it in the   *)
(* marked and the told stats only, and that is again balanced while no     *)
(* stat has been overdrawn: then every sum stays far below what an int16_t *)
(* holds.  The loop of level-ups is proved by induction over its rounds.   *)
(*                                                                         *)
(* Quests.  Every kill a quest still needs is counted, every item it still *)
(* lacks can be had, and a completed quest stays completed and is not      *)
(* started again.  What makes the three inductive is what holds of a       *)
(* script that waits between client_start_quest or client_end_quest and    *)
(* the call that starts or ends its quest.                                 *)
(***************************************************************************)
EXTENDS Progress, Quests, FiniteSetTheorems, WellFoundedInduction, TLAPS

(* What every character is. *)
Shaped(c) == c = [s \in Stat |-> c[s]] /\ c["level"] \in Int /\ c["sp"] \in Int

(* What one is of which no stat has been overdrawn. *)
WellFormed(c) ==
    /\ Shaped(c)
    /\ c["level"] <= HighestLevel
    /\ c["ap"] \in Nat
    /\ \A p \in Points : c[p] \in Nat

Sound(c) == WellFormed(c) /\ Balanced(c)

Inv == Shaped(chr) /\ StatsShown /\ (~overdrawn => Sound(chr))

(* The character d differs from c in the stats of S at most. *)
Within(d, c, S) == \A s \in Stat \ S : d[s] = c[s]

(* What a handler may change and leave every point as it is. *)
Vital == {"exp", "hp", "maxHp", "mp", "maxMp", "fame"}

(* Points that a level brings to a Cygnus knight, in closed form. *)
LEMMA BroughtValue ==
    ASSUME NEW c, c["level"] \in Int
    PROVE  Brought(c) =
             25 + 5 * (c["level"] - 1)
                + (IF Cygnus(c["job"])
                   THEN 2 * (IF c["level"] < 11 THEN 0
                             ELSE IF c["level"] < 17 THEN c["level"] - 10 ELSE 7)
                        + (IF c["level"] < 18 THEN 0
                           ELSE IF c["level"] < 76 THEN c["level"] - 17 ELSE 59)
                   ELSE 0)
<1>. DEFINE a == Least(c["level"], 17)
            b == Least(c["level"], 76)
<1>1. a \in Int /\ b \in Int
  BY DEF Least
<1>. HIDE DEF a, b
<1>2. Cardinality(11 .. a) = IF 11 > a THEN 0 ELSE a - 11 + 1
  BY <1>1, FS_Interval
<1>3. Cardinality(18 .. b) = IF 18 > b THEN 0 ELSE b - 18 + 1
  BY <1>1, FS_Interval
<1>4. Cardinality(11 .. a) = IF c["level"] < 11 THEN 0
                             ELSE IF c["level"] < 17 THEN c["level"] - 10 ELSE 7
  BY <1>2 DEF Least, a
<1>5. Cardinality(18 .. b) = IF c["level"] < 18 THEN 0
                             ELSE IF c["level"] < 76 THEN c["level"] - 17 ELSE 59
  BY <1>3 DEF Least, b
<1>6. Brought(c) = 25 + 5 * (c["level"] - 1)
                 + (IF Cygnus(c["job"]) THEN 2 * Cardinality(11 .. a) + Cardinality(18 .. b) ELSE 0)
  BY Zenon DEF Brought, a, b
<1>. QED  BY <1>4, <1>5, <1>6

(* No sum of a sound character leaves the range of an int16_t. *)
LEMMA Int16Same == ASSUME NEW n \in Int, -32768 <= n, n <= 32767 PROVE Int16(n) = n
BY DEF Int16

Small(n) == n \in Nat /\ n <= 1200

LEMMA BroughtBounded ==
    ASSUME NEW c, c["level"] \in Int, c["level"] <= HighestLevel
    PROVE  Brought(c) \in Int /\ Brought(c) <= 1200
BY BroughtValue DEF HighestLevel

LEMMA SoundBounded ==
    ASSUME NEW c, Sound(c)
    PROVE  Small(c["ap"]) /\ Small(Total(c)) /\ \A p \in Points : Small(c[p])
<1>1. /\ c["ap"] \in Nat /\ c["str"] \in Nat /\ c["dex"] \in Nat /\ c["int"] \in Nat /\ c["luk"] \in Nat
      /\ Brought(c) \in Int /\ Brought(c) <= 1200
  BY BroughtBounded DEF Sound, WellFormed, Shaped, Points
<1>2. c["str"] + c["dex"] + c["int"] + c["luk"] + c["ap"] = Brought(c)
  BY DEF Sound, Balanced, Total
<1>. HIDE DEF Brought
<1>. QED  BY <1>1, <1>2 DEF Total, Points, Small

(* A change of vitals leaves the points as they are. *)
LEMMA VitalKeeps ==
    ASSUME NEW c, NEW d, Shaped(c), d = [s \in Stat |-> d[s]], Within(d, c, Vital)
    PROVE  Shaped(d) /\ (Sound(c) => Sound(d)) /\ d["level"] = c["level"]
<1>1. \A s \in Points \cup {"level", "job", "ap", "sp"} : d[s] = c[s]
  BY DEF Within, Vital, Stat, Points
<1>2. d["level"] = c["level"] /\ d["job"] = c["job"] /\ d["ap"] = c["ap"] /\ Total(d) = Total(c)
  BY <1>1 DEF Points, Total
<1>3. Brought(d) = Brought(c)
  BY <1>2, Zenon DEF Brought
<1>4. Shaped(d)
  BY <1>1 DEF Shaped
<1>5. WellFormed(c) => WellFormed(d)
  BY <1>1, <1>4 DEF WellFormed
<1>. QED  BY <1>2, <1>3, <1>4, <1>5 DEF Balanced, Sound

(* A handler that marks or sends what it changes keeps the invariant. *)
LEMMA TellKeeps ==
    ASSUME Inv, online, NEW c, NEW dirty, NEW told,
           Commit(c, dirty, told) \/ Later(c, dirty, told) \/ Now(c, told \cup dirty),
           Within(c, chr, dirty \cup told), Shaped(c), ~overdrawn' => Sound(c)
    PROVE  Inv'
<1>1. chr' = c
  BY DEF Commit, Later, Now, Tell
<1>2. \A s \in Stat \ pending : shown[s] = chr[s]
  BY DEF Inv, StatsShown
<1>3. \A s \in Stat \ pending' : shown'[s] = chr'[s]
  <2>1. CASE Commit(c, dirty, told)
    BY <2>1, <1>2 DEF Commit, Tell, Within
  <2>2. CASE Later(c, dirty, told)
    BY <2>2, <1>2 DEF Later, Tell, Within
  <2>3. CASE Now(c, told \cup dirty)
    BY <2>3, <1>2 DEF Now, Tell, Within
  <2>. QED  BY <2>1, <2>2, <2>3
<1>4. Shaped(chr)' /\ (~overdrawn' => Sound(chr)')
  BY <1>1, Zenon DEF Shaped, Sound, WellFormed, Balanced, Total, Brought
<1>. QED  BY <1>3, <1>4 DEF Inv, StatsShown

(* The same for a handler that changes vitals only. *)
LEMMA VitalTellKeeps ==
    ASSUME Inv, online, UNCHANGED overdrawn, NEW c, NEW dirty, NEW told,
           Commit(c, dirty, told) \/ Later(c, dirty, told) \/ Now(c, told \cup dirty),
           c = [s \in Stat |-> c[s]], Within(c, chr, dirty \cup told), Within(c, chr, Vital)
    PROVE  Inv'
<1>1. Shaped(c) /\ (Sound(chr) => Sound(c))
  BY VitalKeeps DEF Inv
<1>. QED  BY <1>1, TellKeeps DEF Inv

----------------------------------------------------------------------------
(* The setters of the vitals. *)
LEMMA SetVitals ==
    ASSUME NEW c, c = [s \in Stat |-> c[s]], NEW x
    PROVE  /\ SetHp(c, x) = [s \in Stat |-> SetHp(c, x)[s]]
           /\ SetMp(c, x) = [s \in Stat |-> SetMp(c, x)[s]]
           /\ SetMaxHp(c, x) = [s \in Stat |-> SetMaxHp(c, x)[s]]
           /\ SetMaxMp(c, x) = [s \in Stat |-> SetMaxMp(c, x)[s]]
           /\ Within(SetHp(c, x), c, {"hp"}) /\ Within(SetMp(c, x), c, {"mp"})
           /\ Within(SetMaxHp(c, x), c, {"maxHp"}) /\ Within(SetMaxMp(c, x), c, {"maxMp"})
BY DEF SetHp, SetMp, SetMaxHp, SetMaxMp, Within

LEMMA ClientSetVitals ==
    ASSUME NEW c, c = [s \in Stat |-> c[s]], NEW x
    PROVE  /\ ClientSetHp(c, x) = [s \in Stat |-> ClientSetHp(c, x)[s]]
           /\ ClientSetMp(c, x) = [s \in Stat |-> ClientSetMp(c, x)[s]]
           /\ Within(ClientSetHp(c, x), c, IF x = c["hp"] THEN {} ELSE {"hp"})
           /\ Within(ClientSetMp(c, x), c, IF x = c["mp"] THEN {} ELSE {"mp"})
BY SetVitals DEF ClientSetHp, ClientSetMp, Within

LEMMA TakeDamageInv == ASSUME Inv, NEW n, TakeDamage(n) PROVE Inv'
<1>. DEFINE x == Saturated(chr.hp - n)
            c == ClientSetHp(chr, x)
<1>1. chr = [s \in Stat |-> chr[s]]
  BY DEF Inv, Shaped
<1>2. c = [s \in Stat |-> c[s]] /\ Within(c, chr, Marks("hp", x))
  BY <1>1, ClientSetVitals DEF Marks
<1>3. Within(c, chr, Vital)
  BY <1>1, ClientSetVitals DEF Within, Vital
<1>4. Commit(c, Marks("hp", x), {}) /\ online /\ UNCHANGED overdrawn
  BY DEF TakeDamage, Handled, Same
<1>. HIDE DEF c, x
<1>. QED  BY <1>2, <1>3, <1>4, VitalTellKeeps

LEMMA HealInv == ASSUME Inv, NEW hp, NEW mp, Heal(hp, mp) PROVE Inv'
<1>. DEFINE x == Saturated(chr.hp + hp)
            y == Saturated(chr.mp + mp)
            b == ClientSetHp(chr, x)
            c == ClientSetMp(b, y)
            dirty == Marks("hp", x) \cup Marks("mp", y)
<1>4. Commit(c, dirty, {}) /\ online /\ UNCHANGED overdrawn
  BY DEF Heal, Handled, Same
<1>. HIDE DEF x, y
<1>1. chr = [s \in Stat |-> chr[s]]
  BY DEF Inv, Shaped
<1>2. b = [s \in Stat |-> b[s]] /\ Within(b, chr, Marks("hp", x))
  BY <1>1, ClientSetVitals DEF Marks
<1>3. b["mp"] = chr["mp"]
  BY <1>2 DEF Within, Stat, Marks
<1>. HIDE DEF b
<1>5. c = [s \in Stat |-> c[s]] /\ Within(c, b, Marks("mp", y))
  BY <1>2, <1>3, ClientSetVitals DEF Marks
<1>. HIDE DEF c
<1>6. Within(c, chr, dirty)
  BY <1>2, <1>5 DEF Within
<1>7. Within(c, chr, Vital)
  BY <1>6 DEF Within, Vital, Marks
<1>. HIDE DEF dirty
<1>. QED  BY <1>4, <1>5, <1>6, <1>7, VitalTellKeeps

LEMMA ScriptSetHpInv == ASSUME Inv, NEW x, ScriptSetHp(x) PROVE Inv'
<1>. DEFINE c == ClientSetHp(chr, x)
<1>1. chr = [s \in Stat |-> chr[s]]
  BY DEF Inv, Shaped
<1>2. c = [s \in Stat |-> c[s]] /\ Within(c, chr, Marks("hp", x))
  BY <1>1, ClientSetVitals DEF Marks
<1>3. Within(c, chr, Vital)
  BY <1>1, ClientSetVitals DEF Within, Vital
<1>4. Later(c, Marks("hp", x), {}) /\ online /\ UNCHANGED overdrawn
  BY DEF ScriptSetHp, Handled, Same
<1>. HIDE DEF c
<1>. QED  BY <1>2, <1>3, <1>4, VitalTellKeeps

(* The calls that send HP or MP at once. *)
LEMMA SetNow ==
    ASSUME Inv, online, UNCHANGED overdrawn, NEW x,
           Now(SetHp(chr, x), {"hp"}) \/ Now(SetMp(chr, x), {"mp"})
    PROVE  Inv'
<1>1. chr = [s \in Stat |-> chr[s]]
  BY DEF Inv, Shaped
<1>2. CASE Now(SetHp(chr, x), {"hp"})
  <2>. DEFINE c == SetHp(chr, x)
  <2>1. c = [s \in Stat |-> c[s]] /\ Within(c, chr, {"hp"} \cup {})
    BY <1>1, SetVitals
  <2>2. Now(c, {"hp"} \cup {})
    BY <1>2
  <2>. HIDE DEF c
  <2>3. Within(c, chr, Vital)
    BY <2>1 DEF Within, Vital
  <2>. QED  BY <2>1, <2>2, <2>3, VitalTellKeeps
<1>3. CASE Now(SetMp(chr, x), {"mp"})
  <2>. DEFINE c == SetMp(chr, x)
  <2>1. c = [s \in Stat |-> c[s]] /\ Within(c, chr, {"mp"} \cup {})
    BY <1>1, SetVitals
  <2>2. Now(c, {"mp"} \cup {})
    BY <1>3
  <2>. HIDE DEF c
  <2>3. Within(c, chr, Vital)
    BY <2>1 DEF Within, Vital
  <2>. QED  BY <2>1, <2>2, <2>3, VitalTellKeeps
<1>. QED  BY <1>2, <1>3

LEMMA GainFameInv == ASSUME Inv, NEW n, GainFame(n) PROVE Inv'
<1>. DEFINE x == Saturated(chr.fame + n)
            c == [chr EXCEPT !.fame = x]
<1>1. Commit(c, {"fame"}, {}) /\ online /\ UNCHANGED overdrawn
  BY DEF GainFame, Handled, Same
<1>. HIDE DEF x
<1>2. c = [s \in Stat |-> c[s]] /\ Within(c, chr, {"fame"})
  BY DEF Inv, Shaped, Within
<1>3. Within(c, chr, Vital)
  BY <1>2 DEF Within, Vital
<1>. HIDE DEF c
<1>. QED  BY <1>1, <1>2, <1>3, VitalTellKeeps

LEMMA UseItemInv ==
    ASSUME Inv, NEW hp, NEW hpR, NEW mp, NEW mpR, UseItem(hp, hpR, mp, mpR)
    PROVE  Inv'
<1>. DEFINE hurt == hp # 0 \/ hpR # 0
            tired == mp # 0 \/ mpR # 0
            x == Healed(chr.hp, EffectiveHp(chr), hp, hpR)
            y == Healed(chr.mp, EffectiveMp(chr), mp, mpR)
            c == [chr EXCEPT !.hp = IF hurt THEN x ELSE chr.hp,
                             !.mp = IF tired THEN y ELSE chr.mp]
            told == (IF hurt THEN {"hp"} ELSE {}) \cup (IF tired THEN {"mp"} ELSE {})
<1>1. Now(c, told \cup {}) /\ online /\ UNCHANGED overdrawn
  BY DEF UseItem, Handled, Same
<1>. HIDE DEF x, y, hurt, tired
<1>2. c = [s \in Stat |-> c[s]] /\ Within(c, chr, told)
  BY DEF Inv, Shaped, Within
<1>3. Within(c, chr, Vital)
  BY <1>2 DEF Within, Vital
<1>. HIDE DEF c, told
<1>4. Within(c, chr, {} \cup told)
  BY <1>2
<1>. QED  BY <1>1, <1>2, <1>3, <1>4, VitalTellKeeps

LEMMA UnequipInv == ASSUME Inv, NEW bonus, Unequip(bonus) PROVE Inv'
<1>. DEFINE c == Cut(chr, bonus)
            told == {s \in {"hp", "mp"} : c[s] # chr[s]}
<1>1. Now(c, told) /\ online /\ UNCHANGED overdrawn
  BY DEF Unequip, Handled
<1>2. c = [s \in Stat |-> c[s]] /\ Within(c, chr, {"hp", "mp"})
  BY DEF Inv, Shaped, Within, Cut
<1>. HIDE DEF c
<1>3. Within(c, chr, {} \cup told) /\ Within(c, chr, Vital)
  BY <1>2 DEF Within, Vital
<1>. HIDE DEF told
<1>4. Now(c, told \cup {})
  BY <1>1
<1>. QED  BY <1>1, <1>2, <1>3, <1>4, VitalTellKeeps

(* The steps that leave the character as it is. *)
LEMMA OthersInv ==
    ASSUME Inv, UNCHANGED vars \/ Login \/ \E bonus \in Bonus : Equip(bonus)
    PROVE  Inv'
<1>1. chr' = chr /\ overdrawn' = overdrawn
  BY DEF vars, Login, Equip
<1>2. StatsShown'
  BY DEF Inv, StatsShown, vars, Login, Equip, Handled
<1>3. Shaped(chr)' /\ (~overdrawn' => Sound(chr)')
  BY <1>1, Zenon DEF Inv, Shaped, Sound, WellFormed, Balanced, Brought, Total
<1>. QED  BY <1>2, <1>3 DEF Inv

LEMMA MagicAttackInv == ASSUME Inv, MagicAttack PROVE Inv'
<1>1. PICK id \in Skill : ApplySkill(id)
  BY DEF MagicAttack
<1>2. /\ online /\ Now(SetMp(chr, Saturated(chr.mp - SkillInfo[id].mpCon)), {"mp"})
      /\ UNCHANGED overdrawn
  BY <1>1 DEF ApplySkill, Handled, Same
<1>. QED  BY <1>2, SetNow

LEMMA AssignSpInv == ASSUME Inv, NEW id, AssignSp(id) PROVE Inv'
<1>1. online /\ UNCHANGED overdrawn
  BY DEF AssignSp, Handled
<1>2. CASE id \in 1000 .. 1002
  <2>1. Now(chr, {} \cup {})
    BY <1>2 DEF AssignSp
  <2>2. Within(chr, chr, {} \cup {}) /\ Within(chr, chr, Vital) /\ chr = [s \in Stat |-> chr[s]]
    BY DEF Within, Inv, Shaped
  <2>. QED  BY <1>1, <2>1, <2>2, VitalTellKeeps
<1>3. CASE id \notin 1000 .. 1002
  <2>. DEFINE c == [chr EXCEPT !.sp = @ - 1]
  <2>1. Now(c, {"sp"} \cup {})
    BY <1>3 DEF AssignSp
  <2>2. /\ c = [s \in Stat |-> c[s]] /\ Within(c, chr, {} \cup {"sp"})
        /\ c["sp"] = chr["sp"] - 1
    BY DEF Inv, Shaped, Within, Stat
  <2>. HIDE DEF c
  <2>3. \A s \in Points \cup {"level", "job", "ap"} : c[s] = chr[s]
    BY <2>2 DEF Within, Points, Stat
  <2>4. Shaped(c) /\ (WellFormed(chr) => WellFormed(c))
    BY <2>2, <2>3 DEF Inv, Shaped, WellFormed
  <2>5. Total(c) = Total(chr) /\ c["level"] = chr["level"] /\ c["job"] = chr["job"] /\ c["ap"] = chr["ap"]
    BY <2>3 DEF Total, Points
  <2>7. Brought(c) = Brought(chr)
    BY <2>5, Zenon DEF Brought
  <2>6. ~overdrawn => Sound(c)
    BY <2>4, <2>5, <2>7 DEF Inv, Sound, Balanced
  <2>. QED  BY <1>1, <2>1, <2>2, <2>4, <2>6, TellKeeps
<1>. QED  BY <1>2, <1>3

----------------------------------------------------------------------------
(* Assigning points moves them between ap and a stat, whatever the amount, *)
(* unless the stat has less than what is taken from it.                    *)
LEMMA AdjustedShaped ==
    ASSUME NEW c, Shaped(c), NEW p \in Points, NEW n
    PROVE  /\ Shaped(Adjusted(c, p, n))
           /\ Within(Adjusted(c, p, n), c, AdjustMarks(c, p, n))
<1>1. CASE n = 0 \/ c["ap"] < n
  BY <1>1 DEF Adjusted, AdjustMarks, Within
<1>2. CASE ~(n = 0 \/ c["ap"] < n)
  <2>. DEFINE k == Least(n, Int16Max - c[p])
              x == Int16(c[p] + k)
              y == IF x < 0 THEN 0 ELSE x
              z == Int16(c["ap"] - k)
              d == [[c EXCEPT ![p] = y] EXCEPT !["ap"] = z]
  <2>1. Adjusted(c, p, n) = d
    BY <1>2, Zenon DEF Adjusted
  <2>. HIDE DEF y, z
  <2>2. p # "level" /\ p # "sp"
    BY DEF Points
  <2>3. Shaped(d) /\ Within(d, c, {p, "ap"})
    BY <2>2 DEF Shaped, Within, Stat
  <2>. QED  BY <1>2, <2>1, <2>3 DEF AdjustMarks
<1>. QED  BY <1>1, <1>2

LEMMA AdjustedSound ==
    ASSUME NEW c, Sound(c), NEW p \in Points, NEW n \in Int, ~Overdraws(c, p, n)
    PROVE  Sound(Adjusted(c, p, n))
<1>1. CASE n = 0 \/ c["ap"] < n
  BY <1>1 DEF Adjusted
<1>2. CASE ~(n = 0 \/ c["ap"] < n)
  <2>. DEFINE k == Least(n, Int16Max - c[p])
              x == Int16(c[p] + k)
              y == IF x < 0 THEN 0 ELSE x
              z == Int16(c["ap"] - k)
              d == [[c EXCEPT ![p] = y] EXCEPT !["ap"] = z]
  <2>0. /\ n \in Int /\ c[p] \in Nat /\ c[p] <= 1200 /\ c["ap"] \in Nat /\ c["ap"] <= 1200
        /\ Total(c) \in Nat
    BY SoundBounded DEF Small
  <2>1. n <= c["ap"] /\ c[p] + n >= 0
    BY <1>2, <2>0 DEF Overdraws
  <2>2. k = n
    BY <2>0, <2>1 DEF Least, Int16Max
  <2>3. x = c[p] + n
    BY <2>0, <2>1, <2>2, Int16Same
  <2>4. z = c["ap"] - n
    BY <2>0, <2>1, <2>2, Int16Same
  <2>5. y = c[p] + n
    BY <2>0, <2>1, <2>3
  <2>6. Adjusted(c, p, n) = d
    BY <1>2, Zenon DEF Adjusted
  <2>. HIDE DEF y, z
  <2>7. /\ d["level"] = c["level"] /\ d["job"] = c["job"] /\ d["sp"] = c["sp"]
        /\ d["ap"] = c["ap"] - n
        /\ \A s \in Points : d[s] = IF s = p THEN c[p] + n ELSE c[s]
        /\ d = [s \in Stat |-> d[s]]
    BY <2>4, <2>5 DEF Sound, WellFormed, Shaped, Stat, Points
  <2>. HIDE DEF d
  <2>8. \A s \in Points : c[s] \in Nat
    BY DEF Sound, WellFormed
  <2>9. Total(d) = Total(c) + n
    BY <2>0, <2>7, <2>8 DEF Total, Points
  <2>10. WellFormed(d)
    <3>1. \A s \in Points : d[s] \in Nat
      BY <2>0, <2>1, <2>7, <2>8
    <3>2. d["ap"] \in Nat
      BY <2>0, <2>1, <2>7
    <3>. QED  BY <2>7, <3>1, <3>2 DEF Sound, WellFormed, Shaped
  <2>11. Brought(d) = Brought(c)
    BY <2>7, Zenon DEF Brought
  <2>12. Balanced(d)
    BY <2>0, <2>1, <2>7, <2>9, <2>11 DEF Sound, Balanced
  <2>. QED  BY <2>6, <2>10, <2>12 DEF Sound
<1>. QED  BY <1>1, <1>2

LEMMA AssignApInv == ASSUME Inv, NEW p \in Points, AssignAp(p) PROVE Inv'
<1>1. online /\ Commit(Adjusted(chr, p, 1), AdjustMarks(chr, p, 1), {}) /\ UNCHANGED overdrawn
  BY DEF AssignAp, Handled, Same
<1>2. /\ Shaped(Adjusted(chr, p, 1))
      /\ Within(Adjusted(chr, p, 1), chr, AdjustMarks(chr, p, 1) \cup {})
  BY AdjustedShaped DEF Inv
<1>3. Sound(chr) => Sound(Adjusted(chr, p, 1))
  <2>. SUFFICES ASSUME Sound(chr) PROVE Sound(Adjusted(chr, p, 1))
    OBVIOUS
  <2>1. ~Overdraws(chr, p, 1)
    BY SoundBounded DEF Overdraws, Small
  <2>. QED  BY <2>1, AdjustedSound
<1>. QED  BY <1>1, <1>2, <1>3, TellKeeps DEF Inv

LEMMA AutoAssignApInv ==
    ASSUME Inv, NEW n1 \in Amount, NEW n2 \in Amount, NEW p1 \in Points, NEW p2 \in Points,
           AutoAssignAp(p1, n1, p2, n2)
    PROVE  Inv'
<1>. DEFINE b == Adjusted(chr, p1, n1)
            c == Adjusted(b, p2, n2)
            dirty == AdjustMarks(chr, p1, n1) \cup AdjustMarks(b, p2, n2)
<1>1. /\ online /\ Commit(c, dirty, {})
      /\ overdrawn' = (overdrawn \/ Overdraws(chr, p1, n1) \/ Overdraws(b, p2, n2))
  BY DEF AutoAssignAp, Handled
<1>0. n1 \in Int /\ n2 \in Int
  BY AmountInRange
<1>2. /\ Shaped(b) /\ Within(b, chr, AdjustMarks(chr, p1, n1))
      /\ Sound(chr) /\ ~Overdraws(chr, p1, n1) => Sound(b)
  BY <1>0, AdjustedShaped, AdjustedSound DEF Inv
<1>. HIDE DEF b
<1>3. /\ Shaped(c) /\ Within(c, b, AdjustMarks(b, p2, n2))
      /\ Sound(b) /\ ~Overdraws(b, p2, n2) => Sound(c)
  BY <1>0, <1>2, AdjustedShaped, AdjustedSound
<1>. HIDE DEF c
<1>4. Within(c, chr, dirty \cup {})
  BY <1>2, <1>3 DEF Within
<1>5. ~overdrawn' => Sound(c)
  BY <1>1, <1>2, <1>3 DEF Inv
<1>. HIDE DEF dirty
<1>. QED  BY <1>1, <1>3, <1>4, <1>5, TellKeeps

----------------------------------------------------------------------------
(* An advancement gives back every point but the ones of the new job's     *)
(* starting stats, which the level it needs has brought.                   *)
Starter == {100, 200, 300, 400}

LEMMA ChangedJobKeeps ==
    ASSUME NEW c, c = [s \in Stat |-> c[s]], c["sp"] \in Int, NEW job \in Starter, NEW r
    PROVE  LET d == ChangedJob(c, job, r) IN
           /\ d = [s \in Stat |-> d[s]] /\ d["job"] = job /\ d["sp"] \in Int
           /\ Within(d, c, {"job", "sp", "maxHp", "maxMp"})
<1>. DEFINE new == [c EXCEPT !.job = job, !.sp = Saturated(@ + IF job % 10 = 2 THEN 3 ELSE 1)]
            hp(lo) == [new EXCEPT !.maxHp = Raise(@, lo, r)]
            both(lo1, lo2, n) == [new EXCEPT !.maxHp = Raise(@, lo1, r), !.maxMp = Raise(@, lo2, Clamp(r, 0, n))]
            mp(lo) == [new EXCEPT !.maxMp = Raise(@, lo, r)]
            Fine(d) == /\ d = [s \in Stat |-> d[s]] /\ d["job"] = job /\ d["sp"] \in Int
                       /\ Within(d, c, {"job", "sp", "maxHp", "maxMp"})
<1>1. /\ \A lo : Fine(hp(lo)) /\ Fine(mp(lo))
      /\ \A lo1, lo2, n : Fine(both(lo1, lo2, n))
  <2>. DEFINE sp == Saturated(c.sp + IF job % 10 = 2 THEN 3 ELSE 1)
              hpOf(lo) == Raise(new.maxHp, lo, r)
              mpOf(lo, n) == Raise(new.maxMp, lo, n)
  <2>0. sp \in Int
    BY DEF Saturated, Clamp, Least, Int16Min, Int16Max
  <2>. HIDE DEF sp, hpOf, mpOf
  <2>1. new = [s \in Stat |-> IF s = "job" THEN job ELSE IF s = "sp" THEN sp ELSE c[s]]
    BY DEF sp
  <2>2. /\ new = [s \in Stat |-> new[s]] /\ new["job"] = job /\ new["sp"] \in Int
        /\ Within(new, c, {"job", "sp", "maxHp", "maxMp"})
    BY <2>0, <2>1 DEF Within, Stat
  <2>. HIDE DEF new
  <2>3. ASSUME NEW lo PROVE hp(lo) = [new EXCEPT !.maxHp = hpOf(lo)]
    BY Zenon DEF hpOf
  <2>4. ASSUME NEW lo PROVE mp(lo) = [new EXCEPT !.maxMp = mpOf(lo, r)]
    BY Zenon DEF mpOf
  <2>5. ASSUME NEW lo1, NEW lo2, NEW n
        PROVE  both(lo1, lo2, n) = [new EXCEPT !.maxHp = hpOf(lo1), !.maxMp = mpOf(lo2, Clamp(r, 0, n))]
    BY Zenon DEF hpOf, mpOf
  <2>. HIDE DEF hp, mp, both
  <2>6. ASSUME NEW lo PROVE Fine(hp(lo))
    BY <2>2, <2>3 DEF Within, Stat
  <2>7. ASSUME NEW lo PROVE Fine(mp(lo))
    BY <2>2, <2>4 DEF Within, Stat
  <2>8. ASSUME NEW lo1, NEW lo2, NEW n PROVE Fine(both(lo1, lo2, n))
    BY <2>2, <2>5 DEF Within, Stat
  <2>. HIDE DEF Fine
  <2>. QED  BY <2>6, <2>7, <2>8
<1>3. ChangedJob(c, job, r) = CASE job % 1000 = 100 -> hp(200)
          [] job % 1000 = 200 -> mp(100)
          [] job % 1000 \notin {100, 200} /\ job % 100 = 0 -> both(100, 25, 25)
          [] job % 100 # 0 /\ job % 1000 < 200 -> hp(300)
          [] job % 100 # 0 /\ job % 1000 \in 201 .. 299 -> mp(450)
          [] job % 100 # 0 /\ job % 1000 > 300 -> both(300, 150, 50)
  BY Zenon DEF ChangedJob
<1>. HIDE DEF hp, mp, both, new
<1>4. \/ ChangedJob(c, job, r) = hp(200) \/ ChangedJob(c, job, r) = mp(100)
      \/ ChangedJob(c, job, r) = both(100, 25, 25)
  BY <1>3 DEF Starter
<1>5. Fine(ChangedJob(c, job, r))
  <2>. HIDE DEF Fine
  <2>. QED  BY <1>1, <1>4
<1>. QED  BY <1>5

LEMMA RequiredValue ==
    ASSUME NEW job \in Starter
    PROVE  /\ Required(job)[1] \in Points
           /\ Required(job)[2] \in 20 .. 35 /\ Required(job)[3] \in 8 .. 10
           /\ Required(job)[3] = 8 => Required(job)[2] = 20
<1>1. CASE job = 100
  BY <1>1 DEF Required, Points
<1>2. CASE job = 200
  BY <1>2 DEF Required, Points
<1>3. CASE job = 300
  BY <1>3 DEF Required, Points
<1>4. CASE job = 400
  BY <1>4 DEF Required, Points
<1>. QED  BY <1>1, <1>2, <1>3, <1>4 DEF Starter

LEMMA ResetStatsKeeps ==
    ASSUME NEW d, Shaped(d), d["job"] \in Starter
    PROVE  /\ Shaped(ResetStats(d))
           /\ Within(ResetStats(d), d, Points \cup {"ap", "sp"})
           /\ WellFormed(d) /\ d["level"] >= Required(d["job"])[3]
                /\ Total(d) + d["ap"] = 25 + 5 * (d["level"] - 1)
              => Sound(ResetStats(d))
<1>. DEFINE req == Required(d["job"])
            r1 == req[1]
            r2 == req[2]
            r3 == req[3]
            sum == d["ap"] + Total(d) - 16 - (r2 - 4)
            ap == Int16(sum)
            sp == 1 + (d["level"] - r3) * 3
            e == [s \in Stat |-> IF s = r1 THEN r2
                                 ELSE IF s \in Points THEN 4
                                 ELSE IF s = "ap" THEN ap
                                 ELSE IF s = "sp" THEN sp ELSE d[s]]
<1>1. r1 \in Points /\ r2 \in 20 .. 35 /\ r3 \in 8 .. 10 /\ (r3 = 8 => r2 = 20)
  BY RequiredValue
<1>2. ResetStats(d) =
        [[d EXCEPT !.ap = ap, !.str = 4, !.dex = 4, !.int = 4, !.luk = 4, !.sp = sp]
            EXCEPT ![r1] = r2]
  BY Zenon DEF ResetStats
<1>3. d["level"] \in Int
  BY DEF Shaped
<1>14. sp \in Int
  BY <1>1, <1>3
<1>. HIDE DEF sum, ap, sp, r1, r2, r3, req
<1>5. ResetStats(d) = e
  BY <1>1, <1>2 DEF Shaped, Stat, Points
<1>6. /\ e["level"] = d["level"] /\ e["job"] = d["job"] /\ e["ap"] = ap /\ e["sp"] = sp
      /\ \A p \in Points : e[p] = IF p = r1 THEN r2 ELSE 4
  BY <1>1 DEF Stat, Points
<1>7. Within(e, d, Points \cup {"ap", "sp"})
  BY <1>1 DEF Within
<1>8. e = [s \in Stat |-> e[s]]
  OBVIOUS
<1>. HIDE DEF e
<1>9. Shaped(e)
  BY <1>3, <1>6, <1>8, <1>14 DEF Shaped
<1>10. ASSUME WellFormed(d), d["level"] >= Required(d["job"])[3],
              Total(d) + d["ap"] = 25 + 5 * (d["level"] - 1)
       PROVE  Sound(e)
  <2>1. Total(d) \in Int /\ d["level"] <= 200 /\ d["ap"] \in Nat
    BY <1>10 DEF WellFormed, Total, Points, HighestLevel
  <2>2. r3 <= d["level"]
    BY <1>10 DEF r3, req
  <2>3. sum = 25 + 5 * (d["level"] - 1) - 12 - r2 /\ sum \in Nat /\ sum <= 1200
    BY <1>1, <1>3, <1>10, <2>1, <2>2 DEF sum
  <2>4. ap = sum
    BY <2>3, Int16Same DEF ap
  <2>5. \A p \in Points : e[p] \in Nat
    BY <1>1, <1>6
  <2>6. WellFormed(e)
    BY <1>6, <1>9, <1>10, <2>3, <2>4, <2>5 DEF WellFormed
  <2>7. Total(e) = 12 + r2
    BY <1>1, <1>6 DEF Total, Points
  <2>8. Cygnus(e["job"]) = FALSE
    BY <1>6 DEF Cygnus, Starter
  <2>9. Brought(e) = 25 + 5 * (d["level"] - 1)
    BY <1>3, <1>6, <2>8, BroughtValue
  <2>10. Balanced(e)
    BY <1>1, <1>3, <1>6, <2>3, <2>4, <2>7, <2>9 DEF Balanced
  <2>. QED  BY <2>6, <2>10 DEF Sound
<1>. QED  BY <1>5, <1>7, <1>9, <1>10

LEMMA AdvanceInv == ASSUME Inv, NEW job \in Starter, NEW r, Advance(job, r) PROVE Inv'
<1>. DEFINE d == ChangedJob(chr, job, r)
            c == ResetStats(d)
            dirty == {"job", "sp", "maxHp", "maxMp"}
            told == Points \cup {"ap", "sp"}
<1>1. /\ online /\ chr["job"] = 0 /\ chr["level"] >= Required(job)[3] /\ Commit(c, dirty, told)
      /\ UNCHANGED overdrawn
  BY DEF Advance, Handled, Same
<1>2. Shaped(chr)
  BY DEF Inv
<1>3. d = [s \in Stat |-> d[s]] /\ d["job"] = job /\ d["sp"] \in Int /\ Within(d, chr, dirty)
  BY <1>2, ChangedJobKeeps DEF Shaped
<1>. HIDE DEF d
<1>4. \A s \in Points \cup {"level", "ap"} : d[s] = chr[s]
  BY <1>3 DEF Within, Stat, Points
<1>5. Shaped(d)
  BY <1>2, <1>3, <1>4 DEF Shaped
<1>6. Total(d) = Total(chr) /\ d["ap"] = chr["ap"] /\ d["level"] = chr["level"]
  BY <1>4 DEF Total, Points
<1>7. Brought(chr) = 25 + 5 * (chr["level"] - 1)
  <2>1. Cygnus(chr["job"]) = FALSE /\ chr["level"] \in Int
    BY <1>1, <1>2 DEF Cygnus, Shaped
  <2>. QED  BY <2>1, BroughtValue
<1>8. Shaped(c) /\ Within(c, d, told)
  BY <1>3, <1>5, ResetStatsKeeps
<1>9. ASSUME ~overdrawn PROVE Sound(c)
  <2>1. WellFormed(chr) /\ Balanced(chr)
    BY <1>9 DEF Inv, Sound
  <2>2. WellFormed(d)
    BY <1>4, <1>5, <2>1 DEF WellFormed
  <2>3. Total(d) + d["ap"] = 25 + 5 * (d["level"] - 1)
    BY <1>6, <1>7, <2>1 DEF Balanced
  <2>. QED  BY <1>1, <1>3, <1>5, <1>6, <2>2, <2>3, ResetStatsKeeps
<1>. HIDE DEF c
<1>10. Within(c, chr, dirty \cup told)
  BY <1>3, <1>8 DEF Within
<1>. HIDE DEF dirty, told
<1>. QED  BY <1>1, <1>8, <1>9, <1>10, TellKeeps

----------------------------------------------------------------------------
(* One level: its points and its vitals. *)
LevelUp(c) == LevelPoints([c EXCEPT !.exp = 0, !.level = @ + 1])

LEMMA LevelUpShaped ==
    ASSUME NEW c, Shaped(c)
    PROVE  /\ Shaped(LevelUp(c)) /\ LevelUp(c)["level"] = c["level"] + 1
           /\ Within(LevelUp(c), c, PointMarks(LevelUp(c)) \cup {"exp", "level"})
<1>. DEFINE new == [c EXCEPT !.exp = 0, !.level = @ + 1]
            up == LevelUp(c)
            job == c["job"]
            level == c["level"] + 1
            str5 == Int16(new["str"] + 5)
            str4 == Int16(new["str"] + 4)
            dex1 == Int16(new["dex"] + 1)
            ap == Int16(new["ap"] + LevelAp(new))
            sp == new["sp"] + IF Novice(job) THEN 0 ELSE 3
<1>. SUFFICES Shaped(up) /\ up["level"] = level /\ Within(up, c, PointMarks(up) \cup {"exp", "level"})
  OBVIOUS
<1>0. c["sp"] \in Int /\ level \in Int
  BY DEF Shaped
<1>1. /\ new = [s \in Stat |-> new[s]] /\ new["level"] = level /\ new["job"] = job
      /\ new["sp"] = c["sp"] /\ c["sp"] \in Int /\ level \in Int
      /\ Within(new, c, {"exp", "level"})
  <2>1. new = [[c EXCEPT !.exp = 0] EXCEPT !.level = level]
    BY Zenon
  <2>. HIDE DEF new, level, job
  <2>. QED  BY <1>0, <2>1 DEF job, Shaped, Within, Stat
<1>2. up = LevelPoints(new)
  BY Zenon DEF LevelUp
<1>. HIDE DEF new, up
<1>5. CASE Novice(job) /\ level <= 10 /\ level <= 5
  <2>1. up = [new EXCEPT !.str = str5]
    BY <1>1, <1>2, <1>5, Zenon DEF LevelPoints
  <2>. HIDE DEF str5
  <2>2. Shaped(up) /\ up["level"] = level /\ up["job"] = job /\ Within(up, new, {"str"})
    BY <1>1, <2>1 DEF Shaped, Within, Stat
  <2>3. PointMarks(up) = {"str"}
    BY <1>5, <2>2 DEF PointMarks
  <2>. QED  BY <1>1, <2>2, <2>3 DEF Within
<1>6. CASE Novice(job) /\ level <= 10 /\ ~(level <= 5)
  <2>1. up = [new EXCEPT !.str = str4, !.dex = dex1]
    BY <1>1, <1>2, <1>6, Zenon DEF LevelPoints
  <2>. HIDE DEF str4, dex1
  <2>2. Shaped(up) /\ up["level"] = level /\ up["job"] = job /\ Within(up, new, {"str", "dex"})
    BY <1>1, <2>1 DEF Shaped, Within, Stat
  <2>3. PointMarks(up) = {"str", "dex"}
    BY <1>6, <2>2 DEF PointMarks
  <2>. QED  BY <1>1, <2>2, <2>3 DEF Within
<1>7. CASE ~(Novice(job) /\ level <= 10)
  <2>1. up = [new EXCEPT !.ap = ap, !.sp = sp]
    BY <1>1, <1>2, <1>7, Zenon DEF LevelPoints
  <2>2. sp \in Int /\ (Novice(job) => sp = new["sp"])
    BY <1>1
  <2>. HIDE DEF ap, sp
  <2>3. /\ Shaped(up) /\ up["level"] = level /\ up["job"] = job
        /\ Within(up, new, IF Novice(job) THEN {"ap"} ELSE {"ap", "sp"})
    <3>1. /\ Shaped(up) /\ up["level"] = level /\ up["job"] = job
          /\ Within(up, new, {"ap", "sp"}) /\ up["sp"] = sp
      BY <1>1, <2>1, <2>2 DEF Shaped, Within, Stat
    <3>. QED  BY <2>2, <3>1 DEF Within
  <2>4. PointMarks(up) = {"ap"} \cup (IF Novice(job) THEN {} ELSE {"sp"})
    BY <1>7, <2>3, Zenon DEF PointMarks
  <2>. QED  BY <1>1, <2>3, <2>4 DEF Within
<1>. QED  BY <1>5, <1>6, <1>7

LEMMA LevelUpSound ==
    ASSUME NEW c, Sound(c), c["level"] < HighestLevel
    PROVE  Sound(LevelUp(c))
<1>. DEFINE new == [c EXCEPT !.exp = 0, !.level = @ + 1]
            up == LevelUp(c)
            job == c["job"]
            level == c["level"] + 1
            more == LevelAp(new)
            str5 == Int16(new["str"] + 5)
            str4 == Int16(new["str"] + 4)
            dex1 == Int16(new["dex"] + 1)
            ap == Int16(new["ap"] + more)
            sp == new["sp"] + IF Novice(job) THEN 0 ELSE 3
<1>. SUFFICES Sound(up)
  OBVIOUS
<1>1. /\ new = [s \in Stat |-> new[s]] /\ new["level"] = level /\ new["job"] = job
      /\ \A s \in Points \cup {"ap", "sp"} : new[s] = c[s]
  BY DEF Sound, WellFormed, Shaped, Stat, Points
<1>2. up = LevelPoints(new)
  BY Zenon DEF LevelUp
<1>3. /\ Shaped(up) /\ up["level"] = level /\ level \in Int /\ level <= HighestLevel
      /\ Small(c["ap"]) /\ Small(Total(c)) /\ Total(c) + c["ap"] = Brought(c)
      /\ Small(c["str"]) /\ Small(c["dex"]) /\ Small(c["int"]) /\ Small(c["luk"])
  <2>1. Shaped(c)
    BY DEF Sound, WellFormed
  <2>2. level \in Int /\ level <= HighestLevel
    BY <2>1 DEF Shaped, HighestLevel
  <2>. QED  BY <2>1, <2>2, LevelUpShaped, SoundBounded DEF Sound, Balanced, Points
<1>. HIDE DEF new, up
<1>4. Brought(c) = 25 + 5 * (level - 2)
                + (IF Cygnus(job)
                   THEN 2 * (IF level < 12 THEN 0 ELSE IF level < 18 THEN level - 11 ELSE 7)
                        + (IF level < 19 THEN 0 ELSE IF level < 77 THEN level - 18 ELSE 59)
                   ELSE 0)
  BY BroughtValue DEF Sound, WellFormed, Shaped
<1>5. CASE Novice(job) /\ level <= 10 /\ level <= 5
  <2>1. up = [new EXCEPT !.str = str5]
    BY <1>1, <1>2, <1>5, Zenon DEF LevelPoints
  <2>2. str5 = c["str"] + 5
    BY <1>1, <1>3, Int16Same DEF Points, Small
  <2>. HIDE DEF str5
  <2>3. /\ up["job"] = job /\ up["ap"] = c["ap"] /\ up["str"] = c["str"] + 5
        /\ up["dex"] = c["dex"] /\ up["int"] = c["int"] /\ up["luk"] = c["luk"]
    BY <1>1, <2>1, <2>2 DEF Stat, Points
  <2>4. WellFormed(up)
    BY <1>3, <2>3 DEF WellFormed, Points, Small
  <2>5. Total(up) = Total(c) + 5
    BY <1>3, <2>3 DEF Total, Small
  <2>6. Brought(up) = Brought(c) + 5
    BY <1>3, <1>4, <1>5, <2>3, BroughtValue
  <2>. QED  BY <1>3, <2>3, <2>4, <2>5, <2>6 DEF Balanced, Sound, Small
<1>6. CASE Novice(job) /\ level <= 10 /\ ~(level <= 5)
  <2>1. up = [new EXCEPT !.str = str4, !.dex = dex1]
    BY <1>1, <1>2, <1>6, Zenon DEF LevelPoints
  <2>2. str4 = c["str"] + 4 /\ dex1 = c["dex"] + 1
    BY <1>1, <1>3, Int16Same DEF Points, Small
  <2>. HIDE DEF str4, dex1
  <2>3. /\ up["job"] = job /\ up["ap"] = c["ap"] /\ up["str"] = c["str"] + 4
        /\ up["dex"] = c["dex"] + 1 /\ up["int"] = c["int"] /\ up["luk"] = c["luk"]
    BY <1>1, <2>1, <2>2 DEF Stat, Points
  <2>4. WellFormed(up)
    BY <1>3, <2>3 DEF WellFormed, Points, Small
  <2>5. Total(up) = Total(c) + 5
    BY <1>3, <2>3 DEF Total, Small
  <2>6. Brought(up) = Brought(c) + 5
    BY <1>3, <1>4, <1>6, <2>3, BroughtValue
  <2>. QED  BY <1>3, <2>3, <2>4, <2>5, <2>6 DEF Balanced, Sound, Small
<1>7. CASE ~(Novice(job) /\ level <= 10)
  <2>1. up = [new EXCEPT !.ap = ap, !.sp = sp]
    BY <1>1, <1>2, <1>7, Zenon DEF LevelPoints
  <2>2. more = 5 + (IF ~Cygnus(job) \/ level <= 10 THEN 0
                    ELSE IF level <= 17 THEN 2 ELSE IF level < 77 THEN 1 ELSE 0)
    BY <1>1, Zenon DEF LevelAp
  <2>3. more \in Nat /\ more <= 7
    BY <2>2
  <2>. HIDE DEF more
  <2>4. ap = c["ap"] + more
    BY <1>1, <1>3, <2>3, Int16Same DEF Small
  <2>. HIDE DEF ap, sp
  <2>5. up["job"] = job /\ up["ap"] = c["ap"] + more /\ \A p \in Points : up[p] = c[p]
    BY <1>1, <2>1, <2>4 DEF Stat, Points
  <2>6. WellFormed(up)
    BY <1>3, <2>3, <2>5 DEF WellFormed, Points, Small
  <2>7. Total(up) = Total(c)
    BY <2>5 DEF Total, Points
  <2>8. Brought(up) = Brought(c) + more
    BY <1>3, <1>4, <2>2, <2>5, BroughtValue
  <2>. QED  BY <1>3, <2>3, <2>5, <2>6, <2>7, <2>8 DEF Balanced, Sound, Small
<1>. QED  BY <1>5, <1>6, <1>7

LEMMA LevelVitalsKeeps ==
    ASSUME NEW c, c = [s \in Stat |-> c[s]], NEW r
    PROVE  /\ LevelVitals(c, r) = [s \in Stat |-> LevelVitals(c, r)[s]]
           /\ Within(LevelVitals(c, r), c, {"maxHp", "maxMp", "hp", "mp"})
<1>. DEFINE share == EffectiveInt(c) \div (IF Mage(c.job) THEN 20 ELSE 10)
            c1 == SetMaxHp(c, c.maxHp + Growth(c.job, r)[1])
            c0 == SetMaxMp(c1, c.maxMp + Growth(c.job, r)[2])
            c2 == SetMaxMp(c0, c0.maxMp + share)
            c3 == SetHp(c2, EffectiveHp(c2))
            c4 == SetMp(c3, EffectiveMp(c2))
<1>1. LevelVitals(c, r) = c4
  BY Zenon DEF LevelVitals
<1>2. c1 = [s \in Stat |-> c1[s]] /\ Within(c1, c, {"maxHp"})
  BY SetVitals
<1>. HIDE DEF c1
<1>7. c0 = [s \in Stat |-> c0[s]] /\ Within(c0, c1, {"maxMp"})
  BY <1>2, SetVitals
<1>. HIDE DEF c0
<1>3. c2 = [s \in Stat |-> c2[s]] /\ Within(c2, c0, {"maxMp"})
  BY <1>7, SetVitals
<1>. HIDE DEF c2
<1>4. c3 = [s \in Stat |-> c3[s]] /\ Within(c3, c2, {"hp"})
  BY <1>3, SetVitals
<1>. HIDE DEF c3
<1>5. c4 = [s \in Stat |-> c4[s]] /\ Within(c4, c3, {"mp"})
  BY <1>4, SetVitals
<1>. HIDE DEF c4
<1>6. Within(c4, c, {"maxHp", "maxMp", "hp", "mp"})
  BY <1>2, <1>3, <1>4, <1>5, <1>7 DEF Within
<1>. QED  BY <1>1, <1>5, <1>6

(* What the first n rounds of client_gain_exp's loop keep: the character   *)
(* differs from the one before the call in marked and sent stats only, is  *)
(* at most n levels higher, and is sound if that one is.                   *)
Gaining(g, n) ==
    /\ g = [c |-> g.c, exp |-> g.exp, marks |-> g.marks, told |-> g.told]
    /\ Shaped(g.c) /\ g.c["level"] <= chr["level"] + n
    /\ Within(g.c, chr, g.marks \cup g.told)
    /\ "exp" \in g.marks /\ g.told \subseteq {"level"}
    /\ Sound(chr) => Sound(g.c)

LEMMA GainStepKeeps ==
    ASSUME NEW g, NEW n \in Nat, Gaining(g, n), NEW r,
           chr["level"] \in Int, chr["level"] + n < HighestLevel
    PROVE  Gaining(GainStep(g, r), n + 1)
<1>. DEFINE c == g.c
            remaining == ExpTable[c.level] - c.exp
            up == LevelUp(c)
            d == LevelVitals(up, r)
<1>1. /\ Shaped(c) /\ Within(c, chr, g.marks \cup g.told) /\ (Sound(chr) => Sound(c))
      /\ c["level"] \in Int /\ c["level"] <= chr["level"] + n
  BY DEF Gaining, Shaped
<1>0. c["level"] + 1 <= chr["level"] + n + 1 /\ c["level"] <= chr["level"] + (n + 1)
      /\ c["level"] < HighestLevel
  <2>. HIDE DEF c
  <2>. QED  BY <1>1 DEF HighestLevel
<1>2. CASE g.exp < 0
  BY <1>0, <1>2 DEF GainStep, Gaining
<1>3. CASE ~(g.exp < 0) /\ g.exp < remaining
  <2>. DEFINE x == c.exp + g.exp
              e == [c EXCEPT !.exp = x]
              h == [c |-> e, exp |-> g.exp - remaining, marks |-> g.marks, told |-> g.told]
  <2>1. GainStep(g, r) = [g EXCEPT !.c.exp = x, !.exp = g.exp - remaining]
    BY <1>3, Zenon DEF GainStep
  <2>2. GainStep(g, r) = h
    <3>. HIDE DEF x, remaining
    <3>. QED  BY <2>1 DEF Gaining
  <2>. HIDE DEF x
  <2>3. e = [s \in Stat |-> e[s]] /\ Within(e, c, {"exp"})
    BY <1>1 DEF Shaped, Within, Stat
  <2>. HIDE DEF e
  <2>4. Shaped(e) /\ (Sound(c) => Sound(e)) /\ e["level"] = c["level"]
    <3>1. Within(e, c, Vital)
      BY <2>3 DEF Within, Vital
    <3>. HIDE DEF c
    <3>. QED  BY <1>1, <2>3, <3>1, VitalKeeps
  <2>5. Within(e, chr, g.marks \cup g.told)
    BY <1>1, <2>3 DEF Within, Gaining
  <2>. QED  BY <1>0, <1>1, <2>2, <2>4, <2>5 DEF Gaining
<1>4. CASE ~(g.exp < 0) /\ ~(g.exp < remaining)
  <2>. DEFINE marks == g.marks \cup PointMarks(up) \cup {"maxHp", "maxMp", "hp", "mp"}
              h == [c |-> d, exp |-> g.exp - remaining, marks |-> marks, told |-> {"level"}]
  <2>1. GainStep(g, r) = h
    BY <1>4, Zenon DEF GainStep, LevelUp
  <2>2. /\ Shaped(up) /\ Within(up, c, PointMarks(up) \cup {"exp", "level"})
        /\ up["level"] = c["level"] + 1 /\ (Sound(c) => Sound(up))
    <3>. HIDE DEF c
    <3>. QED  BY <1>0, <1>1, LevelUpShaped, LevelUpSound
  <2>. HIDE DEF up
  <2>3. d = [s \in Stat |-> d[s]] /\ Within(d, up, {"maxHp", "maxMp", "hp", "mp"})
    BY <2>2, LevelVitalsKeeps DEF Shaped
  <2>. HIDE DEF d
  <2>4. Shaped(d) /\ (Sound(up) => Sound(d)) /\ d["level"] = up["level"]
    <3>1. Within(d, up, Vital)
      BY <2>3 DEF Within, Vital
    <3>. QED  BY <2>2, <2>3, <3>1, VitalKeeps
  <2>5. Within(d, chr, marks \cup {"level"})
    BY <1>1, <2>2, <2>3 DEF Within, Gaining
  <2>6. "exp" \in marks
    BY DEF Gaining
  <2>7. d["level"] <= chr["level"] + (n + 1)
    BY <1>0, <1>1, <2>2, <2>4
  <2>. HIDE DEF marks
  <2>. QED  BY <1>1, <2>1, <2>2, <2>4, <2>5, <2>6, <2>7 DEF Gaining
<1>. QED  BY <1>2, <1>3, <1>4

(* A nonempty set of naturals has a least element. *)
LEMMA LeastNatural ==
    ASSUME NEW T \in SUBSET Nat, T # {}
    PROVE  \E x \in T : \A y \in T : x <= y
<1>1. PICK x \in T : \A y \in T : ~(<<y, x>> \in OpToRel(<, Nat))
  BY WFMin, NatLessThanWellFounded
<1>2. \A y \in T : ~(y < x)
  BY <1>1 DEF OpToRel
<1>. QED  BY <1>2

(* The rounds of the loop, as a function of their number. *)
Rounds(f, n, exp, r) ==
    f = [i \in 0 .. n |->
            IF i = 0 THEN [c |-> chr, exp |-> exp, marks |-> {"exp"}, told |-> {}]
            ELSE GainStep(f[i - 1], r)]

LEMMA RoundsExist ==
    ASSUME NEW exp, NEW r, NEW n \in Nat
    PROVE  \E f : Rounds(f, n, exp, r)
<1>. DEFINE g0 == [c |-> chr, exp |-> exp, marks |-> {"exp"}, told |-> {}]
            Gaps == {m \in Nat : ~ \E f : Rounds(f, m, exp, r)}
<1>. SUFFICES ASSUME Gaps # {} PROVE FALSE
  OBVIOUS
<1>1. PICK m \in Gaps : \A y \in Gaps : m <= y
  BY LeastNatural
<1>2. m # 0
  <2>. DEFINE f == [i \in 0 .. 0 |-> g0]
  <2>. HIDE DEF g0
  <2>1. f = [i \in 0 .. 0 |-> IF i = 0 THEN g0 ELSE GainStep(f[i - 1], r)]
    OBVIOUS
  <2>2. Rounds(f, 0, exp, r)
    BY <2>1, Zenon DEF Rounds, g0
  <2>. QED  BY <2>2
<1>3. m - 1 \in Nat /\ m - 1 \notin Gaps
  BY <1>1, <1>2
<1>4. PICK f : Rounds(f, m - 1, exp, r)
  BY <1>3
<1>5. f = [i \in 0 .. (m - 1) |-> IF i = 0 THEN g0 ELSE GainStep(f[i - 1], r)]
  BY <1>4, Zenon DEF Rounds
<1>. HIDE DEF g0
<1>. DEFINE h == [i \in 0 .. m |-> IF i = m THEN GainStep(f[m - 1], r) ELSE f[i]]
<1>6. h = [i \in 0 .. m |-> IF i = 0 THEN g0 ELSE GainStep(h[i - 1], r)]
  <2>1. ASSUME NEW i \in 0 .. m
        PROVE  h[i] = IF i = 0 THEN g0 ELSE GainStep(h[i - 1], r)
    <3>1. CASE i = 0
      BY <1>2, <1>3, <1>5, <3>1
    <3>2. CASE i = m
      BY <1>2, <1>3, <3>2
    <3>3. CASE i # 0 /\ i # m
      <4>1. i \in 0 .. (m - 1) /\ i - 1 \in 0 .. m /\ i - 1 # m
        BY <3>3
      <4>2. h[i] = f[i] /\ h[i - 1] = f[i - 1]
        BY <3>3, <4>1
      <4>3. f[i] = GainStep(f[i - 1], r)
        BY <1>5, <3>3, <4>1
      <4>. QED  BY <3>3, <4>2, <4>3
    <3>. QED  BY <3>1, <3>2, <3>3
  <2>. DEFINE k == [i \in 0 .. m |-> IF i = 0 THEN g0 ELSE GainStep(h[i - 1], r)]
  <2>2. \A i \in 0 .. m : h[i] = k[i]
    <3>. HIDE DEF h
    <3>. QED  BY <2>1
  <2>. QED  BY <2>2
<1>7. Rounds(h, m, exp, r)
  <2>. HIDE DEF h
  <2>. QED  BY <1>6, Zenon DEF Rounds, g0
<1>. QED  BY <1>7

LEMMA RoundsKeep ==
    ASSUME NEW exp, NEW r, NEW n \in Nat, NEW f, Rounds(f, n, exp, r),
           Shaped(chr), chr["level"] + n <= HighestLevel
    PROVE  Gaining(f[n], n)
<1>. DEFINE g0 == [c |-> chr, exp |-> exp, marks |-> {"exp"}, told |-> {}]
            Bad == {m \in 0 .. n : ~Gaining(f[m], m)}
<1>1. f = [i \in 0 .. n |-> IF i = 0 THEN g0 ELSE GainStep(f[i - 1], r)]
  BY Zenon DEF Rounds
<1>2. Gaining(g0, 0)
  BY DEF Gaining, Within, Shaped
<1>. HIDE DEF g0
<1>. SUFFICES ASSUME Bad # {} PROVE FALSE
  OBVIOUS
<1>6. Bad \in SUBSET Nat
  OBVIOUS
<1>3. PICK m \in Bad : \A y \in Bad : m <= y
  <2>. HIDE DEF Bad
  <2>. QED  BY <1>6, LeastNatural
<1>4. m # 0
  BY <1>1, <1>2
<1>5. m - 1 \in 0 .. n /\ m - 1 \notin Bad /\ f[m] = GainStep(f[m - 1], r)
  BY <1>1, <1>3, <1>4
<1>7. m - 1 \in Nat /\ (m - 1) + 1 = m /\ chr["level"] \in Int /\ chr["level"] + (m - 1) < HighestLevel
  BY <1>5, <1>3 DEF Shaped, HighestLevel
<1>8. Gaining(f[m - 1], m - 1)
  BY <1>5
<1>9. Gaining(GainStep(f[m - 1], r), (m - 1) + 1)
  <2>. HIDE DEF Bad
  <2>. QED  BY <1>7, <1>8, GainStepKeeps
<1>. QED  BY <1>3, <1>5, <1>7, <1>9

LEMMA LoopKeeps ==
    ASSUME Inv, NEW exp \in Nat, NEW r, chr["level"] + exp + 1 \in DOMAIN ExpTable
    PROVE  Gaining(Loop(exp, r), exp + 1)
<1>1. PICK f : Rounds(f, exp + 1, exp, r)
  BY RoundsExist
<1>2. Loop(exp, r) = (CHOOSE g : Rounds(g, exp + 1, exp, r))[exp + 1]
  BY Zenon DEF Loop, Rounds
<1>3. Rounds(CHOOSE g : Rounds(g, exp + 1, exp, r), exp + 1, exp, r)
  BY <1>1, Zenon
<1>4. Shaped(chr) /\ chr["level"] + (exp + 1) <= HighestLevel
  BY LevelsCost DEF Inv, Shaped, HighestLevel
<1>. QED  BY <1>2, <1>3, <1>4, RoundsKeep

LEMMA GainExpInv ==
    ASSUME Inv, NEW exp \in Nat, NEW r, NEW commits \in BOOLEAN, GainExp(exp, r, commits)
    PROVE  Inv'
<1>. DEFINE g == Loop(exp, r)
<1>1. /\ online /\ (Commit(g.c, g.marks, g.told) \/ Later(g.c, g.marks, g.told))
      /\ chr["level"] + exp + 1 \in DOMAIN ExpTable /\ UNCHANGED overdrawn
  BY Zenon DEF GainExp, Handled, Same
<1>2. Shaped(g.c) /\ (Sound(chr) => Sound(g.c)) /\ Within(g.c, chr, g.marks \cup g.told)
  BY <1>1, LoopKeeps DEF Gaining
<1>. HIDE DEF g
<1>. QED  BY <1>1, <1>2, TellKeeps DEF Inv

----------------------------------------------------------------------------
LEMMA InitInv == Init => Inv
<1>. SUFFICES ASSUME Init PROVE Inv
  OBVIOUS
<1>1. /\ chr \in [Stat -> Int] /\ (\A p \in Points : chr[p] >= 0)
      /\ chr["level"] <= HighestLevel /\ Balanced(chr) /\ shown = chr
  BY StartBalanced DEF Init
<1>2. WellFormed(chr)
  BY <1>1 DEF WellFormed, Shaped, Stat, Points, Balanced
<1>. QED  BY <1>1, <1>2 DEF Inv, StatsShown, Sound, WellFormed

LEMMA NextInv == Inv /\ [Next]_vars => Inv'
<1>. SUFFICES ASSUME Inv, [Next]_vars PROVE Inv'
  OBVIOUS
<1>1. ASSUME NEW exp \in {1, 2, 5}, NEW r \in LevelRoll, NEW commits \in BOOLEAN,
             GainExp(exp, r, commits)
      PROVE  Inv'
  BY <1>1, GainExpInv
<1>2. ASSUME NEW stat \in Points, AssignAp(stat) PROVE Inv'
  BY <1>2, AssignApInv
<1>3. ASSUME NEW n1 \in Amount, NEW n2 \in Amount, AutoAssignAp("str", n1, "dex", n2) PROVE Inv'
  BY <1>3, AutoAssignApInv DEF Points
<1>4. ASSUME NEW id \in Skill, AssignSp(id) PROVE Inv'
  BY <1>4, AssignSpInv
<1>5. ASSUME NEW job \in {100, 200, 300, 400}, NEW r \in JobRoll, Advance(job, r) PROVE Inv'
  BY <1>5, AdvanceInv DEF Starter
<1>6. ASSUME NEW n, TakeDamage(n) PROVE Inv'
  BY <1>6, TakeDamageInv
<1>7. ASSUME NEW hp, Heal(hp, 3) PROVE Inv'
  BY <1>7, HealInv
<1>8. CASE ScriptSetHp(25)
  BY <1>8, ScriptSetHpInv
<1>9. CASE GainHp(-5) \/ GainMp(10) \/ Revive
  BY <1>9, SetNow DEF GainHp, GainMp, Revive, Handled, Same
<1>10. CASE GainFame(1)
  BY <1>10, GainFameInv
<1>11. CASE UseItem(50, 0, 0, 0) \/ UseItem(0, 50, 0, 50)
  BY <1>11, UseItemInv
<1>12. ASSUME NEW bonus \in Bonus, Unequip(bonus) PROVE Inv'
  BY <1>12, UnequipInv
<1>13. CASE UNCHANGED vars \/ Login \/ \E bonus \in Bonus : Equip(bonus)
  BY <1>13, OthersInv
<1>14. CASE MagicAttack
  BY <1>14, MagicAttackInv
<1>15. CASE Next
  BY <1>1, <1>2, <1>3, <1>4, <1>5, <1>6, <1>7, <1>8, <1>9, <1>10, <1>11, <1>12, <1>13, <1>14, <1>15 DEF Next
<1>. QED  BY <1>13, <1>15

(* The client of a character that is online shows every stat that is not   *)
(* marked for the next commit, for every table of experience, every skill  *)
(* and every equipment: no handler changes a stat in silence.              *)
THEOREM StatsAreShown == Spec => []StatsShown
<1>1. Inv => StatsShown
  BY DEF Inv
<1>. QED  BY <1>1, InitInv, NextInv, PTL DEF Spec

(* Assigned and free points together are what the levels brought, whatever *)
(* the order of level-ups, assignments of any amount and advancements, and *)
(* never owed, as long as no stat has been overdrawn.                      *)
THEOREM PointsAreConserved == Spec => []PointsConserved
<1>1. Inv => PointsConserved
  BY DEF Inv, Sound, PointsConserved
<1>. QED  BY <1>1, InitInv, NextInv, PTL DEF Spec

----------------------------------------------------------------------------
(* Quests. What its state is, and what holds between two calls.            *)
Progresses(st) ==
    /\ st = [q \in DOMAIN st |-> st[q]]
    /\ DOMAIN st \subseteq Quest /\ IsFiniteSet(DOMAIN st)
    /\ \A q \in DOMAIN st : st[q] \in [1 .. Len(Mobs(q)) -> Nat]

Shape ==
    /\ Progresses(started)
    /\ refCount \in [Mob -> Int]
    /\ wanted \in [Item -> Nat]
    /\ have \in [Item -> Nat]
    /\ script \in [kind : {"none", "start", "end", "other"}, quest : Quest \cup {NoQuest},
                   called : BOOLEAN, state : State \cup {"none"}]

Apart == Started \cap completed = {}

(* The quest of a script that has not made its call: nobody else starts or *)
(* ends it, and the items it will need are already wanted.                 *)
Waits(s) ==
    /\ s.kind = "none" => s = NoScript
    /\ s.kind = "start" /\ ~s.called =>
          /\ s.quest \in Quest /\ Info[s.quest].startScript = TRUE
          /\ s.quest \notin Started \cup completed
          /\ \A i \in Item : Needs(s.quest, i) > 0 => wanted[i] > 0
    /\ s.kind = "end" /\ ~s.called =>
          /\ s.quest \in Quest /\ Info[s.quest].endScript = TRUE
          /\ s.quest \notin completed

QuestInv ==
    /\ Shape
    /\ Apart
    /\ Waits(script)
    /\ NeededItemsAvailable
    /\ KillsAreCounted

----------------------------------------------------------------------------
(* The entries for monster m that the started quests still have to see     *)
(* killed.                                                                 *)
Open(st, m) ==
    {x \in (DOMAIN st) \X (1 .. MaxMobs) : x[2] \in Unmet(x[1], st[x[1]]) /\ Mobs(x[1])[x[2]].id = m}

Counted(st, refs) == \A m \in Mob : refs[m] >= Cardinality(Open(st, m))

LEMMA LoadedIsOpen == ASSUME NEW m \in Mob PROVE LoadedRefs[m] = Cardinality(Open(started, m))
BY DEF LoadedRefs, Open, Started

LEMMA CountedIsCounted == KillsAreCounted <=> Counted(started, refCount)
BY LoadedIsOpen DEF KillsAreCounted, Counted

LEMMA MobsType ==
    ASSUME NEW q \in Quest
    PROVE  /\ Len(Mobs(q)) \in Nat /\ Len(Mobs(q)) <= MaxMobs
           /\ \A k \in 1 .. Len(Mobs(q)) : Mobs(q)[k].id \in Mob /\ Mobs(q)[k].count \in Nat
<1>. DEFINE E == [id : Mob, count : Nat]
<1>1. Mobs(q) \in Seq(E) /\ Len(Mobs(q)) <= MaxMobs
  BY InfoType, Zenon DEF Mobs
<1>. HIDE DEF E
<1>2. Len(Mobs(q)) \in Nat /\ \A k \in 1 .. Len(Mobs(q)) : Mobs(q)[k] \in E
  BY <1>1
<1>. QED  BY <1>1, <1>2 DEF E

LEMMA OpenFinite ==
    ASSUME NEW st, IsFiniteSet(DOMAIN st), NEW m
    PROVE  IsFiniteSet(Open(st, m)) /\ Cardinality(Open(st, m)) \in Nat
<1>1. IsFiniteSet(1 .. MaxMobs)
  BY FS_Interval, BoundsType
<1>2. IsFiniteSet((DOMAIN st) \X (1 .. MaxMobs))
  BY <1>1, FS_Product
<1>3. IsFiniteSet(Open(st, m))
  BY <1>2, FS_Subset DEF Open
<1>. QED  BY <1>3, FS_CardinalityType

LEMMA OpenShrinks ==
    ASSUME NEW st, NEW st2, IsFiniteSet(DOMAIN st), NEW m, Open(st2, m) \subseteq Open(st, m)
    PROVE  Cardinality(Open(st2, m)) <= Cardinality(Open(st, m))
BY OpenFinite, FS_Subset

(* The entries of one quest for a monster. *)
LEMMA EntriesFinite ==
    ASSUME NEW q \in Quest, NEW K \in SUBSET (1 .. Len(Mobs(q)))
    PROVE  /\ IsFiniteSet(K) /\ Cardinality(K) \in Nat
           /\ IsFiniteSet({q} \X K) /\ Cardinality({q} \X K) = Cardinality(K)
<1>0. IsFiniteSet(1 .. Len(Mobs(q)))
  BY MobsType, FS_Interval
<1>1. IsFiniteSet(K) /\ Cardinality(K) \in Nat
  BY <1>0, FS_Subset, FS_CardinalityType
<1>2. IsFiniteSet({q}) /\ Cardinality({q}) = 1
  BY FS_Singleton
<1>3. IsFiniteSet({q} \X K) /\ Cardinality({q} \X K) = Cardinality({q}) * Cardinality(K)
  BY <1>1, <1>2, FS_Product
<1>. QED  BY <1>1, <1>2, <1>3

(* client_start_quest counts the monsters of the quest it starts. *)
LEMMA BegunCounted ==
    ASSUME Progresses(started), Counted(started, refCount), refCount \in [Mob -> Int],
           NEW q \in Quest, refCount' = CountMobs(q)
    PROVE  Counted(Begun(q), refCount') /\ refCount' \in [Mob -> Int]
<1>1. ASSUME NEW m \in Mob
      PROVE  refCount'[m] \in Int /\ refCount'[m] >= Cardinality(Open(Begun(q), m))
  <2>. DEFINE K == {k \in 1 .. Len(Mobs(q)) : Mobs(q)[k].id = m}
              O == Open(started, m)
              P == {q} \X K
  <2>1. K \in SUBSET (1 .. Len(Mobs(q)))
    OBVIOUS
  <2>2. refCount'[m] = refCount[m] + Cardinality(K)
    BY DEF CountMobs
  <2>3. Open(Begun(q), m) \subseteq O \cup P
    BY DEF Open, Begun, Started, Unmet
  <2>. HIDE DEF K
  <2>4. Cardinality(K) \in Nat /\ IsFiniteSet(P) /\ Cardinality(P) = Cardinality(K)
    BY <2>1, EntriesFinite
  <2>5. IsFiniteSet(O) /\ Cardinality(O) \in Nat
    BY OpenFinite DEF Progresses
  <2>. HIDE DEF O, P
  <2>6. IsFiniteSet(O \cup P) /\ Cardinality(O \cup P) = Cardinality(O) + Cardinality(P) - Cardinality(O \cap P)
    BY <2>4, <2>5, FS_Union
  <2>7. Cardinality(O \cap P) \in Nat
    <3>1. O \cap P \in SUBSET O
      OBVIOUS
    <3>. QED  BY <2>5, <3>1, FS_Subset, FS_CardinalityType
  <2>8. Cardinality(Open(Begun(q), m)) <= Cardinality(O \cup P) /\ Cardinality(Open(Begun(q), m)) \in Nat
    BY <2>3, <2>6, FS_Subset, FS_CardinalityType
  <2>9. refCount[m] \in Int /\ refCount[m] >= Cardinality(O)
    BY DEF Counted, O
  <2>. QED  BY <2>2, <2>4, <2>5, <2>6, <2>7, <2>8, <2>9
<1>2. refCount' = [m \in Mob |-> refCount'[m]]
  BY DEF CountMobs
<1>. QED  BY <1>1, <1>2 DEF Counted

(* Giving a quest up takes its entries away. *)
LEMMA DroppedOpen ==
    ASSUME Progresses(started), NEW q, NEW m
    PROVE  Open(Dropped(q), m) = {x \in Open(started, m) : x[1] # q}
BY DEF Open, Dropped, Restrict, Started, Progresses

LEMMA DroppedCounted ==
    ASSUME Progresses(started), Counted(started, refCount), NEW q, NEW refs \in [Mob -> Int],
           \A m \in Mob : refs[m] >= refCount[m], refCount \in [Mob -> Int]
    PROVE  Counted(Dropped(q), refs)
<1>. SUFFICES ASSUME NEW m \in Mob
              PROVE  refs[m] >= Cardinality(Open(Dropped(q), m))
  BY DEF Counted
<1>1. Open(Dropped(q), m) \subseteq Open(started, m)
  BY DroppedOpen
<1>2. Cardinality(Open(Dropped(q), m)) <= Cardinality(Open(started, m))
  BY <1>1, OpenShrinks DEF Progresses
<1>3. IsFiniteSet(Open(Dropped(q), m)) /\ Cardinality(Open(Dropped(q), m)) \in Nat /\ Cardinality(Open(started, m)) \in Nat
  BY <1>1, OpenFinite, FS_Subset, FS_CardinalityType DEF Progresses
<1>4. refCount[m] >= Cardinality(Open(started, m)) /\ refs[m] >= refCount[m] /\ refs[m] \in Int /\ refCount[m] \in Int
  BY DEF Counted
<1>. QED  BY <1>2, <1>3, <1>4

LEMMA ForfeitCounted ==
    ASSUME Progresses(started), Counted(started, refCount), refCount \in [Mob -> Int],
           NEW q \in Started, refCount' = Uncount(q)
    PROVE  Counted(Dropped(q), refCount') /\ refCount' \in [Mob -> Int]
<1>0. q \in Quest
  BY DEF Progresses, Started
<1>1. ASSUME NEW m \in Mob
      PROVE  refCount'[m] \in Int /\ refCount'[m] >= Cardinality(Open(Dropped(q), m))
  <2>. DEFINE K == {k \in Unmet(q, started[q]) : Mobs(q)[k].id = m}
              O == Open(started, m)
              D == Open(Dropped(q), m)
              P == {q} \X K
  <2>1. K \in SUBSET (1 .. Len(Mobs(q)))
    BY DEF Unmet
  <2>2. refCount'[m] = refCount[m] - Cardinality(K)
    BY DEF Uncount
  <2>3. P \subseteq O
    BY <1>0, MobsType, BoundsType DEF Open, Started, Unmet
  <2>10. D \subseteq O /\ D \cap P = {}
    BY DroppedOpen
  <2>. HIDE DEF K
  <2>4. Cardinality(K) \in Nat /\ IsFiniteSet(P) /\ Cardinality(P) = Cardinality(K)
    BY <1>0, <2>1, EntriesFinite
  <2>5. IsFiniteSet(O) /\ Cardinality(O) \in Nat
    BY OpenFinite DEF Progresses
  <2>9. refCount[m] \in Int /\ refCount[m] >= Cardinality(O)
    BY DEF Counted
  <2>. HIDE DEF O, P, D
  <2>6. IsFiniteSet(D) /\ Cardinality(D) \in Nat
    BY <2>5, <2>10, FS_Subset, FS_CardinalityType
  <2>7. Cardinality(D \cup P) = Cardinality(D) + Cardinality(P) - Cardinality({})
    BY <2>4, <2>6, <2>10, FS_Union
  <2>8. Cardinality(D \cup P) <= Cardinality(O) /\ Cardinality({}) = 0
    BY <2>3, <2>5, <2>10, FS_Subset, FS_EmptySet
  <2>. QED  BY <2>2, <2>4, <2>5, <2>6, <2>7, <2>8, <2>9 DEF D
<1>2. refCount' = [m \in Mob |-> refCount'[m]]
  BY DEF Uncount
<1>. QED  BY <1>1, <1>2 DEF Counted

----------------------------------------------------------------------------

LEMMA FirstIn == ASSUME NEW ks \in SUBSET Nat, ks # {} PROVE First(ks) \in ks
<1>1. \E k \in ks : \A j \in ks : k <= j
  BY LeastNatural
<1>. QED  BY <1>1 DEF First

(* check_progress counts one entry at most, of the monster that died, and  *)
(* an entry that reaches its count is no longer open.                      *)
LEMMA CheckedProgress ==
    ASSUME NEW q \in Quest, NEW p \in [1 .. Len(Mobs(q)) -> Nat], NEW id
    PROVE  /\ CheckProgress(q, p, id) \in [1 .. Len(Mobs(q)) -> Nat]
           /\ Unmet(q, CheckProgress(q, p, id)) \subseteq Unmet(q, p)
           /\ Reached(q, p, id) =>
                /\ First(Entry(q, p, id)) \in Unmet(q, p) \ Unmet(q, CheckProgress(q, p, id))
                /\ Mobs(q)[First(Entry(q, p, id))].id = id
<1>. DEFINE ks == Entry(q, p, id)
            f == First(ks)
            c == CheckProgress(q, p, id)
<1>1. /\ Len(Mobs(q)) \in Nat /\ \A k \in 1 .. Len(Mobs(q)) : Mobs(q)[k].count \in Nat
  BY MobsType
<1>2. ks \subseteq 1 .. Len(Mobs(q)) /\ ks \in SUBSET Nat /\ \A k \in ks : k \in Unmet(q, p) /\ Mobs(q)[k].id = id
  BY <1>1 DEF Entry, Unmet
<1>3. CASE ks = {}
  BY <1>3 DEF CheckProgress, Reached
<1>4. CASE ks # {}
  <2>. HIDE DEF ks
  <2>1. f \in ks
    BY <1>2, <1>4, FirstIn
  <2>2. c = [p EXCEPT ![f] = p[f] + 1]
    BY <1>4 DEF CheckProgress, ks
  <2>. HIDE DEF f
  <2>3. f \in 1 .. Len(Mobs(q)) /\ p[f] \in Nat
    BY <1>2, <2>1
  <2>. HIDE DEF c
  <2>4. c \in [1 .. Len(Mobs(q)) -> Nat]
    BY <2>2, <2>3
  <2>5. c[f] = p[f] + 1 /\ \A k \in 1 .. Len(Mobs(q)) : c[k] = IF k = f THEN p[f] + 1 ELSE p[k]
    BY <2>2, <2>3
  <2>6. Unmet(q, c) \subseteq Unmet(q, p)
    BY <1>1, <2>3, <2>5 DEF Unmet
  <2>7. ASSUME Reached(q, p, id) PROVE f \in Unmet(q, p) /\ f \notin Unmet(q, c) /\ Mobs(q)[f].id = id
    <3>1. p[f] + 1 = Mobs(q)[f].count
      BY <2>7 DEF Reached, f, ks
    <3>. QED  BY <1>1, <1>2, <2>1, <2>5, <3>1 DEF Unmet
  <2>. QED  BY <2>4, <2>6, <2>7 DEF c, f, ks
<1>. QED  BY <1>3, <1>4

(* What a monster's death counts down is what it closes. *)
LEMMA CountKillKeeps ==
    ASSUME NEW s, s = [quests |-> s.quests, refs |-> s.refs],
           Progresses(s.quests), s.refs \in [Mob -> Int], Counted(s.quests, s.refs), NEW id \in Mob
    PROVE  LET t == CountKill(s, id) IN
           /\ t = [quests |-> t.quests, refs |-> t.refs]
           /\ Progresses(t.quests) /\ t.refs \in [Mob -> Int] /\ Counted(t.quests, t.refs)
           /\ DOMAIN t.quests = DOMAIN s.quests
<1>1. CASE s.refs[id] = 0
  BY <1>1 DEF CountKill
<1>2. CASE s.refs[id] # 0
  <2>. DEFINE D == DOMAIN s.quests
              n == [q \in D |-> CheckProgress(q, s.quests[q], id)]
              R == {q \in D : Reached(q, s.quests[q], id)}
              refs == [s.refs EXCEPT ![id] = @ - Cardinality(R)]
              t == CountKill(s, id)
  <2>1. t = [quests |-> n, refs |-> refs]
    BY <1>2, Zenon DEF CountKill
  <2>2. /\ D \subseteq Quest /\ IsFiniteSet(D)
        /\ \A q \in D : q \in Quest /\ s.quests[q] \in [1 .. Len(Mobs(q)) -> Nat]
    BY DEF Progresses
  <2>3. DOMAIN n = D /\ \A q \in D : n[q] = CheckProgress(q, s.quests[q], id)
    OBVIOUS
  <2>. HIDE DEF n, D
  <2>4. Progresses(n)
    <3>1. n = [q \in DOMAIN n |-> n[q]]
      BY DEF n
    <3>2. \A q \in D : n[q] \in [1 .. Len(Mobs(q)) -> Nat]
      BY SMTT(30), <2>2, <2>3, CheckedProgress
    <3>. QED  BY <2>2, <2>3, <3>1, <3>2, Zenon DEF Progresses
  <2>5. R \subseteq D /\ IsFiniteSet(R) /\ Cardinality(R) \in Nat
    BY <2>2, FS_Subset, FS_CardinalityType
  <2>6. refs \in [Mob -> Int]
    BY <2>5
  <2>7. \A m : Open(n, m) \subseteq Open(s.quests, m)
    BY <2>2, <2>3, CheckedProgress DEF Open, D
  <2>8. ASSUME NEW m \in Mob PROVE refs[m] >= Cardinality(Open(n, m))
    <3>1. /\ s.refs[m] \in Int /\ s.refs[m] >= Cardinality(Open(s.quests, m))
          /\ IsFiniteSet(Open(s.quests, m)) /\ Cardinality(Open(s.quests, m)) \in Nat
      BY OpenFinite DEF Counted, Progresses
    <3>2. /\ Cardinality(Open(n, m)) <= Cardinality(Open(s.quests, m))
          /\ IsFiniteSet(Open(n, m)) /\ Cardinality(Open(n, m)) \in Nat
      BY <2>7, <3>1, FS_Subset, FS_CardinalityType
    <3>3. CASE m # id
      <4>1. refs[m] = s.refs[m]
        BY <3>3
      <4>. QED  BY <3>1, <3>2, <4>1
    <3>4. CASE m = id
      <4>. DEFINE f == [q \in R |-> <<q, First(Entry(q, s.quests[q], id))>>]
                  O == Open(s.quests, id)
                  N == Open(n, id)
      <4>1. \A q \in R : f[q] \in O \ N
        <5>. SUFFICES ASSUME NEW q \in R PROVE f[q] \in O \ N
          OBVIOUS
        <5>. DEFINE k == First(Entry(q, s.quests[q], id))
        <5>1. q \in D /\ q \in Quest /\ Reached(q, s.quests[q], id) /\ f[q] = <<q, k>>
          BY <2>2
        <5>2. k \in Unmet(q, s.quests[q]) /\ k \notin Unmet(q, n[q]) /\ Mobs(q)[k].id = id
          BY <2>2, <2>3, <5>1, CheckedProgress
        <5>. HIDE DEF k, f
        <5>3. k \in 1 .. MaxMobs
          BY <5>1, <5>2, MobsType, BoundsType DEF Unmet
        <5>. QED  BY <2>3, <5>1, <5>2, <5>3 DEF Open, D
      <4>2. f \in Injection(R, O \ N)
        <5>1. f \in [R -> O \ N]
          <6>. DEFINE T == O \ N
          <6>1. \A q \in R : f[q] \in T
            BY <4>1
          <6>. HIDE DEF T, R
          <6>. QED  BY <6>1 DEF T
        <5>2. \A a, b \in R : f[a] = f[b] => a = b
          OBVIOUS
        <5>. HIDE DEF f, O, N, R
        <5>. QED  BY <5>1, <5>2 DEF Injection, IsInjective
      <4>3. N \subseteq O /\ IsFiniteSet(O) /\ IsFiniteSet(N) /\ Cardinality(N) \in Nat /\ Cardinality(O) \in Nat
        BY <2>7, <3>1, <3>2, <3>4
      <4>. HIDE DEF f, O, N
      <4>4. IsFiniteSet(O \ N) /\ Cardinality(O \ N) \in Nat
        BY <4>3, FS_Subset, FS_CardinalityType
      <4>5. Cardinality(R) <= Cardinality(O \ N)
        BY <4>2, <4>4, FS_Injection
      <4>6. Cardinality(O) = Cardinality(N) + Cardinality(O \ N)
        <5>1. O = N \cup (O \ N) /\ N \cap (O \ N) = {}
          BY <4>3
        <5>2. Cardinality(N \cup (O \ N)) = Cardinality(N) + Cardinality(O \ N) - Cardinality({})
          BY <4>3, <4>4, <5>1, FS_Union
        <5>3. Cardinality({}) = 0
          BY FS_EmptySet
        <5>4. Cardinality(O) = Cardinality(N \cup (O \ N))
          BY <5>1, Zenon
        <5>. QED  BY <4>3, <4>4, <5>2, <5>3, <5>4
      <4>7. refs[id] = s.refs[id] - Cardinality(R)
        OBVIOUS
      <4>8. s.refs[id] \in Int /\ s.refs[id] >= Cardinality(O)
        BY <3>1, <3>4 DEF O
      <4>9. refs[id] >= Cardinality(N)
        <5>. HIDE DEF refs, R
        <5>. QED  BY <2>5, <4>3, <4>4, <4>5, <4>6, <4>7, <4>8
      <4>. QED  BY <3>4, <4>9 DEF N
    <3>. QED  BY <3>3, <3>4
  <2>9. Counted(n, refs)
    BY <2>8 DEF Counted
  <2>10. t.quests = n /\ t.refs = refs
    BY <2>1
  <2>. HIDE DEF t, n, refs
  <2>11. /\ t = [quests |-> t.quests, refs |-> t.refs]
         /\ Progresses(t.quests) /\ t.refs \in [Mob -> Int] /\ Counted(t.quests, t.refs)
         /\ DOMAIN t.quests = D
    BY <2>1, <2>3, <2>4, <2>6, <2>9, <2>10
  <2>. QED  BY <2>11 DEF t, D
<1>. QED  BY <1>1, <1>2

LEMMA KillKeeps ==
    ASSUME Progresses(started), Counted(started, refCount), refCount \in [Mob -> Int],
           NEW m \in Mob, Kill(m)
    PROVE  /\ Progresses(started') /\ Counted(started', refCount') /\ refCount' \in [Mob -> Int]
           /\ DOMAIN started' = DOMAIN started
<1>. DEFINE ids == KillIds(m)
            s == [quests |-> started, refs |-> refCount]
            first == CountKill(s, ids[1])
            second == CountKill(first, ids[2])
            Fine(t) == /\ t = [quests |-> t.quests, refs |-> t.refs]
                       /\ Progresses(t.quests) /\ t.refs \in [Mob -> Int] /\ Counted(t.quests, t.refs)
                       /\ DOMAIN t.quests = DOMAIN started
<1>1. ids \in Seq(Mob) /\ Len(ids) \in 1 .. 2
  BY KillIdsType
<1>2. ids[1] \in Mob /\ (Len(ids) # 1 => ids[2] \in Mob)
  <2>. HIDE DEF ids
  <2>. QED  BY <1>1
<1>3. \/ started' = first.quests /\ refCount' = first.refs
      \/ Len(ids) # 1 /\ started' = second.quests /\ refCount' = second.refs
  BY Zenon DEF Kill
<1>4. Fine(s)
  OBVIOUS
<1>. HIDE DEF ids, s
<1>5. Fine(first)
  BY <1>2, <1>4, CountKillKeeps
<1>. HIDE DEF first
<1>6. Len(ids) # 1 => Fine(second)
  BY <1>2, <1>5, CountKillKeeps
<1>. HIDE DEF second
<1>. QED  BY <1>3, <1>5, <1>6

----------------------------------------------------------------------------
(* A step of a packet's handler: a completed quest stays so.               *)
Forward == completed \subseteq completed' /\ DOMAIN started' \cap completed' = {}

LEMMA Types ==
    ASSUME NEW q \in Quest
    PROVE  /\ \A i \in Item : Needs(q, i) \in Nat
           /\ \A g \in Info[q].startItems \cup Info[q].endItems : g \in [Item -> Int]
BY InfoType DEF Needs

LEMMA BegunType ==
    ASSUME Progresses(started), NEW q \in Quest
    PROVE  Progresses(Begun(q)) /\ DOMAIN Begun(q) = Started \cup {q}
<1>1. Begun(q) = [r \in Started \cup {q} |-> Begun(q)[r]] /\ DOMAIN Begun(q) = Started \cup {q}
  BY DEF Begun
<1>2. IsFiniteSet(Started \cup {q}) /\ Started \cup {q} \subseteq Quest
  BY FS_AddElement DEF Progresses, Started
<1>3. \A r \in Started \cup {q} : Begun(q)[r] \in [1 .. Len(Mobs(r)) -> Nat]
  BY DEF Begun, NoProgress, Progresses, Started
<1>. QED  BY <1>1, <1>2, <1>3 DEF Progresses

LEMMA DroppedType ==
    ASSUME Progresses(started), NEW q
    PROVE  Progresses(Dropped(q)) /\ DOMAIN Dropped(q) = Started \ {q}
<1>1. /\ Dropped(q) = [r \in Started \ {q} |-> Dropped(q)[r]] /\ DOMAIN Dropped(q) = Started \ {q}
      /\ \A r \in Started \ {q} : Dropped(q)[r] = started[r]
  BY DEF Dropped, Restrict
<1>2. IsFiniteSet(Started \ {q}) /\ Started \ {q} \subseteq Quest
  BY FS_RemoveElement DEF Progresses, Started
<1>3. \A r \in Started \ {q} : Dropped(q)[r] \in [1 .. Len(Mobs(r)) -> Nat]
  BY <1>1 DEF Progresses, Started
<1>. QED  BY <1>1, <1>2, <1>3 DEF Progresses

(* The sets, without the script. *)
Sets ==
    /\ Progresses(started)
    /\ refCount \in [Mob -> Int] /\ Counted(started, refCount)
    /\ have \in [Item -> Nat]
    /\ Apart

Available(st, h, w) == \A q \in DOMAIN st, i \in Item : h[i] < Needs(q, i) => w[i] > 0

(* What is wanted stays wanted. *)
StillWanted == \A i \in Item : wanted[i] > 0 => wanted'[i] > 0

(* start_quest, of a quest that is neither started nor completed and whose *)
(* items are wanted.                                                       *)
LEMMA StartNowKeeps ==
    ASSUME Sets, NeededItemsAvailable, StillWanted, NEW q \in Quest, q \notin completed,
           \A i \in Item : Needs(q, i) > 0 => wanted'[i] > 0,
           NEW g \in Info[q].startItems, NEW fits, StartNow(q, g, fits)
    PROVE  /\ Sets' /\ Forward /\ Available(started', have', wanted') /\ completed' = completed
           /\ DOMAIN started' \subseteq Started \cup {q}
           /\ q \notin DOMAIN started' => started' = Dropped(q)
<1>. DEFINE h == Gained(Missing(g))
<1>1. /\ refCount' = CountMobs(q) /\ completed' = completed
      /\ \/ started' = Begun(q) /\ have' = h
         \/ started' = Dropped(q) /\ have' = have
  BY Zenon DEF StartNow
<1>2. Counted(Begun(q), refCount') /\ refCount' \in [Mob -> Int]
  BY <1>1, BegunCounted DEF Sets
<1>3. Counted(Dropped(q), refCount')
  <2>1. \A m \in Mob : refCount'[m] >= refCount[m]
    <3>. SUFFICES ASSUME NEW m \in Mob PROVE refCount'[m] >= refCount[m]
      OBVIOUS
    <3>. DEFINE K == {k \in 1 .. Len(Mobs(q)) : Mobs(q)[k].id = m}
    <3>1. refCount'[m] = refCount[m] + Cardinality(K) /\ refCount[m] \in Int
      BY <1>1 DEF CountMobs, Sets
    <3>2. Cardinality(K) \in Nat
      BY EntriesFinite
    <3>. QED  BY <3>1, <3>2
  <2>. QED  BY <1>2, <2>1, DroppedCounted DEF Sets
<1>4. g \in [Item -> Int] /\ \A i \in Item : g[i] >= 0
  BY Types, OwnItemsTaken, Zenon
<1>5. h \in [Item -> Nat] /\ \A i \in Item : h[i] >= have[i]
  BY <1>4 DEF Sets, Gained, Missing
<1>. HIDE DEF h
<1>6. DOMAIN started \subseteq Quest
  BY DEF Sets, Progresses
<1>7. CASE started' = Begun(q) /\ have' = h
  <2>1. Progresses(started') /\ DOMAIN started' = Started \cup {q}
    BY <1>7, BegunType DEF Sets
  <2>2. Available(started', have', wanted')
    <3>. SUFFICES ASSUME NEW r \in DOMAIN started', NEW i \in Item, have'[i] < Needs(r, i)
                  PROVE  wanted'[i] > 0
      BY DEF Available
    <3>1. r \in Quest /\ Needs(r, i) \in Nat
      BY <1>6, <2>1, Types DEF Started
    <3>2. h[i] \in Int /\ have[i] \in Int /\ h[i] >= have[i]
      BY <1>5 DEF Sets
    <3>3. CASE r \in Started
      <4>1. have[i] < Needs(r, i)
        BY <1>7, <3>1, <3>2
      <4>. QED  BY <3>3, <4>1 DEF NeededItemsAvailable, StillWanted
    <3>4. CASE r = q
      <4>1. have[i] < Needs(q, i) /\ Needs(q, i) \in Nat
        BY <1>7, <3>1, <3>2, <3>4
      <4>2. have[i] \in Nat
        BY DEF Sets
      <4>. QED  BY <4>1, <4>2
    <3>. QED  BY <2>1, <3>3, <3>4
  <2>. QED  BY <1>1, <1>2, <1>5, <1>7, <2>1, <2>2 DEF Sets, Apart, Forward, Started
<1>8. CASE started' = Dropped(q) /\ have' = have
  <2>1. Progresses(started') /\ DOMAIN started' = Started \ {q}
    BY <1>8, DroppedType DEF Sets
  <2>2. Available(started', have', wanted')
    BY <1>8, <2>1 DEF Available, NeededItemsAvailable, StillWanted
  <2>. QED  BY <1>1, <1>2, <1>3, <1>8, <2>1, <2>2 DEF Sets, Apart, Forward, Started
<1>. QED  BY <1>1, <1>7, <1>8

(* end_quest, of a quest that is not completed. *)
LEMMA EndNowKeeps ==
    ASSUME Sets, NeededItemsAvailable, StillWanted, NEW q \in Quest, q \notin completed,
           NEW g \in Info[q].endItems, NEW fits, EndNow(q, g, fits)
    PROVE  /\ Sets' /\ Forward /\ Available(started', have', wanted')
           /\ DOMAIN started' \subseteq Started
           /\ q \notin completed' => UNCHANGED <<started, completed>>
<1>. DEFINE h == Gained(g)
<1>1. /\ refCount' = refCount
      /\ \/ /\ completed' = completed \cup {q} /\ started' = Dropped(q) /\ have' = h
            /\ CanTake(g)
         \/ completed' = completed \ {q} /\ started' = started /\ have' = have
  BY Zenon DEF EndNow
<1>2. g \in [Item -> Int] /\ \A r \in Quest, i \in Item : g[i] < 0 /\ Info[r].needs[i] > 0 => q = r
  BY Types, OwnItemsTaken, Zenon
<1>3. DOMAIN started \subseteq Quest
  BY DEF Sets, Progresses
<1>4. CASE /\ completed' = completed \cup {q} /\ started' = Dropped(q) /\ have' = h
           /\ CanTake(g)
  <2>1. Progresses(started') /\ DOMAIN started' = Started \ {q}
    BY <1>4, DroppedType DEF Sets
  <2>2. Counted(started', refCount') /\ refCount' \in [Mob -> Int]
    BY <1>1, <1>4, DroppedCounted DEF Sets
  <2>3. have' \in [Item -> Nat]
    <3>1. \A i \in Item : have[i] + g[i] \in Int
      BY <1>2 DEF Sets
    <3>2. \A i \in Item : have[i] + g[i] \in Nat
      BY <1>4, <3>1 DEF CanTake
    <3>. QED  BY <1>4, <3>2 DEF Gained
  <2>4. Available(started', have', wanted')
    <3>. SUFFICES ASSUME NEW r \in DOMAIN started', NEW i \in Item, have'[i] < Needs(r, i)
                  PROVE  wanted'[i] > 0
      BY DEF Available
    <3>1. r \in Quest /\ r # q /\ r \in Started /\ Needs(r, i) \in Nat
      BY <1>3, <2>1, Types DEF Started
    <3>2. have'[i] = have[i] + g[i] /\ have[i] \in Nat /\ g[i] \in Int
      BY <1>2, <1>4 DEF Gained, Sets
    <3>3. have'[i] \in Nat
      BY <2>3
    <3>4. Needs(r, i) > 0
      BY <3>1, <3>3
    <3>5. ~(g[i] < 0)
      BY <1>2, <3>1, <3>4 DEF Needs
    <3>6. have[i] < Needs(r, i)
      BY <3>1, <3>2, <3>5
    <3>. QED  BY <3>1, <3>6 DEF NeededItemsAvailable, StillWanted
  <2>. QED  BY <1>4, <2>1, <2>2, <2>3, <2>4 DEF Sets, Apart, Forward, Started
<1>5. CASE completed' = completed \ {q} /\ started' = started /\ have' = have
  <2>1. completed' = completed
    BY <1>5
  <2>2. Available(started', have', wanted')
    BY <1>5 DEF Available, NeededItemsAvailable, StillWanted, Started
  <2>. QED  BY <1>1, <1>5, <2>1, <2>2 DEF Sets, Apart, Forward, Started
<1>. QED  BY <1>1, <1>4, <1>5

----------------------------------------------------------------------------
(* A step that leaves the sets of quests alone. *)
LEMMA UntouchedKeeps ==
    ASSUME Sets, NeededItemsAvailable, StillWanted, Untouched
    PROVE  Sets' /\ Forward /\ Available(started', have', wanted')
BY DEF Sets, Apart, Forward, Started, Untouched, Available, NeededItemsAvailable, StillWanted

(* What holds of a script before it runs: like Waits, with the items that  *)
(* are wanted after the step.                                              *)
Runs(s) ==
    /\ s.kind \in {"start", "end", "other"}
    /\ s \in [kind : {"none", "start", "end", "other"}, quest : Quest \cup {NoQuest},
              called : BOOLEAN, state : State \cup {"none"}]
    /\ s.kind = "start" /\ ~s.called =>
          /\ s.quest \in Quest /\ Info[s.quest].startScript = TRUE
          /\ s.quest \notin Started \cup completed
          /\ \A i \in Item : Needs(s.quest, i) > 0 => wanted'[i] > 0
    /\ s.kind = "end" /\ ~s.called =>
          /\ s.quest \in Quest /\ Info[s.quest].endScript = TRUE
          /\ s.quest \notin completed

LEMMA NoScriptWaits == Waits(NoScript)
BY DEF Waits, NoScript

LEMMA RunKeeps ==
    ASSUME Sets, NeededItemsAvailable, StillWanted, wanted' \in [Item -> Nat],
           NEW s, Runs(s), NEW launch \in BOOLEAN, RunScript(s, launch)
    PROVE  QuestInv' /\ Forward
<1>. DEFINE Calling == ~s.called /\ s.kind # "other" /\ Calls(s)
<1>1. PICK calls \in BOOLEAN :
         /\ calls => ~(s.called \/ s.kind = "other")
         /\ IF calls THEN Calls(s) ELSE Untouched
         /\ \/ \E state \in State :
                  script' = [s EXCEPT !.state = state, !.called = @ \/ (calls /\ Done(s))]
            \/ script' = NoScript
            \/ LaunchMap
  BY DEF RunScript
<1>. DEFINE Type == [kind : {"none", "start", "end", "other"}, quest : Quest \cup {NoQuest},
                     called : BOOLEAN, state : State \cup {"none"}]
<1>2. /\ Sets' /\ Forward /\ Available(started', have', wanted')
      /\ calls /\ ~Done(s) /\ s.kind = "start" =>
            s.quest \notin DOMAIN started' /\ completed' = completed
      /\ calls /\ ~Done(s) /\ s.kind = "end" => s.quest \notin completed'
      /\ ~calls => started' = started /\ completed' = completed
  <2>1. CASE ~calls
    BY <1>1, <2>1, UntouchedKeeps DEF Untouched
  <2>2. CASE calls /\ s.kind = "start"
    <3>1. PICK fits \in BOOLEAN, g \in Info[s.quest].startItems : StartNow(s.quest, g, fits)
      BY <1>1, <2>2 DEF Calls
    <3>2. /\ s.quest \in Quest /\ s.quest \notin completed
          /\ \A i \in Item : Needs(s.quest, i) > 0 => wanted'[i] > 0
      BY <1>1, <2>2 DEF Runs
    <3>3. Sets' /\ Forward /\ Available(started', have', wanted') /\ completed' = completed
      BY <3>1, <3>2, StartNowKeeps
    <3>. QED  BY <2>2, <3>3 DEF Done
  <2>3. CASE calls /\ s.kind = "end"
    <3>1. PICK fits \in BOOLEAN, g \in Info[s.quest].endItems : EndNow(s.quest, g, fits)
      BY <1>1, <2>3 DEF Calls
    <3>2. s.quest \in Quest /\ s.quest \notin completed
      BY <1>1, <2>3 DEF Runs
    <3>3. Sets' /\ Forward /\ Available(started', have', wanted')
      BY <3>1, <3>2, EndNowKeeps
    <3>. QED  BY <2>3, <3>3 DEF Done
  <2>. QED  BY <1>1, <2>1, <2>2, <2>3 DEF Runs
<1>3. script' \in Type /\ Waits(script)'
  <2>1. CASE script' = NoScript
    BY <2>1 DEF Waits, NoScript
  <2>2. CASE LaunchMap
    <3>1. \/ script' = NoScript
          \/ \E state \in State : script' = [kind |-> "other", quest |-> NoQuest, called |-> FALSE, state |-> state]
      BY <2>2 DEF LaunchMap, NewScript, NoScript
    <3>3. NoScript \in Type
      BY DEF NoScript
    <3>4. ASSUME NEW state \in State
          PROVE  [kind |-> "other", quest |-> NoQuest, called |-> FALSE, state |-> state] \in Type
      OBVIOUS
    <3>2. script' \in Type
      <4>. HIDE DEF Type
      <4>. QED  BY <3>1, <3>3, <3>4
    <3>. QED  BY <3>1, <3>2 DEF Waits, NoScript
  <2>3. ASSUME NEW state \in State,
               script' = [s EXCEPT !.state = state, !.called = @ \/ (calls /\ Done(s))]
        PROVE  script' \in Type /\ Waits(script)'
    <3>. DEFINE called == s.called \/ (calls /\ Done(s))
    <3>1. s \in Type
      BY DEF Runs
    <3>2. called \in BOOLEAN
      BY <3>1
    <3>. HIDE DEF called
    <3>3. script' = [s EXCEPT !.state = state, !.called = called]
      BY <2>3 DEF called
    <3>4. /\ script' \in Type /\ script'.kind = s.kind /\ script'.quest = s.quest
          /\ script'.called = called
      BY <3>1, <3>2, <3>3
    <3>5. ~called => ~s.called /\ (~calls \/ ~Done(s))
      BY DEF called
    <3>. QED  BY <1>2, <3>4, <3>5 DEF Waits, Runs, Started
  <2>. QED  BY <1>1, <2>1, <2>2, <2>3
<1>4. NeededItemsAvailable' /\ KillsAreCounted'
  <2>1. KillsAreCounted'
    <3>1. Counted(started', refCount')
      BY <1>2 DEF Sets
    <3>2. (KillsAreCounted <=> Counted(started, refCount))'
      BY CountedIsCounted, PTL
    <3>. QED  BY <3>1, <3>2
  <2>. QED  BY <1>2, <2>1 DEF NeededItemsAvailable, Available, Started
<1>. QED  BY <1>2, <1>3, <1>4 DEF QuestInv, Shape, Sets

----------------------------------------------------------------------------
Scripts == [kind : {"none", "start", "end", "other"}, quest : Quest \cup {NoQuest},
            called : BOOLEAN, state : State \cup {"none"}]

LEMMA InvSets == QuestInv => Sets /\ script \in Scripts /\ wanted \in [Item -> Nat]
BY CountedIsCounted DEF QuestInv, Shape, Sets, Scripts

LEMMA Assemble ==
    ASSUME Sets', Available(started', have', wanted'), wanted' \in [Item -> Nat],
           script' \in Scripts, Waits(script)'
    PROVE  QuestInv'
<1>1. (KillsAreCounted <=> Counted(started, refCount))'
  BY CountedIsCounted, PTL
<1>2. KillsAreCounted'
  BY <1>1 DEF Sets
<1>3. NeededItemsAvailable'
  BY DEF NeededItemsAvailable, Available, Started
<1>. QED  BY <1>2, <1>3 DEF QuestInv, Shape, Sets, Scripts

(* A handler that leaves the sets of quests and the script alone, or ends  *)
(* the script.                                                             *)
LEMMA UntouchedInv ==
    ASSUME QuestInv, Untouched, script' = script \/ script' = NoScript,
           StillWanted, wanted' \in [Item -> Nat]
    PROVE  QuestInv' /\ Forward
<1>1. Sets' /\ Forward /\ Available(started', have', wanted')
  BY InvSets, UntouchedKeeps DEF QuestInv
<1>2. script' \in Scripts
  <2>1. NoScript \in Scripts
    BY DEF NoScript, Scripts
  <2>. QED  BY <2>1, InvSets
<1>3. Waits(script)'
  BY DEF QuestInv, Waits, Untouched, Started, StillWanted, NoScript
<1>. QED  BY <1>1, <1>2, <1>3, Assemble, InvSets

LEMMA NewScriptValue ==
    ASSUME NEW kind, NEW q
    PROVE  NewScript(kind, q) = [kind |-> kind, quest |-> q, called |-> FALSE, state |-> "none"]
<1>. DEFINE none == [kind |-> "none", quest |-> NoQuest, called |-> FALSE, state |-> "none"]
<1>1. NewScript(kind, q) = [none EXCEPT !.kind = kind, !.quest = q]
  BY Zenon DEF NewScript, NoScript
<1>. QED  BY <1>1

LEMMA WantItemsType ==
    ASSUME QuestInv, NEW q \in Quest, wanted' = WantItems(q)
    PROVE  /\ wanted' \in [Item -> Nat] /\ StillWanted
           /\ \A i \in Item : Needs(q, i) > 0 => wanted'[i] > 0
BY InvSets DEF WantItems, StillWanted

LEMMA StartQuestInv ==
    ASSUME QuestInv, NEW q \in Quest, NEW scripted \in BOOLEAN, NEW yes \in BOOLEAN,
           StartQuest(q, scripted, yes)
    PROVE  QuestInv' /\ Forward
<1>1. CASE ~Admits(q, scripted, yes)
  <2>1. Untouched /\ script' = script /\ wanted' = wanted
    BY <1>1 DEF StartQuest
  <2>. QED  BY <2>1, UntouchedInv, InvSets DEF StillWanted
<1>2. CASE Admits(q, scripted, yes)
  <2>1. /\ q \notin completed /\ q \notin Started /\ scripted = Info[q].startScript
        /\ wanted' = WantItems(q)
    BY <1>2 DEF StartQuest, Admits
  <2>2. /\ wanted' \in [Item -> Nat] /\ StillWanted
        /\ \A i \in Item : Needs(q, i) > 0 => wanted'[i] > 0
    BY <2>1, WantItemsType
  <2>3. CASE scripted
    <3>. DEFINE s == NewScript("start", q)
    <3>1. RunScript(s, FALSE)
      BY <1>2, <2>3 DEF StartQuest
    <3>2. s = [kind |-> "start", quest |-> q, called |-> FALSE, state |-> "none"]
      BY NewScriptValue
    <3>. HIDE DEF s
    <3>3. Runs(s)
      BY <2>1, <2>2, <2>3, <3>2 DEF Runs
    <3>. QED  BY <2>2, <3>1, <3>3, RunKeeps, InvSets DEF QuestInv
  <2>4. CASE ~scripted
    <3>1. /\ script' = script
          /\ \E g \in Info[q].startItems, fits \in BOOLEAN : StartNow(q, g, fits)
      BY <1>2, <2>4 DEF StartQuest
    <3>2. PICK g \in Info[q].startItems, fits \in BOOLEAN : StartNow(q, g, fits)
      BY <3>1
    <3>3. /\ Sets' /\ Forward /\ Available(started', have', wanted') /\ completed' = completed
          /\ DOMAIN started' \subseteq Started \cup {q}
      BY <2>1, <2>2, <3>2, StartNowKeeps, InvSets DEF QuestInv
    <3>4. Waits(script)'
      BY <2>1, <2>2, <2>4, <3>1, <3>3 DEF Waits, QuestInv, Started, StillWanted
    <3>. QED  BY <2>2, <3>1, <3>3, <3>4, Assemble, InvSets
  <2>. QED  BY <2>3, <2>4
<1>. QED  BY <1>1, <1>2

LEMMA EndQuestInv ==
    ASSUME QuestInv, NEW q \in Quest, NEW scripted \in BOOLEAN, NEW yes \in BOOLEAN,
           EndQuest(q, scripted, yes)
    PROVE  QuestInv' /\ Forward
<1>. DEFINE Refuses == q \notin Started \/ scripted # Info[q].endScript \/ ~MayEnd(q, yes)
<1>0. wanted' = wanted /\ q \notin completed
  BY DEF EndQuest
<1>3. wanted' \in [Item -> Nat] /\ StillWanted
  BY <1>0, InvSets DEF StillWanted
<1>1. CASE Refuses
  <2>1. Untouched /\ script' = script
    BY <1>1 DEF EndQuest
  <2>. QED  BY <1>3, <2>1, UntouchedInv
<1>2. CASE ~Refuses
  <2>1. q \in Started /\ scripted = Info[q].endScript
    BY <1>2
  <2>2. CASE scripted
    <3>. DEFINE s == NewScript("end", q)
    <3>1. RunScript(s, FALSE)
      BY <1>2, <2>2 DEF EndQuest
    <3>2. s = [kind |-> "end", quest |-> q, called |-> FALSE, state |-> "none"]
      BY NewScriptValue
    <3>. HIDE DEF s
    <3>3. Runs(s)
      BY <1>0, <2>1, <2>2, <3>2 DEF Runs
    <3>. QED  BY <1>3, <3>1, <3>3, RunKeeps, InvSets DEF QuestInv
  <2>3. CASE ~scripted
    <3>1. /\ script' = script
          /\ \E g \in Info[q].endItems, fits \in BOOLEAN : EndNow(q, g, fits)
      BY <1>2, <2>3 DEF EndQuest
    <3>2. PICK g \in Info[q].endItems, fits \in BOOLEAN : EndNow(q, g, fits)
      BY <3>1
    <3>3. /\ Sets' /\ Forward /\ Available(started', have', wanted')
          /\ DOMAIN started' \subseteq Started
      BY <1>0, <1>3, <3>2, EndNowKeeps, InvSets DEF QuestInv
    <3>4. completed' \subseteq completed \cup {q}
      BY <3>2 DEF EndNow
    <3>5. Waits(script)'
      BY <1>0, <2>1, <2>3, <3>1, <3>3, <3>4 DEF Waits, QuestInv, Started
    <3>. QED  BY <1>3, <3>1, <3>3, <3>5, Assemble, InvSets
  <2>. QED  BY <2>2, <2>3
<1>. QED  BY <1>1, <1>2

LEMMA ForfeitInv == ASSUME QuestInv, NEW q \in Quest, Forfeit(q) PROVE QuestInv' /\ Forward
<1>1. /\ q \in Started /\ refCount' = Uncount(q) /\ started' = Dropped(q)
      /\ UNCHANGED <<completed, wanted, have, script>>
  BY DEF Forfeit
<1>2. Counted(started', refCount') /\ refCount' \in [Mob -> Int]
  BY <1>1, ForfeitCounted, InvSets DEF Sets
<1>3. Progresses(started') /\ DOMAIN started' = Started \ {q}
  BY <1>1, DroppedType, InvSets DEF Sets
<1>4. Available(started', have', wanted')
  BY <1>1, <1>3 DEF Available, QuestInv, NeededItemsAvailable
<1>5. Sets' /\ Forward
  BY <1>1, <1>2, <1>3, InvSets DEF Sets, Forward, Apart, Started
<1>6. Waits(script)'
  BY <1>1, <1>3 DEF Waits, QuestInv, Started
<1>. QED  BY <1>1, <1>4, <1>5, <1>6, Assemble, InvSets

LEMMA AttackInv == ASSUME QuestInv, Attack PROVE QuestInv' /\ Forward
<1>1. PICK m \in Mob : Kill(m)
  BY DEF Attack
<1>2. UNCHANGED <<completed, wanted, have, script>>
  BY <1>1 DEF Kill
<1>3. /\ Progresses(started') /\ Counted(started', refCount') /\ refCount' \in [Mob -> Int]
      /\ DOMAIN started' = DOMAIN started
  BY <1>1, KillKeeps, InvSets DEF Sets
<1>4. Available(started', have', wanted')
  BY <1>2, <1>3 DEF Available, QuestInv, NeededItemsAvailable, Started
<1>5. Sets' /\ Forward
  BY <1>2, <1>3, InvSets DEF Sets, Forward, Apart, Started
<1>6. Waits(script)'
  BY <1>2, <1>3 DEF Waits, QuestInv, Started
<1>. QED  BY <1>2, <1>4, <1>5, <1>6, Assemble, InvSets

(* The steps that only change what is carried. *)
LEMMA ItemsKeep ==
    ASSUME QuestInv, UNCHANGED <<started, completed, refCount, script>>,
           have' \in [Item -> Nat], wanted' \in [Item -> Nat],
           Available(started, have', wanted'), Waits(script)'
    PROVE  QuestInv' /\ Forward
<1>1. Sets' /\ Forward
  BY InvSets DEF Sets, Forward, Apart, Started
<1>. QED  BY <1>1, Assemble, InvSets

LEMMA RegainInv == ASSUME QuestInv, NEW q \in Quest, NEW i \in Item, Regain(q, i) PROVE QuestInv' /\ Forward
<1>1. CASE \E g \in Info[q].startItems : g[i] > 0
  <2>1. /\ have' = [have EXCEPT ![i] = 1] /\ have[i] = 0
        /\ UNCHANGED <<started, completed, refCount, wanted, script>>
    BY <1>1 DEF Regain
  <2>2. have \in [Item -> Nat] /\ DOMAIN started \subseteq Quest
    BY InvSets DEF Sets, Progresses
  <2>3. have' \in [Item -> Nat] /\ \A j \in Item : have'[j] >= have[j]
    BY <2>1, <2>2
  <2>4. Available(started, have', wanted')
    <3>. SUFFICES ASSUME NEW r \in DOMAIN started, NEW j \in Item, have'[j] < Needs(r, j)
                  PROVE  wanted'[j] > 0
      BY DEF Available
    <3>1. have[j] < Needs(r, j)
      BY <2>2, <2>3, Types
    <3>. QED  BY <2>1, <3>1 DEF QuestInv, NeededItemsAvailable, Started
  <2>5. Waits(script)'
    BY <2>1 DEF Waits, QuestInv, Started
  <2>. QED  BY <2>1, <2>3, <2>4, <2>5, ItemsKeep, InvSets
<1>2. CASE ~ \E g \in Info[q].startItems : g[i] > 0
  BY <1>2, UntouchedInv, InvSets DEF Regain, StillWanted
<1>. QED  BY <1>1, <1>2

(* An item is no longer wanted only when the one quest that needs it has   *)
(* enough of it.                                                           *)
LEMMA PickUpInv == ASSUME QuestInv, NEW i \in Item, NEW n \in 1 .. 2, PickUp(i, n) PROVE QuestInv' /\ Forward
<1>1. /\ have' = [have EXCEPT ![i] = @ + n] /\ wanted[i] > 0
      /\ wanted' = [wanted EXCEPT ![i] = IF have[i] + n = NeededCount(i) THEN @ - 1 ELSE @]
      /\ UNCHANGED <<started, completed, refCount, script>>
  BY DEF PickUp
<1>2. have \in [Item -> Nat] /\ wanted \in [Item -> Nat] /\ DOMAIN started \subseteq Quest
  BY InvSets DEF Sets, Progresses
<1>3. have' \in [Item -> Nat] /\ \A j \in Item : have'[j] = IF j = i THEN have[i] + n ELSE have[j]
  BY <1>1, <1>2
<1>4. wanted' \in [Item -> Nat] /\ \A j \in Item : wanted'[j] = wanted[j] \/ (j = i /\ have[i] + n = NeededCount(i))
  BY <1>1, <1>2
<1>5. \A r \in Started : Needs(r, i) > 0 => NeededCount(i) = Needs(r, i)
  <2>. SUFFICES ASSUME NEW r \in Started, Needs(r, i) > 0 PROVE NeededCount(i) = Needs(r, i)
    OBVIOUS
  <2>. DEFINE qs == {q \in Started : Needs(q, i) > 0}
  <2>1. r \in qs
    OBVIOUS
  <2>2. NeededCount(i) = Needs(CHOOSE q \in qs : TRUE, i)
    BY <2>1 DEF NeededCount
  <2>3. (CHOOSE q \in qs : TRUE) \in qs
    BY <2>1
  <2>4. \A q \in qs : q = r
    BY <1>2, UnsharedItems DEF Needs, Started
  <2>. QED  BY <2>2, <2>3, <2>4
<1>6. (\A r \in Started : ~(Needs(r, i) > 0)) => NeededCount(i) = 0
  BY DEF NeededCount
<1>7. Available(started, have', wanted')
  <2>. SUFFICES ASSUME NEW r \in DOMAIN started, NEW j \in Item, have'[j] < Needs(r, j)
                PROVE  wanted'[j] > 0
    BY DEF Available
  <2>1. Needs(r, j) \in Nat /\ have[j] \in Nat /\ have'[j] \in Nat
    BY <1>2, <1>3, Types
  <2>2. have[j] < Needs(r, j)
    BY <1>3, <2>1
  <2>3. wanted[j] > 0
    BY <2>2 DEF QuestInv, NeededItemsAvailable, Started
  <2>4. ~(j = i /\ have[i] + n = NeededCount(i))
    BY <1>3, <1>5, <2>1 DEF Started
  <2>. QED  BY <1>4, <2>3, <2>4
<1>8. Waits(script)'
  <2>1. ASSUME script.kind = "start", ~script.called, NEW j \in Item, Needs(script.quest, j) > 0
        PROVE  wanted'[j] > 0
    <3>1. /\ script.quest \in Quest /\ script.quest \notin Started /\ wanted[j] > 0
      BY <2>1 DEF QuestInv, Waits
    <3>2. ~(j = i /\ have[i] + n = NeededCount(i))
      <4>. SUFFICES ASSUME j = i PROVE have[i] + n # NeededCount(i)
        OBVIOUS
      <4>1. \A r \in Started : ~(Needs(r, i) > 0)
        BY <1>2, <2>1, <3>1, UnsharedItems DEF Needs, Started
      <4>. QED  BY <1>2, <1>6, <4>1
    <3>. QED  BY <1>4, <3>1, <3>2
  <2>. QED  BY <1>1, <2>1 DEF Waits, QuestInv, Started
<1>. QED  BY <1>1, <1>3, <1>4, <1>7, <1>8, ItemsKeep

LEMMA RemoveItemInv ==
    ASSUME QuestInv, NEW i \in Item, NEW n \in 1 .. 2, RemoveItem(i, n)
    PROVE  QuestInv' /\ Forward
<1>1. /\ have' = [have EXCEPT ![i] = @ - n] /\ have[i] >= n
      /\ wanted' = [wanted EXCEPT ![i] = IF @ = 0 THEN 1 ELSE @]
      /\ UNCHANGED <<started, completed, refCount, script>>
  BY DEF RemoveItem, WantedAgain
<1>2. have \in [Item -> Nat] /\ wanted \in [Item -> Nat]
  BY InvSets DEF Sets
<1>3. have' \in [Item -> Nat] /\ \A j \in Item : j # i => have'[j] = have[j]
  BY <1>1, <1>2
<1>4. /\ wanted' \in [Item -> Nat] /\ wanted'[i] > 0 /\ StillWanted
  BY <1>1, <1>2 DEF StillWanted
<1>5. Available(started, have', wanted')
  BY <1>3, <1>4 DEF Available, QuestInv, NeededItemsAvailable, Started, StillWanted
<1>6. Waits(script)'
  BY <1>1, <1>4 DEF Waits, QuestInv, Started, StillWanted
<1>. QED  BY <1>1, <1>3, <1>4, <1>5, <1>6, ItemsKeep

(* The scripts that are not a quest's. *)
LEMMA TalkInv == ASSUME QuestInv, Talk \/ EnterPortal PROVE QuestInv' /\ Forward
<1>. DEFINE s == NewScript("other", NoQuest)
<1>1. RunScript(s, FALSE) /\ wanted' = wanted
  BY DEF Talk, EnterPortal
<1>2. s = [kind |-> "other", quest |-> NoQuest, called |-> FALSE, state |-> "none"]
  BY NewScriptValue
<1>. HIDE DEF s
<1>3. Runs(s)
  BY <1>2 DEF Runs
<1>. QED  BY <1>1, <1>3, RunKeeps, InvSets DEF QuestInv, StillWanted

LEMMA ContinueInv ==
    ASSUME QuestInv, script.kind # "none", wanted' = wanted, NEW prev, NEW answer, NEW launch \in BOOLEAN,
           Continue(prev, answer, launch)
    PROVE  QuestInv' /\ Forward
<1>1. wanted' \in [Item -> Nat] /\ StillWanted
  BY InvSets DEF StillWanted
<1>2. CASE Untouched /\ (script' = script \/ script' = NoScript)
  BY <1>1, <1>2, UntouchedInv
<1>3. CASE RunScript(script, launch)
  <2>1. Runs(script)
    BY InvSets DEF Runs, QuestInv, Waits, Scripts
  <2>. QED  BY <1>1, <1>3, <2>1, RunKeeps, InvSets DEF QuestInv
<1>. QED  BY <1>2, <1>3 DEF Continue

LEMMA LaunchMapInv ==
    ASSUME QuestInv, Untouched, LaunchMap, wanted' = wanted
    PROVE  QuestInv' /\ Forward
<1>1. CASE script' = NoScript
  BY <1>1, UntouchedInv, InvSets DEF StillWanted
<1>2. ASSUME NEW state \in State,
             script' = [NewScript("other", NoQuest) EXCEPT !.state = state]
      PROVE  QuestInv' /\ Forward
  <2>1. script' = [kind |-> "other", quest |-> NoQuest, called |-> FALSE, state |-> state]
    BY <1>2, NewScriptValue
  <2>2. script' \in Scripts
    BY <2>1 DEF Scripts
  <2>3. Waits(script)'
    BY <2>1 DEF Waits
  <2>4. Sets' /\ Forward /\ Available(started', have', wanted')
    BY InvSets, UntouchedKeeps DEF QuestInv, StillWanted
  <2>. QED  BY <2>2, <2>3, <2>4, Assemble, InvSets
<1>. QED  BY <1>1, <1>2 DEF LaunchMap

LEMMA DialogueInv ==
    ASSUME QuestInv, NEW prev, NEW answer, Dialogue(prev, answer) \/ EnterMap \/ CloseScript
    PROVE  QuestInv' /\ Forward
<1>1. script # NoScript => script.kind # "none"
  BY DEF QuestInv, Waits
<1>2. CASE Dialogue(prev, answer)
  BY <1>1, <1>2, ContinueInv DEF Dialogue
<1>3. CASE EnterMap
  BY <1>1, <1>3, ContinueInv, LaunchMapInv DEF EnterMap
<1>4. CASE CloseScript
  BY <1>4, UntouchedInv, InvSets DEF CloseScript, Untouched, StillWanted
<1>. QED  BY <1>2, <1>3, <1>4

(* A login computes both derived sets anew. *)
LEMMA ReloginInv == ASSUME QuestInv, Relogin PROVE QuestInv' /\ Forward
<1>1. /\ refCount' = LoadedRefs /\ wanted' = LoadedWanted /\ script' = NoScript
      /\ UNCHANGED <<started, completed, have>>
  BY DEF Relogin
<1>2. Progresses(started) /\ IsFiniteSet(Started)
  BY InvSets DEF Sets, Progresses, Started
<1>3. \A m \in Mob : LoadedRefs[m] = Cardinality(Open(started, m)) /\ LoadedRefs[m] \in Int
  BY <1>2, LoadedIsOpen, OpenFinite DEF Started
<1>4. refCount' \in [Mob -> Int] /\ Counted(started', refCount')
  <2>1. LoadedRefs = [m \in Mob |-> LoadedRefs[m]]
    BY DEF LoadedRefs
  <2>2. LoadedRefs \in [Mob -> Int]
    BY <1>3, <2>1
  <2>3. Counted(started, LoadedRefs)
    BY <1>3 DEF Counted
  <2>. QED  BY <1>1, <2>2, <2>3
<1>5. ASSUME NEW i \in Item
      PROVE  /\ LoadedWanted[i] \in Nat
             /\ \A q \in Started : have[i] < Needs(q, i) => LoadedWanted[i] > 0
  <2>. DEFINE S == {q \in Started : have[i] < Needs(q, i)}
  <2>1. LoadedWanted[i] = Cardinality(S)
    BY DEF LoadedWanted
  <2>2. IsFiniteSet(S)
    BY <1>2, FS_Subset
  <2>3. Cardinality(S) \in Nat /\ (Cardinality(S) = 0 <=> S = {})
    <3>. HIDE DEF S
    <3>. QED  BY <2>2, FS_CardinalityType, FS_EmptySet
  <2>4. \A q \in Started : have[i] < Needs(q, i) => S # {}
    OBVIOUS
  <2>. HIDE DEF S
  <2>. QED  BY <2>1, <2>3, <2>4
<1>6. wanted' \in [Item -> Nat]
  <2>1. LoadedWanted = [i \in Item |-> LoadedWanted[i]]
    BY DEF LoadedWanted
  <2>. QED  BY <1>1, <1>5, <2>1
<1>7. Available(started', have', wanted')
  BY <1>1, <1>5 DEF Available, Started
<1>8. Sets' /\ Forward
  BY <1>1, <1>2, <1>4, InvSets DEF Sets, Apart, Started, Forward
<1>9. script' \in Scripts /\ Waits(script)'
  BY <1>1 DEF NoScript, Scripts, Waits
<1>. QED  BY <1>6, <1>7, <1>8, <1>9, Assemble

LEMMA StutterInv == ASSUME QuestInv, UNCHANGED questVars PROVE QuestInv'
<1>1. Untouched /\ script' = script /\ StillWanted /\ wanted' \in [Item -> Nat]
  BY InvSets DEF questVars, Untouched, StillWanted
<1>. QED  BY <1>1, UntouchedInv

----------------------------------------------------------------------------
LEMMA QuestInitInv == QuestInit => QuestInv
<1>. SUFFICES ASSUME QuestInit PROVE QuestInv
  OBVIOUS
<1>1. /\ DOMAIN started = {} /\ completed = {} /\ script = NoScript
      /\ refCount = [m \in Mob |-> 0] /\ wanted = [i \in Item |-> 0] /\ have = [i \in Item |-> 0]
  BY DEF QuestInit
<1>2. Progresses(started)
  BY <1>1, FS_EmptySet DEF QuestInit, Progresses
<1>3. \A m : Open(started, m) = {}
  BY <1>1 DEF Open
<1>4. Counted(started, refCount)
  <2>1. \A m \in Mob : refCount[m] = 0 /\ Cardinality(Open(started, m)) = 0
    BY <1>1, <1>3, FS_EmptySet, Zenon
  <2>. QED  BY <2>1 DEF Counted
<1>5. KillsAreCounted
  BY <1>4, CountedIsCounted
<1>6. Waits(script) /\ script \in Scripts
  BY <1>1 DEF Waits, NoScript, Scripts
<1>. QED  BY <1>1, <1>2, <1>5, <1>6 DEF QuestInv, Shape, Apart, NeededItemsAvailable, Started, Scripts

LEMMA QuestNextInv == ASSUME QuestInv, QuestNext PROVE QuestInv' /\ Forward
<1>1. ASSUME NEW q \in Quest, NEW scripted \in BOOLEAN, NEW yes \in BOOLEAN,
             StartQuest(q, scripted, yes) \/ EndQuest(q, scripted, yes)
      PROVE  QuestInv' /\ Forward
  BY <1>1, StartQuestInv, EndQuestInv
<1>2. ASSUME NEW q \in Quest, Forfeit(q) PROVE QuestInv' /\ Forward
  BY <1>2, ForfeitInv
<1>3. ASSUME NEW q \in Quest, NEW i \in Item, Regain(q, i) PROVE QuestInv' /\ Forward
  BY <1>3, RegainInv
<1>4. CASE Attack
  BY <1>4, AttackInv
<1>5. ASSUME NEW i \in Item, NEW n \in 1 .. 2, PickUp(i, n) \/ RemoveItem(i, n) PROVE QuestInv' /\ Forward
  BY <1>5, PickUpInv, RemoveItemInv
<1>6. CASE Talk \/ EnterPortal
  BY <1>6, TalkInv
<1>7. ASSUME NEW prev \in Prev, NEW answer \in Answer, Dialogue(prev, answer) PROVE QuestInv' /\ Forward
  BY <1>7, DialogueInv
<1>8. CASE EnterMap \/ CloseScript
  BY <1>8, DialogueInv
<1>9. CASE Relogin
  BY <1>9, ReloginInv
<1>. QED  BY <1>1, <1>2, <1>3, <1>4, <1>5, <1>6, <1>7, <1>8, <1>9 DEF QuestNext

LEMMA QuestInvariance == QuestSpec => []QuestInv
<1>1. QuestInv /\ [QuestNext]_questVars => QuestInv'
  BY QuestNextInv, StutterInv
<1>. QED  BY <1>1, QuestInitInv, PTL DEF QuestSpec

(* Every monster that a started quest still has to see killed is counted   *)
(* in monsterQuests, for every quest data, group of monsters and order of  *)
(* starts, kills, forfeits, failed starts and logins: check_progress and   *)
(* a forfeit find the entry they count down.                               *)
THEOREM KillsStayCounted == QuestSpec => []KillsAreCounted
<1>1. QuestInv => KillsAreCounted
  BY DEF QuestInv
<1>. QED  BY <1>1, QuestInvariance, PTL

(* A quest item that a started quest lacks is in itemQuests, also when the *)
(* script that starts the quest does so long after the item was wanted.    *)
THEOREM ItemsStayAvailable == QuestSpec => []NeededItemsAvailable
<1>1. QuestInv => NeededItemsAvailable
  BY DEF QuestInv
<1>. QED  BY <1>1, QuestInvariance, PTL

(* No step takes a completed quest back or starts it again: neither a      *)
(* script's late call, nor a failed item act of an end, nor a login.       *)
THEOREM CompletedIsFinal == QuestSpec => QuestsMoveForward
<1>1. QuestInv /\ [QuestNext]_questVars => [completed \subseteq completed' /\ DOMAIN started' \cap completed' = {}]_questVars
  BY QuestNextInv DEF Forward
<1>. QED  BY <1>1, QuestInvariance, PTL DEF QuestSpec, QuestsMoveForward

=============================================================================
