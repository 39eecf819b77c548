------------------------------- MODULE Quests -------------------------------
(***************************************************************************)
(* The quests of one character and the script its client runs: QUEST_      *)
(* ACTION, NPC_TALK, DIALOGUE, SCRIPTED_PORTAL and MAP_TRANSFER_COMPLETE   *)
(* of channel/main.c with the functions of client.c behind them, the kills *)
(* and the quest items that count towards a quest, and the login that      *)
(* rebuilds the derived sets.                                              *)
(*                                                                         *)
(* The quest data of wz.c is a constant.  Of a requirement, the quests,    *)
(* the monsters and the quest items are modelled; level, job, mesos, npc   *)
(* and quest infos only say yes or no.  Space in the inventory is a choice *)
(* (Inventory has the slots), experience and mesos are in Progress and     *)
(* Inventory.  A Lua script may call startQuestNow or endQuestNow once     *)
(* with success, as those under script/quest do.                           *)
(***************************************************************************)
EXTENDS Integers, Sequences, FiniteSets, Functions

CONSTANTS
    Quest, Mob, Item,
    Info,           \* per quest, the QuestInfo of wz.c
    KillIds(_),     \* the monster ids a kill counts for: group first, then own
    MaxMobs,        \* bound on the monsters of a quest
    MaxHave,        \* per item, a bound on how many are in the inventory
    MaxRefs         \* bound on a reference count and on an item's entries in itemQuests

(* An Info has
     mobs          a sequence of [id, count], the MOB requirement of its end
     needs         per item, the count its end requires
     after         the quests its start requires to be completed
     startScript, endScript
     startItems, endItems    the outcomes of its item acts: sets of functions
                             from Item to what is gained (or, below 0, taken);
                             several when one item is drawn by lot            *)

ASSUME InfoType ==
    \A q \in Quest :
        /\ Info[q].mobs \in Seq([id : Mob, count : Nat]) /\ Len(Info[q].mobs) <= MaxMobs
        /\ Info[q].needs \in [Item -> Nat]
        /\ Info[q].startItems \subseteq [Item -> Int] /\ Info[q].endItems \subseteq [Item -> Int]
ASSUME BoundsType == MaxMobs \in Nat
ASSUME KillIdsType ==
    \A m \in Mob : KillIds(m) \in Seq(Mob) /\ Len(KillIds(m)) \in 1 .. 2

(* No two quests need the same quest item: gaining and handing in an item  *)
(* keeps no count per quest.                                               *)
ASSUME UnsharedItems ==
    \A q, r \in Quest, i \in Item : Info[q].needs[i] > 0 /\ Info[r].needs[i] > 0 => q = r
ASSUME OwnItemsTaken ==
    \A q, r \in Quest, i \in Item :
        /\ \A g \in Info[q].endItems : g[i] < 0 /\ Info[r].needs[i] > 0 => q = r
        /\ \A g \in Info[q].startItems : g[i] >= 0

VARIABLES
    started,    \* quests: the progress of every started quest, per monster
    completed,  \* completedQuests
    refCount,   \* monsterQuests: per monster, 0 when it is not in the set
    wanted,     \* itemQuests, a bag: how often each item is in it
    have,       \* the quest items in the inventory
    script,     \* the script that waits, if any, its quest (client->qid) and what for
    kicked      \* the session has been kicked

questVars == <<started, completed, refCount, wanted, have, script, kicked>>

NoQuest == "none"
NoScript == [kind |-> "none", quest |-> NoQuest, called |-> FALSE, state |-> "none"]

(* scriptState, by the packets that answer it: an empty dialogue (SIMPLE,  *)
(* GET_NUMBER), one button (OK, NEXT) or two (PREV, PREV_NEXT), both       *)
(* answered as a plain dialogue, a question (YES_NO, ACCEPT_DECLINE), and  *)
(* WARP.                                                                   *)
State == {"empty", "one", "two", "ask", "warp"}
Prev == {"empty", "plain", "ask"}
PrevOf(state) == IF state \in {"one", "two"} THEN "plain" ELSE state

Mobs(q) == Info[q].mobs
NoProgress(q) == [k \in 1 .. Len(Mobs(q)) |-> 0]
Unmet(q, progress) == {k \in 1 .. Len(Mobs(q)) : progress[k] < Mobs(q)[k].count}

Started == DOMAIN started
Begun(q) == [r \in Started \cup {q} |-> IF r = q THEN NoProgress(q) ELSE started[r]]
Dropped(q) == Restrict(started, Started \ {q})

Needs(q, i) == Info[q].needs[i]
NeededCount(i) ==
    LET qs == {q \in Started : Needs(q, i) > 0}
    IN  IF qs = {} THEN 0 ELSE Needs(CHOOSE q \in qs : TRUE, i)

(* check_quest_requirements; yes is the answer of the requirements that    *)
(* are not modelled.                                                       *)
MayStart(q, yes) == yes /\ Info[q].after \subseteq completed
MayEnd(q, yes) == yes /\ \A i \in Item : have[i] >= Needs(q, i)
-----------------------------------------------------------------------------
(* client_gain_items with the items of an act: all or nothing.             *)
CanTake(gain) == \A i \in Item : have[i] + gain[i] \in 0 .. MaxHave[i]
Gained(gain) == [i \in Item |-> have[i] + gain[i]]

(* A start act hands out only what the character does not have.            *)
Missing(gain) == [i \in Item |-> IF gain[i] > 0 /\ have[i] > 0 THEN 0 ELSE gain[i]]

NotKicked == kicked' = kicked
Kick == kicked' = TRUE

(* start_quest.  When the items do not fit, the quest is taken back but    *)
(* the monsters stay counted.                                              *)
CountMobs(q) ==
    [m \in Mob |-> refCount[m] + Cardinality({k \in 1 .. Len(Mobs(q)) : Mobs(q)[k].id = m})]

StartNow(q, gain, fits) ==
    /\ refCount' = CountMobs(q)
    /\ \A m \in Mob : refCount'[m] <= MaxRefs
    /\ IF fits /\ CanTake(Missing(gain))
       THEN started' = Begun(q) /\ have' = Gained(Missing(gain))
       ELSE started' = Dropped(q) /\ have' = have
    /\ completed' = completed

(* end_quest.  What an item act takes or gives decides whether it is done. *)
EndNow(q, gain, fits) ==
    /\ IF fits /\ CanTake(gain)
       THEN /\ completed' = completed \cup {q}
            /\ started' = Dropped(q)
            /\ have' = Gained(gain)
       ELSE /\ completed' = completed \ {q}
            /\ UNCHANGED <<started, have>>
    /\ refCount' = refCount

Untouched == UNCHANGED <<started, completed, refCount, have>>
-----------------------------------------------------------------------------
NewScript(kind, q) == [NoScript EXCEPT !.kind = kind, !.quest = q]

(* client_launch_map_script: kicked, or a map's script that has ended or   *)
(* waits.                                                                  *)
LaunchMap ==
    \/ script' = NoScript /\ kicked' \in BOOLEAN
    \/ \E state \in State :
        script' = [NewScript("other", NoQuest) EXCEPT !.state = state] /\ kicked' = FALSE

(* client_start_quest_now and client_end_quest_now, of client->qid.        *)
Calls(s) ==
    \E fits \in BOOLEAN :
        \/ s.kind = "start" /\ \E g \in Info[s.quest].startItems : StartNow(s.quest, g, fits)
        \/ s.kind = "end" /\ \E g \in Info[s.quest].endItems : EndNow(s.quest, g, fits)

Done(s) == s.quest \in IF s.kind = "start" THEN DOMAIN started' ELSE completed'

(* script_manager_run: the script s runs until it waits in a dialogue or   *)
(* ends; a script that has ended may be followed by the map's.             *)
RunScript(s, launch) ==
    \E calls \in IF s.called \/ s.kind = "other" THEN {FALSE} ELSE BOOLEAN :
        /\ IF calls THEN Calls(s) ELSE Untouched
        /\ \/ \E state \in State :
                /\ script' = [s EXCEPT !.state = state, !.called = @ \/ (calls /\ Done(s))]
                /\ kicked' = FALSE
           \/ script' = NoScript /\ kicked' = TRUE
           \/ IF launch THEN LaunchMap ELSE script' = NoScript /\ kicked' = FALSE


(* client_start_quest                                                      *)
WantItems(q) == [i \in Item |-> wanted[i] + (IF Needs(q, i) > 0 THEN 1 ELSE 0)]

(* MUTANT of Admits: a completed quest can be started again.               *)
AdmitsAgain(q, scripted, yes) == scripted = Info[q].startScript /\ MayStart(q, yes)

Admits(q, scripted, yes) ==
    q \notin completed /\ scripted = Info[q].startScript /\ MayStart(q, yes)

StartQuest(q, scripted, yes) ==
    /\ ~kicked
    /\ scripted => script = NoScript
    /\ q \notin Started
    /\ \A i \in Item : WantItems(q)[i] <= MaxRefs
    /\ IF ~Admits(q, scripted, yes)
       THEN Kick /\ Untouched /\ UNCHANGED <<wanted, script>>
       ELSE /\ wanted' = WantItems(q)
            /\ IF scripted
               THEN RunScript(NewScript("start", q), FALSE)
               ELSE /\ \E g \in Info[q].startItems, fits \in BOOLEAN : StartNow(q, g, fits)
                    /\ NotKicked /\ UNCHANGED script

(* client_end_quest                                                        *)
EndQuest(q, scripted, yes) ==
    /\ ~kicked
    /\ scripted => script = NoScript
    /\ q \notin completed
    /\ IF q \notin Started \/ scripted # Info[q].endScript \/ ~MayEnd(q, yes)
       THEN Kick /\ Untouched /\ UNCHANGED script
       ELSE IF scripted
            THEN RunScript(NewScript("end", q), FALSE)
            ELSE /\ \E g \in Info[q].endItems, fits \in BOOLEAN : EndNow(q, g, fits)
                 /\ NotKicked /\ UNCHANGED script
    /\ UNCHANGED wanted

(* MUTANT of Uncount: monsters already killed are counted down too.        *)
UncountAll(q) ==
    [m \in Mob |-> refCount[m] - Cardinality({k \in 1 .. Len(Mobs(q)) : Mobs(q)[k].id = m})]

(* client_forfeit_quest: a monster that is still to be killed is counted   *)
(* once less.                                                              *)
Uncount(q) ==
    [m \in Mob |-> refCount[m] - Cardinality({k \in Unmet(q, started[q]) : Mobs(q)[k].id = m})]

Forfeit(q) ==
    /\ ~kicked /\ q \in Started
    /\ refCount' = Uncount(q)
    /\ started' = Dropped(q)
    /\ UNCHANGED <<completed, wanted, have, script, kicked>>

(* client_regain_quest_item: one of the items the quest's start hands out. *)
Regain(q, i) ==
    /\ ~kicked /\ q \in Started /\ have[i] = 0
    /\ IF \E g \in Info[q].startItems : g[i] > 0
       THEN /\ have' = [have EXCEPT ![i] = 1]
            /\ UNCHANGED <<started, completed, refCount, wanted, script, kicked>>
       ELSE Kick /\ Untouched /\ UNCHANGED <<wanted, script>>
-----------------------------------------------------------------------------
(* client_kill_monster.  check_progress, for one started quest: the first  *)
(* unmet entry for this monster is counted.                                *)
Entry(q, progress, id) == {k \in Unmet(q, progress) : Mobs(q)[k].id = id}
First(ks) == CHOOSE k \in ks : \A j \in ks : k <= j

CheckProgress(q, progress, id) ==
    LET ks == Entry(q, progress, id)
    IN  IF ks = {} THEN progress ELSE [progress EXCEPT ![First(ks)] = @ + 1]

Reached(q, progress, id) ==
    LET ks == Entry(q, progress, id)
    IN  ks # {} /\ progress[First(ks)] + 1 = Mobs(q)[First(ks)].count

(* The two sets after id has been counted; nothing when no quest wants it. *)
CountKill(s, id) ==
    IF s.refs[id] = 0 THEN s
    ELSE [quests |-> [q \in DOMAIN s.quests |-> CheckProgress(q, s.quests[q], id)],
          refs |-> [s.refs EXCEPT ![id] =
                        @ - Cardinality({q \in DOMAIN s.quests : Reached(q, s.quests[q], id)})]]

Kill(m) ==
    /\ ~kicked
    /\ LET ids == KillIds(m)
           first == CountKill([quests |-> started, refs |-> refCount], ids[1])
           all == IF Len(ids) = 1 THEN first ELSE CountKill(first, ids[2])
       IN  started' = all.quests /\ refCount' = all.refs
    /\ UNCHANGED <<completed, wanted, have, script, kicked>>

(* client_gain_inventory_item with a quest item: not available unless some *)
(* quest wants it, and no longer wanted once the needed count is reached.  *)
PickUp(i, n) ==
    /\ ~kicked /\ wanted[i] > 0 /\ have[i] + n <= MaxHave[i]
    /\ have' = [have EXCEPT ![i] = @ + n]
    /\ wanted' = [wanted EXCEPT ![i] = IF have[i] + n = NeededCount(i) THEN @ - 1 ELSE @]
    /\ UNCHANGED <<started, completed, refCount, script, kicked>>

(* MUTANT of WantedAgain: an item given away stays unwanted.               *)
WantedAsBefore(i) == wanted

(* client_remove_item: dropped or sold.                                    *)
WantedAgain(i) == [wanted EXCEPT ![i] = IF @ = 0 THEN 1 ELSE @]

RemoveItem(i, n) ==
    /\ ~kicked /\ have[i] >= n
    /\ have' = [have EXCEPT ![i] = @ - n]
    /\ wanted' = WantedAgain(i)
    /\ UNCHANGED <<started, completed, refCount, script, kicked>>
-----------------------------------------------------------------------------
(* client_npc_talk                                                         *)
Talk ==
    /\ ~kicked /\ script = NoScript
    /\ RunScript(NewScript("other", NoQuest), FALSE)
    /\ UNCHANGED wanted

(* client_launch_portal_script                                             *)
EnterPortal ==
    /\ ~kicked /\ script = NoScript
    /\ RunScript(NewScript("other", NoQuest), FALSE)
    /\ UNCHANGED wanted

(* client_script_cont: prev names the kind of dialogue that is answered.   *)
Answer == {"end chat", "yes", "no", "other"}

EndsChat(answer) == answer = (IF script.state = "empty" THEN "no" ELSE "end chat")
Admitted(state) ==
    CASE state = "warp" -> Answer
      [] state \in {"empty", "one"} -> {"yes"}
      [] state \in {"two", "ask"} -> {"yes", "no"}

(* The number a GET_NUMBER admits may exclude every answer.                *)
Continue(prev, answer, launch) ==
    \/ /\ script.state # "warp" /\ prev # PrevOf(script.state)
       /\ Kick /\ Untouched /\ script' = script
    \/ /\ script.state = "warp" \/ prev = PrevOf(script.state)
       /\ \/ /\ EndsChat(answer)
             /\ NotKicked /\ Untouched /\ script' = NoScript
          \/ /\ ~EndsChat(answer)
             /\ answer \notin Admitted(script.state) \/ script.state = "empty"
             /\ Kick /\ Untouched /\ script' = NoScript
          \/ /\ ~EndsChat(answer) /\ answer \in Admitted(script.state)
             /\ RunScript(script, launch)

Dialogue(prev, answer) ==
    /\ ~kicked /\ script # NoScript
    /\ Continue(prev, answer, FALSE)
    /\ UNCHANGED wanted

(* MAP_TRANSFER_COMPLETE: the script that warped goes on; client_launch_   *)
(* map_script, which does not look at client->script, follows when none    *)
(* waits.                                                                  *)
EnterMap ==
    /\ ~kicked
    /\ \/ script # NoScript /\ Continue("plain", "no", TRUE)
       \/ script = NoScript /\ LaunchMap /\ Untouched
    /\ UNCHANGED wanted

(* client_close_script, when a boat sails.                                 *)
CloseScript ==
    /\ ~kicked /\ script # NoScript
    /\ script' = NoScript
    /\ UNCHANGED <<started, completed, refCount, wanted, have, kicked>>

(* Logout and login: the derived sets are computed from what was saved.    *)
LoadedRefs ==
    [m \in Mob |-> Cardinality({e \in Started \X (1 .. MaxMobs) :
                        e[2] \in Unmet(e[1], started[e[1]]) /\ Mobs(e[1])[e[2]].id = m})]
LoadedWanted == [i \in Item |-> Cardinality({q \in Started : have[i] < Needs(q, i)})]

Relogin ==
    /\ refCount' = LoadedRefs
    /\ wanted' = LoadedWanted
    /\ script' = NoScript
    /\ kicked' = FALSE
    /\ UNCHANGED <<started, completed, have>>
-----------------------------------------------------------------------------
QuestInit ==
    /\ started = <<>> /\ completed = {}
    /\ refCount = [m \in Mob |-> 0]
    /\ wanted = [i \in Item |-> 0]
    /\ have = [i \in Item |-> 0]
    /\ script = NoScript
    /\ kicked = FALSE

(* ATTACK: one monster dies.  What the attack does to the map is in        *)
(* MapMonsters.                                                            *)
Attack == \E m \in Mob : Kill(m)

QuestNext ==
    \/ \E q \in Quest :
        \/ \E scripted, yes \in BOOLEAN : StartQuest(q, scripted, yes) \/ EndQuest(q, scripted, yes)
        \/ Forfeit(q)
        \/ \E i \in Item : Regain(q, i)
    \/ Attack
    \/ \E i \in Item, n \in 1 .. 2 : PickUp(i, n) \/ RemoveItem(i, n)
    \/ Talk \/ EnterPortal
    \/ \E prev \in Prev, answer \in Answer : Dialogue(prev, answer)
    \/ EnterMap \/ CloseScript \/ Relogin

QuestSpec == QuestInit /\ [][QuestNext]_questVars
-----------------------------------------------------------------------------
(* Every monster that a started quest still has to see killed is in        *)
(* monsterQuests, counted at least once for each such quest: its kills are *)
(* looked at, and the entry is there when check_progress or a forfeit      *)
(* counts it down.                                                         *)
KillsAreCounted == \A m \in Mob : refCount[m] >= LoadedRefs[m]

(* A quest item that a started quest still lacks is in itemQuests: its     *)
(* drops are shown to the character and can be picked up, however often it *)
(* was gained, dropped, handed out again or the quest given up before.     *)
NeededItemsAvailable ==
    \A q \in Started, i \in Item : have[i] < Needs(q, i) => wanted[i] > 0

(* A completed quest stays completed and is never started again, although  *)
(* scripts start and end quests later than they were asked to and the      *)
(* quest may have been given up in between.                                *)
QuestsMoveForward ==
    [][completed \subseteq completed' /\ DOMAIN started' \cap completed' = {}]_questVars
=============================================================================
