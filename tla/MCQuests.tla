------------------------------ MODULE MCQuests ------------------------------
(* Three quests: "hunt" is started and ended by packets and hands out a    *)
(* map on the way; "fetch" shares a monster with it and ends by a script;  *)
(* "later" starts by a script, after "hunt".                               *)
EXTENDS Quests

Nothing == [i \in Item |-> 0]

MCInfo ==
    [hunt  |-> [mobs |-> <<[id |-> "snail", count |-> 2]>>, needs |-> Nothing, after |-> {},
                startScript |-> FALSE, endScript |-> FALSE,
                startItems |-> {[Nothing EXCEPT !["map"] = 1]},
                endItems |-> {[Nothing EXCEPT !["map"] = -1]}],
     fetch |-> [mobs |-> <<[id |-> "slime", count |-> 1], [id |-> "snail", count |-> 1]>>,
                needs |-> [Nothing EXCEPT !["shell"] = 2], after |-> {},
                startScript |-> FALSE, endScript |-> TRUE,
                startItems |-> {Nothing},
                endItems |-> {[Nothing EXCEPT !["shell"] = -2]}],
     later |-> [mobs |-> <<[id |-> "snails", count |-> 1]>>, needs |-> Nothing, after |-> {"hunt"},
                startScript |-> TRUE, endScript |-> FALSE,
                startItems |-> {Nothing}, endItems |-> {Nothing}]]

MCMaxHave == [map |-> 1, shell |-> 2]

(* A snail also counts for its group.                                      *)
MCKillIds(m) == IF m = "snail" THEN <<"snails", "snail">> ELSE <<m>>
=============================================================================
