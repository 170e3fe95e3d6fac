-------------------------- MODULE MCReviewDecision --------------------------
(***************************************************************************)
(* Instances of ReviewDecision: a giver (an npc) and a quest that needs    *)
(* it; drafts of the quest, of the giver with a relation between the two,  *)
(* of a logic layer for the quest, and items that accept writes nothing    *)
(* for.                                                                    *)
(***************************************************************************)
EXTENDS ReviewDecision, TLC

CONSTANTS giver, quest, q, w, l, b, p, v1, v2

MCNeeds == [o \in Objs |-> IF o = quest THEN {giver} \cap Objs ELSE {}]

TypeOfItem ==
    [i \in {q, w, l, b, p} |->
        IF i = q THEN "quest_draft" ELSE IF i = w THEN "world_seed"
        ELSE IF i = l THEN "quest_logic_draft" ELSE IF i = b THEN "bark_variant"
        ELSE "patch_candidate"]
MCItemType == [i \in Items |-> TypeOfItem[i]]
MCTargets  == [i \in Items |-> IF i \in {q, l} THEN {quest} ELSE IF i = w THEN {giver} ELSE {}]
MCFileOrder == [o \in Objs |-> IF o = giver THEN 0 ELSE 2]
MCRelEnds  == [i \in Items |-> IF i = w THEN {giver, quest} ELSE {}]

\* Requests and payload versions are interchangeable.
MCSymmetry == Permutations(Reqs) \cup Permutations(Revs)
=============================================================================
