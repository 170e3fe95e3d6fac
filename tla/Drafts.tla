------------------------------- MODULE Drafts -------------------------------
(***************************************************************************)
(* What accepting one review item does to a world: pipeline/review.py      *)
(* without its reads, its writes and their order.  ReviewLedger and        *)
(* ReviewDecision are both built on it.                                    *)
(***************************************************************************)
EXTENDS Canon

CONSTANTS
    ItemType,  \* ItemType[i]: the ReviewItemType of i
    Targets,   \* Targets[i]: the objects the payload of i defines
    BadLogic   \* logic drafts with issues under audit_quest_logic

InsertTypes == {"quest_draft", "world_seed", "import_draft", "dialogue_tree",
                "character_profile", "flavor_batch"}
ReviewItemType == InsertTypes \cup {"quest_logic_draft", "patch_candidate", "bark_variant"}
RelationTypes == {"world_seed", "import_draft", "character_profile"}
RevisableTypes == {"quest_draft", "character_profile", "dialogue_tree", "world_seed"}

ASSUME DraftsAssumption ==
    /\ ItemType \in [Items -> ReviewItemType]
    /\ Targets \in [Items -> SUBSET Objs]
    /\ BadLogic \subseteq Items
    /\ \A i \in Items : RelEnds[i] # {} => ItemType[i] \in RelationTypes

IsInsert(i) == ItemType[i] \in InsertTypes
Writes(i) == IsInsert(i) \/ ItemType[i] = "quest_logic_draft"

\* The relations of a seed are appended; those of a character only if they are new.
MergedRels(b, i) ==
    IF RelEnds[i] = {} \/ b.rels[i] = MaxMerges
       \/ (ItemType[i] = "character_profile" /\ b.rels[i] > 0)
    THEN b.rels
    ELSE [b.rels EXCEPT ![i] = @ + 1]

\* The bundle an accept saves, from the bundle b it loaded and payload version v.
Materialise(b, i, v) ==
    IF IsInsert(i)
    THEN [obj  |-> [o \in Objs |-> IF o \in Targets[i]
                                   THEN [body |-> <<i, v>>, logic |-> NoLogic]
                                   ELSE b.obj[o]],
          rels |-> MergedRels(b, i)]
    ELSE [b EXCEPT !.obj = [o \in Objs |-> IF o \in Targets[i]
                                           THEN [b.obj[o] EXCEPT !.logic = <<i, v>>]
                                           ELSE b.obj[o]]]

\* "would overwrite existing content": looked up in the snapshot of the request.
Overwrites(snap, i) == IsInsert(i) /\ Targets[i] \cap Present(snap) # {}

\* The quest of a logic draft must exist, and its logic must be sound.
LogicApplies(b, i) ==
    ItemType[i] = "quest_logic_draft" => Targets[i] \subseteq Present(b) /\ i \notin BadLogic

\* _assert_no_new_accept_errors: no error that the snapshot did not already have.
IntroducesErrors(snap, candidate) == ~ (Errors(candidate) \subseteq Errors(snap))
=============================================================================
