------------------------------- MODULE Canon -------------------------------
(***************************************************************************)
(* The canonical world of one project: the ContentBundle that              *)
(* content/store.py keeps in JSON files, as far as the write paths tell    *)
(* its parts apart.  An object is absent, was authored by a human, or is   *)
(* one version of an AI draft; a quest may also carry an AI-drafted logic  *)
(* layer.  The relations list may hold the same relation several times,    *)
(* so it is a count per draft that contributes one.                        *)
(***************************************************************************)
EXTENDS Naturals

CONSTANTS
    Objs,      \* object ids: entities, quests, dialogue trees
    Items,     \* review-queue items
    Revs,      \* versions of a draft's payload
    Needs,     \* Needs[o]: the objects that o refers to
    RelEnds,   \* RelEnds[i]: end points of the relation drafted by i, or {}
    MaxMerges, \* a relation is counted up to MaxMerges copies: "that or more"
    Human,     \* the body of an object written by a human
    Absent,    \* the object has no file
    NoLogic    \* the quest has no logic layer

ASSUME CanonAssumption ==
    /\ Needs \in [Objs -> SUBSET Objs]
    /\ RelEnds \in [Items -> SUBSET Objs]
    /\ MaxMerges \in Nat \ {0}

Drafts  == Items \X Revs
Content == [body : Drafts \cup {Human}, logic : Drafts \cup {NoLogic}]
Bundle  == [obj : [Objs -> Content \cup {Absent}], rels : [Items -> 0..MaxMerges]]

ByHuman == [body |-> Human, logic |-> NoLogic]

\* A project before any AI draft was accepted: every mixture of human objects.
HumanBundles == [obj : [Objs -> {Absent, ByHuman}], rels : [Items -> {0}]]

Present(b) == {o \in Objs : b.obj[o] # Absent}

\* The deterministic audit's open errors: a reference to an object that is not there.
Errors(b) ==
    {e \in Present(b) \X Objs : e[2] \in Needs[e[1]] \ Present(b)}
        \cup {e \in Items \X Objs : b.rels[e[1]] > 0 /\ e[2] \in RelEnds[e[1]] \ Present(b)}

\* The items whose draft, in any version, is part of the world.
DraftedBy(b, o) ==
    IF b.obj[o] = Absent \/ b.obj[o].body = Human THEN {} ELSE {b.obj[o].body[1]}

InCanon(b, i) == \E o \in Objs : i \in DraftedBy(b, o)

\* The parts of a world, each in a file or a line of its own, and those in which two differ.
Parts == ({"object"} \X Objs) \cup ({"relation"} \X Items)
PartOf(b, x) == IF x[1] = "object" THEN b.obj[x[2]] ELSE b.rels[x[2]]
Changed(b, c) == {x \in Parts : PartOf(b, x) # PartOf(c, x)}

\* create_entity_action, and delete_object_action with its cascade over the relations.
Created(b, o) == [b EXCEPT !.obj[o] = ByHuman]
Deleted(b, o) ==
    [b EXCEPT !.obj[o] = Absent,
              !.rels = [i \in Items |-> IF o \in RelEnds[i] THEN 0 ELSE b.rels[i]]]
=============================================================================
