----------------------------- MODULE QuestEdits -----------------------------
(***************************************************************************)
(* Quests edited in place by several authors: each request loads the world,*)
(* changes one quest and saves the world.  An edit may carry the etag that *)
(* an earlier answer gave its author, and is then refused when the quest   *)
(* changed; a new logic layer, a dragged node and a deletion carry none.   *)
(***************************************************************************)
EXTENDS Naturals, Functions, FiniteSets

CONSTANTS
    Authors,
    Quests,
    MaxEdits     \* bound: requests

VARIABLES
    quests,      \* the quest files
    req,         \* each author's request: what it saves, and what it will have told its author
    shown,       \* the quest and the etag that the author's last edit was answered with
    edits        \* number of requests so far

vars == <<quests, req, shown, edits>>

None == "none"
Idle == [pc |-> "idle"]

\* None: a field of the model that is unset.
Quest == [title : {"a", "b"}, timeline_order : {None, "set"}, prerequisites : SUBSET Quests,
          graph_pos : {None, "set"}, logic : {None, "sound"}]

\* A bug: the fingerprint is of what the editor's form shows.
FormOnly(quest) == [f \in {"title"} |-> quest[f]]

\* etag_for: a hash of the dump without the fields that are unset.
etag_for(quest) == [f \in {g \in DOMAIN quest : g = "prerequisites" \/ quest[g] # None} |-> quest[f]]

\* What a request may send: one field, a drag in the timeline with both of its fields, or nothing.
Updates ==
    [{"title"} -> {"a", "b"}] \cup [{"timeline_order"} -> {None, "set"}]
        \cup [{"prerequisites"} -> {{}, Quests}]
        \cup {[prerequisites |-> Quests, title |-> "b"], [f \in {} |-> None]}

\* The update of update_quest_action: prerequisites that do not exist are dropped.
UpdateOf(sent, world) ==
    [f \in DOMAIN sent |-> IF f = "prerequisites" THEN sent[f] \cap DOMAIN world ELSE sent[f]]

\* model_copy(update).
Copy(quest, update) == [f \in DOMAIN quest |-> IF f \in DOMAIN update THEN update[f] ELSE quest[f]]

Init ==
    /\ quests = [q \in Quests |-> [title |-> "a", timeline_order |-> None, prerequisites |-> {},
                                   graph_pos |-> None, logic |-> None]]
    /\ req = [u \in Authors |-> Idle]
    /\ shown = [u \in Authors |-> Idle]
    /\ edits = 0

Answer(q, world) == [pc |-> "shown", id |-> q, quest |-> world[q], etag |-> etag_for(world[q])]

\* The bundle is loaded and changed; sends is what the request asks for, tells what it answers.
Load(u, q, world, tells, sends, guarded) ==
    /\ req[u] = Idle
    /\ edits < MaxEdits
    /\ req' = [req EXCEPT ![u] = [pc |-> "save", id |-> q, quests |-> world, tells |-> tells,
                                  sends |-> sends, guarded |-> guarded, overtaken |-> FALSE]]
    /\ edits' = edits + 1
    /\ UNCHANGED <<quests, shown>>

\* check_etag.
Admits(u, q, guarded) ==
    guarded => shown[u].pc = "shown" /\ shown[u].id = q /\ shown[u].etag = etag_for(quests[q])

\* update_quest_action with something to change.
EditQuest(u, q) ==
    \E sent \in Updates, guarded \in BOOLEAN :
        LET update == UpdateOf(sent, quests)
            world  == [quests EXCEPT ![q] = Copy(@, update)] IN
        /\ DOMAIN sent # {}
        /\ Admits(u, q, guarded)
        /\ Load(u, q, world, Answer(q, world), update, guarded)

\* update_quest_action with nothing to change saves nothing: the way to get an etag.
ShowQuest(u, q) ==
    /\ req[u] = Idle
    /\ edits < MaxEdits
    /\ shown' = [shown EXCEPT ![u] = Answer(q, quests)]
    /\ edits' = edits + 1
    /\ UNCHANGED <<quests, req>>

\* update_quest_logic_action, set_object_position_action.
EditLogic(u, q) ==
    \E logic \in {None, "sound"} :
        Load(u, q, [quests EXCEPT ![q].logic = logic], shown[u], [logic |-> logic], FALSE)
MoveNode(u, q) ==
    Load(u, q, [quests EXCEPT ![q].graph_pos = "set"], shown[u], [graph_pos |-> "set"], FALSE)

\* delete_object_action: quests that require it keep naming it.
DeleteQuest(u, q) ==
    Load(u, q, Restrict(quests, DOMAIN quests \ {q}), shown[u], [f \in {} |-> None], FALSE)

\* ContentStore.save: the whole bundle, whatever was saved since it was loaded.
Save(u) ==
    /\ req[u].pc = "save"
    /\ quests' = req[u].quests
    /\ shown' = [shown EXCEPT ![u] = req[u].tells]
    /\ req' = [v \in Authors |->
                  IF v = u THEN Idle
                  ELSE IF req[v].pc = "save" THEN [req[v] EXCEPT !.overtaken = TRUE] ELSE req[v]]
    /\ UNCHANGED edits

Next ==
    \E u \in Authors :
        \/ \E q \in DOMAIN quests :
              EditQuest(u, q) \/ ShowQuest(u, q) \/ EditLogic(u, q) \/ MoveNode(u, q) \/ DeleteQuest(u, q)
        \/ Save(u)

Spec == Init /\ [][Next]_vars

-----------------------------------------------------------------------------

\* Every quest is there or deleted.
IsWorld(w) == DOMAIN w \subseteq Quests /\ w \in [DOMAIN w -> Quest]

ShownQuest(a) == a.pc = "shown" /\ a.id \in Quests /\ a.quest \in Quest /\ a.etag = etag_for(a.quest)

TypeOK ==
    /\ IsWorld(quests)
    /\ edits \in Nat
    /\ DOMAIN shown = Authors /\ DOMAIN req = Authors
    /\ \A u \in Authors :
          /\ shown[u] = Idle \/ ShownQuest(shown[u])
          /\ req[u] # Idle => /\ req[u].pc = "save" /\ "overtaken" \in DOMAIN req[u]
                              /\ IsWorld(req[u].quests) /\ req[u].id \in Quests

Finishes(u) == req[u].pc = "save" /\ req'[u] = Idle

\* A guarded edit that no other save overtook replaces the very quest its author had been answered with,
\* in the fields it sends and in no other, and touches no other quest.
KnowsWhatItReplaces(u) ==
    Finishes(u) /\ req[u].guarded /\ ~req[u].overtaken =>
        LET q == req[u].id IN
        /\ quests[q] = shown[u].quest
        /\ quests' = [quests EXCEPT ![q] = Copy(@, req[u].sends)]

\* The etag an author is answered with admits the author's next edit, unless somebody writes in between.
EtagIsOfTheFile(u) == Finishes(u) /\ shown'[u] # shown[u] => shown'[u].etag = etag_for(quests'[shown'[u].id])

EditsAreSeen == \A u \in Authors : KnowsWhatItReplaces(u) /\ EtagIsOfTheFile(u)

-----------------------------------------------------------------------------
\* What the edits rest on: an answer is about the world that is saved, or is the one the author has
\* already, and as long as nobody overtakes the request, it is about to write the files as they are
\* with its own update, and its etag, if it carries one, was of the very quest in the files.
RequestInv(u) ==
    req[u] # Idle =>
        /\ \/ req[u].tells = shown[u]
           \/ req[u].id \in DOMAIN req[u].quests /\ req[u].tells = Answer(req[u].id, req[u].quests)
        /\ req[u].guarded /\ ~req[u].overtaken =>
              /\ req[u].id \in DOMAIN quests
              /\ shown[u] # Idle /\ shown[u].quest = quests[req[u].id]
              /\ req[u].quests = [quests EXCEPT ![req[u].id] = Copy(@, req[u].sends)]

EditInv == TypeOK /\ \A u \in Authors : RequestInv(u)
=============================================================================
