--------------------------- MODULE CanonRefactor ---------------------------
(***************************************************************************)
(* Renaming an id, and undoing it.  A rename takes a snapshot, rewrites    *)
(* the references it knows of in a copy of the bundle, and saves the copy  *)
(* over the files of the content store, a directory or a file at a time;   *)
(* the process may die anywhere in between.                                *)
(***************************************************************************)
EXTENDS Naturals, Sequences, FiniteSets, SequencesExt

CONSTANTS
    Ids,         \* ids; an entity and a quest may have the same one
    Worlds,      \* the bundles a project starts with
    MaxSnaps,    \* bound: snapshots
    MaxOps,      \* bound: saves
    MaxCrashes   \* bound: crashes

VARIABLES
    files,        \* what a load of the content store would read
    torn,         \* a JSON file was cut short: loading raises
    snaps,        \* .snapshots/, oldest first
    writer,       \* the request being served: the bundle it writes and how far it is
    overwritten,  \* bundles that a rename has begun to write over (auxiliary)
    ops, crashes

vars == <<files, torn, snaps, writer, overwritten, ops, crashes>>

\* An id is used in a relation (from its owner), in a quest (the owner): its giver and other
\* entities, its prerequisites and unlocks, the places of its stages; and in an event reference
\* (which ties the quest that owns it to an event).
QuestSites == {"quest.entity", "quest.prerequisite", "stage.location"}
Sites      == QuestSites \cup {"relation", "event_ref"}
Ref        == [site : Sites, owner : Ids, to : Ids]
World      == [entities : SUBSET Ids, quests : SUBSET Ids, refs : SUBSET Ref]

InQuest(r) == r.site \in QuestSites
At(b, site) == {r \in b.refs : r.site = site}
OfQuest(b, q) == {r \in b.refs : InQuest(r) /\ r.owner = q}

\* A bug: prerequisites are forgotten.
FollowedLess == {"relation", "quest.entity"}

\* find_references and _apply_id_change: where the target of a reference is rewritten.
Followed == {"relation", "quest.entity", "quest.prerequisite"}

\* _kind_to_collection: the first collection that has the id.
Collection(b, id) == IF id \in b.entities THEN "entities" ELSE "quests"

Swap(S, old, new) == IF old \in S THEN (S \ {old}) \cup {new} ELSE S

\* The quest's own references move with it; both ends of a relation are rewritten; nothing
\* asks whether the reference was to the renamed object or to another one with its id.
RewriteOwner(r, old, coll) ==
    r.owner = old /\ (r.site = "relation" \/ (InQuest(r) /\ coll = "quests"))
RewriteTo(r, old) == r.to = old /\ r.site \in Followed

Moved(r, old, new, coll) ==
    [site  |-> r.site,
     owner |-> IF RewriteOwner(r, old, coll) THEN new ELSE r.owner,
     to    |-> IF RewriteTo(r, old) THEN new ELSE r.to]

Renamed(b, old, new) ==
    LET coll == Collection(b, old) IN
    [entities |-> IF coll = "entities" THEN Swap(b.entities, old, new) ELSE b.entities,
     quests   |-> IF coll = "quests"   THEN Swap(b.quests, old, new)   ELSE b.quests,
     refs     |-> {Moved(r, old, new, coll) : r \in b.refs}]

\* ContentStore.save: entities, relations, event references, quests; a directory loses the
\* files the bundle has no object for before any is written.
Stages == <<"cut entities", "entities", "relations", "event_refs", "cut quests", "quests">>
After(pc) == Stages[1 + CHOOSE k \in 1..Len(Stages) : Stages[k] = pc]

Idle == [pc |-> "idle"]

Init ==
    /\ files \in Worlds
    /\ torn = FALSE
    /\ snaps = <<>>
    /\ writer = Idle
    /\ overwritten = {}
    /\ ops = 0
    /\ crashes = 0

Start(w) ==
    /\ writer = Idle /\ ~torn /\ ops < MaxOps
    /\ ops' = ops + 1
    /\ writer' = w
    /\ UNCHANGED <<files, torn, snaps, overwritten, crashes>>

\* plan_rename: an id the collection has is a conflict, an id another collection has is not.
Rename(old, new) ==
    /\ old \in files.entities \cup files.quests
    /\ new # old /\ Len(snaps) < MaxSnaps
    /\ new \notin (IF Collection(files, old) = "entities" THEN files.entities ELSE files.quests)
    /\ Start([pc |-> "snapshot", op |-> "rename", from |-> files, to |-> Renamed(files, old, new)])

WriteSnapshot ==
    /\ writer.pc = "snapshot"
    /\ snaps' = Append(snaps, files)
    /\ writer' = [writer EXCEPT !.pc = Stages[1]]
    /\ UNCHANGED <<files, torn, overwritten, ops, crashes>>

Restore(k) ==
    Start([pc |-> Stages[1], op |-> "restore", from |-> files, to |-> snaps[k]])

\* add_relation_action and remove_relation_action, which save the whole bundle too.
EditRelations(r) ==
    /\ r.site = "relation" /\ r.owner # r.to
    /\ r \notin files.refs => {r.owner, r.to} \subseteq files.entities \cup files.quests
    /\ Start([pc |-> Stages[1], op |-> "edit", from |-> files,
              to |-> [files EXCEPT !.refs = IF r \in @ THEN @ \ {r} ELSE @ \cup {r}]])

\* One write of a save: the files become b.
Put(b) ==
    /\ files' = b
    /\ overwritten' = IF writer.op = "rename" THEN overwritten \cup {writer.from} ELSE overwritten
    /\ UNCHANGED <<torn, snaps, ops, crashes>>

Advance == writer' = IF writer.pc = "quests" THEN Idle ELSE [writer EXCEPT !.pc = After(@)]

CutEntities ==
    /\ writer.pc = "cut entities"
    /\ Put([files EXCEPT !.entities = @ \cap writer.to.entities])
    /\ Advance

WriteEntities ==
    /\ writer.pc = "entities"
    /\ Put([files EXCEPT !.entities = writer.to.entities])
    /\ Advance

WithSite(site) == [files EXCEPT !.refs = (@ \ At(files, site)) \cup At(writer.to, site)]

WriteRelations == writer.pc = "relations"  /\ Put(WithSite("relation"))  /\ Advance
WriteEventRefs == writer.pc = "event_refs" /\ Put(WithSite("event_ref")) /\ Advance

\* A bug: files the bundle has no object for are left where they are.
CutQuestsNot == writer.pc = "cut quests" /\ Put(files) /\ Advance

\* A quest's references go with its file.
CutQuests ==
    /\ writer.pc = "cut quests"
    /\ Put([files EXCEPT !.quests = @ \cap writer.to.quests,
                         !.refs = {r \in @ : InQuest(r) => r.owner \in writer.to.quests}])
    /\ Advance

Written(q) == q \in files.quests /\ OfQuest(files, q) = OfQuest(writer.to, q)

WriteQuest(q) ==
    /\ writer.pc = "quests"
    /\ q \in writer.to.quests /\ ~Written(q)
    /\ Put([files EXCEPT !.quests = @ \cup {q},
                         !.refs = (@ \ OfQuest(files, q)) \cup OfQuest(writer.to, q)])
    /\ UNCHANGED writer

QuestsWritten ==
    /\ writer.pc = "quests"
    /\ \A q \in writer.to.quests : Written(q)
    /\ Put(files)
    /\ Advance

\* The process dies: between two files, or after a file was emptied and before it was filled.
\* An empty JSON file cannot be loaded, an empty .jsonl file has no lines.
Crash ==
    /\ writer # Idle /\ crashes < MaxCrashes
    /\ crashes' = crashes + 1
    /\ writer' = Idle
    /\ \/ UNCHANGED <<files, torn>>
       \/ writer.pc \in {"entities", "quests"} /\ torn' = TRUE /\ UNCHANGED files
       \/ /\ writer.pc \in {"relations", "event_refs"}
          /\ files' = [files EXCEPT !.refs = @ \ At(files, IF writer.pc = "relations" THEN "relation"
                                                                                     ELSE "event_ref")]
          /\ UNCHANGED torn
    /\ overwritten' = IF writer.op = "rename" /\ (files' # files \/ torn' # torn)
                      THEN overwritten \cup {writer.from} ELSE overwritten
    /\ UNCHANGED <<snaps, ops>>

Next ==
    \/ \E old, new \in Ids : Rename(old, new)
    \/ \E k \in 1..Len(snaps) : Restore(k)
    \/ \E r \in Ref : EditRelations(r)
    \/ WriteSnapshot
    \/ CutEntities \/ WriteEntities \/ WriteRelations \/ WriteEventRefs \/ CutQuests
    \/ \E q \in Ids : WriteQuest(q)
    \/ QuestsWritten
    \/ Crash

Spec == Init /\ [][Next]_vars

-----------------------------------------------------------------------------
\* The request being served, if there is one.
Requests == [pc : {"snapshot"} \cup Range(Stages), op : {"rename", "restore", "edit"},
             from : World, to : World]

TypeOK ==
    /\ files \in World
    /\ torn \in BOOLEAN
    /\ \A k \in 1..Len(snaps) : snaps[k] \in World
    /\ writer \in {Idle} \cup Requests
    /\ overwritten \subseteq World
    /\ ops \in Nat /\ crashes \in Nat

\* Whatever a rename has begun to write over is in a snapshot, also when it died half-way.
UndoPoint == \A b \in overwritten : \E k \in 1..Len(snaps) : snaps[k] = b

\* A restore that ends has put back exactly its snapshot, over whatever an interrupted save
\* had left.
RestoreIsExact ==
    [][writer # Idle /\ writer.op = "restore" /\ writer' = Idle /\ crashes' = crashes
       => files' = writer.to]_writer

\* What the audit reports: an end of a relation or an entity that is no object, a prerequisite
\* that is no quest.
Objects(b) == b.entities \cup b.quests
Resolves(b, r) ==
    CASE r.site = "relation"           -> {r.owner, r.to} \subseteq Objects(b)
      [] r.site = "quest.prerequisite" -> r.to \in b.quests
      [] OTHER                         -> r.to \in Objects(b)
Errors(b) == {r \in b.refs : ~Resolves(b, r)}
Renaming  == writer # Idle /\ writer.op = "rename"
Distinct(b) == b.entities \cap b.quests = {}

\* While no entity and quest share an id, before or after, a rename breaks none of the
\* relations, givers, prerequisites and other references it follows.
FollowedErrors(b) == {r \in Errors(b) : r.site \in {"relation", "quest.entity", "quest.prerequisite"}}
FollowedResolve ==
    Renaming /\ Distinct(writer.from) /\ Distinct(writer.to) =>
        Cardinality(FollowedErrors(writer.to)) <= Cardinality(FollowedErrors(writer.from))

\* What content/refactor.py promises of the audit after a rename: it must stay clean.
RenameStaysClean == Renaming /\ Errors(writer.from) = {} => Errors(writer.to) = {}

-----------------------------------------------------------------------------
(***************************************************************************)
(* What the properties rest on.                                            *)
(***************************************************************************)

\* The snapshot is of the world that the rename replaces, and is there before the first write.
UndoInv ==
    /\ UndoPoint
    /\ writer.pc = "snapshot" => writer.op = "rename" /\ writer.from = files
    /\ Renaming /\ writer.pc # "snapshot" => \E k \in 1..Len(snaps) : snaps[k] = writer.from

\* The references of a quest are in its file.
Owned(b) == \A r \in b.refs : InQuest(r) => r.owner \in b.quests

\* What the proofs need of the constants: finitely many ids, and worlds as a load returns them,
\* in which a quest's references are in its file.
WellFormed ==
    /\ IsFiniteSet(Ids)
    /\ Worlds \subseteq World
    /\ \A b \in Worlds : Owned(b)

AllOwned ==
    /\ Owned(files)
    /\ \A k \in 1..Len(snaps) : Owned(snaps[k])
    /\ writer # Idle => Owned(writer.to)

\* What a save has written so far is as in the world it writes.
SavedSoFar ==
    /\ writer.pc \in {"relations", "event_refs", "cut quests", "quests"} => files.entities = writer.to.entities
    /\ writer.pc \in {"event_refs", "cut quests", "quests"} => At(files, "relation") = At(writer.to, "relation")
    /\ writer.pc \in {"cut quests", "quests"} => At(files, "event_ref") = At(writer.to, "event_ref")
    /\ writer.pc = "quests" => files.quests \subseteq writer.to.quests

\* A rename writes what apply_rename made of the world that was loaded.
RenamesOnly ==
    Renaming => \E old, new \in Ids :
        /\ old \in Objects(writer.from)
        /\ writer.to = Renamed(writer.from, old, new)

RefactorInv == TypeOK /\ UndoInv /\ AllOwned /\ SavedSoFar /\ RenamesOnly
=============================================================================
