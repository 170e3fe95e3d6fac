------------------------------- MODULE Intake -------------------------------
(***************************************************************************)
(* Content that comes from outside: strict imports, by upload or from the  *)
(* command line, which write the world themselves, and recognised plans,   *)
(* which are filed for review and accepted later.  Requests overlap; each  *)
(* reads the world once and, if it imports, saves the whole of it again.   *)
(***************************************************************************)
EXTENDS Recognition

CONSTANTS
    Requests,               \* the requests that may be under way at once
    Files, Mappings,        \* what can be imported, and the documents of column mappings
    Uploads,                \* the files that are uploaded
    Sources, Proposals,     \* what can be recognised, and what a model may answer
    FirstWorld, Edited,     \* the world at first, and the objects that people edit
    MaxRequests, MaxEdits

VARIABLES
    world,      \* the files of the world
    uploaded,   \* the directory for uploads: the name of a file -> which one it is
    queue,      \* the items filed for review
    at,         \* where each request is
    past,       \* for the properties: what was last written, what overlapping saves lost, what was imported
    spent       \* edits and requests so far

vars == <<world, uploaded, queue, at, past, spent>>

Idle == [step |-> "idle"]
EntityIds(w) == {k[2] : k \in {k \in DOMAIN w.objects : k[1] = "entity"}}

Init ==
    /\ world = FirstWorld
    /\ uploaded = <<>> /\ queue = <<>>
    /\ at = [c \in Requests |-> Idle]
    /\ past = [kept |-> FirstWorld.objects, lost |-> {}, mixed |-> {}, imported |-> {}]
    /\ spent = [requests |-> 0, edits |-> 0]

Take(c) == at[c] = Idle /\ spent.requests < MaxRequests /\ spent' = [spent EXCEPT !.requests = @ + 1]
Modes == {"dry run", "all or nothing", "without conflicts"}

-----------------------------------------------------------------------------
(* Strict imports. *)

\* The other requests that read an upload of this name, or remove it when they end.
Using(name, c) == {d \in Requests \ {c} : at[d].step \in {"uploaded", "parsed", "loaded"} /\ at[d].name = name}

\* An upload is put under the name that it came with, over an earlier one that is still to be read.
Upload(c, f) ==
    /\ Take(c) /\ f \in Uploads
    /\ LET name == Files[f].name
       IN  /\ uploaded' = [n \in DOMAIN uploaded \cup {name} |-> IF n = name THEN f ELSE uploaded[n]]
           /\ past' = [past EXCEPT !.mixed =
                          IF Using(name, c) = {} THEN @ \ {c} ELSE @ \cup Using(name, c) \cup {c}]
    /\ \E mode \in Modes : at' = [at EXCEPT ![c] = [step |-> "uploaded", file |-> f, mode |-> mode, name |-> Files[f].name]]
    /\ UNCHANGED <<world, queue>>

Unlink(name) == [n \in DOMAIN uploaded \ {name} |-> uploaded[n]]

Parsed(c, f, rows, mode, name) ==
    at' = [at EXCEPT ![c] = [step |-> "parsed", file |-> f, mode |-> mode, rows |-> rows, name |-> name]]

\* The upload may be gone with that of another request.
ParseUpload(c) ==
    /\ at[c].step = "uploaded"
    /\ LET name == at[c].name
           file == uploaded[name]
       IN  IF name \in DOMAIN uploaded THEN Parsed(c, file, ParsePath(Files[file]), at[c].mode, name)
           ELSE at' = [at EXCEPT ![c] = Idle]
    /\ UNCHANGED <<world, uploaded, queue, past, spent>>

\* The command line reads files where they are, with or without a document of mappings.
ReadFile(c, f) ==
    /\ Take(c)
    /\ \E mode \in Modes, mapped \in BOOLEAN :
          Parsed(c, f, IF mapped THEN ParseWithMapping(Files[f], Mappings) ELSE ParsePath(Files[f]), mode, "")
    /\ UNCHANGED <<world, uploaded, queue, past>>

\* The world is read after the file; a batch that is refused leaves no trace.
LoadBatch(c) ==
    /\ at[c].step = "parsed"
    /\ LET req   == at[c]
           batch == NormalizeRawObjects(req.rows)
       IN  IF batch.ok
           THEN /\ at' = [at EXCEPT ![c] = [step |-> "loaded", file |-> req.file, mode |-> req.mode, batch |-> batch,
                                            on |-> world, name |-> req.name]]
                /\ UNCHANGED uploaded
           ELSE at' = [at EXCEPT ![c] = Idle] /\ uploaded' = Unlink(req.name)
    /\ UNCHANGED <<world, queue, past, spent>>

Writes(req) ==
    \/ req.mode = "without conflicts"
    \/ req.mode = "all or nothing" /\ Conflicts(req.on, req.batch) = {}

\* What others have written since the world was read, and this save undoes.
Undone(req, merged) ==
    {k \in DOMAIN world.objects :
        (k \notin DOMAIN req.on.objects \/ req.on.objects[k] # world.objects[k])
        /\ (k \notin DOMAIN merged.objects \/ merged.objects[k] # world.objects[k])}

SaveBatch(c) ==
    /\ at[c].step = "loaded"
    /\ LET req    == at[c]
           merged == MergeBundles(req.on, req.batch)
           added  == {k \in DOMAIN req.batch.objects : DiffBundles(req.on, req.batch)[k] = "add"}
       IN  IF Writes(req)
           THEN /\ world' = merged
                /\ past' = [past EXCEPT !.lost = @ \cup Undone(req, merged),
                                        !.kept = Over([k \in added |-> req.batch.objects[k]], @),
                                        !.imported = IF Conflicts(req.on, req.batch) = {}
                                                     THEN @ \cup {req.batch.objects} ELSE @]
           ELSE UNCHANGED <<world, past>>
    /\ uploaded' = Unlink(at[c].name)
    /\ at' = [at EXCEPT ![c] = Idle]
    /\ UNCHANGED <<queue, spent>>

-----------------------------------------------------------------------------
(* Recognition. *)

\* The world is read when the request comes; a model may be asked meanwhile.
Read(c, s) ==
    /\ Take(c)
    /\ \E apply, asks \in BOOLEAN :
          at' = [at EXCEPT ![c] = [step |-> "recognising", source |-> s, on |-> world, apply |-> apply, asks |-> asks]]
    /\ UNCHANGED <<world, uploaded, queue, past>>

\* What is new or has changed is filed, if it is anything.
Staged(plan, file, canon) ==
    LET diff == DiffAgainstCanon(plan, file, canon)
    IN  PlanToBundle(plan, file, {e \in Ids(plan.entities) : diff[e] # "unchanged"})
AsRead(plan, canon) == [known |-> Ids(plan.entities), ids |-> EntityIds(canon)]
File(plan, s, canon, whole, read) ==
    LET bundle == Staged(plan, Sources[s].name, canon)
    IN  queue' = IF DOMAIN bundle.objects = {} /\ bundle.relations = <<>> THEN queue
                 ELSE Append(queue, [source |-> s, plan |-> plan, on |-> canon, bundle |-> bundle, whole |-> whole,
                                     read |-> read, status |-> "pending_review"])

FinishPlan(c) ==
    /\ at[c].step = "recognising"
    /\ LET req  == at[c]
           read == Recognize(Sources[req.source], EntityIds(req.on))
           all  == Passages(Sources[req.source], read)
       IN  \E plan \in {ProposeGuarded(read, all, answer) : answer \in IF req.asks THEN Proposals ELSE {<<>>}} :
              IF req.apply
              THEN /\ File(plan, req.source, req.on, TRUE, AsRead(plan, req.on))
                   /\ at' = [at EXCEPT ![c] = Idle]
              ELSE /\ at' = [at EXCEPT ![c] = [step |-> "editing", source |-> req.source, plan |-> plan,
                                              read |-> AsRead(plan, req.on)]]
                   /\ UNCHANGED queue
    /\ UNCHANGED <<world, uploaded, past, spent>>

\* A person may take an entity or a relation out of the plan before it is filed.
Cut(s, i) == [k \in 1 .. Len(s) - 1 |-> IF k < i THEN s[k] ELSE s[k + 1]]
Trimmed(plan) ==
    {plan} \cup {[plan EXCEPT !.entities = Cut(@, i)] : i \in DOMAIN plan.entities}
           \cup {[plan EXCEPT !.relations = Cut(@, i)] : i \in DOMAIN plan.relations}

ApplyPlan(c) ==
    /\ at[c].step = "editing"
    /\ \E plan \in Trimmed(at[c].plan) :
          File(plan, at[c].source, world, plan = at[c].plan, at[c].read)
    /\ at' = [at EXCEPT ![c] = Idle]
    /\ UNCHANGED <<world, uploaded, past, spent>>

-----------------------------------------------------------------------------
(* Review, in one step (ReviewDecision has its steps), and edits. *)

\* Of what the audit of an acceptance finds: relations that lead nowhere.
Dangling(w) ==
    LET ids == {k[2] : k \in DOMAIN w.objects}
    IN  {r \in {w.relations[i] : i \in DOMAIN w.relations} : ~ {r.source, r.target} \subseteq ids}

Approved(bundle) ==
    [bundle EXCEPT !.objects = [k \in DOMAIN bundle.objects |->
        IF bundle.objects[k].origin # "human" THEN [bundle.objects[k] EXCEPT !.status = "approved"]
        ELSE bundle.objects[k]]]
Accepted(bundle) ==
    LET merged == [objects   |-> Over(Approved(bundle).objects, world.objects),
                   relations |-> world.relations \o bundle.relations]
    IN  IF DOMAIN bundle.objects \cap DOMAIN world.objects = {} /\ Dangling(merged) \subseteq Dangling(world)
        THEN merged ELSE world

Accept(i) ==
    /\ queue[i].status = "pending_review"
    /\ Accepted(queue[i].bundle) # world
    /\ world' = Accepted(queue[i].bundle)
    /\ queue' = [queue EXCEPT ![i].status = "accepted"]
    /\ past' = [past EXCEPT !.kept = Over(Approved(queue[i].bundle).objects, @)]
    /\ UNCHANGED <<uploaded, at, spent>>

Edit(k) ==
    /\ spent.edits < MaxEdits /\ k \in DOMAIN world.objects
    /\ spent' = [spent EXCEPT !.edits = @ + 1]
    /\ world' = [world EXCEPT !.objects[k].name = "edited"]
    /\ past' = [past EXCEPT !.kept = Over([j \in {k} |-> world'.objects[j]], @)]
    /\ UNCHANGED <<uploaded, queue, at>>

Next ==
    \/ \E c \in Requests :
          \/ \E f \in DOMAIN Files : Upload(c, f) \/ ReadFile(c, f)
          \/ \E s \in DOMAIN Sources : Read(c, s)
          \/ ParseUpload(c) \/ LoadBatch(c) \/ SaveBatch(c) \/ FinishPlan(c) \/ ApplyPlan(c)
    \/ \E i \in DOMAIN queue : Accept(i)
    \/ \E k \in Edited : Edit(k)

Spec == Init /\ [][Next]_vars

-----------------------------------------------------------------------------
\* What the proofs need of the constants: objects have a status, and a file that is uploaded a name.
WellFormed ==
    /\ FirstWorld = [objects |-> FirstWorld.objects, relations |-> FirstWorld.relations]
    /\ \A k \in DOMAIN FirstWorld.objects :
          "status" \in DOMAIN FirstWorld.objects[k] /\ FirstWorld.objects[k].status \in {"approved", "pending_review"}
    /\ \A f \in Uploads : Files[f].name # ""

TypeOK ==
    /\ \A k \in DOMAIN world.objects : world.objects[k].status \in {"approved", "pending_review"}
    /\ \A i \in DOMAIN queue : queue[i].status \in {"pending_review", "accepted"}
    /\ \A c \in Requests : at[c].step \in {"idle", "uploaded", "parsed", "loaded", "recognising", "editing"}

\* What was written last stays, unless a save that overlapped with its writing undid it.
WordIsKept ==
    \A k \in DOMAIN past.kept \ past.lost : k \in DOMAIN world.objects /\ world.objects[k] = past.kept[k]

\* A request imports what it was sent, unless another came under the same name in between.
OwnUpload == \A c \in Requests \ past.mixed :
    at[c].step = "uploaded" => at[c].name \in DOMAIN uploaded /\ uploaded[at[c].name] = at[c].file

\* What is filed is not in the world as the world was; what a model proposed for it was proved,
\* between two entities that the file has.
StagedIsNew ==
    \A i \in DOMAIN queue :
        LET item == queue[i]
        IN  /\ \A k \in DOMAIN item.bundle.objects :
                  k \in DOMAIN item.on.objects =>
                      Fingerprint(item.bundle.objects[k]) # Fingerprint(item.on.objects[k])
                      \/ Cardinality(Ids(item.plan.entities)) < Len(item.plan.entities)
            /\ \A j \in DOMAIN item.bundle.relations :
                  item.bundle.relations[j].how = "llm" =>
                      {item.bundle.relations[j].source, item.bundle.relations[j].target} \subseteq item.read.known

\* A file that was accepted whole and that nobody has edited since is not filed again, as long as
\* no object has come that the file names, and its proposals have different ids.
RereadIsQuiet ==
    \A i \in DOMAIN queue :
        LET item  == queue[i]
            keys  == {<<"entity", e>> : e \in Ids(item.plan.entities)}
            since == EntityIds(world) \ (item.read.ids \cup Ids(item.plan.entities))
            again == Recognize(Sources[item.source], EntityIds(world))
        IN  ( /\ item.status = "accepted" /\ item.whole /\ past.lost = {}
              /\ Cardinality(Ids(item.plan.entities)) = Len(item.plan.entities)
              /\ \A k \in keys \cap DOMAIN item.bundle.objects : world.objects[k] = item.bundle.objects[k]
              /\ \A k \in keys \ DOMAIN item.bundle.objects : world.objects[k] = item.on.objects[k]
              /\ since \cap Sources[item.source].names = {} )
            => DOMAIN Staged(again, Sources[item.source].name, world).objects = {}

\* A batch that was imported whole and not edited since conflicts with nothing when it comes again.
ReimportIsQuiet ==
    \A objects \in past.imported :
        \A k \in DOMAIN objects \ past.lost :
            past.kept[k] = objects[k] => k \notin Conflicts(world, [objects |-> objects])

IntakeHolds == WordIsKept /\ OwnUpload /\ StagedIsNew /\ RereadIsQuiet /\ ReimportIsQuiet
=============================================================================
