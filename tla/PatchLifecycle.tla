--------------------------- MODULE PatchLifecycle ---------------------------
(***************************************************************************)
(* The repair loop of pipeline/patches.py: suggest a patch for an audit    *)
(* issue, apply it, roll it back.  The patch row lives in SQLite, the      *)
(* world in files; a request reads and writes them in separate steps.  A   *)
(* patch's id is a hash of its issue and operations, so here the           *)
(* operations stand for the patch.  Requests and direct edits are served   *)
(* one at a time here: ReviewDecision has them overlap.                    *)
(***************************************************************************)
EXTENDS PatchFixers

CONSTANTS
    ModelOps,    \* operations that the language model may suggest
    Reqs,        \* request slots, served one at a time
    MaxPatches,  \* bound: rows in the patches table
    MaxCrashes   \* bound: requests that die between two steps

ASSUME PatchAssumption ==
    /\ Dangling \subseteq Triples
    /\ BadVals \subseteq Vals
    /\ Failed \notin Documents
    /\ ModelOps \subseteq Operations
    /\ MaxRels \in Nat /\ MaxPatches \in Nat /\ MaxCrashes \in Nat

VARIABLES
    doc,      \* the world
    patches,  \* the patches table: operations -> status and rollback operations
    req,      \* the local state of each request
    crashes,
    trail     \* history: patch -> the world before and after its last apply, and since it was
              \* last proposed, how often it was written and how often a request died between
              \* that write and its mark

vars == <<doc, patches, req, crashes, trail>>

PatchStatus == {"proposed", "applied", "rolled_back"}

\* What is suggested: a fix, or an operation of the model's.
Candidates(d) == DanglingFix(d) \cup DuplicateFix(d) \cup FieldFix(d) \cup {<<op>> : op \in ModelOps}

Idle == [pc |-> "idle"]
At(r, pc) == req[r].pc = pc
MayStart == \A r \in Reqs : At(r, "idle")
Leave(r) == req' = [req EXCEPT ![r] = Idle]
Row(status, rollback) == [status |-> status, rollback |-> rollback]
Put(f, x, y) == [z \in DOMAIN f \cup {x} |-> IF z = x THEN y ELSE f[z]]

Init ==
    /\ doc \in Documents
    /\ patches = <<>>
    /\ req = [r \in Reqs |-> Idle]
    /\ crashes = 0
    /\ trail = <<>>

\* PatchSuggestService.suggest on the snapshot of the request.
Suggest(r) ==
    /\ MayStart /\ At(r, "idle")
    /\ \E ops \in Candidates(doc) :
          /\ Survives(doc, ops)
          /\ Cardinality(DOMAIN patches \cup {ops}) <= MaxPatches
          /\ req' = [req EXCEPT ![r] = [pc |-> "suggested", ops |-> ops]]
    /\ UNCHANGED <<doc, patches, crashes, trail>>

\* save_patch: INSERT OR REPLACE under the stable id, status proposed, no rollback.
Propose(r) ==
    /\ At(r, "suggested")
    /\ patches' = Put(patches, req[r].ops, Row("proposed", <<>>))
    /\ trail' = Put(trail, req[r].ops, [before |-> doc, after |-> doc, writes |-> 0, lost |-> 0])
    /\ Leave(r)
    /\ UNCHANGED <<doc, crashes>>

\* A bug: the status of the patch is not looked at.
ApplyOpenAnyStatus(r, ops) ==
    /\ MayStart /\ At(r, "idle")
    /\ ops \in DOMAIN patches
    /\ Survives(doc, ops)
    /\ req' = [req EXCEPT ![r] = [pc |-> "gated", ops |-> ops]]
    /\ UNCHANGED <<doc, patches, crashes, trail>>

\* apply_patch_workflow up to its gate, which looks at the snapshot of the request.
ApplyOpen(r, ops) ==
    /\ MayStart /\ At(r, "idle")
    /\ ops \in DOMAIN patches /\ patches[ops].status = "proposed"
    /\ Survives(doc, ops)
    /\ req' = [req EXCEPT ![r] = [pc |-> "gated", ops |-> ops]]
    /\ UNCHANGED <<doc, patches, crashes, trail>>

\* apply_patch_to_store: load, the inverse operations and the patched copy ...
ApplyLoad(r) ==
    /\ At(r, "gated")
    /\ LET after == ApplyOps(doc, req[r].ops) IN
       IF after = Failed THEN Leave(r)
       ELSE req' = [req EXCEPT ![r] = [pc |-> "loaded", ops |-> req[r].ops, after |-> after,
                                       before |-> doc,
                                       rollback |-> InverseOps(doc, req[r].ops)]]
    /\ UNCHANGED <<doc, patches, crashes, trail>>

\* ... and save.
ApplySave(r) ==
    /\ At(r, "loaded")
    /\ doc' = req[r].after
    /\ trail' = [trail EXCEPT ![req[r].ops] =
                    [before |-> req[r].before, after |-> req[r].after,
                     writes |-> @.writes + 1, lost |-> @.lost]]
    /\ req' = [req EXCEPT ![r] = [pc |-> "saved", ops |-> @.ops, rollback |-> @.rollback]]
    /\ UNCHANGED <<patches, crashes>>

\* update_patch(status="applied", rollback_ops=...).
ApplyUpdate(r) ==
    /\ At(r, "saved")
    /\ patches' = [patches EXCEPT ![req[r].ops] = Row("applied", req[r].rollback)]
    /\ Leave(r)
    /\ UNCHANGED <<doc, crashes, trail>>

\* rollback_patch_workflow: the checks on the row.
RollbackOpen(r, ops) ==
    /\ MayStart /\ At(r, "idle")
    /\ ops \in DOMAIN patches /\ patches[ops].status = "applied"
    /\ patches[ops].rollback # <<>>
    /\ req' = [req EXCEPT ![r] = [pc |-> "undo", ops |-> ops, rollback |-> patches[ops].rollback]]
    /\ UNCHANGED <<doc, patches, crashes, trail>>

\* A bug: what a failed rollback leaves is saved all the same.
RollbackLoadUnchecked(r) ==
    /\ At(r, "undo")
    /\ req' = [req EXCEPT ![r] = [pc |-> "undone", ops |-> @.ops,
                                  after |-> ApplyOps(doc, @.rollback)]]
    /\ UNCHANGED <<doc, patches, crashes, trail>>

\* rollback_patch_in_store: no gate; an exception leaves the patch applied.
RollbackLoad(r) ==
    /\ At(r, "undo")
    /\ LET after == ApplyOps(doc, req[r].rollback) IN
       IF after = Failed THEN Leave(r)
       ELSE req' = [req EXCEPT ![r] = [pc |-> "undone", ops |-> @.ops, after |-> after]]
    /\ UNCHANGED <<doc, patches, crashes, trail>>

RollbackSave(r) ==
    /\ At(r, "undone")
    /\ doc' = req[r].after
    /\ req' = [req EXCEPT ![r] = [pc |-> "restored", ops |-> @.ops]]
    /\ UNCHANGED <<patches, crashes, trail>>

RollbackUpdate(r) ==
    /\ At(r, "restored")
    /\ patches' = [patches EXCEPT ![req[r].ops].status = "rolled_back"]
    /\ Leave(r)
    /\ UNCHANGED <<doc, crashes, trail>>

\* Every relation but t, in order.
Without(rels, t) ==
    LET kept == {k \in 1..Len(rels) : rels[k] # t} IN [n \in 1..Cardinality(kept) |-> rels[Nth(kept, n)]]

\* add_relation_action, remove_relation_action, and an edit of a field.
Edit ==
    /\ MayStart
    /\ \/ \E t \in Triples \ (Dangling \cup ToSet(doc.rels)) :
             Len(doc.rels) < MaxRels /\ doc' = [doc EXCEPT !.rels = Append(@, t)]
       \/ \E t \in ToSet(doc.rels) : doc' = [doc EXCEPT !.rels = Without(@, t)]
       \/ \E f \in Fields, v \in Vals : doc' = [doc EXCEPT !.fields[f] = v]
    /\ UNCHANGED <<patches, req, crashes, trail>>

\* The process dies, or a read or write of the disk fails.
Crash(r) ==
    /\ ~ At(r, "idle")
    /\ crashes < MaxCrashes
    /\ crashes' = crashes + 1
    /\ trail' = IF At(r, "saved") THEN [trail EXCEPT ![req[r].ops].lost = @ + 1] ELSE trail
    /\ Leave(r)
    /\ UNCHANGED <<doc, patches>>

Next ==
    \/ \E r \in Reqs :
          \/ Suggest(r) \/ Propose(r)
          \/ \E ops \in DOMAIN patches : ApplyOpen(r, ops) \/ RollbackOpen(r, ops)
          \/ ApplyLoad(r) \/ ApplySave(r) \/ ApplyUpdate(r)
          \/ RollbackLoad(r) \/ RollbackSave(r) \/ RollbackUpdate(r)
          \/ Crash(r)
    \/ Edit

Spec == Init /\ [][Next]_vars
-----------------------------------------------------------------------------
\* Patches and their rollbacks, as far as they are stored, and what a request has read of them.
Plans == Seq(Operations) \ {<<>>}
Stored == {Idle}
    \cup [pc : {"suggested", "gated", "restored"}, ops : Plans]
    \cup [pc : {"loaded"}, ops : Plans, after : Documents, before : Documents, rollback : Seq(Operations)]
    \cup [pc : {"saved", "undo"}, ops : Plans, rollback : Seq(Operations)]
    \cup [pc : {"undone"}, ops : Plans, after : Documents]

TypeOK ==
    /\ doc \in Documents
    /\ DOMAIN patches \subseteq Plans
    /\ \A ops \in DOMAIN patches : patches[ops] \in [status : PatchStatus, rollback : Seq(Operations)]
    /\ DOMAIN trail = DOMAIN patches
    /\ \A ops \in DOMAIN trail : trail[ops] \in [before : Documents, after : Documents, writes : Nat, lost : Nat]
    /\ req \in [Reqs -> Stored]
    /\ crashes \in Nat

\* The operator can always undo: an applied patch has stored rollback operations.
AppliedHasRollback ==
    \A ops \in DOMAIN patches : patches[ops].status = "applied" => patches[ops].rollback # <<>>

\* One-click rollback: as long as nothing else has changed the world, rolling back an
\* applied patch gives the world back as it was before the patch.
Undoable ==
    \A ops \in DOMAIN patches :
        patches[ops].status = "applied" /\ doc = trail[ops].after
        => ApplyOps(doc, patches[ops].rollback) = trail[ops].before

\* ... which holds for patches that replace or drop fields and append relations; and whatever was
\* applied has its rollback stored with it.
UndoableSimple ==
    AppliedHasRollback /\
    \A ops \in DOMAIN patches :
        /\ patches[ops].status = "applied" /\ doc = trail[ops].after
        /\ \A k \in DOMAIN ops : \/ ops[k].kind = "append"
                                 \/ ops[k].kind = "field" /\ ops[k].op # "add"
        => ApplyOps(doc, patches[ops].rollback) = trail[ops].before

\* The row says that the patch was written, or a request is about to make it say so.
Written(ops) == patches[ops].status # "proposed" \/ \E r \in Reqs : At(r, "saved") /\ req[r].ops = ops

\* However often a request to apply is repeated, a proposal is written to the world just as
\* often as its row tells: never as long as it is proposed, once when it is applied or rolled
\* back; and once more for every request that died after its write, before it could say so in
\* the patches table.  (A request that is just there has written and not told yet.)
AppliedOnce ==
    \A ops \in DOMAIN trail :
        trail[ops].writes = trail[ops].lost + IF Written(ops) THEN 1 ELSE 0

\* The strengthening that the proofs of these invariants use.  Requests do not overlap; what one has
\* read of the world and of a patch is still so.
OneAtATime == \A r, q \in Reqs : r # q => At(r, "idle") \/ At(q, "idle")

\* The history of an apply: where the rollback operations and the patched copy come from.
Computed(d, ops, after, rollback) == after = ApplyOps(d, ops) /\ rollback = InverseOps(d, ops)

RequestInv(r) ==
    LET q == req[r] IN
    /\ q.pc \notin {"idle", "suggested"} => q.ops \in DOMAIN patches
    /\ q.pc \in {"gated", "loaded", "saved"} => patches[q.ops].status = "proposed"
    /\ q.pc \in {"undo", "undone", "restored"} => patches[q.ops].status = "applied"
    /\ q.pc = "gated" => Survives(doc, q.ops)
    /\ q.pc = "loaded" => Survives(doc, q.ops) /\ q.before = doc /\ Computed(doc, q.ops, q.after, q.rollback)
    /\ q.pc = "saved" => Computed(trail[q.ops].before, q.ops, trail[q.ops].after, q.rollback)

HistoryInv(ops) ==
    /\ trail[ops].writes = trail[ops].lost + IF Written(ops) THEN 1 ELSE 0
    /\ patches[ops].status = "applied"
          => Computed(trail[ops].before, ops, trail[ops].after, patches[ops].rollback)

PatchInv ==
    /\ TypeOK
    /\ OneAtATime
    /\ \A r \in Reqs : RequestInv(r)
    /\ \A ops \in DOMAIN patches : HistoryInv(ops)

\* Applying a patch adds no error to the world it is written to.
ApplyIsClean ==
    [][\A r \in Reqs : At(r, "loaded") /\ At(r, "saved")' => Errors(doc') \subseteq Errors(doc)]_vars

\* A patch that was proposed to drop dangling relations takes no other relation out of the
\* world.
DropsOnlyDangling ==
    [][\A r \in Reqs : At(r, "loaded") /\ At(r, "saved")'
          /\ (\A k \in 1..Len(req[r].ops) :
                 req[r].ops[k].kind = "rel" /\ req[r].ops[k].val \in Dangling)
       => ToSet(doc.rels) \ ToSet(doc'.rels) \subseteq Dangling]_vars
=============================================================================
