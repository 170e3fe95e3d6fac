--------------------------- MODULE ReviewDecision ---------------------------
(***************************************************************************)
(* The review queue at work: requests that decide or revise a draft and    *)
(* direct human edits, each one a sequence of separate reads and writes of *)
(* the queue (SQLite) and of the world (files) with no lock around them.   *)
(* A request opens its own ProjectContext: "snap" is project.bundle, the   *)
(* world at that moment.                                                   *)
(***************************************************************************)
EXTENDS Drafts, FiniteSets

CONSTANTS
    Reqs,        \* request slots: web worker threads, CLI and MCP processes
    FileOrder,   \* FileOrder[o]: the place of the file of o in a save; the relations are 1
    MaxActive,   \* bound: requests under way at the same time
    MaxCrashes   \* bound: requests that die between two steps

ASSUME ReviewDecisionAssumption ==
    /\ IsFiniteSet(Reqs)
    /\ FileOrder \in [Objs -> Nat \ {1}]
    /\ MaxActive \in Nat \ {0}
    /\ MaxCrashes \in Nat

VARIABLES
    status,    \* the status column of each review item
    payload,   \* the payload column: the current version of each draft
    canon,     \* the content files
    req,       \* the local state of each request
    crashes,   \* requests that died so far
    orphans,   \* history: items whose accept died in its save, or before its mark
    reported,  \* history: the decisions on each item that were marked in the queue
    missed     \* history: what was saved between the load of each request and its save

vars == <<status, payload, canon, req, crashes, orphans, reported, missed>>

Status == {"none", "pending_review", "accepted", "rejected"}
Decisions == {"accepted", "rejected"}

NoBundle == [obj |-> [o \in Objs |-> Absent], rels |-> [i \in Items |-> 0]]

\* op "accepted" and "rejected" are the decisions, "revise" the feedback revision,
\* "create" and "delete" the direct edits (which concern an object, not an item).
Idle == [pc |-> "idle"]
Request(pc, op, i, seen, snap, bundle) ==
    [pc |-> pc, op |-> op, item |-> i, seen |-> seen, snap |-> snap, bundle |-> bundle]

ItemOps == Decisions \cup {"revise"}
EditOps == {"create", "delete"}

Active == {r \in Reqs : req[r].pc # "idle"}
At(r, pc) == req[r].pc = pc
HasBundle(r) == At(r, "loaded") \/ At(r, "edited")
IsOp(r, op) == req[r].pc # "idle" /\ req[r].op = op

Init ==
    /\ status = [i \in Items |-> "none"]
    /\ payload \in [Items -> Revs]
    /\ canon \in HumanBundles
    /\ req = [r \in Reqs |-> Idle]
    /\ crashes = 0
    /\ orphans = {}
    /\ reported = [i \in Items |-> {}]
    /\ missed = [r \in Reqs |-> {}]

\* ReviewQueue.add: a generation service files a draft under a fresh id.
Generate(i) ==
    /\ status[i] = "none"
    /\ status' = [status EXCEPT ![i] = "pending_review"]
    /\ UNCHANGED <<payload, canon, req, crashes, orphans, reported, missed>>

\* ProjectContext.open: the request takes its snapshot of the world, which an accept goes
\* back to and the other requests do not look at.
Open(r, op, i) ==
    /\ At(r, "idle")
    /\ Cardinality(Active) < MaxActive
    /\ status[i] # "none"
    /\ LET snap == IF op = "accepted" THEN canon ELSE NoBundle IN
       req' = [req EXCEPT ![r] = Request("opened", op, i, payload[i], snap, NoBundle)]
    /\ UNCHANGED <<status, payload, canon, crashes, orphans, reported, missed>>

Leave(r) == req' = [req EXCEPT ![r] = Idle]

\* A bug: the status is not looked at, so a double click decides a decided item.
GetUnguarded(r) ==
    /\ At(r, "opened")
    /\ req' = [req EXCEPT ![r].pc = "guarded", ![r].seen = payload[req[r].item]]
    /\ UNCHANGED <<status, payload, canon, crashes, orphans, reported, missed>>

\* queue.get and the guard on the status; the payload used from here on is this one.
Get(r) ==
    /\ At(r, "opened")
    /\ IF status[req[r].item] = "pending_review"
       THEN req' = [req EXCEPT ![r].pc = "guarded", ![r].seen = payload[req[r].item]]
       ELSE Leave(r)
    /\ UNCHANGED <<status, payload, canon, crashes, orphans, reported, missed>>

\* A bug: an accept without the audit gate.
RefusedWithoutGate(r) ==
    LET i == req[r].item IN
    \/ ItemType[i] = "patch_candidate"
    \/ Overwrites(req[r].snap, i)
    \/ ~ LogicApplies(canon, i)

\* A bug: the gate audits the draft merged into the snapshot of the request.
RefusedBySnapshot(r) ==
    LET i == req[r].item IN
    \/ ItemType[i] = "patch_candidate"
    \/ Overwrites(req[r].snap, i)
    \/ ~ LogicApplies(canon, i) \/ ~ LogicApplies(req[r].snap, i)
    \/ Writes(i) /\ IntroducesErrors(req[r].snap, Materialise(req[r].snap, i, req[r].seen))

\* The ValueErrors of an accept: the conflict with the snapshot comes before the load,
\* the other checks look at the bundle just loaded and at the candidate.
Refused(r) ==
    LET i == req[r].item IN
    \/ ItemType[i] = "patch_candidate"
    \/ Overwrites(req[r].snap, i)
    \/ ~ LogicApplies(canon, i)
    \/ Writes(i) /\ IntroducesErrors(req[r].snap, Materialise(canon, i, req[r].seen))

\* A bug: the version that is merged is the one the client shows, not the one in the queue.
LoadFromClient(r) ==
    /\ At(r, "guarded") /\ IsOp(r, "accepted")
    /\ LET i == req[r].item IN
       IF Refused(r) THEN Leave(r)
       ELSE IF Writes(i)
       THEN \E v \in Revs : req' = [req EXCEPT ![r].pc = "loaded",
                                              ![r].bundle = Materialise(canon, i, v)]
       ELSE req' = [req EXCEPT ![r].pc = "saved"]
    /\ UNCHANGED <<status, payload, canon, crashes, orphans, reported, missed>>

\* A bug: the draft is merged into the world the request opened, not the one that is there.
LoadFromSnapshot(r) ==
    /\ At(r, "guarded") /\ IsOp(r, "accepted")
    /\ LET i == req[r].item IN
       IF Refused(r) \/ ~ LogicApplies(req[r].snap, i) THEN Leave(r)
       ELSE IF Writes(i)
       THEN req' = [req EXCEPT ![r].pc = "loaded",
                               ![r].bundle = Materialise(req[r].snap, i, req[r].seen)]
       ELSE req' = [req EXCEPT ![r].pc = "saved"]
    /\ UNCHANGED <<status, payload, canon, crashes, orphans, reported, missed>>

\* content_store.load, the draft merged into it, the audit gate.
Load(r) ==
    /\ At(r, "guarded") /\ IsOp(r, "accepted")
    /\ LET i == req[r].item IN
       IF Refused(r) THEN Leave(r)
       ELSE IF Writes(i)
       THEN req' = [req EXCEPT ![r].pc = "loaded",
                               ![r].bundle = Materialise(canon, i, req[r].seen)]
       ELSE req' = [req EXCEPT ![r].pc = "saved"]
    /\ UNCHANGED <<status, payload, canon, crashes, orphans, reported, missed>>

\* Every other request that holds a loaded bundle has missed what this save changes.
Overtakes(r) ==
    missed' = [s \in Reqs |-> IF s # r /\ HasBundle(s)
                              THEN missed[s] \cup Changed(canon, canon') ELSE {}]

\* A bug: the request ends with its save, the queue is not told.
SaveUnmarked(r) ==
    /\ At(r, "loaded")
    /\ canon' = req[r].bundle
    /\ Overtakes(r)
    /\ Leave(r)
    /\ UNCHANGED <<status, payload, crashes, orphans, reported>>

\* content_store.save of the whole bundle; the snapshot that project.reload takes is not
\* looked at again.
Save(r) ==
    /\ At(r, "loaded")
    /\ canon' = req[r].bundle
    /\ Overtakes(r)
    /\ req' = [req EXCEPT ![r].pc = "saved", ![r].snap = NoBundle, ![r].bundle = NoBundle]
    /\ UNCHANGED <<status, payload, crashes, orphans, reported>>

\* A bug: the branch for rejections takes every request that passed the guard.
MarkAnyOp(r) ==
    /\ At(r, "guarded") \/ At(r, "saved")
    /\ status' = [status EXCEPT ![req[r].item] = req[r].op]
    /\ reported' = [reported EXCEPT ![req[r].item] = @ \cup {req[r].op}]
    /\ Leave(r)
    /\ UNCHANGED <<payload, canon, crashes, orphans, missed>>

\* queue.mark: an UPDATE without a condition.
Mark(r) ==
    /\ \/ At(r, "guarded") /\ IsOp(r, "rejected")
       \/ At(r, "saved")
    /\ status' = [status EXCEPT ![req[r].item] = req[r].op]
    /\ reported' = [reported EXCEPT ![req[r].item] = @ \cup {req[r].op}]
    /\ Leave(r)
    /\ UNCHANGED <<payload, canon, crashes, orphans, missed>>

\* revise_draft_action after the guard: the model rewrites the draft, update_payload.
UpdatePayload(r) ==
    /\ At(r, "guarded") /\ IsOp(r, "revise")
    /\ IF ItemType[req[r].item] \in RevisableTypes
       THEN \E v \in Revs \ {req[r].seen} :
               /\ payload' = [payload EXCEPT ![req[r].item] = v]
               /\ status' = [status EXCEPT ![req[r].item] = "pending_review"]
       ELSE UNCHANGED <<status, payload>>
    /\ Leave(r)
    /\ UNCHANGED <<canon, crashes, orphans, reported, missed>>

\* The direct edits: load and change the bundle, then save it, whatever the audit says.
EditLoad(r, op, o) ==
    /\ At(r, "idle")
    /\ Cardinality(Active) < MaxActive
    /\ (op = "create") = (o \notin Present(canon))
    /\ req' = [req EXCEPT ![r] =
                 [pc |-> "edited", op |-> op, obj |-> o,
                  bundle |-> IF op = "create" THEN Created(canon, o) ELSE Deleted(canon, o)]]
    /\ UNCHANGED <<status, payload, canon, crashes, orphans, reported, missed>>

EditSave(r) ==
    /\ At(r, "edited")
    /\ canon' = req[r].bundle
    /\ Overtakes(r)
    /\ Leave(r)
    /\ UNCHANGED <<status, payload, crashes, orphans, reported>>

\* The process dies, or a read or write of the disk fails, between two steps.
Crash(r) ==
    /\ ~ At(r, "idle")
    /\ crashes < MaxCrashes
    /\ crashes' = crashes + 1
    /\ orphans' = orphans \cup {i \in Items : At(r, "saved") /\ req[r].item = i}
    /\ missed' = [missed EXCEPT ![r] = {}]
    /\ Leave(r)
    /\ UNCHANGED <<status, payload, canon, reported>>

\* The files of bundle c before the k-th kind are written over those of b, and of the k-th
\* kind those of the objects in done.
PartlySaved(b, c, k, done) ==
    [obj  |-> [o \in Objs |-> IF FileOrder[o] < k \/ o \in done THEN c.obj[o] ELSE b.obj[o]],
     rels |-> IF k > 1 THEN c.rels ELSE b.rels]

\* The process dies in its save, which writes one kind of file after the other, and of each
\* kind removes the files of objects that are gone before it writes the others.
CrashInSave(r) ==
    /\ HasBundle(r)
    /\ crashes < MaxCrashes
    /\ crashes' = crashes + 1
    /\ \E k \in {1} \cup {FileOrder[o] : o \in Objs} :
       \E done \in SUBSET {o \in Objs : FileOrder[o] = k} :
          /\ done \cap Present(req[r].bundle) # {} =>
                \A o \in Objs \ Present(req[r].bundle) : FileOrder[o] = k => o \in done
          /\ canon' = PartlySaved(canon, req[r].bundle, k, done)
    /\ Overtakes(r)
    /\ orphans' = orphans \cup {i \in Items : At(r, "loaded") /\ req[r].item = i}
    /\ Leave(r)
    /\ UNCHANGED <<status, payload, reported>>

Step(r) == Get(r) \/ Load(r) \/ Save(r) \/ Mark(r) \/ UpdatePayload(r) \/ EditSave(r)

Next ==
    \/ \E i \in Items : Generate(i)
    \/ \E r \in Reqs :
          \/ \E op \in ItemOps, i \in Items : Open(r, op, i)
          \/ \E op \in EditOps, o \in Objs : EditLoad(r, op, o)
          \/ Step(r)
          \/ Crash(r)
          \/ CrashInSave(r)

Spec == Init /\ [][Next]_vars
-----------------------------------------------------------------------------
ItemRequest(r) == ~ At(r, "idle") /\ ~ At(r, "edited")

\* The local states of a request for an item, and of one for an object.
ItemReqs ==
    [pc : {"opened", "guarded"}, op : ItemOps,
     item : Items, seen : Revs, snap : Bundle, bundle : Bundle]
    \cup [pc : {"loaded", "saved"}, op : {"accepted"},
          item : Items, seen : Revs, snap : Bundle, bundle : Bundle]
EditReqs == [pc : {"edited"}, op : EditOps, obj : Objs, bundle : Bundle]

TypeOK ==
    /\ status \in [Items -> Status]
    /\ payload \in [Items -> Revs]
    /\ canon \in Bundle
    /\ crashes \in 0..MaxCrashes
    /\ orphans \subseteq Items
    /\ reported \in [Items -> SUBSET Decisions]
    /\ missed \in [Reqs -> SUBSET Parts]
    /\ DOMAIN req = Reqs
    /\ \A r \in Reqs : req[r] \in {Idle} \cup ItemReqs \cup EditReqs

\* A request holds item i as pending: it has passed the guard and not finished.
Holds(r, i) == ItemRequest(r) /\ ~ At(r, "opened") /\ req[r].item = i

Settled(i) == status[i] \in Decisions /\ \A r \in Reqs : ~ Holds(r, i)

\* "Decisions are final" as far as the guard can enforce it: once an item is decided and
\* no request that saw it pending is still under way, it stays so: no later request gets
\* hold of it, and its status and its payload never change again.
FinalOnceQuiet ==
    [][\A i \in Items : Settled(i) =>
         Settled(i)' /\ status'[i] = status[i] /\ payload'[i] = payload[i]]_vars

\* An accept of item i has saved its draft and not told the queue, or died at one of the two.
Unmarked(i) == i \in orphans \/ \E r \in Reqs : At(r, "saved") /\ req[r].item = i

\* The human gate: every AI draft in the world was accepted by someone, or its accept is
\* between its save and its mark, or died in its save or between the two.
EveryDraftHasAnAccept ==
    \A i \in Items : InCanon(canon, i) => "accepted" \in reported[i] \/ Unmarked(i)

\* Decisions are final, read as the comment in decide_review_item says it: no item gets
\* both decisions.
OneDecision == \A i \in Items : Cardinality(reported[i]) <= 1

\* A rejected draft is not part of the world, unless an accept of it died in its save or
\* after it.
RejectedNotInCanon ==
    \A i \in Items : status[i] = "rejected" /\ i \notin orphans => ~ InCanon(canon, i)

\* An accepted draft that is in the world is there in the version the queue shows.
CanonShowsPayload ==
    \A i \in Items, o \in Objs :
        status[i] = "accepted" /\ i \in DraftedBy(canon, o) => canon.obj[o].body = <<i, payload[i]>>

\* What a request is about: an accept writes its own objects and its own relation, an edit
\* one object and the relations that go with it.
Concerns(r) ==
    IF At(r, "edited")
    THEN {<<"object", req[r].obj>>}
             \cup {<<"relation", i>> : i \in {j \in Items : req[r].obj \in RelEnds[j]}}
    ELSE {<<"object", o>> : o \in Targets[req[r].item]} \cup {<<"relation", req[r].item>>}

\* However many requests overlap, a save of the whole world takes back nothing but what was
\* saved between its own load and itself: what another request saved before the load, and
\* everything a human made long ago, stays.
OnlyOvertakenIsLost ==
    [][canon' # canon =>
         \E r \in Reqs : /\ HasBundle(r) /\ ~ HasBundle(r)'
                         /\ Changed(canon, canon') \subseteq Concerns(r) \cup missed[r]]_vars

\* However many requests overlap, an accept leaves no audit error in the world that was not
\* there when the request opened it, and an object it overwrites is one made since then.
AcceptIsClean ==
    [][\A r \in Reqs : At(r, "loaded") /\ At(r, "saved")' =>
         /\ Errors(canon') \subseteq Errors(req[r].snap)
         /\ Overwrites(canon, req[r].item) =>
               \E o \in Targets[req[r].item] : canon.obj[o] # req[r].snap.obj[o]]_vars

\* Strengthenings that the proofs of EveryDraftHasAnAccept and RejectedNotInCanon use:
\* what requests under way are about to write is covered as well.
Carries(r, i) == HasBundle(r) /\ InCanon(req[r].bundle, i)

HumanGateInv ==
    \A i \in Items :
        /\ InCanon(canon, i) => "accepted" \in reported[i] \/ Unmarked(i)
        /\ \A r \in Reqs : Carries(r, i) =>
              \/ "accepted" \in reported[i] \/ Unmarked(i)
              \/ At(r, "loaded") /\ req[r].item = i

\* What a request is about to save differs from the world only in what it is about and in
\* what was saved since it loaded; and the gate let it pass.
BundleInv ==
    \A r \in Reqs :
        /\ HasBundle(r) => Changed(canon, req[r].bundle) \subseteq Concerns(r) \cup missed[r]
        /\ At(r, "loaded") =>
              /\ Errors(req[r].bundle) \subseteq Errors(req[r].snap)
              /\ ~ Overwrites(req[r].snap, req[r].item)
        /\ ~ HasBundle(r) => missed[r] = {}

OneAtATime == \A r, s \in Active : r = s

SerialInv ==
    /\ OneAtATime
    /\ \A i \in Items :
          /\ InCanon(canon, i) => status[i] = "accepted" \/ Unmarked(i)
          /\ \A r \in Reqs :
                /\ Holds(r, i) => status[i] = "pending_review"
                /\ Carries(r, i) =>
                      \/ status[i] = "accepted" \/ i \in orphans
                      \/ At(r, "loaded") /\ req[r].item = i

\* A request alone works on the queue and the world as they are: what it read is what is
\* there, and what it is about to save is the change it was made for.
FreshRequest(r) ==
    /\ ItemRequest(r) /\ ~ At(r, "saved") =>
          /\ req[r].seen = payload[req[r].item]
          /\ IsOp(r, "accepted") => req[r].snap = canon
    /\ At(r, "loaded") =>
          /\ ~ Refused(r) /\ Writes(req[r].item)
          /\ req[r].bundle = Materialise(canon, req[r].item, req[r].seen)
    /\ At(r, "edited") =>
          \/ req[r].obj \notin Present(canon) /\ req[r].bundle = Created(canon, req[r].obj)
          \/ req[r].obj \in Present(canon) /\ req[r].bundle = Deleted(canon, req[r].obj)

Fresh == \A r \in Reqs : FreshRequest(r)

\* A draft is at its own objects, and in the version of the queue once it is accepted: an
\* accept that died leaves an old version behind, which no later accept can pass over.
Shown ==
    \A i \in Items, o \in Objs : i \in DraftedBy(canon, o) =>
        /\ IsInsert(i) /\ o \in Targets[i]
        /\ status[i] = "accepted" \/ (\E r \in Reqs : At(r, "saved") /\ req[r].item = i) =>
              canon.obj[o].body = <<i, payload[i]>>

AloneInv == SerialInv /\ Fresh /\ Shown

\* The decision of an item as the ledger sees it: an accept decides when it saves.
LedgerStatus ==
    [i \in Items |-> IF \E r \in Reqs : At(r, "saved") /\ req[r].item = i
                     THEN "accepted" ELSE status[i]]

Ledger == INSTANCE ReviewLedger WITH status <- LedgerStatus
LedgerSpec == Ledger!Spec
=============================================================================
