----------------------- MODULE ReviewDecision_proofs -----------------------
(***************************************************************************)
(* Theorems about ReviewDecision, for every world, queue and set of        *)
(* concurrent requests.                                                    *)
(***************************************************************************)
EXTENDS ReviewDecision, FiniteSetTheorems, TLAPS

\* Creating or deleting an object leaves a bundle a bundle.
LEMMA EditType ==
    ASSUME NEW bb \in Bundle, NEW o \in Objs
    PROVE  Created(bb, o) \in Bundle /\ Deleted(bb, o) \in Bundle
<1>1. ByHuman \in Content
  BY DEF ByHuman, Content
<1>2. Created(bb, o) \in Bundle
  BY <1>1 DEF Created, Bundle
<1>3. [i \in Items |-> IF o \in RelEnds[i] THEN 0 ELSE bb.rels[i]] \in [Items -> 0..MaxMerges]
  BY CanonAssumption DEF Bundle
<1>4. Deleted(bb, o) \in Bundle
  BY <1>3 DEF Deleted, Bundle
<1> QED
  BY <1>2, <1>4

\* Merging the relations of a draft keeps the counts of relations in range.
LEMMA MergedRelsType ==
    ASSUME NEW bb \in Bundle, NEW i \in Items
    PROVE  MergedRels(bb, i) \in [Items -> 0..MaxMerges]
BY CanonAssumption DEF MergedRels, Bundle

\* Materialising a draft leaves a bundle a bundle, if a logic draft finds its quest.
LEMMA MaterialiseType ==
    ASSUME NEW bb \in Bundle, NEW i \in Items, NEW v \in Revs, LogicApplies(bb, i), Writes(i)
    PROVE  Materialise(bb, i, v) \in Bundle
<1>1. CASE IsInsert(i)
  BY <1>1, MergedRelsType DEF Materialise, Bundle, Content, Drafts
<1>2. CASE ~ IsInsert(i)
  <2>1. Targets[i] \subseteq Present(bb)
    BY <1>2 DEF LogicApplies, Writes
  <2>2. \A o \in Targets[i] : bb.obj[o] \in Content
    BY <2>1 DEF Present, Bundle
  <2>3. \A o \in Targets[i] : [bb.obj[o] EXCEPT !.logic = <<i, v>>] \in Content
    BY <2>2 DEF Content, Drafts
  <2>4. [o \in Objs |-> IF o \in Targets[i] THEN [bb.obj[o] EXCEPT !.logic = <<i, v>>]
                                            ELSE bb.obj[o]] \in [Objs -> Content \cup {Absent}]
    BY <2>3 DEF Bundle
  <2> QED
    BY <1>2, <2>4 DEF Materialise, Bundle
<1> QED
  BY <1>1, <1>2

\* The empty bundle is a bundle.
LEMMA NoBundleType == NoBundle \in Bundle
BY CanonAssumption DEF NoBundle, Bundle

\* The three kinds of local state are told apart by the program counter.
LEMMA ReqKinds ==
    ASSUME TypeOK, NEW r \in Reqs
    PROVE  /\ At(r, "idle") => req[r] = Idle
           /\ At(r, "edited") => req[r] \in EditReqs
           /\ ~ At(r, "idle") /\ ~ At(r, "edited") => req[r] \in ItemReqs
BY DEF TypeOK, At, Idle, ItemReqs, EditReqs

\* A save that dies half-way leaves in each file what was there or what was to be saved.
LEMMA CrashInSaveIs ==
    ASSUME TypeOK, NEW r \in Reqs, CrashInSave(r)
    PROVE  /\ HasBundle(r) /\ req[r].bundle \in Bundle /\ canon' \in Bundle
           /\ \A o \in Objs : canon'.obj[o] = canon.obj[o] \/ canon'.obj[o] = req[r].bundle.obj[o]
           /\ canon'.rels = canon.rels \/ canon'.rels = req[r].bundle.rels
           /\ UNCHANGED <<status, payload, reported>> /\ req' = [req EXCEPT ![r] = Idle]
           /\ orphans' = orphans \cup {i \in Items : At(r, "loaded") /\ req[r].item = i}
<1>1. HasBundle(r) /\ req[r].bundle \in Bundle /\ canon \in Bundle
  BY ReqKinds DEF TypeOK, CrashInSave, HasBundle, At, ItemReqs, EditReqs
<1>2. PICK k, done : canon' = PartlySaved(canon, req[r].bundle, k, done)
  BY DEF CrashInSave
<1>3. canon' \in Bundle
  BY <1>1, <1>2 DEF PartlySaved, Bundle
<1> QED
  BY <1>1, <1>2, <1>3 DEF CrashInSave, Leave, PartlySaved

\* The columns of the queue, the files and the local states always have their types.
THEOREM TypeCorrect == Spec => []TypeOK
<1>1. Init => TypeOK
  <2> SUFFICES ASSUME Init PROVE TypeOK
    OBVIOUS
  <2>1. canon \in Bundle
    BY CanonAssumption DEF Init, HumanBundles, Bundle, Content, ByHuman
  <2> QED
    BY <2>1, ReviewDecisionAssumption DEF Init, TypeOK, Status, Idle
<1>2. TypeOK /\ [Next]_vars => TypeOK'
  <2> SUFFICES ASSUME TypeOK, [Next]_vars PROVE TypeOK'
    OBVIOUS
  <2> DEFINE ReqOK(x) == x = Idle \/ x \in ItemReqs \/ x \in EditReqs
  <2>0. \A r \in Reqs : ReqOK(req[r])
    BY DEF TypeOK, ItemReqs, EditReqs
  <2>a. ASSUME NEW r \in Reqs, NEW x, ReqOK(x), req' = [req EXCEPT ![r] = x]
        PROVE  DOMAIN req' = Reqs /\ \A s \in Reqs : ReqOK(req'[s])
    BY <2>a, <2>0 DEF TypeOK
  <2>b. ASSUME NEW r \in Reqs, Leave(r)
        PROVE  DOMAIN req' = Reqs /\ \A s \in Reqs : ReqOK(req'[s])
    BY <2>b, <2>a DEF Leave
  <2>c. ASSUME DOMAIN req' = Reqs, \A s \in Reqs : ReqOK(req'[s]),
               status' \in [Items -> Status], payload' \in [Items -> Revs], canon' \in Bundle,
               crashes' \in 0..MaxCrashes, orphans' \subseteq Items,
               reported' \in [Items -> SUBSET Decisions], missed' \in [Reqs -> SUBSET Parts]
        PROVE  TypeOK'
    BY <2>c DEF TypeOK, ItemReqs, EditReqs, Idle
  <2>t. /\ status \in [Items -> Status] /\ payload \in [Items -> Revs] /\ canon \in Bundle
        /\ crashes \in 0..MaxCrashes /\ reported \in [Items -> SUBSET Decisions]
        /\ DOMAIN req = Reqs /\ orphans \subseteq Items /\ missed \in [Reqs -> SUBSET Parts]
    BY DEF TypeOK
  <2>m. ASSUME NEW r \in Reqs, Overtakes(r) PROVE missed' \in [Reqs -> SUBSET Parts]
    BY <2>m, <2>t DEF Overtakes, Changed
  <2> HIDE DEF ReqOK
  <2>1. ASSUME NEW i \in Items, Generate(i) PROVE TypeOK'
    <3>1. status' \in [Items -> Status]
      BY <2>1, <2>t DEF Generate, Status
    <3> QED
      BY <2>1, <3>1, <2>0, <2>c, <2>t DEF Generate
  <2>2. ASSUME NEW r \in Reqs, NEW op \in ItemOps, NEW i \in Items, Open(r, op, i) PROVE TypeOK'
    <3> DEFINE snap == IF op = "accepted" THEN canon ELSE NoBundle
    <3>1. ReqOK(Request("opened", op, i, payload[i], snap, NoBundle))
      BY <2>t, NoBundleType DEF ReqOK, Request, ItemReqs
    <3>2. req' = [req EXCEPT ![r] = Request("opened", op, i, payload[i], snap, NoBundle)]
      BY <2>2 DEF Open
    <3> QED
      BY <2>2, <3>1, <3>2, <2>a, <2>c, <2>t DEF Open
  <2>3. ASSUME NEW r \in Reqs, NEW op \in EditOps, NEW o \in Objs, EditLoad(r, op, o) PROVE TypeOK'
    <3>1. ReqOK([pc |-> "edited", op |-> op, obj |-> o,
                 bundle |-> IF op = "create" THEN Created(canon, o) ELSE Deleted(canon, o)])
      BY <2>t, EditType DEF ReqOK, EditReqs
    <3> QED
      BY <2>3, <3>1, <2>a, <2>c, <2>t DEF EditLoad
  <2>4. ASSUME NEW r \in Reqs, Get(r) PROVE TypeOK'
    <3>1. CASE Leave(r)
      BY <3>1, <2>4, <2>b, <2>c, <2>t DEF Get
    <3>2. CASE ~ Leave(r)
      <4>1. req[r] \in ItemReqs
        BY <2>4, ReqKinds DEF Get, At
      <4>2. ReqOK([req[r] EXCEPT !.pc = "guarded", !.seen = payload[req[r].item]])
        BY <4>1, <2>4, <2>t DEF ReqOK, ItemReqs, Get, At
      <4>3. req' = [req EXCEPT ![r] = [req[r] EXCEPT !.pc = "guarded",
                                                      !.seen = payload[req[r].item]]]
        BY <3>2, <2>4, <2>t, <4>1 DEF Get, ItemReqs
      <4> QED
        BY <2>4, <4>2, <4>3, <2>a, <2>c, <2>t DEF Get
    <3> QED
      BY <3>1, <3>2
  <2>5. ASSUME NEW r \in Reqs, Load(r) PROVE TypeOK'
    <3> DEFINE i == req[r].item
    <3>1. req[r] \in ItemReqs
      BY <2>5, ReqKinds DEF Load, At
    <3>2. CASE Leave(r)
      BY <3>2, <2>5, <2>b, <2>c, <2>t DEF Load
    <3>3. CASE ~ Refused(r) /\ Writes(i)
      <4>1. Materialise(canon, i, req[r].seen) \in Bundle
        BY <3>1, <3>3, <2>t, MaterialiseType DEF ItemReqs, Refused
      <4>2. ReqOK([req[r] EXCEPT !.pc = "loaded", !.bundle = Materialise(canon, i, req[r].seen)])
        BY <3>1, <4>1, <2>5 DEF ReqOK, ItemReqs, Load, At, IsOp
      <4>3. req' = [req EXCEPT ![r] = [req[r] EXCEPT !.pc = "loaded",
                                        !.bundle = Materialise(canon, i, req[r].seen)]]
        BY <3>3, <2>5, <2>t DEF Load
      <4> QED
        BY <2>5, <4>2, <4>3, <2>a, <2>c, <2>t DEF Load
    <3>4. CASE ~ Refused(r) /\ ~ Writes(i)
      <4>1. ReqOK([req[r] EXCEPT !.pc = "saved"])
        BY <3>1, <2>5 DEF ReqOK, ItemReqs, Load, At, IsOp
      <4>2. req' = [req EXCEPT ![r] = [req[r] EXCEPT !.pc = "saved"]]
        BY <3>4, <2>5, <2>t DEF Load
      <4> QED
        BY <2>5, <4>1, <4>2, <2>a, <2>c, <2>t DEF Load
    <3> QED
      BY <2>5, <3>2, <3>3, <3>4 DEF Load
  <2>6. ASSUME NEW r \in Reqs, Save(r) PROVE TypeOK'
    <3>1. req[r] \in ItemReqs
      BY <2>6, ReqKinds DEF Save, At
    <3>2. canon' \in Bundle
      BY <2>6, <3>1 DEF Save, ItemReqs
    <3>3. ReqOK([req[r] EXCEPT !.pc = "saved", !.snap = NoBundle, !.bundle = NoBundle])
      BY <3>1, <2>6, NoBundleType DEF ReqOK, ItemReqs, Save, At
    <3>4. req' = [req EXCEPT ![r] = [req[r] EXCEPT !.pc = "saved", !.snap = NoBundle,
                                                    !.bundle = NoBundle]]
      BY <2>6, <2>t DEF Save
    <3> QED
      BY <2>6, <3>2, <3>3, <3>4, <2>a, <2>c, <2>m, <2>t DEF Save
  <2>7. ASSUME NEW r \in Reqs, Mark(r) PROVE TypeOK'
    <3>1. req[r] \in ItemReqs
      BY <2>7, ReqKinds DEF Mark, At
    <3>2. req[r].op \in Decisions /\ req[r].item \in Items
      BY <2>7, <3>1 DEF Mark, ItemReqs, ItemOps, IsOp, At, Decisions
    <3> QED
      BY <2>7, <3>2, <2>b, <2>c, <2>t DEF Mark, Status, Decisions
  <2>8. ASSUME NEW r \in Reqs, UpdatePayload(r) PROVE TypeOK'
    <3>1. req[r] \in ItemReqs
      BY <2>8, ReqKinds DEF UpdatePayload, At
    <3>2. status' \in [Items -> Status] /\ payload' \in [Items -> Revs]
      BY <2>8, <3>1, <2>t DEF UpdatePayload, ItemReqs, Status
    <3> QED
      BY <2>8, <3>2, <2>b, <2>c, <2>t DEF UpdatePayload
  <2>9. ASSUME NEW r \in Reqs, EditSave(r) PROVE TypeOK'
    <3>1. canon' \in Bundle
      BY <2>9, ReqKinds DEF EditSave, EditReqs
    <3> QED
      BY <2>9, <3>1, <2>b, <2>c, <2>m, <2>t DEF EditSave
  <2>10. ASSUME NEW r \in Reqs, Crash(r) PROVE TypeOK'
    <3>1. crashes' \in 0..MaxCrashes /\ missed' \in [Reqs -> SUBSET Parts]
      BY <2>10, <2>t, ReviewDecisionAssumption DEF Crash
    <3> QED
      BY <2>10, <3>1, <2>b, <2>c, <2>t DEF Crash
  <2>12. ASSUME NEW r \in Reqs, CrashInSave(r) PROVE TypeOK'
    <3>1. crashes' \in 0..MaxCrashes
      BY <2>12, <2>t, ReviewDecisionAssumption DEF CrashInSave
    <3>2. canon' \in Bundle
      BY <2>12, CrashInSaveIs
    <3> QED
      BY <2>12, <3>1, <3>2, <2>b, <2>c, <2>m, <2>t DEF CrashInSave
  <2>11. CASE UNCHANGED vars
    BY <2>11, <2>0, <2>c, <2>t DEF vars
  <2> QED
    BY <2>1, <2>2, <2>3, <2>4, <2>5, <2>6, <2>7, <2>8, <2>9, <2>10, <2>11, <2>12 DEF Next, Step
<1> QED
  BY <1>1, <1>2, PTL DEF Spec
-----------------------------------------------------------------------------
\* Finality.  The only steps that write the queue after the item was filed are Mark and
\* UpdatePayload, and the request that takes one of them holds the item.

\* Once an item is decided and no request holds it, no step changes it: the guard on the
\* status makes decisions final for every set of requests, edits and crashes.
THEOREM DecisionsFinalOnceQuiet == Spec => FinalOnceQuiet
<1>1. ASSUME TypeOK, [Next]_vars, NEW i \in Items, Settled(i)
      PROVE  Settled(i)' /\ status'[i] = status[i] /\ payload'[i] = payload[i]
  <2> USE <1>1
  <2>t. /\ status \in [Items -> Status] /\ payload \in [Items -> Revs]
        /\ DOMAIN req = Reqs /\ status[i] \in Decisions
        /\ \A r \in Reqs : ~ Holds(r, i)
    BY DEF TypeOK, Settled
  <2>0. SUFFICES /\ status'[i] = status[i] /\ payload'[i] = payload[i]
                 /\ \A r \in Reqs : ~ Holds(r, i)'
    BY <2>t DEF Settled
  <2>1. ASSUME NEW j \in Items, Generate(j) PROVE status'[i] = status[i] /\ UNCHANGED <<payload, req>>
    BY <2>1, <2>t DEF Generate, Decisions
  <2>2. ASSUME NEW r \in Reqs, Mark(r)
        PROVE  status'[i] = status[i] /\ payload' = payload /\ req' = [req EXCEPT ![r] = Idle]
    <3>1. req[r].item # i
      BY <2>2, <2>t DEF Mark, Holds, ItemRequest, At
    <3> QED
      BY <2>2, <3>1, <2>t DEF Mark, Leave
  <2>3. ASSUME NEW r \in Reqs, UpdatePayload(r)
        PROVE  /\ status'[i] = status[i] /\ payload'[i] = payload[i]
               /\ req' = [req EXCEPT ![r] = Idle]
    <3>1. req[r].item # i
      BY <2>3, <2>t DEF UpdatePayload, Holds, ItemRequest, At
    <3> QED
      BY <2>3, <3>1, <2>t DEF UpdatePayload, Leave
  <2>4. ASSUME NEW r \in Reqs, EditSave(r) \/ Crash(r) \/ CrashInSave(r)
        PROVE  UNCHANGED <<status, payload>> /\ req' = [req EXCEPT ![r] = Idle]
    BY <2>4 DEF EditSave, Crash, CrashInSave, Leave
  <2>5. ASSUME NEW r \in Reqs, Get(r)
        PROVE  UNCHANGED <<status, payload>> /\ \A s \in Reqs : ~ Holds(s, i)'
    <3>1. CASE req[r].item = i
      <4>1. req' = [req EXCEPT ![r] = Idle]
        BY <2>5, <3>1, <2>t DEF Get, Leave, Decisions
      <4> QED
        BY <2>5, <4>1, <2>t DEF Get, Holds, ItemRequest, At, Idle
    <3>2. CASE req[r].item # i
      <4>1. \A s \in Reqs : s # r => req'[s] = req[s]
        BY <2>5, <2>t DEF Get, Leave
      <4>2. req'[r].pc = "idle" \/ req'[r].item # i
        <5>1. req[r] \in ItemReqs
          BY <2>5, ReqKinds DEF Get, At
        <5> QED
          BY <2>5, <3>2, <5>1, <2>t DEF Get, Leave, Idle, ItemReqs
      <4> QED
        BY <2>5, <4>1, <4>2, <2>t DEF Get, Holds, ItemRequest, At
    <3> QED
      BY <3>1, <3>2
  <2>6. ASSUME NEW r \in Reqs, Load(r) \/ Save(r)
        PROVE  /\ UNCHANGED <<status, payload>>
               /\ \A s \in Reqs : ~ Holds(s, i)'
    <3>1. req[r].item # i
      BY <2>6, <2>t DEF Load, Save, Holds, ItemRequest, At
    <3>2. \A s \in Reqs : s # r => req'[s] = req[s]
      BY <2>6, <2>t DEF Load, Save, Leave
    <3>3. req'[r].pc = "idle" \/ req'[r].item # i
      <4>1. req[r] \in ItemReqs
        BY <2>6, ReqKinds DEF Load, Save, At
      <4> QED
        BY <2>6, <3>1, <4>1, <2>t DEF Load, Save, Leave, Idle, ItemReqs
    <3>4. UNCHANGED <<status, payload>>
      BY <2>6 DEF Load, Save
    <3> QED
      BY <3>2, <3>3, <3>4, <2>t DEF Holds, ItemRequest, At
  <2>7. ASSUME NEW r \in Reqs,
               \/ \E op \in ItemOps, j \in Items : Open(r, op, j)
               \/ \E op \in EditOps, o \in Objs : EditLoad(r, op, o)
        PROVE  UNCHANGED <<status, payload>> /\ \A s \in Reqs : ~ Holds(s, i)'
    <3>1. \A s \in Reqs : s # r => req'[s] = req[s]
      BY <2>7, <2>t DEF Open, EditLoad
    <3>2. req'[r].pc = "opened" \/ req'[r].pc = "edited"
      BY <2>7, <2>t DEF Open, EditLoad, Request
    <3>3. UNCHANGED <<status, payload>>
      BY <2>7 DEF Open, EditLoad
    <3> QED
      BY <3>1, <3>2, <3>3, <2>t DEF Holds, ItemRequest, At
  <2>8. CASE UNCHANGED vars
    BY <2>8, <2>t DEF vars, Holds, ItemRequest, At
  <2>9. ASSUME NEW r \in Reqs, req' = [req EXCEPT ![r] = Idle]
        PROVE  \A s \in Reqs : ~ Holds(s, i)'
    BY <2>9, <2>t DEF Holds, ItemRequest, At, Idle
  <2>10. ASSUME UNCHANGED req PROVE \A s \in Reqs : ~ Holds(s, i)'
    BY <2>10, <2>t DEF Holds, ItemRequest, At
  <2> QED
    BY <2>1, <2>2, <2>3, <2>4, <2>5, <2>6, <2>7, <2>8, <2>9, <2>10 DEF Next, Step
<1>2. TypeOK /\ [Next]_vars =>
        [\A i \in Items : Settled(i) =>
            Settled(i)' /\ status'[i] = status[i] /\ payload'[i] = payload[i]]_vars
  BY <1>1
<1> QED
  BY <1>2, TypeCorrect, PTL DEF Spec, FinalOnceQuiet
-----------------------------------------------------------------------------
\* What the operations on bundles do to the set of drafts in the world.

\* A direct edit brings no draft into the world.
LEMMA EditDrafts ==
    ASSUME NEW bb \in Bundle, NEW o \in Objs, NEW i,
           InCanon(Created(bb, o), i) \/ InCanon(Deleted(bb, o), i)
    PROVE  InCanon(bb, i)
BY DEF InCanon, DraftedBy, Created, Deleted, ByHuman, Bundle

\* Accepting draft i brings no draft but i into the world.
LEMMA MaterialiseDrafts ==
    ASSUME NEW bb \in Bundle, NEW i \in Items, NEW v \in Revs, LogicApplies(bb, i), Writes(i),
           NEW j, InCanon(Materialise(bb, i, v), j)
    PROVE  InCanon(bb, j) \/ j = i
<1> PICK o \in Objs : j \in DraftedBy(Materialise(bb, i, v), o)
  BY DEF InCanon
<1>1. CASE IsInsert(i)
  <2>1. Materialise(bb, i, v).obj[o] = IF o \in Targets[i] THEN [body |-> <<i, v>>, logic |-> NoLogic]
                                                        ELSE bb.obj[o]
    BY <1>1 DEF Materialise
  <2> QED
    BY <2>1 DEF InCanon, DraftedBy
<1>2. CASE ~ IsInsert(i)
  <2>1. Materialise(bb, i, v).obj[o] = IF o \in Targets[i] THEN [bb.obj[o] EXCEPT !.logic = <<i, v>>]
                                                        ELSE bb.obj[o]
    BY <1>2 DEF Materialise, Bundle
  <2>2. o \in Targets[i] => bb.obj[o] # Absent /\ bb.obj[o] \in Content
    BY <1>2 DEF LogicApplies, Writes, Present, Bundle
  <2>3. o \in Targets[i] => [bb.obj[o] EXCEPT !.logic = <<i, v>>].body = bb.obj[o].body
    BY <2>2 DEF Content
  <2> QED
    BY <2>1, <2>2, <2>3 DEF InCanon, DraftedBy
<1> QED
  BY <1>1, <1>2

\* A world of human objects, and the empty bundle, hold no draft.
LEMMA NoDrafts ==
    ASSUME NEW i
    PROVE  ~ InCanon(NoBundle, i) /\ \A bb \in HumanBundles : ~ InCanon(bb, i)
BY DEF InCanon, DraftedBy, NoBundle, HumanBundles, ByHuman
-----------------------------------------------------------------------------
\* The human gate, when no request dies.

\* No step undoes the accept of an item: a request that saved a draft goes on to mark it.
LEMMA AcceptPersists ==
    ASSUME TypeOK, [Next]_vars, NEW i \in Items,
           "accepted" \in reported[i] \/ Unmarked(i)
    PROVE  ("accepted" \in reported[i] \/ Unmarked(i))'
<1>t. reported \in [Items -> SUBSET Decisions] /\ DOMAIN req = Reqs
  BY DEF TypeOK
<1>1. CASE "accepted" \in reported[i]
  <2>1. ASSUME NEW r \in Reqs, Mark(r) PROVE "accepted" \in reported'[i]
    BY <2>1, <1>1, <1>t DEF Mark
  <2>2. ASSUME ~ \E r \in Reqs : Mark(r) PROVE reported' = reported
    BY <2>2 DEF Next, Step, Generate, Open, EditLoad, Get, Load, Save, UpdatePayload,
                EditSave, Crash, CrashInSave, vars
  <2> QED
    BY <2>1, <2>2, <1>1
<1>2. ASSUME NEW s \in Reqs, At(s, "saved"), req[s].item = i
      PROVE  ("accepted" \in reported[i] \/ Unmarked(i))'
  <2>1. CASE Mark(s)
    <3>1. req[s].op = "accepted"
      BY <1>2, ReqKinds DEF ItemReqs, At
    <3> QED
      BY <2>1, <3>1, <1>2, <1>t DEF Mark
  <2>2. CASE req'[s] = req[s]
    BY <2>2, <1>2 DEF Unmarked, At
  <2>4. CASE Crash(s) \/ CrashInSave(s)
    BY <2>4, <1>2 DEF Crash, CrashInSave, Unmarked, HasBundle, At
  <2>3. ASSUME ~ Mark(s), ~ (Crash(s) \/ CrashInSave(s)) PROVE req'[s] = req[s]
    <3>1. ASSUME NEW r \in Reqs, r # s, Step(r) PROVE req'[s] = req[s]
      BY <3>1, <1>t DEF Step, Get, Load, Save, Mark, UpdatePayload, EditSave, Leave
    <3>2. ~ (Get(s) \/ Load(s) \/ Save(s) \/ UpdatePayload(s) \/ EditSave(s))
      BY <1>2 DEF Get, Load, Save, UpdatePayload, EditSave, At
    <3>3. ASSUME NEW r \in Reqs, NEW op, NEW x, Open(r, op, x) \/ EditLoad(r, op, x)
          PROVE  req'[s] = req[s]
      BY <3>3, <1>2, <1>t DEF Open, EditLoad, At
    <3>4. ASSUME NEW r \in Reqs, (Crash(r) \/ CrashInSave(r)), r # s PROVE req'[s] = req[s]
      BY <3>4, <1>t DEF Crash, CrashInSave, Leave
    <3> QED
      BY <2>3, <3>1, <3>2, <3>3, <3>4 DEF Next, Step, Generate, vars
  <2> QED
    BY <2>1, <2>2, <2>3, <2>4
<1>3. CASE i \in orphans
  BY <1>3 DEF Next, Step, Generate, Open, EditLoad, Get, Load, Save, Mark, UpdatePayload,
              EditSave, Crash, CrashInSave, vars, Unmarked
<1> QED
  BY <1>1, <1>2, <1>3 DEF Unmarked

\* A step of another request leaves the local state of s alone.
LEMMA OthersKeep ==
    ASSUME TypeOK, NEW r \in Reqs, NEW s \in Reqs, r # s,
           \/ Step(r) \/ Crash(r) \/ CrashInSave(r)
           \/ \E op \in ItemOps, i \in Items : Open(r, op, i)
           \/ \E op \in EditOps, o \in Objs : EditLoad(r, op, o)
    PROVE  req'[s] = req[s]
BY DEF TypeOK, Step, Get, Load, Save, Mark, UpdatePayload, EditSave, Leave, Crash, CrashInSave, Open, EditLoad

\* Where a step can bring a draft into a bundle under way, and into the world.
LEMMA CarriesFrom ==
    ASSUME TypeOK, [Next]_vars, NEW s \in Reqs, NEW i \in Items, Carries(s, i)'
    PROVE  \/ Carries(s, i) /\ req'[s] = req[s]
           \/ InCanon(canon, i) /\ canon' = canon
           \/ At(s, "guarded") /\ At(s, "loaded")' /\ req[s].item = i /\ req'[s].item = i
<1>d. DOMAIN req = Reqs /\ canon \in Bundle
  BY DEF TypeOK
<1>1. CASE req'[s] = req[s]
  BY <1>1 DEF Carries, HasBundle, At
<1>2. CASE Load(s)
  <2>1. req[s] \in ItemReqs
    BY <1>2, ReqKinds DEF Load, At
  <2>2. ~ Leave(s)
    BY <1>d DEF Carries, HasBundle, At, Leave, Idle
  <2>3. ~ Refused(s) /\ Writes(req[s].item)
    BY <1>2, <2>2, <1>d, <2>1 DEF Load, Carries, HasBundle, At, ItemReqs
  <2>4. req'[s] = [req[s] EXCEPT !.pc = "loaded",
                                 !.bundle = Materialise(canon, req[s].item, req[s].seen)]
    BY <1>2, <2>3, <1>d DEF Load
  <2>5. InCanon(Materialise(canon, req[s].item, req[s].seen), i)
    BY <2>4, <2>1 DEF Carries, HasBundle, ItemReqs
  <2>6. InCanon(canon, i) \/ i = req[s].item
    BY <2>1, <2>3, <2>5, <1>d, MaterialiseDrafts DEF Refused, ItemReqs
  <2>7. At(s, "guarded") /\ At(s, "loaded")' /\ req'[s].item = req[s].item /\ canon' = canon
    BY <1>2, <2>1, <2>4 DEF Load, At, ItemReqs
  <2> QED
    BY <2>6, <2>7
<1>3. ASSUME NEW op \in EditOps, NEW o \in Objs, EditLoad(s, op, o)
      PROVE  InCanon(canon, i) /\ canon' = canon
  BY <1>3, <1>d, EditDrafts DEF EditLoad, Carries
<1>4. ASSUME Get(s) \/ Save(s) \/ Mark(s) \/ UpdatePayload(s) \/ EditSave(s) \/ Crash(s) \/ CrashInSave(s)
             \/ \E op \in ItemOps, j \in Items : Open(s, op, j)
      PROVE  FALSE
  <2>1. req[s] \in ItemReqs \cup EditReqs \cup {Idle}
    BY ReqKinds DEF At
  <2> QED
    BY <1>4, <1>d, <2>1 DEF Get, Save, Mark, UpdatePayload, EditSave, Crash, CrashInSave, Open, Leave, Request,
                            Idle, Carries, HasBundle, At, ItemReqs, EditReqs
<1>5. CASE \E j \in Items : Generate(j)
  BY <1>5, <1>1 DEF Generate
<1>6. CASE UNCHANGED vars
  BY <1>6, <1>1 DEF vars
<1> QED
  BY <1>1, <1>2, <1>3, <1>4, <1>5, <1>6, OthersKeep DEF Next, Step

\* A draft in the next world was there before, or in the bundle that the step saved.
LEMMA CanonFrom ==
    ASSUME TypeOK, [Next]_vars, NEW i \in Items, InCanon(canon, i)'
    PROVE  \/ InCanon(canon, i)
           \/ \E r \in Reqs : Carries(r, i) /\ (EditSave(r) \/ CrashInSave(r))
           \/ \E r \in Reqs : Carries(r, i) /\ Save(r) /\ At(r, "saved")' /\ req'[r].item = req[r].item
<1>1. ASSUME NEW r \in Reqs, Save(r)
      PROVE  Carries(r, i) /\ At(r, "saved")' /\ req'[r].item = req[r].item
  <2>1. req[r] \in ItemReqs /\ DOMAIN req = Reqs
    BY <1>1, ReqKinds DEF Save, At, TypeOK
  <2> QED
    BY <1>1, <2>1 DEF Save, Carries, HasBundle, At, ItemReqs
<1>2. ASSUME NEW r \in Reqs, EditSave(r) PROVE Carries(r, i)
  BY <1>2 DEF EditSave, Carries, HasBundle, At
<1>3. ASSUME NEW r \in Reqs, CrashInSave(r) PROVE InCanon(canon, i) \/ Carries(r, i)
  <2>1. PICK o \in Objs : i \in DraftedBy(canon', o)
    BY DEF InCanon, DraftedBy
  <2>2. CASE canon'.obj[o] = canon.obj[o]
    BY <2>1, <2>2 DEF InCanon, DraftedBy
  <2>3. CASE canon'.obj[o] = req[r].bundle.obj[o]
    BY <1>3, <2>1, <2>3, CrashInSaveIs DEF InCanon, DraftedBy, Carries
  <2> QED
    BY <1>3, <2>2, <2>3, CrashInSaveIs
<1>4. canon' = canon => InCanon(canon, i)
  OBVIOUS
<1> QED
  BY <1>1, <1>2, <1>3, <1>4 DEF Next, Step, Generate, Open, EditLoad, Get, Load, Mark, UpdatePayload, Crash, CrashInSave, vars

\* Every AI draft in the world was accepted, or is being accepted, by a request that saw it
\* pending, or that request died after its save: for every number of concurrent requests.
THEOREM HumanGate == Spec => []EveryDraftHasAnAccept
<1>1. Init => HumanGateInv
  BY NoDrafts DEF Init, HumanGateInv, Carries, HasBundle, At, Idle
<1>2. TypeOK /\ HumanGateInv /\ [Next]_vars => HumanGateInv'
  <2> SUFFICES ASSUME TypeOK, HumanGateInv, [Next]_vars, NEW i \in Items
               PROVE  /\ InCanon(canon, i)' => ("accepted" \in reported[i] \/ Unmarked(i))'
                      /\ \A s \in Reqs : Carries(s, i)' =>
                            \/ ("accepted" \in reported[i] \/ Unmarked(i))'
                            \/ At(s, "loaded")' /\ req'[s].item = i
    BY DEF HumanGateInv
  <2> DEFINE Accepted == "accepted" \in reported[i] \/ Unmarked(i)
  <2>1. Accepted => Accepted'
    BY AcceptPersists
  <2>2. InCanon(canon, i) => Accepted
    BY DEF HumanGateInv
  <2>3. \A s \in Reqs : Carries(s, i) => Accepted \/ (At(s, "loaded") /\ req[s].item = i)
    BY DEF HumanGateInv
  <2>4. ASSUME InCanon(canon, i)' PROVE Accepted'
    <3>1. CASE InCanon(canon, i)
      BY <3>1, <2>1, <2>2
    <3>4. ASSUME NEW r \in Reqs, Carries(r, i), CrashInSave(r) PROVE Accepted'
      <4>1. CASE At(r, "loaded") /\ req[r].item = i
        BY <3>4, <4>1, CrashInSaveIs DEF Unmarked
      <4> QED
        BY <3>4, <4>1, <2>1, <2>3
    <3>2. ASSUME NEW r \in Reqs, Carries(r, i), EditSave(r) PROVE Accepted'
      BY <3>2, <2>1, <2>3 DEF EditSave, At
    <3>3. ASSUME NEW r \in Reqs, Carries(r, i), Save(r), At(r, "saved")', req'[r].item = req[r].item
          PROVE  Accepted'
      BY <3>3, <2>1, <2>3 DEF Unmarked, At
    <3> QED
      BY <2>4, <3>1, <3>2, <3>3, <3>4, CanonFrom
  <2>5. ASSUME NEW s \in Reqs, Carries(s, i)'
        PROVE  Accepted' \/ (At(s, "loaded")' /\ req'[s].item = i)
    <3>1. CASE Carries(s, i) /\ req'[s] = req[s]
      BY <3>1, <2>1, <2>3 DEF At
    <3>2. CASE InCanon(canon, i)
      BY <3>2, <2>1, <2>2
    <3>3. CASE At(s, "loaded")' /\ req'[s].item = i
      BY <3>3
    <3> QED
      BY <2>5, <3>1, <3>2, <3>3, CarriesFrom
  <2> QED
    BY <2>4, <2>5
<1>3. HumanGateInv => EveryDraftHasAnAccept
  BY DEF HumanGateInv, EveryDraftHasAnAccept, Unmarked
<1> QED
  BY <1>1, <1>2, <1>3, TypeCorrect, PTL DEF Spec
-----------------------------------------------------------------------------
\* One request at a time.

\* With at most one request under way and none dying, a request that starts is alone.
LEMMA StartsAlone ==
    ASSUME Cardinality(Active) < 1
    PROVE  \A r \in Reqs : At(r, "idle")
<1>1. IsFiniteSet(Active)
  BY ReviewDecisionAssumption, FS_Subset DEF Active
<1>2. Active = {}
  BY <1>1, FS_CardinalityType, FS_EmptySet
<1> QED
  BY <1>2 DEF Active, At

\* What is true when one request is served at a time holds at the start ...
LEMMA SerialStarts == Init => SerialInv
BY NoDrafts DEF Init, SerialInv, OneAtATime, Active, Carries, HasBundle, Holds, ItemRequest, At, Idle

\* ... and no step, and no death of a request, ends it.
LEMMA SerialKept ==
    ASSUME MaxActive = 1, TypeOK, SerialInv, [Next]_vars
    PROVE  SerialInv'
<1>t. DOMAIN req = Reqs /\ status \in [Items -> Status]
  BY DEF TypeOK
<1>a. ASSUME NEW r \in Reqs, NEW s \in Reqs, ~ At(r, "idle"), r # s PROVE At(s, "idle")
  BY <1>a DEF SerialInv, OneAtATime, Active, At
<1>1. OneAtATime'
  <2>2. ASSUME NEW r \in Reqs, Step(r) \/ Crash(r) \/ CrashInSave(r) PROVE OneAtATime'
    <3>1. ~ At(r, "idle")
      BY <2>2 DEF Step, Get, Load, Save, Mark, UpdatePayload, EditSave, Crash, CrashInSave,
                  HasBundle, At
    <3>2. \A s \in Reqs : s # r => At(s, "idle") /\ req'[s] = req[s]
      BY <3>1, <2>2, <1>a, OthersKeep
    <3> QED
      BY <3>2 DEF OneAtATime, Active, At
  <2>3. ASSUME NEW r \in Reqs,
               \/ \E op \in ItemOps, i \in Items : Open(r, op, i)
               \/ \E op \in EditOps, o \in Objs : EditLoad(r, op, o)
        PROVE  OneAtATime'
    <3>1. \A s \in Reqs : At(s, "idle")
      BY <2>3, StartsAlone DEF Open, EditLoad
    <3>2. \A s \in Reqs : s # r => At(s, "idle") /\ req'[s] = req[s]
      BY <3>1, <2>3, OthersKeep
    <3> QED
      BY <3>2 DEF OneAtATime, Active, At
  <2>4. CASE req' = req
    BY <2>4 DEF SerialInv, OneAtATime, Active
  <2> QED
    BY <2>2, <2>3, <2>4 DEF Next, Generate, vars
<1>2. ASSUME NEW i \in Items, NEW r \in Reqs, Holds(r, i)'
      PROVE  status'[i] = "pending_review"
  <2>1. CASE \E j \in Items : Generate(j)
    BY <2>1, <1>2, <1>t DEF Generate, SerialInv, Holds, ItemRequest, At
  <2>2. ASSUME NEW s \in Reqs, s # r,
               \/ Step(s) \/ Crash(s) \/ CrashInSave(s)
               \/ \E op \in ItemOps, j \in Items : Open(s, op, j)
               \/ \E op \in EditOps, o \in Objs : EditLoad(s, op, o)
        PROVE  FALSE
    <3>1. req'[r] = req[r]
      BY <2>2, OthersKeep
    <3>2. ~ At(r, "idle")
      BY <3>1, <1>2 DEF Holds, ItemRequest, At
    <3>3. At(s, "idle")
      BY <3>2, <1>a, <2>2
    <3>4. Cardinality(Active) < 1
      BY <2>2, <3>3 DEF Step, Get, Load, Save, Mark, UpdatePayload, EditSave, Crash, CrashInSave,
                        HasBundle, Open,
                        EditLoad, At
    <3> QED
      BY <3>2, <3>4, StartsAlone
  <2>3. ASSUME \/ Get(r) \/ Load(r) \/ Save(r)
        PROVE  status'[i] = "pending_review"
    <3>1. req[r] \in ItemReqs
      BY <2>3, ReqKinds DEF Get, Load, Save, At
    <3>2. ~ Leave(r)
      BY <1>2, <1>t DEF Leave, Holds, ItemRequest, At, Idle
    <3>3. CASE Get(r)
      BY <3>1, <3>2, <3>3, <1>2, <1>t DEF Get, Holds, ItemRequest, At, ItemReqs
    <3>4. CASE Load(r) \/ Save(r)
      <4>1. Holds(r, i)
        BY <3>1, <3>2, <3>4, <1>2, <1>t DEF Load, Save, Holds, ItemRequest, At, ItemReqs
      <4> QED
        BY <4>1, <3>4 DEF SerialInv, Load, Save
    <3> QED
      BY <2>3, <3>3, <3>4
  <2>4. ASSUME \/ Mark(r) \/ UpdatePayload(r) \/ EditSave(r) \/ Crash(r) \/ CrashInSave(r)
               \/ \E op \in ItemOps, j \in Items : Open(r, op, j)
               \/ \E op \in EditOps, o \in Objs : EditLoad(r, op, o)
        PROVE  FALSE
    BY <2>4, <1>2, <1>t DEF Mark, UpdatePayload, EditSave, Crash, CrashInSave, Open, EditLoad, Leave, Request,
                            Holds, ItemRequest, At, Idle
  <2>5. CASE UNCHANGED vars
    BY <2>5, <1>2 DEF vars, SerialInv, Holds, ItemRequest, At
  <2> QED
    BY <2>1, <2>2, <2>3, <2>4, <2>5 DEF Next, Step
<1>3. ASSUME NEW i \in Items, status[i] = "accepted" \/ Unmarked(i)
      PROVE  (status[i] = "accepted" \/ Unmarked(i))'
  <2>o. orphans \subseteq orphans'
    BY DEF Next, Step, Generate, Open, EditLoad, Get, Load, Save, Mark, UpdatePayload,
           EditSave, Crash, CrashInSave, vars
  <2>p. CASE i \in orphans
    BY <2>o, <2>p DEF Unmarked
  <2> SUFFICES ASSUME i \notin orphans PROVE (status[i] = "accepted" \/ Unmarked(i))'
    BY <2>p
  <2>1. ASSUME NEW r \in Reqs, Mark(r) PROVE (status[i] = "accepted" \/ Unmarked(i))'
    <3>1. Holds(r, req[r].item) /\ req[r].item \in Items
      BY <2>1, ReqKinds DEF Mark, At, Holds, ItemRequest, ItemReqs
    <3>2. status[req[r].item] = "pending_review"
      BY <3>1 DEF SerialInv
    <3>3. CASE req[r].item = i
      <4>1. \E s \in Reqs : At(s, "saved") /\ req[s].item = i
        BY <3>2, <3>3, <1>3 DEF Unmarked
      <4>2. At(r, "saved")
        BY <4>1, <1>a, <2>1 DEF Mark, At
      <4>3. req[r].op = "accepted"
        BY <4>2, ReqKinds DEF ItemReqs, At
      <4> QED
        BY <4>3, <3>3, <2>1, <1>t DEF Mark
    <3>4. CASE req[r].item # i
      <4>1. ASSUME NEW s \in Reqs, At(s, "saved"), req[s].item = i PROVE FALSE
        BY <4>1, <3>4, <2>1, <1>a DEF Mark, At
      <4> QED
        BY <4>1, <3>4, <2>1, <1>3, <1>t DEF Mark, Unmarked
    <3> QED
      BY <3>3, <3>4
  <2>2. ASSUME NEW r \in Reqs, UpdatePayload(r) PROVE (status[i] = "accepted" \/ Unmarked(i))'
    <3>1. Holds(r, req[r].item) /\ req[r].item \in Items
      BY <2>2, ReqKinds DEF UpdatePayload, At, Holds, ItemRequest, ItemReqs
    <3>2. status[req[r].item] = "pending_review"
      BY <3>1 DEF SerialInv
    <3>3. ~ Unmarked(i)
      BY <2>2, <1>a DEF Unmarked, UpdatePayload, At
    <3> QED
      BY <3>2, <3>3, <2>2, <1>3, <1>t DEF UpdatePayload
  <2>3. ASSUME ~ \E r \in Reqs : Mark(r) \/ UpdatePayload(r)
        PROVE  (status[i] = "accepted" \/ Unmarked(i))'
    <3>1. ASSUME status[i] = "accepted" PROVE status'[i] = "accepted"
      BY <3>1, <2>3, <1>t DEF Next, Step, Generate, Open, EditLoad, Get, Load, Save, EditSave,
                              Crash, CrashInSave, vars
    <3>c. ASSUME NEW s \in Reqs, At(s, "saved"), req[s].item = i, Crash(s) \/ CrashInSave(s) PROVE Unmarked(i)'
      BY <3>c DEF Crash, CrashInSave, Unmarked, HasBundle, At
    <3>2. ASSUME NEW s \in Reqs, At(s, "saved"), req[s].item = i, ~ (Crash(s) \/ CrashInSave(s))
          PROVE  req'[s] = req[s]
      <4>1. ASSUME NEW r \in Reqs, r # s,
                   \/ Step(r) \/ Crash(r) \/ CrashInSave(r)
                   \/ \E op \in ItemOps, j \in Items : Open(r, op, j)
                   \/ \E op \in EditOps, o \in Objs : EditLoad(r, op, o)
            PROVE  req'[s] = req[s]
        BY <4>1, OthersKeep
      <4>2. ASSUME \/ Get(s) \/ Load(s) \/ Save(s) \/ EditSave(s)
                   \/ \E op \in ItemOps, j \in Items : Open(s, op, j)
                   \/ \E op \in EditOps, o \in Objs : EditLoad(s, op, o)
            PROVE  FALSE
        BY <4>2, <3>2, <1>t DEF Get, Load, Save, EditSave, Open, EditLoad, At
      <4> QED
        BY <4>1, <4>2, <3>2, <2>3 DEF Next, Step, Generate, vars
    <3> QED
      BY <3>1, <3>2, <3>c, <1>3 DEF Unmarked, At
  <2> QED
    BY <2>1, <2>2, <2>3
<1>4. ASSUME NEW i \in Items, InCanon(canon, i)'
      PROVE  (status[i] = "accepted" \/ Unmarked(i))'
  <2>1. CASE InCanon(canon, i)
    BY <2>1, <1>3 DEF SerialInv
  <2>4. ASSUME NEW r \in Reqs, Carries(r, i), CrashInSave(r)
        PROVE  (status[i] = "accepted" \/ Unmarked(i))'
    <3>1. CASE At(r, "loaded") /\ req[r].item = i
      BY <2>4, <3>1, CrashInSaveIs DEF Unmarked
    <3> QED
      BY <2>4, <3>1, <1>3 DEF SerialInv, Unmarked
  <2>2. ASSUME NEW r \in Reqs, Carries(r, i), EditSave(r)
        PROVE  (status[i] = "accepted" \/ Unmarked(i))'
    BY <2>2, <1>3 DEF SerialInv, EditSave, At, Unmarked
  <2>3. ASSUME NEW r \in Reqs, Carries(r, i), Save(r), At(r, "saved")', req'[r].item = req[r].item
        PROVE  (status[i] = "accepted" \/ Unmarked(i))'
    BY <2>3, <1>3 DEF SerialInv, Unmarked, At
  <2> QED
    BY <1>4, <2>1, <2>2, <2>3, <2>4, CanonFrom
<1>5. ASSUME NEW i \in Items, NEW s \in Reqs, Carries(s, i)'
      PROVE  \/ (status[i] = "accepted" \/ i \in orphans)'
             \/ At(s, "loaded")' /\ req'[s].item = i
  <2>1. \A r \in Reqs : ~ (At(r, "saved") /\ req[r].item = i)'
    <3>1. ~ At(s, "idle")' /\ ~ At(s, "saved")'
      BY <1>5 DEF Carries, HasBundle, At
    <3> QED
      BY <3>1, <1>1 DEF OneAtATime, Active, At
  <2>a. status[i] = "accepted" \/ Unmarked(i) => (status[i] = "accepted" \/ i \in orphans)'
    BY <2>1, <1>3 DEF Unmarked
  <2>2. CASE Carries(s, i) /\ req'[s] = req[s]
    BY <2>2, <2>a DEF SerialInv, At, Unmarked
  <2>3. CASE InCanon(canon, i)
    BY <2>3, <2>a DEF SerialInv
  <2>4. CASE At(s, "loaded")' /\ req'[s].item = i
    BY <2>4
  <2> QED
    BY <1>5, <2>2, <2>3, <2>4, CarriesFrom
<1> QED
  BY <1>1, <1>2, <1>4, <1>5 DEF SerialInv

\* Served one request at a time, the queue and the world agree: a rejected draft is not part
\* of the world, but for the items whose accept died after its save.
THEOREM SerialRejection == MaxActive = 1 /\ Spec => []RejectedNotInCanon
<1> SUFFICES ASSUME MaxActive = 1 PROVE Spec => []RejectedNotInCanon
  OBVIOUS
<1>1. TypeOK /\ SerialInv /\ [Next]_vars => SerialInv'
  BY SerialKept
<1>2. SerialInv => RejectedNotInCanon
  BY DEF SerialInv, RejectedNotInCanon, Unmarked, Holds, ItemRequest, At
<1> QED
  BY <1>1, <1>2, SerialStarts, TypeCorrect, PTL DEF Spec
-----------------------------------------------------------------------------
\* A request alone works on the queue and the world as they are.

\* While a request is under way every other one is idle, and no step is theirs.
LEMMA OnlyMine ==
    ASSUME MaxActive = 1, TypeOK, SerialInv, NEW r \in Reqs, NEW s \in Reqs, r # s,
           \/ Step(s) \/ Crash(s) \/ CrashInSave(s)
           \/ \E op \in ItemOps, i \in Items : Open(s, op, i)
           \/ \E op \in EditOps, o \in Objs : EditLoad(s, op, o)
    PROVE  At(r, "idle") /\ req'[r] = req[r]
<1>1. req'[r] = req[r]
  BY OthersKeep
<1>2. CASE Step(s) \/ Crash(s) \/ CrashInSave(s)
  <2>1. ~ At(s, "idle")
    BY <1>2 DEF Step, Get, Load, Save, Mark, UpdatePayload, EditSave, Crash, CrashInSave,
                HasBundle, At
  <2> QED
    BY <1>1, <2>1 DEF SerialInv, OneAtATime, Active, At
<1>3. CASE \/ \E op \in ItemOps, i \in Items : Open(s, op, i)
           \/ \E op \in EditOps, o \in Objs : EditLoad(s, op, o)
  <2>1. Cardinality(Active) < 1
    BY <1>3 DEF Open, EditLoad
  <2> QED
    BY <1>1, <2>1, StartsAlone
<1> QED
  BY <1>2, <1>3

\* What the two steps with a guard leave in the local state of their request.
LEMMA GetIs ==
    ASSUME TypeOK, NEW r \in Reqs, Get(r)
    PROVE  /\ req[r] \in ItemReqs
           /\ \/ req'[r] = Idle
              \/ /\ status[req[r].item] = "pending_review"
                 /\ req'[r] = [req[r] EXCEPT !.pc = "guarded", !.seen = payload[req[r].item]]
<1>1. req[r] \in ItemReqs /\ DOMAIN req = Reqs
  BY ReqKinds DEF Get, At, TypeOK
<1> QED
  BY <1>1 DEF Get, Leave

LEMMA LoadIs ==
    ASSUME TypeOK, NEW r \in Reqs, Load(r)
    PROVE  /\ req[r] \in ItemReqs
           /\ \/ req'[r] = Idle
              \/ /\ ~ Refused(r) /\ Writes(req[r].item)
                 /\ req'[r] = [req[r] EXCEPT !.pc = "loaded",
                                 !.bundle = Materialise(canon, req[r].item, req[r].seen)]
              \/ /\ ~ Refused(r) /\ ~ Writes(req[r].item)
                 /\ req'[r] = [req[r] EXCEPT !.pc = "saved"]
<1>1. req[r] \in ItemReqs /\ DOMAIN req = Reqs
  BY ReqKinds DEF Load, At, TypeOK
<1>2. CASE Refused(r)
  BY <1>1, <1>2 DEF Load, Leave
<1>3. CASE ~ Refused(r) /\ Writes(req[r].item)
  <2>1. req' = [req EXCEPT ![r] = [req[r] EXCEPT !.pc = "loaded",
                                     !.bundle = Materialise(canon, req[r].item, req[r].seen)]]
    BY <1>1, <1>3 DEF Load
  <2> QED
    BY <1>1, <1>3, <2>1
<1>4. CASE ~ Refused(r) /\ ~ Writes(req[r].item)
  BY <1>1, <1>4 DEF Load
<1> QED
  BY <1>1, <1>2, <1>3, <1>4

\* With one request at a time, the snapshot, the payload that was read and the bundle that
\* will be saved stay those of the queue and the world.
LEMMA FreshKept ==
    ASSUME MaxActive = 1, TypeOK, SerialInv, Fresh, [Next]_vars
    PROVE  Fresh'
<1> SUFFICES ASSUME NEW r \in Reqs PROVE FreshRequest(r)'
  BY DEF Fresh
<1>f. FreshRequest(r) /\ DOMAIN req = Reqs
  BY DEF Fresh, TypeOK
<1>i. ASSUME req'[r].pc \in {"idle", "saved"} PROVE FreshRequest(r)'
  BY <1>i DEF FreshRequest, ItemRequest, At
<1>1. ASSUME UNCHANGED <<req, canon, payload>> PROVE FreshRequest(r)'
  BY <1>1, <1>f DEF FreshRequest, ItemRequest, IsOp, Refused, At
<1>2. ASSUME NEW s \in Reqs, r # s,
             \/ Step(s) \/ Crash(s) \/ CrashInSave(s)
             \/ \E op \in ItemOps, i \in Items : Open(s, op, i)
             \/ \E op \in EditOps, o \in Objs : EditLoad(s, op, o)
      PROVE  FreshRequest(r)'
  BY <1>2, <1>i, OnlyMine DEF At
<1>3. CASE Get(r)
  <2>1. UNCHANGED <<canon, payload>> /\ At(r, "opened")
    BY <1>3 DEF Get
  <2>2. CASE req'[r] = [req[r] EXCEPT !.pc = "guarded", !.seen = payload[req[r].item]]
    <3>1. req[r] \in ItemReqs /\ (req[r].op = "accepted" => req[r].snap = canon)
      BY <1>3, <1>f, <2>1, GetIs DEF FreshRequest, ItemRequest, IsOp, At
    <3>2. /\ req'[r].pc = "guarded" /\ req'[r].snap = req[r].snap /\ req'[r].op = req[r].op
          /\ req'[r].item = req[r].item /\ req'[r].seen = payload[req[r].item]
      BY <2>2, <3>1 DEF ItemReqs
    <3> QED
      BY <2>1, <3>1, <3>2 DEF FreshRequest, IsOp, At
  <2>3. CASE req'[r] = Idle
    BY <1>i, <2>3 DEF Idle
  <2> QED
    BY <1>3, <2>2, <2>3, GetIs
<1>4. CASE Load(r)
  <2>1. UNCHANGED <<canon, payload>> /\ At(r, "guarded")
    BY <1>4 DEF Load
  <2>2. CASE /\ ~ Refused(r) /\ Writes(req[r].item)
             /\ req'[r] = [req[r] EXCEPT !.pc = "loaded",
                             !.bundle = Materialise(canon, req[r].item, req[r].seen)]
    <3>1. /\ req[r] \in ItemReqs /\ req[r].snap = canon
          /\ req[r].seen = payload[req[r].item]
      BY <1>4, <1>f, <2>1, LoadIs DEF Load, FreshRequest, ItemRequest, At
    <3>2. /\ req'[r].pc = "loaded" /\ req'[r].snap = req[r].snap
          /\ req'[r].item = req[r].item /\ req'[r].seen = req[r].seen
          /\ req'[r].bundle = Materialise(canon, req[r].item, req[r].seen)
      BY <2>2, <3>1 DEF ItemReqs
    <3>3. ~ Refused(r)'
      BY <2>1, <2>2, <3>2 DEF Refused
    <3> QED
      BY <2>1, <2>2, <3>1, <3>2, <3>3 DEF FreshRequest, At
  <2>3. CASE req'[r] = [req[r] EXCEPT !.pc = "saved"]
    <3>1. req'[r].pc = "saved"
      BY <1>4, <2>3, LoadIs DEF ItemReqs
    <3> QED
      BY <1>i, <3>1
  <2>4. CASE req'[r] = Idle
    BY <1>i, <2>4 DEF Idle
  <2> QED
    BY <1>4, <2>2, <2>3, <2>4, LoadIs
<1>5. CASE Save(r)
  <2>1. req[r] \in ItemReqs
    BY <1>5, ReqKinds DEF Save, At
  <2>2. req'[r].pc = "saved"
    BY <1>5, <1>f, <2>1 DEF Save, ItemReqs
  <2> QED
    BY <1>i, <2>2
<1>6. CASE Mark(r) \/ UpdatePayload(r) \/ EditSave(r) \/ Crash(r) \/ CrashInSave(r)
  BY <1>6, <1>f, <1>i DEF Mark, UpdatePayload, EditSave, Crash, CrashInSave, Leave, Idle
<1>7. ASSUME NEW op \in ItemOps, NEW i \in Items, Open(r, op, i) PROVE FreshRequest(r)'
  <2>1. /\ req'[r].pc = "opened" /\ req'[r].op = op /\ req'[r].item = i
        /\ req'[r].seen = payload[i] /\ (op = "accepted" => req'[r].snap = canon)
        /\ UNCHANGED <<canon, payload>>
    BY <1>7, <1>f DEF Open, Request
  <2> QED
    BY <2>1 DEF FreshRequest, IsOp, At
<1>8. ASSUME NEW op \in EditOps, NEW o \in Objs, EditLoad(r, op, o) PROVE FreshRequest(r)'
  BY <1>8, <1>f DEF EditLoad, FreshRequest, ItemRequest, EditOps, At
<1> QED
  BY <1>1, <1>2, <1>3, <1>4, <1>5, <1>6, <1>7, <1>8 DEF Next, Step, Generate, vars

\* A step writes the world only by saving the bundle of a request: that of an accept, which
\* puts its draft at its own objects, or that of an edit, which is about one object.
LEMMA CanonKept ==
    ASSUME [Next]_vars, ~ \E r \in Reqs : Save(r) \/ EditSave(r) \/ CrashInSave(r)
    PROVE  canon' = canon
BY DEF Next, Step, Generate, Open, EditLoad, Get, Load, Mark, UpdatePayload, Crash, vars

\* What the world holds after the accept of draft i in version v, object by object.
LEMMA MaterialisedObjects ==
    ASSUME NEW bb \in Bundle, NEW i \in Items, NEW v \in Revs, Writes(i), NEW o \in Objs
    PROVE  /\ o \notin Targets[i] => Materialise(bb, i, v).obj[o] = bb.obj[o]
           /\ o \in Targets[i] /\ IsInsert(i) =>
                 Materialise(bb, i, v).obj[o] = [body |-> <<i, v>>, logic |-> NoLogic]
           /\ o \in Targets[i] /\ ~ IsInsert(i) =>
                 Materialise(bb, i, v).obj[o] = [bb.obj[o] EXCEPT !.logic = <<i, v>>]
BY DEF Materialise, Bundle

\* The save of an accept, and the save of an edit, of a request that is alone.
LEMMA SaveIs ==
    ASSUME TypeOK, Fresh, NEW r \in Reqs, Save(r)
    PROVE  /\ req[r] \in ItemReqs /\ At(r, "loaded") /\ ~ Refused(r) /\ Writes(req[r].item)
           /\ req[r].snap = canon /\ req[r].seen = payload[req[r].item]
           /\ canon' = Materialise(canon, req[r].item, payload[req[r].item])
           /\ req'[r].pc = "saved" /\ req'[r].item = req[r].item
           /\ UNCHANGED <<status, payload>>
<1>1. req[r] \in ItemReqs /\ At(r, "loaded") /\ DOMAIN req = Reqs
  BY ReqKinds DEF Save, At, TypeOK
<1>2. FreshRequest(r)
  BY DEF Fresh
<1>3. req'[r] = [req[r] EXCEPT !.pc = "saved", !.snap = NoBundle, !.bundle = NoBundle]
  BY <1>1 DEF Save
<1>4. req'[r].pc = "saved" /\ req'[r].item = req[r].item
  BY <1>1, <1>3 DEF ItemReqs
<1> QED
  BY <1>1, <1>2, <1>4 DEF Save, FreshRequest, ItemRequest, IsOp, ItemReqs, At

LEMMA EditSaveIs ==
    ASSUME TypeOK, Fresh, NEW r \in Reqs, EditSave(r)
    PROVE  /\ req[r] \in EditReqs /\ At(r, "edited")
           /\ \/ req[r].obj \notin Present(canon) /\ canon' = Created(canon, req[r].obj)
              \/ req[r].obj \in Present(canon) /\ canon' = Deleted(canon, req[r].obj)
           /\ UNCHANGED <<status, payload>>
<1>1. req[r] \in EditReqs /\ At(r, "edited")
  BY ReqKinds DEF EditSave, At
<1>2. FreshRequest(r)
  BY DEF Fresh
<1> QED
  BY <1>1, <1>2 DEF EditSave, FreshRequest

\* A new world shows the drafts it holds at their own objects and in the version of the queue.
LEMMA ShownStarts == Init => Shown
BY NoDrafts DEF Init, Shown, InCanon

\* No step ends that.  The case that is not plain is the save of an accept: the draft it
\* writes is nowhere in the world yet, because the conflict with the snapshot is checked.
LEMMA ShownKept ==
    ASSUME MaxActive = 1, TypeOK, SerialInv, Fresh, Shown, [Next]_vars
    PROVE  Shown'
<1> DEFINE Done(i) == status[i] = "accepted" \/ (\E r \in Reqs : At(r, "saved") /\ req[r].item = i)
<1>t. /\ canon \in Bundle /\ DOMAIN req = Reqs
      /\ status \in [Items -> Status] /\ payload \in [Items -> Revs]
  BY DEF TypeOK
<1> SUFFICES ASSUME NEW i \in Items, NEW o \in Objs, i \in DraftedBy(canon, o)'
             PROVE  /\ IsInsert(i) /\ o \in Targets[i]
                    /\ Done(i)' => canon'.obj[o].body = <<i, payload'[i]>>
  BY DEF Shown
<1>s. i \in DraftedBy(canon, o) =>
         /\ IsInsert(i) /\ o \in Targets[i]
         /\ Done(i) => canon.obj[o].body = <<i, payload[i]>>
  BY DEF Shown
<1>1. ASSUME NEW r \in Reqs, Save(r)
      PROVE  /\ IsInsert(i) /\ o \in Targets[i]
             /\ Done(i)' => canon'.obj[o].body = <<i, payload'[i]>>
  <2> DEFINE j == req[r].item
  <2>1. /\ j \in Items /\ ~ Refused(r) /\ Writes(j) /\ req[r].snap = canon
        /\ canon' = Materialise(canon, j, payload[j]) /\ UNCHANGED <<status, payload>>
    BY <1>1, SaveIs DEF ItemReqs
  <2>2. \A s \in Reqs : s # r => req'[s] = req[s] /\ At(s, "idle")
    BY <1>1, OnlyMine DEF Step
  <2>3. At(r, "saved")' /\ req'[r].item = j
    BY <1>1, SaveIs DEF At
  <2>4. i # j /\ Done(i)' => Done(i)
    BY <2>1, <2>2, <2>3 DEF At
  <2>l. LogicApplies(canon, j) /\ payload[j] \in Revs
    BY <2>1, <1>t DEF Refused
  <2> HIDE DEF j
  <2>m. \A x \in Objs :
           /\ x \notin Targets[j] => canon'.obj[x] = canon.obj[x]
           /\ x \in Targets[j] /\ IsInsert(j) =>
                 canon'.obj[x] = [body |-> <<j, payload[j]>>, logic |-> NoLogic]
           /\ x \in Targets[j] /\ ~ IsInsert(j) =>
                 canon'.obj[x] = [canon.obj[x] EXCEPT !.logic = <<j, payload[j]>>]
    <3>1. canon' = Materialise(canon, j, payload[j]) /\ j \in Items /\ Writes(j)
      BY <2>1
    <3>2. canon \in Bundle /\ payload[j] \in Revs
      BY <2>l, <1>t
    <3>3. \A x \in Objs :
             /\ x \notin Targets[j] => Materialise(canon, j, payload[j]).obj[x] = canon.obj[x]
             /\ x \in Targets[j] /\ IsInsert(j) =>
                   Materialise(canon, j, payload[j]).obj[x] = [body |-> <<j, payload[j]>>, logic |-> NoLogic]
             /\ x \in Targets[j] /\ ~ IsInsert(j) =>
                   Materialise(canon, j, payload[j]).obj[x] = [canon.obj[x] EXCEPT !.logic = <<j, payload[j]>>]
      BY ONLY <3>1, <3>2, MaterialisedObjects
    <3> QED
      BY ONLY <3>1, <3>3
  <2>5. CASE o \in Targets[j] /\ IsInsert(j)
    <3>1. canon'.obj[o] = [body |-> <<j, payload[j]>>, logic |-> NoLogic]
      BY <2>5, <2>m
    <3>2. i = j
      BY <3>1 DEF DraftedBy
    <3> QED
      BY <2>1, <2>5, <3>1, <3>2
  <2>6. CASE ~ (o \in Targets[j] /\ IsInsert(j))
    <3>1. /\ canon'.obj[o] # Absent => canon.obj[o] # Absent
          /\ canon'.obj[o].body = canon.obj[o].body
      <4>1. CASE o \notin Targets[j]
        BY <4>1, <2>m
      <4>2. CASE o \in Targets[j] /\ ~ IsInsert(j)
        <5>1. canon'.obj[o] = [canon.obj[o] EXCEPT !.logic = <<j, payload[j]>>]
          BY <4>2, <2>m
        <5>2. canon.obj[o] # Absent /\ canon.obj[o] \in Content
          BY <4>2, <2>1, <2>l, <1>t DEF LogicApplies, Writes, Present, Bundle
        <5> QED
          BY <5>1, <5>2 DEF Content
      <4> QED
        BY <2>6, <4>1, <4>2
    <3>2. i \in DraftedBy(canon, o)
      BY <3>1 DEF DraftedBy
    <3>3. i # j
      <4>1. i = j => o \notin Targets[i] \/ ~ IsInsert(i)
        BY <2>6
      <4> QED
        BY <4>1, <3>2, <1>s
    <3> QED
      BY <2>1, <2>4, <3>1, <3>2, <3>3, <1>s
  <2> QED
    BY <2>5, <2>6
<1>2. ASSUME NEW r \in Reqs, EditSave(r)
      PROVE  /\ IsInsert(i) /\ o \in Targets[i]
             /\ Done(i)' => canon'.obj[o].body = <<i, payload'[i]>>
  <2>1. req[r].obj \in Objs /\ UNCHANGED <<status, payload>>
        /\ (canon' = Created(canon, req[r].obj) \/ canon' = Deleted(canon, req[r].obj))
    BY <1>2, EditSaveIs DEF EditReqs
  <2>2. canon'.obj[o] = canon.obj[o]
    <3>1. CASE o = req[r].obj
      <4>1. canon'.obj[o] = Absent \/ canon'.obj[o] = ByHuman
        BY <2>1, <3>1, <1>t DEF Created, Deleted, Bundle
      <4>2. i \in DraftedBy(canon', o)
        BY DEF DraftedBy
      <4> QED
        BY <4>1, <4>2 DEF DraftedBy, ByHuman
    <3>2. CASE o # req[r].obj
      BY <2>1, <3>2, <1>t DEF Created, Deleted, Bundle
    <3> QED
      BY <3>1, <3>2
  <2>3. req' = [req EXCEPT ![r] = Idle]
    BY <1>2 DEF EditSave, Leave
  <2>4. Done(i)' => Done(i)
    BY <2>1, <2>3, <1>t DEF At, Idle
  <2> QED
    BY <2>1, <2>2, <2>4, <1>s DEF DraftedBy
<1>4. ASSUME NEW r \in Reqs, CrashInSave(r)
      PROVE  /\ IsInsert(i) /\ o \in Targets[i]
             /\ Done(i)' => canon'.obj[o].body = <<i, payload'[i]>>
  <2>1. /\ HasBundle(r) /\ UNCHANGED <<status, payload>> /\ req' = [req EXCEPT ![r] = Idle]
        /\ canon'.obj[o] = canon.obj[o] \/ canon'.obj[o] = req[r].bundle.obj[o]
    BY <1>4, CrashInSaveIs
  <2>2. Done(i)' => status[i] = "accepted"
    <3>1. \A s \in Reqs : s # r => req'[s] = req[s] /\ At(s, "idle")
      BY <1>4, OnlyMine
    <3> QED
      BY <2>1, <3>1, <1>t DEF At, Idle
  <2>3. ASSUME canon.obj[o] # Absent, canon'.obj[o].body = canon.obj[o].body
        PROVE  /\ IsInsert(i) /\ o \in Targets[i]
               /\ Done(i)' => canon'.obj[o].body = <<i, payload'[i]>>
    <3>1. i \in DraftedBy(canon, o)
      BY <2>3 DEF DraftedBy
    <3> QED
      BY <2>1, <2>2, <2>3, <3>1, <1>s
  <2>4. CASE canon'.obj[o] = canon.obj[o]
    BY <2>3, <2>4 DEF DraftedBy
  <2>5. CASE At(r, "loaded") /\ canon'.obj[o] = req[r].bundle.obj[o]
    <3> DEFINE j == req[r].item
    <3>1. j \in Items /\ Holds(r, j)
      BY <2>5, ReqKinds DEF At, ItemReqs, Holds, ItemRequest
    <3>2. /\ Writes(j) /\ LogicApplies(canon, j) /\ payload[j] \in Revs
          /\ canon'.obj[o] = Materialise(canon, j, payload[j]).obj[o]
      BY <2>5, <3>1, <1>t DEF Fresh, FreshRequest, ItemRequest, Refused, At
    <3>3. status[j] = "pending_review"
      BY <3>1 DEF SerialInv
    <3> HIDE DEF j
    <3>m. \A v \in Revs :
             /\ o \notin Targets[j] => Materialise(canon, j, v).obj[o] = canon.obj[o]
             /\ o \in Targets[j] /\ IsInsert(j) =>
                   Materialise(canon, j, v).obj[o] = [body |-> <<j, v>>, logic |-> NoLogic]
             /\ o \in Targets[j] /\ ~ IsInsert(j) =>
                   Materialise(canon, j, v).obj[o] = [canon.obj[o] EXCEPT !.logic = <<j, v>>]
      <4>1. canon \in Bundle /\ j \in Items /\ Writes(j)
        BY <3>1, <3>2, <1>t
      <4> QED
        BY <4>1, MaterialisedObjects
    <3>4. CASE o \in Targets[j] /\ IsInsert(j)
      <4>1. canon'.obj[o] = [body |-> <<j, payload[j]>>, logic |-> NoLogic]
        BY <3>2, <3>4, <3>m
      <4>2. i = j
        BY <4>1 DEF DraftedBy
      <4> QED
        BY <2>2, <3>3, <3>4, <4>2
    <3>5. CASE o \in Targets[j] /\ ~ IsInsert(j)
      <4>1. canon'.obj[o] = [canon.obj[o] EXCEPT !.logic = <<j, payload[j]>>]
        BY <3>2, <3>5, <3>m
      <4>2. canon.obj[o] # Absent /\ canon.obj[o] \in Content
        BY <3>2, <3>5, <1>t DEF LogicApplies, Writes, Present, Bundle
      <4>3. canon'.obj[o].body = canon.obj[o].body
        BY <4>1, <4>2 DEF Content
      <4> QED
        BY <2>3, <4>2, <4>3
    <3>6. CASE o \notin Targets[j]
      <4>1. canon'.obj[o] = canon.obj[o]
        BY <3>2, <3>6, <3>m
      <4> QED
        BY <2>4, <4>1
    <3> QED
      BY <3>4, <3>5, <3>6
  <2>6. CASE At(r, "edited") /\ canon'.obj[o] = req[r].bundle.obj[o]
    <3>1. /\ req[r].obj \in Objs
          /\ req[r].bundle = Created(canon, req[r].obj) \/ req[r].bundle = Deleted(canon, req[r].obj)
      BY <2>6, ReqKinds DEF Fresh, FreshRequest, EditReqs, At
    <3>2. CASE o = req[r].obj
      <4>1. canon'.obj[o] = Absent \/ canon'.obj[o] = ByHuman
        BY <2>6, <3>1, <3>2, <1>t DEF Created, Deleted, Bundle
      <4> QED
        BY <4>1 DEF DraftedBy, ByHuman
    <3>3. CASE o # req[r].obj
      <4>1. canon'.obj[o] = canon.obj[o]
        BY <2>6, <3>1, <3>3, <1>t DEF Created, Deleted, Bundle
      <4> QED
        BY <2>4, <4>1
    <3> QED
      BY <3>2, <3>3
  <2> QED
    BY <2>1, <2>4, <2>5, <2>6 DEF HasBundle
<1>3. ASSUME ~ \E r \in Reqs : Save(r) \/ EditSave(r) \/ CrashInSave(r)
      PROVE  /\ IsInsert(i) /\ o \in Targets[i]
             /\ Done(i)' => canon'.obj[o].body = <<i, payload'[i]>>
  <2>0. canon' = canon
    BY <1>3, CanonKept
  <2>1. i \in DraftedBy(canon, o)
    BY <2>0 DEF DraftedBy
  <2>2. SUFFICES ASSUME Done(i)' PROVE Done(i) /\ payload'[i] = payload[i]
    BY <2>0, <1>s, <2>1
  <2>3. ASSUME NEW r \in Reqs, Mark(r) PROVE Done(i) /\ payload' = payload
    <3>1. req[r] \in ItemReqs
      BY <2>3, ReqKinds DEF Mark, At
    <3>2. /\ payload' = payload
          /\ status' = [status EXCEPT ![req[r].item] = req[r].op]
          /\ req' = [req EXCEPT ![r] = Idle]
      BY <2>3 DEF Mark, Leave
    <3>3. At(r, "saved") \/ req[r].op # "accepted"
      BY <2>3 DEF Mark, IsOp
    <3> QED
      BY <3>1, <3>2, <3>3, <2>2, <1>t DEF At, Idle
  <2>4. ASSUME NEW r \in Reqs, UpdatePayload(r) PROVE Done(i) /\ payload'[i] = payload[i]
    <3>1. At(r, "guarded") /\ req' = [req EXCEPT ![r] = Idle]
      BY <2>4 DEF UpdatePayload, Leave
    <3>2. req[r].item # i
      <4>1. \A s \in Reqs : ~ At(s, "saved")'
        BY <3>1, <2>4, <1>t, OnlyMine DEF Step, At, Idle
      <4>2. status'[i] = "accepted"
        BY <4>1, <2>2
      <4>3. Holds(r, req[r].item) /\ req[r].item \in Items
        BY <3>1, ReqKinds DEF At, Holds, ItemRequest, ItemReqs
      <4>4. status[req[r].item] = "pending_review"
        BY <4>3 DEF SerialInv
      <4> QED
        BY <4>2, <4>3, <4>4, <2>4, <1>t DEF UpdatePayload
    <3> QED
      BY <3>1, <3>2, <2>2, <2>4, <1>t DEF UpdatePayload, At, Idle
  <2>5. ASSUME NEW r \in Reqs, Load(r) PROVE Done(i) /\ payload' = payload
    <3>1. payload' = payload /\ status' = status
      BY <2>5 DEF Load
    <3>2. ~ (At(r, "saved")' /\ req'[r].item = i)
      <4>1. req[r] \in ItemReqs
        BY <2>5, LoadIs
      <4>2. CASE req'[r] = Idle
        BY <4>2 DEF At, Idle
      <4>3. CASE req'[r] = [req[r] EXCEPT !.pc = "loaded",
                              !.bundle = Materialise(canon, req[r].item, req[r].seen)]
        BY <4>1, <4>3 DEF At, ItemReqs
      <4>4. CASE ~ Writes(req[r].item) /\ req'[r] = [req[r] EXCEPT !.pc = "saved"]
        BY <4>1, <4>4, <2>1, <1>s DEF Writes, ItemReqs
      <4> QED
        BY <2>5, <4>2, <4>3, <4>4, LoadIs
    <3>3. \A s \in Reqs : s # r => req'[s] = req[s]
      BY <2>5, OthersKeep DEF Step
    <3> QED
      BY <3>1, <3>2, <3>3, <2>2 DEF At
  <2>6. ASSUME NEW j \in Items, Generate(j) PROVE Done(i) /\ payload' = payload
    BY <2>6, <2>2, <1>t DEF Generate, At
  <2>7. ASSUME NEW r \in Reqs,
               \/ Get(r) \/ Crash(r)
               \/ \E op \in ItemOps, j \in Items : Open(r, op, j)
               \/ \E op \in EditOps, x \in Objs : EditLoad(r, op, x)
        PROVE  Done(i) /\ payload' = payload
    <3>1. payload' = payload /\ status' = status
      BY <2>7 DEF Get, Crash, Open, EditLoad
    <3>2. req'[r].pc # "saved"
      <4>1. CASE Get(r)
        <5>1. CASE req'[r] = Idle
          BY <5>1 DEF Idle
        <5>2. CASE req'[r] = [req[r] EXCEPT !.pc = "guarded", !.seen = payload[req[r].item]]
          BY <4>1, <5>2, GetIs DEF ItemReqs
        <5> QED
          BY <4>1, <5>1, <5>2, GetIs
      <4>2. CASE \/ Crash(r)
                 \/ \E op \in ItemOps, j \in Items : Open(r, op, j)
                 \/ \E op \in EditOps, x \in Objs : EditLoad(r, op, x)
        BY <4>2, <1>t DEF Crash, Leave, Open, EditLoad, Request, Idle
      <4> QED
        BY <2>7, <4>1, <4>2
    <3>3. \A s \in Reqs : s # r => req'[s] = req[s]
      BY <2>7, OthersKeep DEF Step
    <3> QED
      BY <3>1, <3>2, <3>3, <2>2 DEF At
  <2>8. CASE UNCHANGED vars
    BY <2>8, <2>2 DEF vars, At
  <2> QED
    BY <1>3, <2>3, <2>4, <2>5, <2>6, <2>7, <2>8 DEF Next, Step
<1> QED
  BY <1>1, <1>2, <1>3, <1>4

LEMMA AloneAlways == MaxActive = 1 /\ Spec => [](TypeOK /\ AloneInv)
<1> SUFFICES ASSUME MaxActive = 1 PROVE Spec => [](TypeOK /\ AloneInv)
  OBVIOUS
<1>1. Init => AloneInv
  <2>1. Init => Fresh
    BY DEF Init, Fresh, FreshRequest, ItemRequest, At, Idle
  <2> QED
    BY <2>1, SerialStarts, ShownStarts DEF AloneInv
<1>2. TypeOK /\ AloneInv /\ [Next]_vars => AloneInv'
  BY SerialKept, FreshKept, ShownKept DEF AloneInv
<1> QED
  BY <1>1, <1>2, TypeCorrect, PTL DEF Spec

\* Served one request at a time, an accepted draft that is in the world is there in the version
\* that the queue shows, for every number of accepts that die after their save.
THEOREM AcceptedIsShown == MaxActive = 1 /\ Spec => []CanonShowsPayload
<1> SUFFICES ASSUME MaxActive = 1 PROVE Spec => []CanonShowsPayload
  OBVIOUS
<1>1. AloneInv => CanonShowsPayload
  BY DEF AloneInv, Shown, CanonShowsPayload
<1> QED
  BY <1>1, AloneAlways, PTL

\* A request goes from loaded to saved only by its save.
LEMMA SavedBySave ==
    ASSUME TypeOK, [Next]_vars, NEW r \in Reqs, At(r, "loaded"), At(r, "saved")'
    PROVE  Save(r)
<1>1. req'[r] # req[r] /\ DOMAIN req = Reqs
  BY DEF At, TypeOK
<1>2. ~ (Get(r) \/ Load(r) \/ EditSave(r))
  BY DEF Get, Load, EditSave, At
<1>3. ~ (Mark(r) \/ UpdatePayload(r) \/ Crash(r) \/ CrashInSave(r))
  BY <1>1 DEF Mark, UpdatePayload, Crash, CrashInSave, Leave, At, Idle
<1>4. ~ \/ \E op \in ItemOps, i \in Items : Open(r, op, i)
        \/ \E op \in EditOps, o \in Objs : EditLoad(r, op, o)
  BY DEF Open, EditLoad, At
<1> QED
  BY <1>1, <1>2, <1>3, <1>4, OthersKeep DEF Next, Step, Generate, vars

-----------------------------------------------------------------------------
\* Requests that overlap: what a save of the whole world takes back, and what the gate is
\* worth when the world has moved on.

\* Where b and c differ, one of them differs from a.
LEMMA ChangedThrough ==
    ASSUME NEW aa, NEW bb, NEW cc
    PROVE  Changed(bb, cc) \subseteq Changed(aa, bb) \cup Changed(aa, cc)
BY DEF Changed

\* An accept changes its own objects and its own relation.
LEMMA MaterialiseChanges ==
    ASSUME NEW bb \in Bundle, NEW i \in Items, NEW v \in Revs, Writes(i)
    PROVE  Changed(bb, Materialise(bb, i, v))
              \subseteq {<<"object", o>> : o \in Targets[i]} \cup {<<"relation", i>>}
<1> DEFINE cc == Materialise(bb, i, v)
<1>1. ASSUME NEW o \in Objs, o \notin Targets[i] PROVE cc.obj[o] = bb.obj[o]
  BY <1>1 DEF Materialise, Bundle
<1>2. \A j \in Items : j # i => cc.rels[j] = bb.rels[j]
  <2>1. CASE IsInsert(i)
    <3>1. cc.rels = MergedRels(bb, i)
      BY <2>1 DEF Materialise
    <3> QED
      BY <3>1 DEF MergedRels, Bundle
  <2>2. CASE ~ IsInsert(i)
    <3>1. cc.rels = bb.rels
      BY <2>2 DEF Materialise, Bundle
    <3> QED
      BY <3>1
  <2> QED
    BY <2>1, <2>2
<1> HIDE DEF cc
<1>3. ASSUME NEW x \in Parts, PartOf(bb, x) # PartOf(cc, x)
      PROVE  x \in {<<"object", o>> : o \in Targets[i]} \cup {<<"relation", i>>}
  <2>1. CASE x \in {"object"} \X Objs
    BY <1>1, <1>3, <2>1 DEF PartOf
  <2>2. CASE x \in {"relation"} \X Items
    BY <1>2, <1>3, <2>2 DEF PartOf
  <2> QED
    BY <2>1, <2>2 DEF Parts
<1> QED
  BY <1>3 DEF Changed, cc

\* An edit changes its object, and a deletion the relations of that object as well.
LEMMA EditChanges ==
    ASSUME NEW bb \in Bundle, NEW o \in Objs, NEW cc, cc = Created(bb, o) \/ cc = Deleted(bb, o)
    PROVE  Changed(bb, cc) \subseteq
              {<<"object", o>>} \cup {<<"relation", i>> : i \in {j \in Items : o \in RelEnds[j]}}
<1>1. \A x \in Objs : x # o => cc.obj[x] = bb.obj[x]
  BY DEF Created, Deleted, Bundle
<1>2. \A i \in Items : o \notin RelEnds[i] => cc.rels[i] = bb.rels[i]
  BY DEF Created, Deleted, Bundle
<1>3. ASSUME NEW x \in Parts, PartOf(bb, x) # PartOf(cc, x)
      PROVE  x \in {<<"object", o>>} \cup {<<"relation", i>> : i \in {j \in Items : o \in RelEnds[j]}}
  <2>1. CASE x \in {"object"} \X Objs
    BY <1>1, <1>3, <2>1 DEF PartOf
  <2>2. CASE x \in {"relation"} \X Items
    BY <1>2, <1>3, <2>2 DEF PartOf
  <2> QED
    BY <2>1, <2>2 DEF Parts
<1> QED
  BY <1>3 DEF Changed

\* The three ways to write the world.
LEMMA WritesAre ==
    ASSUME TypeOK, [Next]_vars
    PROVE  \/ canon' = canon
           \/ \E r \in Reqs : Save(r) \/ EditSave(r) \/ CrashInSave(r)
BY DEF Next, Step, Generate, Open, EditLoad, Get, Load, Mark, UpdatePayload, Crash, vars

\* Each of them is the end of a request with a bundle, and changes only what differs
\* between that bundle and the world.
LEMMA WritesChange ==
    ASSUME TypeOK, NEW r \in Reqs, Save(r) \/ EditSave(r) \/ CrashInSave(r)
    PROVE  /\ HasBundle(r) /\ ~ HasBundle(r)' /\ Overtakes(r)
           /\ Changed(canon, canon') \subseteq Changed(canon, req[r].bundle)
<1>1. Overtakes(r)
  BY DEF Save, EditSave, CrashInSave
<1>2. HasBundle(r) /\ ~ HasBundle(r)'
  <2>1. CASE Save(r)
    <3>1. req[r] \in ItemReqs /\ DOMAIN req = Reqs
      BY <2>1, ReqKinds DEF Save, At, TypeOK
    <3> QED
      BY <2>1, <3>1 DEF Save, HasBundle, At, ItemReqs
  <2>2. CASE EditSave(r) \/ CrashInSave(r)
    BY <2>2 DEF TypeOK, EditSave, CrashInSave, Leave, HasBundle, At, Idle
  <2> QED
    BY <2>1, <2>2
<1>3. CASE Save(r) \/ EditSave(r)
  BY <1>1, <1>2, <1>3 DEF Save, EditSave
<1>4. CASE CrashInSave(r)
  <2>1. ASSUME NEW x \in Parts, PartOf(canon, x) # PartOf(canon', x)
        PROVE  PartOf(canon, x) # PartOf(req[r].bundle, x)
    <3>1. CASE x \in {"object"} \X Objs
      BY <1>4, <2>1, <3>1, CrashInSaveIs DEF PartOf
    <3>2. CASE x \in {"relation"} \X Items
      BY <1>4, <2>1, <3>2, CrashInSaveIs DEF PartOf
    <3> QED
      BY <3>1, <3>2 DEF Parts
  <2> QED
    BY <1>1, <1>2, <2>1 DEF Changed
<1> QED
  BY <1>3, <1>4

\* A request that has no bundle after its step has missed nothing.
LEMMA NothingMissed ==
    ASSUME TypeOK, BundleInv, [Next]_vars, NEW r \in Reqs, ~ HasBundle(r)'
    PROVE  missed'[r] = {}
<1>t. DOMAIN req = Reqs /\ missed \in [Reqs -> SUBSET Parts]
  BY DEF TypeOK
<1>1. ASSUME NEW s \in Reqs, Overtakes(s), s # r => req'[r] = req[r] PROVE missed'[r] = {}
  BY <1>1 DEF Overtakes, HasBundle, At
<1>2. CASE \E s \in Reqs : Save(s) \/ EditSave(s) \/ CrashInSave(s)
  BY <1>2, <1>1, WritesChange, OthersKeep DEF Step
<1>3. CASE \E s \in Reqs : Crash(s)
  <2>1. PICK s \in Reqs : Crash(s)
    BY <1>3
  <2>2. CASE s = r
    BY <2>1, <2>2, <1>t DEF Crash
  <2>3. CASE s # r
    BY <2>1, <2>3, <1>t DEF Crash, Leave, BundleInv, HasBundle, At
  <2> QED
    BY <2>2, <2>3
<1>4. CASE missed' = missed
  <2>1. ASSUME HasBundle(r) PROVE missed'[r] = {} \/ req'[r] = req[r]
    <3>1. ASSUME Get(r) \/ Load(r) \/ Mark(r) \/ UpdatePayload(r)
                 \/ (\E op \in ItemOps, i \in Items : Open(r, op, i))
                 \/ (\E op \in EditOps, o \in Objs : EditLoad(r, op, o))
          PROVE  FALSE
      BY <3>1, <2>1 DEF Get, Load, Mark, UpdatePayload, Open, EditLoad, HasBundle, At
    <3>2. ASSUME Save(r) \/ EditSave(r) \/ Crash(r) \/ CrashInSave(r) PROVE missed'[r] = {}
      BY <3>2, <1>1, <1>t DEF Save, EditSave, Crash, CrashInSave
    <3> QED
      BY <3>1, <3>2, <2>1, OthersKeep DEF Next, Step, Generate, vars
  <2> QED
    BY <1>4, <2>1 DEF BundleInv, HasBundle, At
<1>5. ASSUME ~ \E s \in Reqs : Save(s) \/ EditSave(s) \/ CrashInSave(s) \/ Crash(s)
      PROVE  missed' = missed
  BY <1>5 DEF Next, Step, Generate, Open, EditLoad, Get, Load, Mark, UpdatePayload, vars
<1> QED
  BY <1>2, <1>3, <1>4, <1>5

\* What a step leaves of a bundle under way that it does not touch: the part it differs from
\* the world in may grow, and what grows was missed.
LEMMA BundleOvertaken ==
    ASSUME TypeOK, BundleInv, [Next]_vars, NEW r \in Reqs, HasBundle(r), req'[r] = req[r]
    PROVE  Changed(canon', req[r].bundle) \subseteq Concerns(r)' \cup missed'[r]
<1>t. DOMAIN req = Reqs /\ missed \in [Reqs -> SUBSET Parts]
  BY DEF TypeOK
<1>1. Concerns(r)' = Concerns(r)
  BY DEF Concerns, At
<1>2. Changed(canon, req[r].bundle) \subseteq Concerns(r) \cup missed[r]
  BY DEF BundleInv
<1>3. CASE \E s \in Reqs : Save(s) \/ EditSave(s) \/ CrashInSave(s)
  <2>1. PICK s \in Reqs : Save(s) \/ EditSave(s) \/ CrashInSave(s)
    BY <1>3
  <2>2. s # r /\ Overtakes(s)
    BY <2>1, WritesChange DEF HasBundle, At
  <2>3. missed'[r] = missed[r] \cup Changed(canon, canon')
    BY <2>2 DEF Overtakes
  <2> QED
    BY <1>1, <1>2, <2>3, ChangedThrough
<1>4. CASE ~ \E s \in Reqs : Save(s) \/ EditSave(s) \/ CrashInSave(s)
  <2>1. canon' = canon
    BY <1>4, CanonKept
  <2>2. ASSUME NEW s \in Reqs, Crash(s) PROVE missed'[r] = missed[r]
    <3>1. s # r
      BY <2>2, <1>t DEF Crash, Leave, HasBundle, At, Idle
    <3> QED
      BY <2>2, <3>1, <1>t DEF Crash
  <2>3. ASSUME ~ \E s \in Reqs : Crash(s) PROVE missed' = missed
    BY <2>3, <1>4 DEF Next, Step, Generate, Open, EditLoad, Get, Load, Mark, UpdatePayload, vars
  <2> QED
    BY <1>1, <1>2, <2>1, <2>2, <2>3
<1> QED
  BY <1>3, <1>4

\* A request gets its bundle in one of two steps.
LEMMA BundleMade ==
    ASSUME TypeOK, [Next]_vars, NEW r \in Reqs, HasBundle(r)', req'[r] # req[r]
    PROVE  \/ Load(r)
           \/ \E op \in EditOps, o \in Objs : EditLoad(r, op, o)
<1>t. DOMAIN req = Reqs
  BY DEF TypeOK
<1>1. ~ (Save(r) \/ EditSave(r) \/ CrashInSave(r))
  BY WritesChange
<1>2. ~ (Mark(r) \/ UpdatePayload(r) \/ Crash(r))
  BY <1>t DEF Mark, UpdatePayload, Crash, Leave, HasBundle, At, Idle
<1>3. ~ \E op \in ItemOps, i \in Items : Open(r, op, i)
  BY <1>t DEF Open, Request, HasBundle, At
<1>4. ASSUME Get(r) PROVE FALSE
  <2>1. CASE req'[r] = Idle
    BY <2>1 DEF HasBundle, At, Idle
  <2>2. CASE req'[r] = [req[r] EXCEPT !.pc = "guarded", !.seen = payload[req[r].item]]
    BY <1>4, <2>2, GetIs DEF HasBundle, At, ItemReqs
  <2> QED
    BY <1>4, <2>1, <2>2, GetIs
<1> QED
  BY <1>1, <1>2, <1>3, <1>4, OthersKeep DEF Next, Step, Generate, vars

\* The bundle of a request is the world but for what it is about and what it missed.
LEMMA BundleInvKept ==
    ASSUME TypeOK, BundleInv, [Next]_vars
    PROVE  BundleInv'
<1> SUFFICES ASSUME NEW r \in Reqs
             PROVE  /\ HasBundle(r)' =>
                          Changed(canon', req'[r].bundle) \subseteq Concerns(r)' \cup missed'[r]
                    /\ At(r, "loaded")' =>
                          /\ Errors(req'[r].bundle) \subseteq Errors(req'[r].snap)
                          /\ ~ Overwrites(req'[r].snap, req'[r].item)
                    /\ ~ HasBundle(r)' => missed'[r] = {}
  BY DEF BundleInv
<1>1. ~ HasBundle(r)' => missed'[r] = {}
  BY NothingMissed
<1>2. CASE ~ HasBundle(r)'
  BY <1>1, <1>2 DEF HasBundle
<1>3. CASE HasBundle(r)' /\ req'[r] = req[r]
  <2>1. HasBundle(r)
    BY <1>3 DEF HasBundle, At
  <2>2. At(r, "loaded")' => At(r, "loaded")
    BY <1>3 DEF At
  <2> QED
    BY <1>3, <2>1, <2>2, BundleOvertaken DEF BundleInv
<1>4. CASE HasBundle(r)' /\ Load(r)
  <2> DEFINE i == req[r].item
  <2>1. /\ req[r] \in ItemReqs /\ ~ Refused(r) /\ Writes(i) /\ canon' = canon
        /\ req'[r] = [req[r] EXCEPT !.pc = "loaded", !.bundle = Materialise(canon, i, req[r].seen)]
    <3>1. CASE req'[r] = Idle
      BY <1>4, <3>1 DEF HasBundle, At, Idle
    <3>2. CASE req'[r] = [req[r] EXCEPT !.pc = "saved"]
      BY <1>4, <3>2, LoadIs DEF HasBundle, At, ItemReqs
    <3> QED
      BY <1>4, <3>1, <3>2, LoadIs DEF Load
  <2>2. /\ req'[r].pc = "loaded" /\ req'[r].item = i /\ req'[r].snap = req[r].snap
        /\ req'[r].bundle = Materialise(canon, i, req[r].seen)
        /\ i \in Items /\ req[r].seen \in Revs /\ canon \in Bundle
    BY <2>1 DEF ItemReqs, TypeOK
  <2>3. Concerns(r)' = {<<"object", o>> : o \in Targets[i]} \cup {<<"relation", i>>}
    BY <2>2 DEF Concerns, At
  <2>4. Changed(canon', req'[r].bundle) \subseteq Concerns(r)'
    BY <2>1, <2>2, <2>3, MaterialiseChanges
  <2>5. /\ Errors(req'[r].bundle) \subseteq Errors(req'[r].snap)
        /\ ~ Overwrites(req'[r].snap, req'[r].item)
    BY <2>1, <2>2 DEF Refused, IntroducesErrors
  <2> QED
    BY <1>1, <2>4, <2>5
<1>5. ASSUME NEW op \in EditOps, NEW o \in Objs, EditLoad(r, op, o), HasBundle(r)'
      PROVE  /\ Changed(canon', req'[r].bundle) \subseteq Concerns(r)'
             /\ ~ At(r, "loaded")'
  <2>1. /\ req'[r].pc = "edited" /\ req'[r].obj = o /\ canon' = canon /\ canon \in Bundle
        /\ req'[r].bundle = Created(canon, o) \/ req'[r].bundle = Deleted(canon, o)
    BY <1>5 DEF EditLoad, TypeOK
  <2>2. Concerns(r)' =
            {<<"object", o>>} \cup {<<"relation", i>> : i \in {j \in Items : o \in RelEnds[j]}}
    BY <2>1 DEF Concerns, At
  <2> QED
    BY <2>1, <2>2, EditChanges DEF At
<1> QED
  BY <1>1, <1>2, <1>3, <1>4, <1>5, BundleMade

LEMMA BundleAlways == Spec => [](TypeOK /\ BundleInv)
<1>1. Init => BundleInv
  BY DEF Init, BundleInv, HasBundle, At, Idle
<1>2. TypeOK /\ BundleInv /\ [Next]_vars => BundleInv'
  BY BundleInvKept
<1> QED
  BY <1>1, <1>2, TypeCorrect, PTL DEF Spec

\* However many requests overlap and die, an accept leaves no audit error in the world that its
\* request did not find there, and what it overwrites of its own was made since it opened.
THEOREM AcceptsAreClean == Spec => AcceptIsClean
<1>1. ASSUME TypeOK, BundleInv, [Next]_vars, NEW r \in Reqs, At(r, "loaded"), At(r, "saved")'
      PROVE  /\ Errors(canon') \subseteq Errors(req[r].snap)
             /\ Overwrites(canon, req[r].item) =>
                   \E o \in Targets[req[r].item] : canon.obj[o] # req[r].snap.obj[o]
  <2>1. canon' = req[r].bundle
    BY <1>1, SavedBySave DEF Save
  <2>2. /\ Errors(req[r].bundle) \subseteq Errors(req[r].snap)
        /\ ~ Overwrites(req[r].snap, req[r].item)
    BY <1>1 DEF BundleInv
  <2> QED
    BY <2>1, <2>2 DEF Overwrites, Present
<1>2. TypeOK /\ BundleInv /\ [Next]_vars =>
        [\A r \in Reqs : At(r, "loaded") /\ At(r, "saved")' =>
            /\ Errors(canon') \subseteq Errors(req[r].snap)
            /\ Overwrites(canon, req[r].item) =>
                  \E o \in Targets[req[r].item] : canon.obj[o] # req[r].snap.obj[o]]_vars
  BY <1>1
<1> QED
  BY <1>2, BundleAlways, PTL DEF Spec, AcceptIsClean

\* However many requests overlap, a save of the whole world, also one that dies half-way, takes
\* back nothing but what was saved between its load and itself.
THEOREM NothingIsUndone == Spec => OnlyOvertakenIsLost
<1>1. ASSUME TypeOK, BundleInv, [Next]_vars, canon' # canon
      PROVE  \E r \in Reqs : /\ HasBundle(r) /\ ~ HasBundle(r)'
                             /\ Changed(canon, canon') \subseteq Concerns(r) \cup missed[r]
  <2>1. PICK r \in Reqs : Save(r) \/ EditSave(r) \/ CrashInSave(r)
    BY <1>1, WritesAre
  <2>2. Changed(canon, req[r].bundle) \subseteq Concerns(r) \cup missed[r]
    BY <1>1, <2>1, WritesChange DEF BundleInv
  <2> QED
    BY <1>1, <2>1, <2>2, WritesChange
<1>2. TypeOK /\ BundleInv /\ [Next]_vars =>
        [canon' # canon =>
            \E r \in Reqs : /\ HasBundle(r) /\ ~ HasBundle(r)'
                            /\ Changed(canon, canon') \subseteq Concerns(r) \cup missed[r]]_vars
  BY <1>1
<1> QED
  BY <1>2, BundleAlways, PTL DEF Spec, OnlyOvertakenIsLost
-----------------------------------------------------------------------------
\* The ledger: an accept is one step of it, the save; its mark is none.

\* The ledger's operations on worlds are those of the requests.
LEMMA SameOperations ==
    ASSUME NEW bb, NEW i, NEW v, NEW o
    PROVE  /\ Ledger!HumanBundles = HumanBundles
           /\ Ledger!Present(bb) = Present(bb)
           /\ Ledger!Errors(bb) = Errors(bb)
           /\ Ledger!Created(bb, o) = Created(bb, o) /\ Ledger!Deleted(bb, o) = Deleted(bb, o)
           /\ Ledger!Writes(i) = Writes(i)
           /\ Ledger!Overwrites(bb, i) = Overwrites(bb, i)
           /\ Ledger!LogicApplies(bb, i) = LogicApplies(bb, i)
           /\ Ledger!Materialise(bb, i, v) = Materialise(bb, i, v)
<1>1. Ledger!IsInsert(i) = IsInsert(i) /\ Ledger!Present(bb) = Present(bb)
  BY DEF Ledger!IsInsert, IsInsert, Ledger!InsertTypes, InsertTypes, Ledger!Present, Present
<1>2. Ledger!MergedRels(bb, i) = MergedRels(bb, i)
  BY DEF Ledger!MergedRels, MergedRels
<1>3. Ledger!Materialise(bb, i, v) = Materialise(bb, i, v)
  BY <1>1, <1>2 DEF Ledger!Materialise, Materialise
<1>4. Ledger!HumanBundles = HumanBundles /\ Ledger!Created(bb, o) = Created(bb, o)
  BY DEF Ledger!HumanBundles, HumanBundles, Ledger!ByHuman, ByHuman, Ledger!Created, Created
<1>5. Ledger!Errors(bb) = Errors(bb) /\ Ledger!Deleted(bb, o) = Deleted(bb, o)
  BY <1>1 DEF Ledger!Errors, Errors, Ledger!Deleted, Deleted
<1>6. /\ Ledger!Writes(i) = Writes(i) /\ Ledger!Overwrites(bb, i) = Overwrites(bb, i)
      /\ Ledger!LogicApplies(bb, i) = LogicApplies(bb, i)
  BY <1>1 DEF Ledger!Writes, Writes, Ledger!Overwrites, Overwrites, Ledger!LogicApplies, LogicApplies
<1> QED
  BY <1>1, <1>3, <1>4, <1>5, <1>6

\* The ledger's view of the decisions, before and after a step of the only request.
LEMMA LedgerOf ==
    ASSUME MaxActive = 1, TypeOK, SerialInv, NEW r \in Reqs,
           \/ Step(r)
           \/ \E op \in ItemOps, i \in Items : Open(r, op, i)
           \/ \E op \in EditOps, o \in Objs : EditLoad(r, op, o)
    PROVE  /\ LedgerStatus = [i \in Items |-> IF At(r, "saved") /\ req[r].item = i
                                              THEN "accepted" ELSE status[i]]
           /\ LedgerStatus' = [i \in Items |-> IF At(r, "saved")' /\ req'[r].item = i
                                               THEN "accepted" ELSE status'[i]]
<1>1. \A s \in Reqs : s # r => ~ At(s, "saved") /\ ~ At(s, "saved")'
  BY OnlyMine DEF At
<1>2. ASSUME NEW i \in Items
      PROVE  /\ (\E s \in Reqs : At(s, "saved") /\ req[s].item = i)
                   <=> At(r, "saved") /\ req[r].item = i
             /\ (\E s \in Reqs : At(s, "saved") /\ req[s].item = i)'
                   <=> At(r, "saved")' /\ req'[r].item = i
  BY <1>1 DEF At
<1> QED
  BY <1>2 DEF LedgerStatus

\* The accept of a draft, be there something to save or not, is the ledger's step.
LEMMA AcceptIsOneStep ==
    ASSUME MaxActive = 1, TypeOK, AloneInv, NEW r \in Reqs, Load(r) \/ Save(r)
    PROVE  (\E i \in Items : Ledger!Accept(i)) \/ UNCHANGED Ledger!vars
<1> DEFINE i == req[r].item
<1>t. /\ status \in [Items -> Status] /\ payload \in [Items -> Revs]
      /\ SerialInv /\ Fresh
  BY DEF TypeOK, AloneInv
<1>1. req[r] \in ItemReqs /\ i \in Items
  BY ReqKinds DEF Load, Save, At, ItemReqs
<1>2. status[i] = "pending_review" /\ ~ At(r, "saved")
  <2>1. Holds(r, i) /\ ~ At(r, "saved")
    BY DEF Load, Save, Holds, ItemRequest, At
  <2> QED
    BY <2>1, <1>1, <1>t DEF SerialInv
<1>3. status' = status /\ payload' = payload
  BY DEF Load, Save
<1>4. LedgerStatus = status
  BY <1>2, <1>t, LedgerOf DEF Step
<1>5. LedgerStatus' = [j \in Items |-> IF At(r, "saved")' /\ req'[r].item = j
                                       THEN "accepted" ELSE status[j]]
  BY <1>3, <1>t, LedgerOf DEF Step
<1>6. ASSUME At(r, "saved")', req'[r].item = i, ~ Refused(r), req[r].snap = canon,
             canon' = IF Writes(i) THEN Materialise(canon, i, payload[i]) ELSE canon,
             Writes(i) => req[r].seen = payload[i]
      PROVE  Ledger!Accept(i)
  <2>1. LedgerStatus' = [LedgerStatus EXCEPT ![i] = "accepted"]
    BY <1>1, <1>4, <1>5, <1>6, <1>t
  <2>2. /\ ItemType[i] # "patch_candidate" /\ ~ Overwrites(canon, i) /\ LogicApplies(canon, i)
        /\ Errors(canon') \subseteq Errors(canon)
    BY <1>6 DEF Refused, IntroducesErrors
  <2> QED
    BY <2>1, <2>2, <1>2, <1>3, <1>4, <1>6, SameOperations DEF Ledger!Accept
<1>7. CASE Save(r)
  BY <1>1, <1>6, <1>7, <1>t, SaveIs DEF At
<1>8. CASE Load(r)
  <2>1. canon' = canon /\ At(r, "guarded")
    BY <1>8 DEF Load
  <2>2. req[r].snap = canon
    BY <2>1, <1>8, <1>t DEF Load, Fresh, FreshRequest, ItemRequest, At
  <2>3. ASSUME ~ At(r, "saved")' PROVE UNCHANGED Ledger!vars
    BY <2>1, <2>3, <1>3, <1>4, <1>5, <1>t DEF Ledger!vars
  <2>4. ASSUME ~ Refused(r), ~ Writes(i), req'[r] = [req[r] EXCEPT !.pc = "saved"]
        PROVE  Ledger!Accept(i)
    <3>1. At(r, "saved")' /\ req'[r].item = i
      BY <1>1, <2>4 DEF At, ItemReqs
    <3> QED
      BY <3>1, <2>1, <2>2, <2>4, <1>6
  <2>5. ASSUME req'[r] = Idle PROVE ~ At(r, "saved")'
    BY <2>5 DEF At, Idle
  <2>6. ASSUME req'[r] = [req[r] EXCEPT !.pc = "loaded", !.bundle = Materialise(canon, i, req[r].seen)]
        PROVE  ~ At(r, "saved")'
    BY <1>1, <2>6 DEF At, ItemReqs
  <2> QED
    BY <1>1, <1>8, <2>3, <2>4, <2>5, <2>6, LoadIs
<1> QED
  BY <1>1, <1>7, <1>8

\* The queue, the world and their requests are an implementation of the ledger, when they are
\* served one at a time and none dies: a draft is decided and merged in one step.
THEOREM ImplementsLedger == MaxActive = 1 /\ MaxCrashes = 0 /\ Spec => LedgerSpec
<1> SUFFICES ASSUME MaxActive = 1, MaxCrashes = 0 PROVE Spec => LedgerSpec
  OBVIOUS
<1>1. Init => Ledger!Init
  BY SameOperations DEF Init, Ledger!Init, LedgerStatus, At, Idle
<1>2. TypeOK /\ AloneInv /\ [Next]_vars => [Ledger!Next]_(Ledger!vars)
  <2> SUFFICES ASSUME TypeOK, AloneInv, [Next]_vars PROVE Ledger!Next \/ UNCHANGED Ledger!vars
    OBVIOUS
  <2>t. /\ status \in [Items -> Status] /\ payload \in [Items -> Revs] /\ DOMAIN req = Reqs
        /\ SerialInv /\ Fresh
    BY DEF TypeOK, AloneInv
  <2>1. ASSUME NEW i \in Items, Generate(i) PROVE Ledger!Propose(i)
    <3>1. ASSUME NEW j \in Items
          PROVE  LedgerStatus'[j] = IF j = i THEN "pending_review" ELSE LedgerStatus[j]
      <4>1. (\E s \in Reqs : At(s, "saved") /\ req[s].item = j)'
              <=> \E s \in Reqs : At(s, "saved") /\ req[s].item = j
        BY <2>1 DEF Generate, At
      <4>2. ~ \E s \in Reqs : At(s, "saved") /\ req[s].item = i
        BY <2>1, <2>t DEF Generate, SerialInv, Holds, ItemRequest, At
      <4> QED
        BY <4>1, <4>2, <2>1, <2>t DEF Generate, LedgerStatus
    <3>2. LedgerStatus[i] = "none"
      BY <2>1, <2>t DEF Generate, LedgerStatus, SerialInv, Holds, ItemRequest, At
    <3>3. LedgerStatus' = [LedgerStatus EXCEPT ![i] = "pending_review"]
      BY <3>1 DEF LedgerStatus
    <3> QED
      BY <2>1, <3>2, <3>3 DEF Generate, Ledger!Propose
  <2>2. ASSUME NEW r \in Reqs,
               \/ Get(r)
               \/ \E op \in ItemOps, i \in Items : Open(r, op, i)
               \/ \E op \in EditOps, o \in Objs : EditLoad(r, op, o)
        PROVE  UNCHANGED Ledger!vars
    <3>1. UNCHANGED <<status, payload, canon>> /\ ~ At(r, "saved")
      BY <2>2 DEF Get, Open, EditLoad, At
    <3>2. ~ At(r, "saved")'
      <4>1. CASE Get(r)
        <5>1. CASE req'[r] = Idle
          BY <5>1 DEF At, Idle
        <5>2. CASE req'[r] = [req[r] EXCEPT !.pc = "guarded", !.seen = payload[req[r].item]]
          BY <4>1, <5>2, GetIs DEF At, ItemReqs
        <5> QED
          BY <4>1, <5>1, <5>2, GetIs
      <4>2. CASE ~ Get(r)
        BY <2>2, <4>2, <2>t DEF Open, EditLoad, Request, At
      <4> QED
        BY <4>1, <4>2
    <3>3. LedgerStatus' = LedgerStatus
      BY <2>2, <3>1, <3>2, <2>t, LedgerOf DEF Step
    <3> QED
      BY <3>1, <3>3 DEF Ledger!vars
  <2>3. ASSUME NEW r \in Reqs, Load(r) \/ Save(r) PROVE Ledger!Next \/ UNCHANGED Ledger!vars
    BY <2>3, AcceptIsOneStep DEF Ledger!Next
  <2>4. ASSUME NEW r \in Reqs, Mark(r) \/ UpdatePayload(r)
        PROVE  Ledger!Next \/ UNCHANGED Ledger!vars
    <3> DEFINE i == req[r].item
    <3>1. req[r] \in ItemReqs /\ i \in Items
      BY <2>4, ReqKinds DEF Mark, UpdatePayload, At, ItemReqs
    <3>2. status[i] = "pending_review"
      <4>1. Holds(r, i)
        BY <2>4 DEF Mark, UpdatePayload, Holds, ItemRequest, At
      <4> QED
        BY <4>1, <3>1, <2>t DEF SerialInv
    <3>3. canon' = canon /\ req'[r] = Idle
      BY <2>4, <2>t DEF Mark, UpdatePayload, Leave
    <3>4. LedgerStatus' = status'
      <4>1. ~ At(r, "saved")' /\ status' \in [Items -> {status'[j] : j \in Items}]
        BY <2>4, <3>1, <3>3, <2>t DEF Mark, UpdatePayload, At, Idle
      <4> QED
        BY <2>4, <4>1, <2>t, LedgerOf DEF Step
    <3>5. CASE At(r, "saved")
      <4>1. Mark(r) /\ req[r].op = "accepted"
        BY <2>4, <3>5, <3>1 DEF UpdatePayload, At, ItemReqs
      <4>2. LedgerStatus = [status EXCEPT ![i] = "accepted"]
        BY <2>4, <3>1, <3>5, <2>t, LedgerOf DEF Step
      <4> QED
        BY <4>1, <4>2, <3>3, <3>4 DEF Mark, Ledger!vars
    <3>6. CASE ~ At(r, "saved")
      <4>1. LedgerStatus = status
        BY <2>4, <3>6, <2>t, LedgerOf DEF Step
      <4>2. CASE Mark(r)
        <5>1. req[r].op = "rejected" /\ payload' = payload
          BY <4>2, <3>6 DEF Mark, IsOp
        <5>2. Ledger!Reject(i)
          BY <4>1, <4>2, <5>1, <3>2, <3>3, <3>4 DEF Mark, Ledger!Reject
        <5> QED
          BY <5>2, <3>1 DEF Ledger!Next
      <4>3. CASE UpdatePayload(r)
        <5>1. status' = status
          BY <4>3, <3>2, <2>t DEF UpdatePayload
        <5>2. CASE ItemType[i] \in RevisableTypes
          <6>1. Ledger!Revise(i)
            BY <4>1, <4>3, <5>1, <5>2, <3>2, <3>3, <3>4 DEF UpdatePayload, Ledger!Revise
          <6> QED
            BY <6>1, <3>1 DEF Ledger!Next
        <5>3. CASE ItemType[i] \notin RevisableTypes
          BY <4>1, <4>3, <5>1, <5>3, <3>3, <3>4 DEF UpdatePayload, Ledger!vars
        <5> QED
          BY <5>2, <5>3
      <4> QED
        BY <2>4, <4>2, <4>3
    <3> QED
      BY <3>5, <3>6
  <2>5. ASSUME NEW r \in Reqs, EditSave(r) PROVE Ledger!Next
    <3>1. /\ req[r] \in EditReqs /\ At(r, "edited") /\ UNCHANGED <<status, payload>>
          /\ \/ req[r].obj \notin Present(canon) /\ canon' = Created(canon, req[r].obj)
             \/ req[r].obj \in Present(canon) /\ canon' = Deleted(canon, req[r].obj)
      BY <2>5, <2>t, EditSaveIs
    <3>2. ~ At(r, "saved") /\ ~ At(r, "saved")'
      BY <2>5, <3>1, <2>t DEF EditSave, Leave, At, Idle
    <3>3. LedgerStatus' = LedgerStatus
      BY <2>5, <3>1, <3>2, <2>t, LedgerOf DEF Step
    <3>4. Ledger!HumanEdit
      BY <3>1, <3>3, SameOperations DEF Ledger!HumanEdit, EditReqs
    <3> QED
      BY <3>4 DEF Ledger!Next
  <2>6. ASSUME NEW r \in Reqs, Crash(r) \/ CrashInSave(r) PROVE FALSE
    BY <2>6 DEF Crash, CrashInSave, TypeOK
  <2>7. CASE UNCHANGED vars
    <3>1. LedgerStatus' = LedgerStatus
      BY <2>7 DEF vars, LedgerStatus, At
    <3> QED
      BY <2>7, <3>1 DEF vars, Ledger!vars
  <2> QED
    BY <2>1, <2>2, <2>3, <2>4, <2>5, <2>6, <2>7 DEF Next, Step, Ledger!Next
<1> QED
  BY <1>1, <1>2, AloneAlways, PTL DEF Spec, LedgerSpec, Ledger!Spec
=============================================================================
