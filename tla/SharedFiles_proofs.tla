-------------------------- MODULE SharedFiles_proofs --------------------------
(***************************************************************************)
(* Theorems about the parts whose requests share files and tables without  *)
(* the queue in front: the quests edited in place, for every number of     *)
(* authors, quests and requests, the ledger of collaboration, and the      *)
(* questions asked of a world through one index.                           *)
(***************************************************************************)
EXTENDS QuestEdits, FiniteSetTheorems, SequenceTheorems, TLAPS

CONSTANTS Users, Refs, MaxServed, MaxComments, Nobody
VARIABLES collab, seat, promised, lost

Collab == INSTANCE CollabLedger

CONSTANTS RefOrder, Requests, Worlds, FirstWorld, Questions, Sources, Models
VARIABLES world, library, index, vectors, reports, reqs, spent

Lore == INSTANCE LoreAnswers

-----------------------------------------------------------------------------
(***************************************************************************)
(* QuestEdits                                                              *)
(***************************************************************************)

QuestFields == {"title", "timeline_order", "prerequisites", "graph_pos", "logic"}

LEMMA QuestIs ==
    ASSUME NEW a \in Quest
    PROVE  /\ DOMAIN a = QuestFields
           /\ a["title"] \in {"a", "b"} /\ a["timeline_order"] \in {None, "set"}
           /\ a["prerequisites"] \in SUBSET Quests
           /\ a["graph_pos"] \in {None, "set"} /\ a["logic"] \in {None, "sound"}
BY DEF Quest, QuestFields

LEMMA IsQuest ==
    ASSUME NEW a, a = [f \in QuestFields |-> a[f]],
           a["title"] \in {"a", "b"}, a["timeline_order"] \in {None, "set"},
           a["prerequisites"] \in SUBSET Quests,
           a["graph_pos"] \in {None, "set"}, a["logic"] \in {None, "sound"}
    PROVE  a \in Quest
BY DEF Quest, QuestFields

\* The fingerprint tells quests apart: a field that is left out of it is unset.
LEMMA EtagTells ==
    ASSUME NEW a \in Quest, NEW b \in Quest, etag_for(a) = etag_for(b)
    PROVE  a = b
<1> DEFINE Set(x) == {g \in DOMAIN x : g = "prerequisites" \/ x[g] # None}
<1>1. DOMAIN a = QuestFields /\ DOMAIN b = QuestFields
  BY QuestIs
<1>2. /\ DOMAIN etag_for(a) = Set(a) /\ \A f \in Set(a) : etag_for(a)[f] = a[f]
      /\ DOMAIN etag_for(b) = Set(b) /\ \A f \in Set(b) : etag_for(b)[f] = b[f]
  BY DEF etag_for
<1>3. Set(a) = Set(b)
  BY <1>2
<1>4. ASSUME NEW f \in QuestFields
      PROVE  a[f] = b[f]
  <2>1. CASE f \in Set(a)
    BY <2>1, <1>2, <1>3
  <2>2. CASE f \notin Set(a)
    <3>1. a[f] = None
      BY <2>2, <1>1
    <3>2. b[f] = None
      BY <2>2, <1>1, <1>3
    <3> QED
      BY <3>1, <3>2
  <2> QED
    BY <2>1, <2>2
<1>5. a = [f \in QuestFields |-> a[f]] /\ b = [f \in QuestFields |-> b[f]]
  BY DEF Quest, QuestFields
<1> QED
  BY <1>4, <1>5

\* What a request may have set, after the prerequisites that do not exist are dropped.
FitsQuest(update) ==
    /\ "title" \in DOMAIN update => update["title"] \in {"a", "b"}
    /\ "timeline_order" \in DOMAIN update => update["timeline_order"] \in {None, "set"}
    /\ "prerequisites" \in DOMAIN update => update["prerequisites"] \in SUBSET Quests
    /\ "graph_pos" \in DOMAIN update => update["graph_pos"] \in {None, "set"}
    /\ "logic" \in DOMAIN update => update["logic"] \in {None, "sound"}

LEMMA UpdatesFit ==
    ASSUME NEW sent \in Updates, NEW made
    PROVE  FitsQuest(UpdateOf(sent, made))
<1> DEFINE u == UpdateOf(sent, made)
<1>1. /\ DOMAIN u = DOMAIN sent
      /\ \A f \in DOMAIN sent : u[f] = IF f = "prerequisites" THEN sent[f] \cap DOMAIN made ELSE sent[f]
  BY DEF UpdateOf
<1> HIDE DEF u
<1>2. CASE sent \in [{"title"} -> {"a", "b"}]
  BY <1>1, <1>2 DEF FitsQuest, u
<1>3. CASE sent \in [{"timeline_order"} -> {None, "set"}]
  BY <1>1, <1>3 DEF FitsQuest, u
<1>4. CASE sent \in [{"prerequisites"} -> {{}, Quests}]
  BY <1>1, <1>4 DEF FitsQuest, u
<1>5. CASE sent = [prerequisites |-> Quests, title |-> "b"]
  <2>1. DOMAIN sent = {"prerequisites", "title"} /\ sent["prerequisites"] = Quests /\ sent["title"] = "b"
    BY <1>5
  <2> QED
    BY <1>1, <2>1 DEF FitsQuest, u
<1>6. CASE sent = [f \in {} |-> None]
  BY <1>1, <1>6 DEF FitsQuest, u
<1> QED
  BY <1>2, <1>3, <1>4, <1>5, <1>6 DEF Updates, u

LEMMA CopyIsQuest ==
    ASSUME NEW a \in Quest, NEW update, FitsQuest(update)
    PROVE  Copy(a, update) \in Quest
<1> DEFINE c == Copy(a, update)
<1>1. DOMAIN a = QuestFields
  BY QuestIs
<1>2. c = [f \in QuestFields |-> IF f \in DOMAIN update THEN update[f] ELSE a[f]]
  BY <1>1 DEF Copy
<1> HIDE DEF c
<1>3. c = [f \in QuestFields |-> c[f]]
  BY <1>2
<1>4. /\ c["title"] \in {"a", "b"} /\ c["timeline_order"] \in {None, "set"}
      /\ c["prerequisites"] \in SUBSET Quests
      /\ c["graph_pos"] \in {None, "set"} /\ c["logic"] \in {None, "sound"}
  BY <1>2, QuestIs DEF QuestFields, FitsQuest
<1> QED
  BY <1>3, <1>4, IsQuest DEF c

\* One quest of a world is replaced.
LEMMA WorldWith ==
    ASSUME NEW w, IsWorld(w), NEW q \in DOMAIN w, NEW a \in Quest
    PROVE  /\ IsWorld([w EXCEPT ![q] = a])
           /\ DOMAIN [w EXCEPT ![q] = a] = DOMAIN w
           /\ q \in Quests
BY DEF IsWorld

\* An answer about a quest of a world is of that quest.
LEMMA AnswerIs ==
    ASSUME NEW w, IsWorld(w), NEW q \in DOMAIN w
    PROVE  /\ ShownQuest(Answer(q, w))
           /\ Answer(q, w).id = q /\ Answer(q, w).quest = w[q] /\ Answer(q, w).etag = etag_for(w[q])
BY DEF IsWorld, Answer, ShownQuest

Request(q, made, tells, sends, guarded) ==
    [pc |-> "save", id |-> q, quests |-> made, tells |-> tells, sends |-> sends,
     guarded |-> guarded, overtaken |-> FALSE]

\* A request that is about to save a world it made of the files.
LEMMA LoadKeeps ==
    ASSUME EditInv, NEW u \in Authors, NEW q \in DOMAIN quests, NEW made, NEW tells, NEW sends,
           NEW guarded \in BOOLEAN, Load(u, q, made, tells, sends, guarded),
           IsWorld(made),
           tells = shown[u] \/ (q \in DOMAIN made /\ tells = Answer(q, made)),
           guarded => /\ shown[u] # Idle /\ shown[u].quest = quests[q]
                      /\ made = [quests EXCEPT ![q] = Copy(@, sends)]
    PROVE  EditInv'
<1> DEFINE r == Request(q, made, tells, sends, guarded)
<1>1. /\ req' = [req EXCEPT ![u] = r] /\ quests' = quests /\ shown' = shown /\ edits' = edits + 1
  BY DEF Load, Request
<1>2. /\ r.pc = "save" /\ r.id = q /\ r.quests = made /\ r.tells = tells /\ r.sends = sends
      /\ r.guarded = guarded /\ r.overtaken = FALSE /\ "overtaken" \in DOMAIN r
  BY DEF Request
<1> HIDE DEF r
<1>3. TypeOK /\ \A v \in Authors : RequestInv(v)
  BY DEF EditInv
<1>4. req'[u] = r /\ \A v \in Authors : v # u => req'[v] = req[v]
  BY <1>1, <1>3 DEF TypeOK
<1>5. q \in Quests
  BY <1>3 DEF TypeOK, IsWorld
<1>6. TypeOK'
  <2>1. IsWorld(quests') /\ edits' \in Nat /\ DOMAIN shown' = Authors /\ DOMAIN req' = Authors
    BY <1>1, <1>3 DEF TypeOK
  <2>2. ASSUME NEW v \in Authors
        PROVE  /\ shown'[v] = Idle \/ ShownQuest(shown'[v])
               /\ req'[v] # Idle => /\ req'[v].pc = "save" /\ "overtaken" \in DOMAIN req'[v]
                                   /\ IsWorld(req'[v].quests) /\ req'[v].id \in Quests
    <3>1. CASE v = u
      BY <3>1, <1>1, <1>2, <1>3, <1>4, <1>5 DEF TypeOK
    <3>2. CASE v # u
      BY <3>2, <1>1, <1>3, <1>4 DEF TypeOK
    <3> QED
      BY <3>1, <3>2
  <2> QED
    BY <2>1, <2>2 DEF TypeOK
<1>7. ASSUME NEW v \in Authors
      PROVE  RequestInv(v)'
  <2>1. CASE v = u
    <3>1. req'[v] = r
      BY <2>1, <1>4
    <3>2. r.tells = shown'[v] \/ (r.id \in DOMAIN r.quests /\ r.tells = Answer(r.id, r.quests))
      BY <2>1, <1>1, <1>2
    <3>3. r.guarded => /\ r.id \in DOMAIN quests'
                       /\ shown'[v] # Idle /\ shown'[v].quest = quests'[r.id]
                       /\ r.quests = [quests' EXCEPT ![r.id] = Copy(@, r.sends)]
      BY <2>1, <1>1, <1>2
    <3> QED
      BY <3>1, <3>2, <3>3 DEF RequestInv
  <2>2. CASE v # u
    <3>1. RequestInv(v)
      BY <1>3
    <3> QED
      BY <2>2, <3>1, <1>1, <1>4 DEF RequestInv
  <2> QED
    BY <2>1, <2>2
<1> QED
  BY <1>6, <1>7 DEF EditInv

\* check_etag: an author with the etag of a quest in the files was shown that quest.
LEMMA AdmitsOnlyKnown ==
    ASSUME TypeOK, NEW u \in Authors, NEW q \in DOMAIN quests, Admits(u, q, TRUE)
    PROVE  shown[u] # Idle /\ shown[u].quest = quests[q]
<1>1. shown[u].pc = "shown" /\ shown[u].etag = etag_for(quests[q])
  BY DEF Admits
<1>2. shown[u] # Idle
  BY <1>1 DEF Idle
<1>3. ShownQuest(shown[u])
  BY <1>2 DEF TypeOK
<1>4. quests[q] \in Quest /\ shown[u].quest \in Quest
  BY <1>3 DEF TypeOK, IsWorld, ShownQuest
<1>5. etag_for(shown[u].quest) = etag_for(quests[q])
  BY <1>1, <1>3 DEF ShownQuest
<1> QED
  BY <1>2, <1>4, <1>5, EtagTells

LEMMA EditQuestKeeps ==
    ASSUME EditInv, NEW u \in Authors, NEW q \in DOMAIN quests, EditQuest(u, q)
    PROVE  EditInv'
<1>0. TypeOK
  BY DEF EditInv
<1>1. PICK sent \in Updates, guarded \in BOOLEAN :
        LET update == UpdateOf(sent, quests)
            made  == [quests EXCEPT ![q] = Copy(@, update)] IN
        /\ DOMAIN sent # {}
        /\ Admits(u, q, guarded)
        /\ Load(u, q, made, Answer(q, made), update, guarded)
  BY DEF EditQuest
<1> DEFINE update == UpdateOf(sent, quests)
           a      == Copy(quests[q], update)
           made  == [quests EXCEPT ![q] = a]
<1>2. Admits(u, q, guarded) /\ Load(u, q, made, Answer(q, made), update, guarded)
  BY <1>1
<1>3. quests[q] \in Quest /\ IsWorld(quests)
  BY <1>0 DEF TypeOK, IsWorld
<1>4. FitsQuest(update)
  BY UpdatesFit
<1> HIDE DEF update
<1>5. a \in Quest
  BY <1>3, <1>4, CopyIsQuest
<1>6. IsWorld(made) /\ q \in DOMAIN made
  <2> HIDE DEF a
  <2> QED
    BY <1>3, <1>5, WorldWith
<1>7. guarded => shown[u] # Idle /\ shown[u].quest = quests[q]
  BY <1>0, <1>2, AdmitsOnlyKnown
<1>8. made = [quests EXCEPT ![q] = Copy(@, update)]
  OBVIOUS
<1> HIDE DEF made
<1> QED
  BY <1>2, <1>6, <1>7, <1>8, LoadKeeps

LEMMA UnguardedKeep ==
    ASSUME EditInv, NEW u \in Authors, NEW q \in DOMAIN quests,
           EditLogic(u, q) \/ MoveNode(u, q) \/ DeleteQuest(u, q)
    PROVE  EditInv'
<1>0. TypeOK
  BY DEF EditInv
<1>1. quests[q] \in Quest /\ IsWorld(quests)
  BY <1>0 DEF TypeOK, IsWorld
<1>2. ASSUME NEW logic \in {None, "sound"},
             Load(u, q, [quests EXCEPT ![q].logic = logic], shown[u], [logic |-> logic], FALSE)
      PROVE  EditInv'
  <2> DEFINE a == [quests[q] EXCEPT !.logic = logic]
             made == [quests EXCEPT ![q] = a]
             sends == [logic |-> logic]
  <2>1. a \in Quest
    BY <1>1 DEF Quest
  <2>2. Load(u, q, made, shown[u], sends, FALSE)
    BY <1>2
  <2> HIDE DEF a
  <2>3. IsWorld(made)
    BY <1>1, <2>1, WorldWith
  <2> HIDE DEF made, sends
  <2> QED
    BY <2>2, <2>3, LoadKeeps
<1>3. CASE MoveNode(u, q)
  <2> DEFINE a == [quests[q] EXCEPT !.graph_pos = "set"]
             made == [quests EXCEPT ![q] = a]
             sends == [graph_pos |-> "set"]
  <2>1. a \in Quest
    BY <1>1 DEF Quest
  <2>2. Load(u, q, made, shown[u], sends, FALSE)
    BY <1>3 DEF MoveNode
  <2> HIDE DEF a
  <2>3. IsWorld(made)
    BY <1>1, <2>1, WorldWith
  <2> HIDE DEF made, sends
  <2> QED
    BY <2>2, <2>3, LoadKeeps
<1>4. CASE DeleteQuest(u, q)
  <2> DEFINE made == Restrict(quests, DOMAIN quests \ {q})
             sends == [f \in {} |-> None]
  <2>1. Load(u, q, made, shown[u], sends, FALSE)
    BY <1>4 DEF DeleteQuest
  <2>2. IsWorld(made)
    BY <1>1 DEF IsWorld, Restrict
  <2> HIDE DEF made, sends
  <2> QED
    BY <2>1, <2>2, LoadKeeps
<1>5. CASE EditLogic(u, q)
  BY <1>2, <1>5 DEF EditLogic
<1> QED
  BY <1>3, <1>4, <1>5

LEMMA ShowQuestKeeps ==
    ASSUME EditInv, NEW u \in Authors, NEW q \in DOMAIN quests, ShowQuest(u, q)
    PROVE  EditInv'
<1>0. TypeOK /\ \A v \in Authors : RequestInv(v)
  BY DEF EditInv
<1> DEFINE a == Answer(q, quests)
<1>1. /\ req[u] = Idle /\ shown' = [shown EXCEPT ![u] = a]
      /\ quests' = quests /\ req' = req /\ edits' = edits + 1
  BY DEF ShowQuest
<1>2. ShownQuest(a)
  BY <1>0, AnswerIs DEF TypeOK
<1> HIDE DEF a
<1>3. shown'[u] = a /\ \A v \in Authors : v # u => shown'[v] = shown[v]
  BY <1>0, <1>1 DEF TypeOK
<1>4. TypeOK'
  BY <1>0, <1>1, <1>2, <1>3 DEF TypeOK
<1>5. ASSUME NEW v \in Authors
      PROVE  RequestInv(v)'
  <2>1. CASE v = u
    BY <2>1, <1>1 DEF RequestInv
  <2>2. CASE v # u
    <3>1. RequestInv(v)
      BY <1>0
    <3> QED
      BY <2>2, <3>1, <1>1, <1>3 DEF RequestInv
  <2> QED
    BY <2>1, <2>2
<1> QED
  BY <1>4, <1>5 DEF EditInv

\* A save: the request is done, and whoever else has loaded is overtaken.
LEMMA SaveIs ==
    ASSUME TypeOK, NEW u \in Authors, Save(u)
    PROVE  /\ req[u] # Idle /\ req[u].pc = "save"
           /\ quests' = req[u].quests /\ edits' = edits
           /\ shown'[u] = req[u].tells /\ \A v \in Authors : v # u => shown'[v] = shown[v]
           /\ DOMAIN shown' = Authors /\ DOMAIN req' = Authors
           /\ req'[u] = Idle
           /\ \A v \in Authors : v # u /\ req[v] = Idle => req'[v] = Idle
           /\ \A v \in Authors : v # u /\ req[v] # Idle => req'[v] = [req[v] EXCEPT !.overtaken = TRUE]
<1>1. req[u].pc = "save" /\ Idle.pc = "idle"
  BY DEF Save, Idle
<1>2. \A v \in Authors : req[v].pc = "save" <=> req[v] # Idle
  BY <1>1 DEF TypeOK
<1>3. shown' = [shown EXCEPT ![u] = req[u].tells] /\ quests' = req[u].quests /\ edits' = edits
  BY DEF Save
<1>4. shown'[u] = req[u].tells /\ DOMAIN shown' = Authors /\ \A v \in Authors : v # u => shown'[v] = shown[v]
  BY <1>3 DEF TypeOK
<1>5. req' = [v \in Authors |->
                  IF v = u THEN Idle
                  ELSE IF req[v].pc = "save" THEN [req[v] EXCEPT !.overtaken = TRUE] ELSE req[v]]
  BY DEF Save
<1>6. DOMAIN req' = Authors /\ req'[u] = Idle
  BY <1>5
<1>7. ASSUME NEW v \in Authors, v # u
      PROVE  /\ req[v] = Idle => req'[v] = Idle
             /\ req[v] # Idle => req'[v] = [req[v] EXCEPT !.overtaken = TRUE]
  <2>1. req'[v] = IF req[v].pc = "save" THEN [req[v] EXCEPT !.overtaken = TRUE] ELSE req[v]
    BY <1>5, <1>7
  <2> QED
    BY <2>1, <1>2
<1> QED
  BY <1>1, <1>2, <1>3, <1>4, <1>6, <1>7

\* A save keeps the invariant: who is overtaken is promised nothing any more.
LEMMA SaveKeeps ==
    ASSUME EditInv, NEW u \in Authors, Save(u)
    PROVE  EditInv'
<1>0. TypeOK /\ \A v \in Authors : RequestInv(v)
  BY DEF EditInv
<1>1. /\ req[u] # Idle /\ quests' = req[u].quests /\ edits' = edits /\ shown'[u] = req[u].tells
      /\ req'[u] = Idle /\ DOMAIN shown' = Authors /\ DOMAIN req' = Authors
      /\ \A v \in Authors : v # u => shown'[v] = shown[v]
  BY <1>0, SaveIs
<1>2. IsWorld(req[u].quests)
  BY <1>0, <1>1 DEF TypeOK
<1>3. ShownQuest(req[u].tells) \/ req[u].tells = Idle
  <2>1. CASE req[u].tells = shown[u]
    BY <2>1, <1>0 DEF TypeOK
  <2>2. CASE req[u].id \in DOMAIN req[u].quests /\ req[u].tells = Answer(req[u].id, req[u].quests)
    BY <2>2, <1>2, AnswerIs
  <2> QED
    BY <2>1, <2>2, <1>0, <1>1 DEF RequestInv
<1>4. ASSUME NEW v \in Authors, v # u, req'[v] # Idle
      PROVE  /\ req[v] # Idle /\ req'[v].pc = "save" /\ req'[v].quests = req[v].quests
             /\ req'[v].id = req[v].id /\ req'[v].tells = req[v].tells /\ req'[v].overtaken
             /\ "overtaken" \in DOMAIN req'[v]
  <2>1. req[v] # Idle
    BY <1>4, <1>0, SaveIs
  <2>2. req'[v] = [req[v] EXCEPT !.overtaken = TRUE]
    BY <1>4, <2>1, <1>0, SaveIs
  <2>3. "overtaken" \in DOMAIN req[v]
    BY <1>0, <2>1 DEF TypeOK
  <2>4. req[v].pc = "save"
    BY <1>0, <2>1 DEF TypeOK
  <2> QED
    BY <2>1, <2>2, <2>3, <2>4
<1>5. TypeOK'
  <2>1. ASSUME NEW v \in Authors
        PROVE  /\ shown'[v] = Idle \/ ShownQuest(shown'[v])
               /\ req'[v] # Idle => /\ req'[v].pc = "save" /\ "overtaken" \in DOMAIN req'[v]
                                   /\ IsWorld(req'[v].quests) /\ req'[v].id \in Quests
    <3>1. CASE v = u
      BY <3>1, <1>1, <1>3
    <3>2. CASE v # u
      BY <3>2, <1>0, <1>1, <1>4 DEF TypeOK
    <3> QED
      BY <3>1, <3>2
  <2> QED
    BY <2>1, <1>0, <1>1, <1>2 DEF TypeOK
<1>6. ASSUME NEW v \in Authors
      PROVE  RequestInv(v)'
  <2>1. CASE req'[v] = Idle
    BY <2>1 DEF RequestInv
  <2>2. CASE v # u /\ req'[v] # Idle
    <3>1. RequestInv(v) /\ shown'[v] = shown[v]
      BY <1>0, <1>1, <2>2
    <3>2. req'[v].overtaken
      BY <2>2, <1>4
    <3>3. \/ req'[v].tells = shown'[v]
          \/ req'[v].id \in DOMAIN req'[v].quests /\ req'[v].tells = Answer(req'[v].id, req'[v].quests)
      BY <2>2, <3>1, <1>4 DEF RequestInv
    <3> QED
      BY <3>2, <3>3 DEF RequestInv
  <2> QED
    BY <2>1, <2>2, <1>1
<1> QED
  BY <1>5, <1>6 DEF EditInv

LEMMA EditInvStep ==
    ASSUME EditInv, [Next]_vars
    PROVE  EditInv'
<1>1. ASSUME NEW u \in Authors, NEW q \in DOMAIN quests, EditQuest(u, q) PROVE EditInv'
  BY <1>1, EditQuestKeeps
<1>2. ASSUME NEW u \in Authors, NEW q \in DOMAIN quests, ShowQuest(u, q) PROVE EditInv'
  BY <1>2, ShowQuestKeeps
<1>3. ASSUME NEW u \in Authors, NEW q \in DOMAIN quests,
             EditLogic(u, q) \/ MoveNode(u, q) \/ DeleteQuest(u, q) PROVE EditInv'
  BY <1>3, UnguardedKeep
<1>4. ASSUME NEW u \in Authors, Save(u) PROVE EditInv'
  BY <1>4, SaveKeeps
<1>5. CASE UNCHANGED vars
  BY <1>5 DEF vars, EditInv, TypeOK, RequestInv
<1> QED
  BY <1>1, <1>2, <1>3, <1>4, <1>5 DEF Next

LEMMA EditInvInit ==
    ASSUME Init
    PROVE  EditInv
<1> DEFINE a == [title |-> "a", timeline_order |-> None, prerequisites |-> {}, graph_pos |-> None, logic |-> None]
<1>1. a \in Quest
  BY DEF Quest
<1>2. quests = [q \in Quests |-> a]
  BY DEF Init
<1> HIDE DEF a
<1>3. IsWorld(quests)
  BY <1>1, <1>2 DEF IsWorld
<1>4. TypeOK
  BY <1>3 DEF Init, TypeOK
<1>5. \A u \in Authors : RequestInv(u)
  BY DEF Init, RequestInv
<1> QED
  BY <1>4, <1>5 DEF EditInv

LEMMA EditInvAlways == Spec => []EditInv
BY EditInvInit, EditInvStep, PTL DEF Spec

\* Only its own save ends a request.
LEMMA OnlySavesFinish ==
    ASSUME TypeOK, [Next]_vars, NEW u \in Authors, Finishes(u)
    PROVE  Save(u)
<1>1. req[u].pc = "save" /\ req'[u] = Idle /\ req[u] # Idle
  BY DEF Finishes, Idle
<1>2. ASSUME NEW v \in Authors, NEW q, NEW made, NEW tells, NEW sends, NEW guarded,
             Load(v, q, made, tells, sends, guarded)
      PROVE  FALSE
  <2> DEFINE r == Request(q, made, tells, sends, guarded)
  <2>1. req[v] = Idle /\ req' = [req EXCEPT ![v] = r]
    BY <1>2 DEF Load, Request
  <2> HIDE DEF r
  <2>2. req'[u] = req[u]
    BY <2>1, <1>1 DEF TypeOK
  <2> QED
    BY <2>2, <1>1
<1>3. ASSUME NEW v \in Authors, NEW q \in DOMAIN quests, EditQuest(v, q)
      PROVE  FALSE
  <2>1. \E made, tells, sends, guarded : Load(v, q, made, tells, sends, guarded)
    BY <1>3 DEF EditQuest
  <2> QED
    BY <2>1, <1>2
<1>4. ASSUME NEW v \in Authors, NEW q \in DOMAIN quests, EditLogic(v, q) \/ MoveNode(v, q) \/ DeleteQuest(v, q)
      PROVE  FALSE
  <2>1. \E made, tells, sends, guarded : Load(v, q, made, tells, sends, guarded)
    BY <1>4 DEF EditLogic, MoveNode, DeleteQuest
  <2> QED
    BY <2>1, <1>2
<1>5. ASSUME NEW v \in Authors, NEW q \in DOMAIN quests, ShowQuest(v, q)
      PROVE  FALSE
  BY <1>5, <1>1 DEF ShowQuest
<1>6. ASSUME NEW v \in Authors, Save(v), v # u
      PROVE  FALSE
  <2>1. req'[u] = [req[u] EXCEPT !.overtaken = TRUE]
    BY <1>1, <1>6, SaveIs
  <2>2. req'[u].pc = "save"
    BY <2>1, <1>1
  <2> QED
    BY <2>2, <1>1 DEF Idle
<1>7. CASE UNCHANGED vars
  BY <1>7, <1>1 DEF vars
<1> QED
  BY <1>3, <1>4, <1>5, <1>6, <1>7 DEF Next

\* update_quest_action and etag_for: whatever other authors do, an edit with an etag that no save
\* overtook replaces the very quest its author was shown, in the fields it sends only; and the etag
\* of an answer is that of the quest in the files.
THEOREM EditsKnowWhatTheyReplace == Spec => [][EditsAreSeen]_vars
<1>1. EditInv /\ [Next]_vars => [EditsAreSeen]_vars
  <2> SUFFICES ASSUME EditInv, [Next]_vars, NEW u \in Authors, Finishes(u)
               PROVE  KnowsWhatItReplaces(u) /\ EtagIsOfTheFile(u)
    BY DEF EditsAreSeen, KnowsWhatItReplaces, EtagIsOfTheFile
  <2>1. TypeOK /\ RequestInv(u) /\ Save(u)
    BY OnlySavesFinish DEF EditInv
  <2>2. req[u] # Idle /\ quests' = req[u].quests /\ shown'[u] = req[u].tells /\ IsWorld(req[u].quests)
    BY <2>1, SaveIs DEF TypeOK
  <2>3. KnowsWhatItReplaces(u)
    BY <2>1, <2>2 DEF KnowsWhatItReplaces, RequestInv
  <2>4. EtagIsOfTheFile(u)
    <3>1. CASE req[u].tells = shown[u]
      BY <3>1, <2>2 DEF EtagIsOfTheFile
    <3>2. CASE req[u].id \in DOMAIN req[u].quests /\ req[u].tells = Answer(req[u].id, req[u].quests)
      <4>1. shown'[u].id = req[u].id /\ shown'[u].etag = etag_for(req[u].quests[req[u].id])
        BY <3>2, <2>2, AnswerIs
      <4> QED
        BY <4>1, <2>2 DEF EtagIsOfTheFile
    <3> QED
      BY <3>1, <3>2, <2>1, <2>2 DEF RequestInv
  <2> QED
    BY <2>3, <2>4
<1> QED
  BY <1>1, EditInvAlways, PTL DEF Spec

\* Every file and every answer keeps its type, whatever fields a request sends and whoever saves.
THEOREM EditsKeepTypes == Spec => []TypeOK
<1>1. EditInv => TypeOK
  BY DEF EditInv
<1> QED
  BY <1>1, EditInvAlways, PTL

-----------------------------------------------------------------------------
(***************************************************************************)
(* CollabLedger                                                            *)
(***************************************************************************)

\* A ledger that keeps a word keeps it, too, if less is asked of it.
LEMMA KeepsLessWord ==
    ASSUME NEW s, NEW t, NEW u, NEW gone, NEW more, gone \subseteq more, Collab!KeepsWord(s, t, u, gone)
    PROVE  Collab!KeepsWord(s, t, u, more)
BY DEF Collab!KeepsWord

\* What a request tells its user of entries other than its own it told before.
TellsOfIts(u, entry, t) ==
    /\ \A o \in Refs : <<"lock", o>> # entry => (o \in t.locks => o \in promised[u].locks)
    /\ \A c \in t.comments : <<"comments", c[1]>> # entry => c \in promised[u].comments

\* A request that will write a ledger that keeps everybody's word, and its own.
LEMMA CollabLoadKeeps ==
    ASSUME Collab!CollabInv, NEW u \in Users, NEW entry \in Collab!Entries,
           NEW s \in Collab!CollabState, NEW t \in Collab!Promise, Collab!Load(u, entry, s, t),
           \A v \in Users : v # u => Collab!KeepsWord(s, promised[v], v, lost),
           Collab!KeepsWord(s, t, u, lost), TellsOfIts(u, entry, t)
    PROVE  Collab!CollabInv'
<1> DEFINE r == [pc |-> "save", entry |-> entry, to |-> s, tells |-> t, missed |-> {}]
<1>1. /\ seat' = [seat EXCEPT ![u] = r] /\ collab' = collab /\ promised' = promised
      /\ lost' = lost
  BY DEF Collab!Load
<1>2. r \in Collab!Seat /\ r.pc = "save" /\ r.entry = entry /\ r.to = s /\ r.tells = t /\ r.missed = {}
  BY DEF Collab!Seat
<1> HIDE DEF r
<1>3. Collab!TypeOK
  BY DEF Collab!CollabInv
<1>4. seat'[u] = r /\ \A v \in Users : v # u => seat'[v] = seat[v]
  BY <1>1, <1>3 DEF Collab!TypeOK
<1>5. Collab!TypeOK'
  BY <1>1, <1>2, <1>3 DEF Collab!TypeOK
<1>6. Collab!LedgerKeepsItsWord'
  BY <1>1 DEF Collab!CollabInv, Collab!LedgerKeepsItsWord, Collab!KeepsWord
<1>7. ASSUME NEW v \in Users
      PROVE  Collab!SeatInv(v)'
  <2>1. CASE v = u
    <3>1. seat'[v] = r /\ lost' \cup r.missed = lost
      BY <2>1, <1>1, <1>2, <1>4
    <3>2. \A w \in Users : w # v => Collab!KeepsWord(s, promised'[w], w, lost)
      BY <2>1, <1>1
    <3>3. Collab!KeepsWord(s, t, v, lost)
      BY <2>1
    <3>4. /\ \A o \in Refs : <<"lock", o>> # entry => (o \in t.locks => o \in promised'[v].locks)
          /\ \A c \in t.comments : <<"comments", c[1]>> # entry => c \in promised'[v].comments
      BY <2>1, <1>1 DEF TellsOfIts
    <3> QED
      BY <3>1, <3>2, <3>3, <3>4, <1>2 DEF Collab!SeatInv, Collab!KeepsWord
  <2>2. CASE v # u
    <3>1. Collab!SeatInv(v)
      BY DEF Collab!CollabInv
    <3> QED
      BY <2>2, <3>1, <1>1, <1>4 DEF Collab!SeatInv, Collab!KeepsWord
  <2> QED
    BY <2>1, <2>2
<1> QED
  BY <1>5, <1>6, <1>7 DEF Collab!CollabInv

LEMMA AssignKeeps ==
    ASSUME Collab!CollabInv, NEW u \in Users, NEW o \in Refs, NEW v \in Users \cup {Nobody},
           Collab!Assign(u, o, v)
    PROVE  Collab!CollabInv'
<1> DEFINE A == [collab.assignments EXCEPT ![o] = v]
           s == [collab EXCEPT !.assignments = A]
           entry == <<"assignment", o>>
<1>1. collab \in Collab!CollabState /\ promised[u] \in Collab!Promise
  BY DEF Collab!CollabInv, Collab!TypeOK
<1>2. A \in [Refs -> Users \cup {Nobody}]
  BY <1>1 DEF Collab!CollabState
<1>3. Collab!Load(u, entry, s, promised[u]) /\ entry \in Collab!Entries
  BY DEF Collab!Assign, Collab!Entries
<1> HIDE DEF A, entry
<1>4. s \in Collab!CollabState /\ s.locks = collab.locks /\ s.comments = collab.comments
  BY <1>1, <1>2 DEF Collab!CollabState
<1> HIDE DEF s
<1>5. \A w \in Users : Collab!KeepsWord(s, promised[w], w, lost)
  BY <1>4 DEF Collab!CollabInv, Collab!LedgerKeepsItsWord, Collab!KeepsWord
<1>6. TellsOfIts(u, entry, promised[u])
  BY DEF TellsOfIts
<1> QED
  BY <1>1, <1>3, <1>4, <1>5, <1>6, CollabLoadKeeps

LEMMA AddCommentKeeps ==
    ASSUME Collab!CollabInv, NEW u \in Users, NEW o \in Refs, Collab!AddComment(u, o)
    PROVE  Collab!CollabInv'
<1>1. collab \in Collab!CollabState /\ promised[u] \in Collab!Promise
  BY DEF Collab!CollabInv, Collab!TypeOK
<1>2. PICK k \in 1..MaxComments :
        Collab!Load(u, <<"comments", o>>, [collab EXCEPT !.comments[o] = @ \cup {<<u, k>>}],
                       [promised[u] EXCEPT !.comments = @ \cup {<<o, <<u, k>>>>}])
  BY DEF Collab!AddComment
<1> DEFINE c == <<u, k>>
           C == [collab.comments EXCEPT ![o] = collab.comments[o] \cup {c}]
           s == [collab EXCEPT !.comments = C]
           T == promised[u].comments \cup {<<o, c>>}
           t == [promised[u] EXCEPT !.comments = T]
           entry == <<"comments", o>>
<1>3. c \in Collab!Comment
  BY DEF Collab!Comment
<1>4. Collab!Load(u, entry, s, t) /\ entry \in Collab!Entries
  BY <1>2 DEF Collab!Entries
<1> HIDE DEF c
<1>5. C \in [Refs -> SUBSET Collab!Comment] /\ T \subseteq Refs \X Collab!Comment
  BY <1>1, <1>3 DEF Collab!CollabState, Collab!Promise
<1>6. c \in C[o] /\ \A p \in Refs : collab.comments[p] \subseteq C[p]
  BY <1>1 DEF Collab!CollabState
<1>7. \A e \in T : e \in promised[u].comments \/ (e[1] = o /\ e[2] = c)
  OBVIOUS
<1> HIDE DEF C, T
<1>8. s \in Collab!CollabState /\ s.locks = collab.locks /\ s.comments = C
  BY <1>1, <1>5 DEF Collab!CollabState
<1>9. t \in Collab!Promise /\ t.locks = promised[u].locks /\ t.comments = T
  BY <1>1, <1>5 DEF Collab!Promise
<1> HIDE DEF s, t
<1>10. ASSUME NEW w \in Users
      PROVE  Collab!KeepsWord(s, promised[w], w, lost)
  <2>1. Collab!KeepsWord(collab, promised[w], w, lost)
    BY DEF Collab!CollabInv, Collab!LedgerKeepsItsWord
  <2>2. \A e \in promised[w].comments : e[1] \in Refs
    BY DEF Collab!CollabInv, Collab!TypeOK, Collab!Promise
  <2> QED
    BY <2>1, <2>2, <1>6, <1>8 DEF Collab!KeepsWord
<1>11. Collab!KeepsWord(s, t, u, lost)
  BY <1>6, <1>7, <1>8, <1>9, <1>10 DEF Collab!KeepsWord
<1>12. TellsOfIts(u, entry, t)
  BY <1>7, <1>9 DEF TellsOfIts
<1> HIDE DEF entry
<1> QED
  BY <1>4, <1>8, <1>9, <1>10, <1>11, <1>12, CollabLoadKeeps

LEMMA AcquireKeeps ==
    ASSUME Nobody \notin Users, Collab!CollabInv, NEW u \in Users, NEW o \in Refs, Collab!AcquireLock(u, o)
    PROVE  Collab!CollabInv'
<1>1. collab \in Collab!CollabState /\ promised[u] \in Collab!Promise
  BY DEF Collab!CollabInv, Collab!TypeOK
<1> DEFINE L == [collab.locks EXCEPT ![o] = u]
           s == [collab EXCEPT !.locks = L]
           T == promised[u].locks \cup {o}
           t == [promised[u] EXCEPT !.locks = T]
           entry == <<"lock", o>>
<1>2. collab.locks[o] \in {Nobody, u} /\ Collab!Load(u, entry, s, t) /\ entry \in Collab!Entries
  BY DEF Collab!AcquireLock, Collab!Entries
<1>3. L \in [Refs -> Users \cup {Nobody}] /\ T \subseteq Refs
  BY <1>1 DEF Collab!CollabState, Collab!Promise
<1>4. L[o] = u /\ \A p \in Refs : p # o => L[p] = collab.locks[p]
  BY <1>1 DEF Collab!CollabState
<1>5. \A p \in T : p = o \/ p \in promised[u].locks
  OBVIOUS
<1> HIDE DEF L, T
<1>6. s \in Collab!CollabState /\ s.locks = L /\ s.comments = collab.comments
  BY <1>1, <1>3 DEF Collab!CollabState
<1>7. t \in Collab!Promise /\ t.locks = T /\ t.comments = promised[u].comments
  BY <1>1, <1>3 DEF Collab!Promise
<1> HIDE DEF s, t
<1>8. ASSUME NEW w \in Users
      PROVE  /\ \A p \in promised[w].locks : p \in Refs /\ (<<"lock", p>> \notin lost => collab.locks[p] = w)
             /\ \A e \in promised[w].comments : <<"comments", e[1]>> \notin lost => e[2] \in collab.comments[e[1]]
  BY DEF Collab!CollabInv, Collab!LedgerKeepsItsWord, Collab!KeepsWord, Collab!TypeOK, Collab!Promise
<1>9. ASSUME NEW w \in Users, w # u
      PROVE  Collab!KeepsWord(s, promised[w], w, lost)
  <2>1. o \in promised[w].locks => <<"lock", o>> \in lost
    BY <1>2, <1>8, <1>9
  <2> QED
    BY <2>1, <1>4, <1>6, <1>8 DEF Collab!KeepsWord
<1>10. Collab!KeepsWord(s, t, u, lost)
  BY <1>4, <1>5, <1>6, <1>7, <1>8 DEF Collab!KeepsWord
<1>11. TellsOfIts(u, entry, t)
  BY <1>5, <1>7 DEF TellsOfIts
<1> HIDE DEF entry
<1> QED
  BY <1>2, <1>6, <1>7, <1>9, <1>10, <1>11, CollabLoadKeeps

LEMMA ReleaseKeeps ==
    ASSUME Collab!CollabInv, NEW u \in Users, NEW o \in Refs, Collab!ReleaseLock(u, o)
    PROVE  Collab!CollabInv'
<1>1. collab \in Collab!CollabState /\ promised[u] \in Collab!Promise
  BY DEF Collab!CollabInv, Collab!TypeOK
<1> DEFINE L == IF collab.locks[o] = u THEN [collab.locks EXCEPT ![o] = Nobody] ELSE collab.locks
           s == IF collab.locks[o] = u THEN [collab EXCEPT !.locks[o] = Nobody] ELSE collab
           T == promised[u].locks \ {o}
           t == [promised[u] EXCEPT !.locks = T]
           entry == <<"lock", o>>
<1>2. Collab!Load(u, entry, s, t) /\ entry \in Collab!Entries
  BY DEF Collab!ReleaseLock, Collab!Entries
<1>3. L \in [Refs -> Users \cup {Nobody}] /\ T \subseteq Refs /\ o \notin T
  BY <1>1 DEF Collab!CollabState, Collab!Promise
<1>4. /\ collab.locks[o] # u => L = collab.locks
      /\ \A p \in Refs : p # o => L[p] = collab.locks[p]
  BY <1>1 DEF Collab!CollabState
<1>5. s \in Collab!CollabState /\ s.locks = L /\ s.comments = collab.comments
  BY <1>1, <1>3 DEF Collab!CollabState
<1> HIDE DEF L, s
<1>6. \A p \in T : p \in promised[u].locks /\ p # o
  OBVIOUS
<1> HIDE DEF T
<1>7. t \in Collab!Promise /\ t.locks = T /\ t.comments = promised[u].comments
  BY <1>1, <1>3 DEF Collab!Promise
<1> HIDE DEF t
<1>8. ASSUME NEW w \in Users
      PROVE  /\ \A p \in promised[w].locks : p \in Refs /\ (<<"lock", p>> \notin lost => collab.locks[p] = w)
             /\ \A e \in promised[w].comments : <<"comments", e[1]>> \notin lost => e[2] \in collab.comments[e[1]]
  BY DEF Collab!CollabInv, Collab!LedgerKeepsItsWord, Collab!KeepsWord, Collab!TypeOK, Collab!Promise
<1>9. ASSUME NEW w \in Users, w # u
      PROVE  Collab!KeepsWord(s, promised[w], w, lost)
  <2>1. CASE collab.locks[o] = u
    <3>1. o \in promised[w].locks => <<"lock", o>> \in lost
      BY <2>1, <1>8, <1>9
    <3> QED
      BY <3>1, <1>4, <1>5, <1>8 DEF Collab!KeepsWord
  <2>2. CASE collab.locks[o] # u
    BY <2>2, <1>4, <1>5, <1>8 DEF Collab!KeepsWord
  <2> QED
    BY <2>1, <2>2
<1>10. Collab!KeepsWord(s, t, u, lost)
  BY <1>4, <1>5, <1>6, <1>7, <1>8 DEF Collab!KeepsWord
<1>11. TellsOfIts(u, entry, t)
  BY <1>6, <1>7 DEF TellsOfIts
<1> HIDE DEF entry
<1> QED
  BY <1>2, <1>5, <1>7, <1>9, <1>10, <1>11, CollabLoadKeeps

\* A save: the ledger becomes what the request was about to write, and whoever still holds an older
\* ledger has missed one more entry.
LEMMA CollabSaveKeeps ==
    ASSUME Collab!CollabInv, NEW u \in Users, Collab!Save(u)
    PROVE  Collab!CollabInv'
<1> DEFINE after(v) == [seat[v] EXCEPT !.missed = @ \cup {seat[u].entry}]
<1>1. /\ Collab!TypeOK /\ Collab!SeatInv(u) /\ seat[u].pc = "save"
      /\ collab' = seat[u].to /\ promised' = [promised EXCEPT ![u] = seat[u].tells]
      /\ lost' = lost \cup seat[u].missed
      /\ seat' = [v \in Users |-> IF v = u THEN [pc |-> "idle"]
                                  ELSE IF seat[v].pc = "save" THEN after(v) ELSE seat[v]]
  BY DEF Collab!CollabInv, Collab!Save
<1>2. ASSUME NEW v \in Users, seat[v].pc = "save"
      PROVE  seat[v] \in Collab!Seat
  BY <1>1, <1>2 DEF Collab!TypeOK
<1>3. /\ seat[u].to \in Collab!CollabState /\ seat[u].tells \in Collab!Promise
      /\ seat[u].missed \subseteq Collab!Entries /\ seat[u].entry \in Collab!Entries
  BY <1>1, <1>2 DEF Collab!Seat
<1>4. ASSUME NEW v \in Users, seat[v].pc = "save"
      PROVE  /\ after(v) \in Collab!Seat
             /\ after(v).to = seat[v].to /\ after(v).tells = seat[v].tells /\ after(v).entry = seat[v].entry
             /\ after(v).missed = seat[v].missed \cup {seat[u].entry}
  <2>1. seat[v] \in Collab!Seat
    BY <1>2, <1>4
  <2> QED
    BY <2>1, <1>3 DEF Collab!Seat
<1> HIDE DEF after
<1>5. ASSUME NEW v \in Users
      PROVE  seat'[v] \in {[pc |-> "idle"]} \cup Collab!Seat
  <2>1. CASE v = u
    BY <2>1, <1>1
  <2>2. CASE v # u /\ seat[v].pc = "save"
    BY <2>2, <1>1, <1>4
  <2>3. CASE v # u /\ seat[v].pc # "save"
    BY <2>3, <1>1 DEF Collab!TypeOK
  <2> QED
    BY <2>1, <2>2, <2>3
<1>6. Collab!TypeOK'
  <2>1. seat' \in [Users -> {[pc |-> "idle"]} \cup Collab!Seat]
    <3>1. /\ DOMAIN seat' = Users
          /\ seat' = [v \in Users |-> seat'[v]]
      BY <1>1
    <3> QED
      BY <3>1, <1>5
  <2>2. promised' \in [Users -> Collab!Promise] /\ lost' \subseteq Collab!Entries
    BY <1>1, <1>3 DEF Collab!TypeOK
  <2> QED
    BY <2>1, <2>2, <1>1, <1>3 DEF Collab!TypeOK, Collab!CollabState, Collab!Comment, Collab!Promise, Collab!Seat, Collab!Entries
<1>7. /\ promised'[u] = seat[u].tells
      /\ \A v \in Users : v # u => promised'[v] = promised[v]
  BY <1>1 DEF Collab!TypeOK
<1>8. Collab!LedgerKeepsItsWord'
  BY <1>1, <1>7 DEF Collab!LedgerKeepsItsWord, Collab!SeatInv, Collab!KeepsWord
<1>9. ASSUME NEW v \in Users
      PROVE  Collab!SeatInv(v)'
  <2>1. CASE v = u \/ seat[v].pc # "save"
    <3>1. seat'[v].pc # "save"
      BY <2>1, <1>1
    <3> QED
      BY <3>1 DEF Collab!SeatInv
  <2>2. CASE v # u /\ seat[v].pc = "save"
    <3> DEFINE before == lost \cup seat[v].missed
               gone   == lost' \cup seat'[v].missed
    <3>1. /\ seat'[v].to = seat[v].to /\ seat'[v].tells = seat[v].tells /\ seat'[v].entry = seat[v].entry
          /\ seat'[v].missed = seat[v].missed \cup {seat[u].entry}
      <4>1. seat'[v] = after(v)
        BY <2>2, <1>1
      <4> QED
        BY <4>1, <2>2, <1>4
    <3>2. before \subseteq gone /\ seat[u].entry \in gone
      BY <3>1, <1>1
    <3>3. /\ \A w \in Users : w # v => Collab!KeepsWord(seat[v].to, promised[w], w, before)
          /\ Collab!KeepsWord(seat[v].to, seat[v].tells, v, before)
          /\ \A o \in Refs : <<"lock", o>> # seat[v].entry => (o \in seat[v].tells.locks => o \in promised[v].locks)
          /\ \A c \in seat[v].tells.comments :
                 <<"comments", c[1]>> # seat[v].entry => c \in promised[v].comments
      BY <2>2 DEF Collab!CollabInv, Collab!SeatInv
    <3>4. /\ \A o \in Refs : <<"lock", o>> # seat[u].entry => (o \in seat[u].tells.locks => o \in promised[u].locks)
          /\ \A c \in seat[u].tells.comments :
                 <<"comments", c[1]>> # seat[u].entry => c \in promised[u].comments
          /\ seat[u].tells.locks \subseteq Refs
      BY <1>1, <1>3 DEF Collab!SeatInv, Collab!Promise
    <3> HIDE DEF before, gone
    <3>5. ASSUME NEW w \in Users, w # v
          PROVE  Collab!KeepsWord(seat[v].to, promised'[w], w, gone)
      <4>1. Collab!KeepsWord(seat[v].to, promised[w], w, gone)
        BY <3>2, <3>3, <3>5, KeepsLessWord
      <4>2. CASE w = u
        BY <4>1, <4>2, <3>2, <3>4, <1>7 DEF Collab!KeepsWord
      <4>3. CASE w # u
        BY <4>1, <4>3, <1>7
      <4> QED
        BY <4>2, <4>3
    <3>6. Collab!KeepsWord(seat[v].to, seat[v].tells, v, gone)
      BY <3>2, <3>3, KeepsLessWord
    <3>7. promised'[v] = promised[v]
      BY <2>2, <1>7
    <3> QED
      BY <3>1, <3>3, <3>5, <3>6, <3>7 DEF Collab!SeatInv, Collab!KeepsWord, gone
  <2> QED
    BY <2>1, <2>2
<1> QED
  BY <1>6, <1>8, <1>9 DEF Collab!CollabInv

LEMMA CollabInvAlways == Nobody \notin Users /\ Collab!Spec => []Collab!CollabInv
<1> SUFFICES ASSUME Nobody \notin Users
             PROVE  Collab!Spec => []Collab!CollabInv
  OBVIOUS
<1>1. Collab!Init => Collab!CollabInv
  <2> SUFFICES ASSUME Collab!Init
               PROVE  Collab!CollabInv
    OBVIOUS
  <2>1. collab \in Collab!CollabState
    BY DEF Collab!Init, Collab!CollabState
  <2>2. /\ seat = [u \in Users |-> [pc |-> "idle"]] /\ lost = {}
        /\ promised = [u \in Users |-> [locks |-> {}, comments |-> {}]]
    BY DEF Collab!Init
  <2>3. Collab!TypeOK
    BY <2>1, <2>2 DEF Collab!TypeOK, Collab!Promise
  <2>4. Collab!LedgerKeepsItsWord
    BY <2>2 DEF Collab!LedgerKeepsItsWord, Collab!KeepsWord
  <2>5. \A u \in Users : Collab!SeatInv(u)
    BY <2>2 DEF Collab!SeatInv
  <2> QED
    BY <2>3, <2>4, <2>5 DEF Collab!CollabInv
<1>2. Collab!CollabInv /\ [Collab!Next]_(Collab!vars) => Collab!CollabInv'
  <2> SUFFICES ASSUME Collab!CollabInv, [Collab!Next]_(Collab!vars)
               PROVE  Collab!CollabInv'
    OBVIOUS
  <2>1. ASSUME NEW u \in Users, NEW o \in Refs,
               Collab!AddComment(u, o) \/ Collab!AcquireLock(u, o) \/ Collab!ReleaseLock(u, o)
        PROVE  Collab!CollabInv'
    BY <2>1, AddCommentKeeps, AcquireKeeps, ReleaseKeeps
  <2>2. ASSUME NEW u \in Users, NEW o \in Refs, NEW v \in Users \cup {Nobody}, Collab!Assign(u, o, v)
        PROVE  Collab!CollabInv'
    BY <2>2, AssignKeeps
  <2>3. ASSUME NEW u \in Users, Collab!Save(u)
        PROVE  Collab!CollabInv'
    BY <2>3, CollabSaveKeeps
  <2>4. CASE UNCHANGED Collab!vars
    BY <2>4 DEF Collab!vars, Collab!CollabInv, Collab!TypeOK, Collab!LedgerKeepsItsWord, Collab!KeepsWord,
                Collab!SeatInv
  <2> QED
    BY <2>1, <2>2, <2>3, <2>4 DEF Collab!Next
<1> QED
  BY <1>1, <1>2, PTL DEF Collab!Spec

\* collab/: however many requests overlap, for any number of users, objects and comments, whoever was
\* told that they hold a lock and has not given it back holds it, and every comment that was acknowledged
\* is there, but for the entries that a request overwrote without having seen them change.
THEOREM CollabKeepsItsWord == Nobody \notin Users /\ Collab!Spec => []Collab!LedgerKeepsItsWord
<1>1. Collab!CollabInv => Collab!LedgerKeepsItsWord
  BY DEF Collab!CollabInv
<1> QED
  BY <1>1, CollabInvAlways, PTL

-----------------------------------------------------------------------------
(***************************************************************************)
(* LoreAnswers.  Base is what LoreInv says of the shared tables, Sound     *)
(* what it says of one request: whatever happens, each request is sound    *)
(* for the tables as they are.                                             *)
(***************************************************************************)

LEMMA LoreCounts == \A S : Lore!Cardinality(S) = Cardinality(S) /\ (Lore!IsFiniteSet(S) <=> IsFiniteSet(S))
BY DEF Cardinality, Lore!Cardinality, IsFiniteSet, Lore!IsFiniteSet

LEMMA ImageIsFinite ==
    ASSUME NEW S, IsFiniteSet(S), NEW f, DOMAIN f = S
    PROVE  IsFiniteSet({f[x] : x \in S})
<1> DEFINE T == {f[x] : x \in S}
           g == [x \in S |-> f[x]]
<1>1. g \in Surjection(S, T)
  BY DEF Surjection
<1> HIDE DEF g
<1> QED
  BY <1>1, FS_Surjection

\* The nodes at no, one and two edges.
LEMMA NeighborsAre ==
    ASSUME NEW b, NEW n
    PROVE  /\ Lore!Neighbors(b, n, 0) = {n} \cap Lore!Nodes(b)
           /\ Lore!Neighbors(b, n, 1) = Lore!Beside(Lore!Edges(b), {n} \cap Lore!Nodes(b))
           /\ Lore!Neighbors(b, n, 2) = Lore!Beside(Lore!Edges(b), Lore!Beside(Lore!Edges(b), {n} \cap Lore!Nodes(b)))
<1> DEFINE zero == {n} \cap Lore!Nodes(b)
           one  == Lore!Beside(Lore!Edges(b), zero)
           two  == Lore!Beside(Lore!Edges(b), one)
           Is(f, r) == f = [d \in 0..r |-> IF d = 0 THEN zero ELSE Lore!Beside(Lore!Edges(b), f[d - 1])]
           g == [d \in 0..2 |-> IF d = 0 THEN zero ELSE IF d = 1 THEN one ELSE two]
<1>1. ASSUME NEW r \in 0..2 PROVE \E f : Is(f, r)
  <2> DEFINE h == [d \in 0..r |-> g[d]]
  <2>1. \A d \in 0..r : h[d] = IF d = 0 THEN zero ELSE IF d = 1 THEN one ELSE two
    OBVIOUS
  <2> HIDE DEF zero
  <2>2. ASSUME NEW d \in 0..r
        PROVE  h[d] = IF d = 0 THEN zero ELSE Lore!Beside(Lore!Edges(b), h[d - 1])
    <3>1. CASE d = 0
      BY <2>1, <3>1
    <3>2. CASE d = 1
      <4>1. 0 \in 0..r /\ d - 1 = 0 /\ h[0] = zero /\ h[d] = one
        BY <2>1, <3>2
      <4> QED
        BY <3>2, <4>1
    <3>3. CASE d = 2
      <4>1. 1 \in 0..r /\ d - 1 = 1 /\ h[1] = one /\ h[d] = two
        BY <2>1, <3>3
      <4> QED
        BY <3>3, <4>1
    <3> QED
      BY <3>1, <3>2, <3>3
  <2>3. Is(h, r)
    <3>1. h = [d \in 0..r |-> h[d]]
      OBVIOUS
    <3> HIDE DEF h
    <3> QED
      BY ONLY <2>2, <3>1
  <2> HIDE DEF Is, h
  <2> QED
    BY <2>3
<1>2. ASSUME NEW r \in 0..2
      PROVE  \E f : Is(f, r) /\ Lore!Neighbors(b, n, r) = f[r]
  <2> DEFINE f == CHOOSE f : Is(f, r)
  <2>1. Is(f, r)
    <3> HIDE DEF Is
    <3> QED
      BY <1>1
  <2>2. Lore!Neighbors(b, n, r) = f[r]
    BY DEF Lore!Neighbors
  <2> HIDE DEF Is, f
  <2> QED
    BY <2>1, <2>2
<1> HIDE DEF zero
<1>3. Lore!Neighbors(b, n, 0) = zero
  <2>1. PICK f : Is(f, 0) /\ Lore!Neighbors(b, n, 0) = f[0]
    BY <1>2
  <2> QED
    BY <2>1
<1>4. Lore!Neighbors(b, n, 1) = one
  <2>1. PICK f : Is(f, 1) /\ Lore!Neighbors(b, n, 1) = f[1]
    BY <1>2
  <2>2. \A d \in 0..1 : f[d] = IF d = 0 THEN zero ELSE Lore!Beside(Lore!Edges(b), f[d - 1])
    BY <2>1
  <2>3. f[0] = zero /\ f[1] = Lore!Beside(Lore!Edges(b), f[0])
    BY <2>2
  <2> QED
    BY <2>1, <2>3
<1>5. Lore!Neighbors(b, n, 2) = two
  <2>1. PICK f : Is(f, 2) /\ Lore!Neighbors(b, n, 2) = f[2]
    BY <1>2
  <2>2. \A d \in 0..2 : f[d] = IF d = 0 THEN zero ELSE Lore!Beside(Lore!Edges(b), f[d - 1])
    BY <2>1
  <2>3. f[0] = zero /\ f[1] = Lore!Beside(Lore!Edges(b), f[0]) /\ f[2] = Lore!Beside(Lore!Edges(b), f[1])
    BY <2>2
  <2> QED
    BY <2>1, <2>3
<1> QED
  BY <1>3, <1>4, <1>5 DEF zero

\* Whoever refers to an object must be changed with it.
LEMMA ReferrersMustChange ==
    ASSUME NEW b, NEW u \in b.uses, Lore!Target(b, u) # u.owner
    PROVE  Lore!Impact(b, {Lore!Target(b, u)}, 2)[u.owner] = "must_change"
<1> DEFINE t == Lore!Target(b, u)
           o == u.owner
           E == Lore!Edges(b)
           reached == {p \in {t} \X Lore!Nodes(b) : p[1] # p[2] /\ p[2] \in Lore!Neighbors(b, p[1], 2)}
<1>1. {o, t} \in E
  BY DEF Lore!Edges
<1>2. t \in Lore!Nodes(b) /\ o \in Lore!Nodes(b)
  BY <1>1 DEF Lore!Nodes
<1>3. /\ Lore!Neighbors(b, t, 0) = {t}
      /\ o \in Lore!Neighbors(b, t, 1)
      /\ o \in Lore!Neighbors(b, t, 2)
  <2> HIDE DEF t
  <2>1. {t} \cap Lore!Nodes(b) = {t}
    BY <1>2
  <2>2. o \in Lore!Beside(E, {t})
    BY <1>1 DEF Lore!Beside
  <2>3. o \in Lore!Beside(E, Lore!Beside(E, {t}))
    BY <2>2 DEF Lore!Beside
  <2> QED
    BY <2>1, <2>2, <2>3, NeighborsAre
<1> HIDE DEF t
<1>4. Lore!Distance(b, t, o, 2) = 1
  <2> DEFINE P(d) == o \in Lore!Neighbors(b, t, d) /\ \A e \in 0..(d - 1) : o \notin Lore!Neighbors(b, t, e)
  <2>1. P(1) /\ ~ P(0) /\ ~ P(2)
    BY <1>3 DEF t
  <2>2. \A d \in 0..2 : P(d) <=> d = 1
    BY <2>1
  <2>3. Lore!Distance(b, t, o, 2) = CHOOSE d \in 0..2 : P(d)
    BY DEF Lore!Distance
  <2> HIDE DEF P
  <2> QED
    BY <2>2, <2>3
<1>5. <<t, o>> \in reached
  BY <1>2, <1>3 DEF t
<1> DEFINE ds(n) == {Lore!Distance(b, p[1], n, 2) : p \in {p \in reached : p[2] = n}}
<1>6. 1 \in ds(o)
  <2> DEFINE q == <<t, o>>
  <2>1. q \in reached /\ q[1] = t /\ q[2] = o
    BY <1>5
  <2> HIDE DEF q, reached
  <2> QED
    BY <1>4, <2>1
<1>7. o \in {p[2] : p \in reached}
  <2> DEFINE q == <<t, o>>
  <2>1. q \in reached /\ q[2] = o
    BY <1>5
  <2> HIDE DEF q, reached
  <2> QED
    BY <2>1
<1>8. Lore!Impact(b, {t}, 2) =
        [n \in {p[2] : p \in reached} |-> IF 1 \in ds(n) THEN "must_change" ELSE "suggest_check"]
  BY DEF Lore!Impact
<1> HIDE DEF reached, ds
<1> QED
  BY <1>6, <1>7, <1>8 DEF t

LEMMA WorldsAreFinite ==
    ASSUME Lore!WellFormed, NEW b \in Worlds
    PROVE  IsFiniteSet(Lore!Nodes(b))
<1>1. IsFiniteSet(Lore!Objects(b)) /\ IsFiniteSet(b.uses) /\ b.rels \in Seq(Lore!Range(b.rels))
  BY LoreCounts DEF Lore!WellFormed
<1>2. IsFiniteSet(DOMAIN b.rels)
  <2>1. DOMAIN b.rels = 1..Len(b.rels) /\ Len(b.rels) \in Nat
    BY <1>1, LenProperties
  <2> QED
    BY <2>1, FS_Interval
<1>3. IsFiniteSet(Lore!RelationRefs(b))
  <2> DEFINE f == [i \in DOMAIN b.rels |-> Lore!RelationRef(b, i)]
  <2>1. Lore!RelationRefs(b) = {f[i] : i \in DOMAIN b.rels}
    BY DEF Lore!RelationRefs
  <2>2. DOMAIN f = DOMAIN b.rels
    OBVIOUS
  <2> HIDE DEF f
  <2> QED
    BY <1>2, <2>1, <2>2, ImageIsFinite
<1>4. ASSUME NEW x, NEW y PROVE IsFiniteSet({x, y})
  <2>1. IsFiniteSet({x}) /\ IsFiniteSet({y}) /\ {x, y} = {x} \cup {y}
    BY FS_Singleton
  <2> QED
    BY <2>1, FS_Union
<1> DEFINE E1 == {Lore!Ends(b, i) : i \in DOMAIN b.rels}
           E2 == {{u.owner, Lore!Target(b, u)} : u \in b.uses}
<1>5. IsFiniteSet(E1) /\ \A e \in E1 : IsFiniteSet(e)
  <2> DEFINE f == [i \in DOMAIN b.rels |-> Lore!Ends(b, i)]
  <2>1. E1 = {f[i] : i \in DOMAIN b.rels} /\ DOMAIN f = DOMAIN b.rels
    OBVIOUS
  <2>2. \A e \in E1 : IsFiniteSet(e)
    BY <1>4 DEF Lore!Ends
  <2> HIDE DEF f, E1
  <2> QED
    BY <1>2, <2>1, <2>2, ImageIsFinite
<1>6. IsFiniteSet(E2) /\ \A e \in E2 : IsFiniteSet(e)
  <2> DEFINE f == [u \in b.uses |-> {u.owner, Lore!Target(b, u)}]
  <2>1. E2 = {f[u] : u \in b.uses} /\ DOMAIN f = b.uses
    OBVIOUS
  <2>2. \A e \in E2 : IsFiniteSet(e)
    BY <1>4
  <2> HIDE DEF f, E2
  <2> QED
    BY <1>1, <2>1, <2>2, ImageIsFinite
<1>7. IsFiniteSet(UNION Lore!Edges(b))
  <2>1. Lore!Edges(b) = E1 \cup E2
    BY DEF Lore!Edges
  <2> HIDE DEF E1, E2
  <2>2. IsFiniteSet(E1 \cup E2) /\ \A e \in E1 \cup E2 : IsFiniteSet(e)
    BY <1>5, <1>6, FS_Union
  <2> QED
    BY <2>1, <2>2, FS_UNION
<1>8. IsFiniteSet(Lore!Objects(b) \cup Lore!RelationRefs(b))
  BY <1>1, <1>3, FS_Union
<1>9. IsFiniteSet((Lore!Objects(b) \cup Lore!RelationRefs(b)) \cup UNION Lore!Edges(b))
  BY <1>7, <1>8, FS_Union
<1> QED
  BY <1>9 DEF Lore!Nodes

\* The communities of a world are numbered.
LEMMA CommunitiesAre ==
    ASSUME Lore!WellFormed, NEW b \in Worlds
    PROVE  LET gs == Lore!DetectCommunities(b)
           IN  /\ Len(gs) \in Nat /\ DOMAIN gs = 1..Len(gs)
<1> DEFINE nodes == {n \in Lore!Nodes(b) : Lore!IsSubstantive(n)}
           gs == Lore!DetectCommunities(b)
           N == Cardinality(Lore!Groups(b))
<1>1. IsFiniteSet(nodes)
  BY WorldsAreFinite, FS_Subset
<1>2. IsFiniteSet(Lore!Groups(b))
  <2>1. \E f : DOMAIN f = nodes /\ Lore!Groups(b) = {f[n] : n \in nodes}
    <3> DEFINE grown(n) ==
                 LET near[d \in 0..Lore!Cardinality(nodes)] ==
                       IF d = 0 THEN {n} ELSE Lore!Beside(Lore!Ties(b), near[d - 1])
                 IN  near[Lore!Cardinality(nodes)]
               f == [n \in nodes |-> grown(n)]
    <3>1. Lore!Groups(b) = {grown(n) : n \in nodes}
      BY DEF Lore!Groups
    <3> HIDE DEF grown
    <3>2. DOMAIN f = nodes /\ {grown(n) : n \in nodes} = {f[n] : n \in nodes}
      OBVIOUS
    <3> HIDE DEF f
    <3> QED
      BY <3>1, <3>2
  <2> HIDE DEF nodes
  <2> QED
    BY <1>1, <2>1, ImageIsFinite
<1>3. N \in Nat
  BY <1>2, FS_CardinalityType
<1>4. DOMAIN gs = 1..N
  BY LoreCounts DEF Lore!DetectCommunities
<1>5. gs \in Seq({gs[k] : k \in 1..N})
  <2> DEFINE el(k) == CHOOSE g \in Lore!Groups(b) : Lore!Cardinality({h \in Lore!Groups(b) : Lore!Ahead(h, g)}) = k - 1
  <2>2. gs = [k \in 1..Lore!Cardinality(Lore!Groups(b)) |-> el(k)]
    BY DEF Lore!DetectCommunities
  <2>3. gs = [k \in 1..N |-> el(k)]
    BY <2>2, LoreCounts
  <2>1. gs = [k \in 1..N |-> gs[k]]
    <3> HIDE DEF el, gs, N
    <3> QED
      BY <2>3
  <2> HIDE DEF gs, N
  <2> QED
    BY <1>3, <2>1, IsASeq
<1> HIDE DEF gs, N
<1>6. Len(gs) \in Nat /\ DOMAIN gs = 1..Len(gs)
  BY <1>5, LenProperties
<1> QED
  BY <1>6 DEF gs

-----------------------------------------------------------------------------
\* What LoreInv says of one request.
RowsOf(q, rows) ==
    /\ q.at \in {"sync", "embed", "embed chunks", "recall"} /\ ~q.crossed =>
          rows = Lore!ContentRows(q.bundle) /\ Lore!Contents(q.dense) \subseteq Lore!ContentRows(q.bundle)
    /\ q.at = "index" => q.dense = {}
    /\ q.at \in {"prompted", "answered"} =>
          \A h \in q.pack : ~Lore!IsChunk(h.ref) /\ (~q.crossed => Lore!Canonic(q.bundle, h))
    /\ q.at = "answered" => q.pack # {}
FiledOf(q, lib) ==
    /\ q.at \in Lore!Looking => Lore!Chunks(q.dense) \subseteq Lore!ChunkRows(lib)
    /\ q.at = "shown" => \A h \in q.pack : /\ <<h.ref[2], h.ref[3]>> \in DOMAIN lib
                                           /\ h.texts = {lib[<<h.ref[2], h.ref[3]>>]}
TellsOf(q, table) ==
    q.at \in Lore!Telling =>
         LET gs   == Lore!DetectCommunities(q.bundle)
             done == q.done
         IN  /\ done \in Seq(Lore!Range(done)) /\ Len(done) <= Len(gs)
             /\ q.at = "report" => Len(done) < Len(gs)
             /\ q.at \in {"prune", "built"} => Len(done) = Len(gs)
             /\ \A k \in 1..Len(done) : /\ Lore!StillTells(done[k].told, q.bundle, gs[k])
                                        /\ done[k].fingerprint = Lore!Fingerprint(q.bundle, gs[k])
             /\ ~q.beside =>
                  /\ \A k \in 1..Len(done) : /\ Lore!CommunityId(k) \in DOMAIN table
                                             /\ table[Lore!CommunityId(k)].told = done[k].told
                  /\ q.at \in {"prune", "built"} =>
                       /\ Lore!GlobalId \in DOMAIN table
                       /\ table[Lore!GlobalId].fingerprint = Lore!GlobalReport(q.bundle, gs, done).fingerprint
                  /\ q.at = "built" =>
                       DOMAIN table = {Lore!GlobalId} \cup {Lore!CommunityId(k) : k \in 1..Len(done)}
Sound(q, lib, rows, table) ==
    /\ Lore!Steps(q) /\ (q.at # "idle" => q.bundle \in Worlds)
    /\ RowsOf(q, rows) /\ FiledOf(q, lib) /\ TellsOf(q, table)

\* What it says of the rest.
Filed(table) ==
    \A id \in DOMAIN table : IF id = Lore!GlobalId THEN Lore!OverviewOf(table[id].told, table[id].fingerprint)
                              ELSE Lore!ReportOf(table[id].told, table[id].fingerprint)
Base ==
    /\ world \in Worlds
    /\ \A c \in DOMAIN library : library[c] \in Sources /\ c = <<c[1], c[2]>> /\ library[c] = c[1]
    /\ Lore!Chunks(index) \subseteq Lore!ChunkRows(library)
    /\ \A v \in vectors : v.key = v.space /\ v.key \in {"st", "hashing"}
    /\ Filed(reports)
    /\ spent.edits \in 0..MaxEdits /\ spent.served \in 0..MaxServed

EachIsSound ==
    DOMAIN reqs = Requests /\ \A r \in Requests : Sound(reqs[r], library, Lore!Contents(index), reports)

LEMMA LoreInvIs == Lore!LoreInv <=> Base /\ Lore!Alone /\ EachIsSound
<1>1. ASSUME Lore!LoreInv
      PROVE  /\ Base /\ Lore!Alone /\ DOMAIN reqs = Requests
             /\ \A r \in Requests : Sound(reqs[r], library, Lore!Contents(index), reports)
  <2>1. Base
    BY <1>1 DEF Base, Filed, Lore!LoreInv, Lore!TypeOK, Lore!ChunksAreFiled, Lore!VectorsAreHonest, Lore!ReportsTell
  <2>2. Lore!Alone /\ DOMAIN reqs = Requests
    BY <1>1 DEF Lore!LoreInv, Lore!RequestsStep
  <2>3. ASSUME NEW r \in Requests PROVE Sound(reqs[r], library, Lore!Contents(index), reports)
    <3>1. Lore!Steps(reqs[r]) /\ (reqs[r].at # "idle" => reqs[r].bundle \in Worlds)
      BY <1>1 DEF Lore!LoreInv, Lore!RequestsStep
    <3>2. RowsOf(reqs[r], Lore!Contents(index))
      BY <1>1 DEF RowsOf, Lore!LoreInv, Lore!RowsAreMine, Lore!GroundedInCanon, Lore!Canonic
    <3>3. FiledOf(reqs[r], library)
      BY <1>1 DEF FiledOf, Lore!LoreInv, Lore!ChunksAreFiled, Lore!InspirationIsFiled
    <3>4. TellsOf(reqs[r], reports)
      BY <1>1 DEF TellsOf, Lore!LoreInv, Lore!ReportsTell
    <3> QED
      BY <3>1, <3>2, <3>3, <3>4 DEF Sound
  <2> QED
    BY <2>1, <2>2, <2>3
<1>2. ASSUME Base, Lore!Alone, DOMAIN reqs = Requests,
             \A r \in Requests : Sound(reqs[r], library, Lore!Contents(index), reports)
      PROVE  Lore!LoreInv
  <2>1. \A r \in Requests : /\ Lore!Steps(reqs[r]) /\ (reqs[r].at # "idle" => reqs[r].bundle \in Worlds)
                            /\ RowsOf(reqs[r], Lore!Contents(index)) /\ FiledOf(reqs[r], library)
                            /\ TellsOf(reqs[r], reports)
    BY <1>2 DEF Sound
  <2>2. \A r \in Requests : reqs[r].at = "idle" \/ reqs[r].use \in Lore!Uses
    BY <2>1 DEF Lore!Steps, Lore!Idle
  <2>3. Lore!TypeOK /\ Lore!RequestsStep
    BY <1>2, <2>1, <2>2 DEF Base, Lore!TypeOK, Lore!RequestsStep
  <2>4. Lore!ChunksAreFiled /\ Lore!InspirationIsFiled
    BY <1>2, <2>1 DEF Base, FiledOf, Lore!ChunksAreFiled, Lore!InspirationIsFiled
  <2>5. Lore!RowsAreMine /\ Lore!GroundedInCanon
    BY <2>1 DEF RowsOf, Lore!RowsAreMine, Lore!GroundedInCanon, Lore!Canonic
  <2>6. Lore!ReportsTell
    BY <1>2, <2>1 DEF Base, Filed, TellsOf, Lore!ReportsTell
  <2>7. Lore!VectorsAreHonest
    BY <1>2 DEF Base, Lore!VectorsAreHonest
  <2> QED
    BY <1>2, <2>3, <2>4, <2>5, <2>6, <2>7 DEF Lore!LoreInv
<1> QED
  BY <1>1, <1>2 DEF EachIsSound

LEMMA LoreInvNext ==
    ASSUME Base', Lore!Alone', DOMAIN reqs' = Requests,
           \A r \in Requests : Sound(reqs'[r], library', Lore!Contents(index'), reports')
    PROVE  Lore!LoreInv'
<1>1. Lore!LoreInv' <=> Base' /\ Lore!Alone' /\ EachIsSound'
  BY LoreInvIs, PTL
<1> QED
  BY <1>1 DEF EachIsSound

-----------------------------------------------------------------------------
\* The rows of a world are none of the library's, and have one text for each ref.
LEMMA RowsAre ==
    ASSUME Lore!WellFormed, NEW b \in Worlds
    PROVE  /\ \A row \in Lore!ContentRows(b) : ~ Lore!IsChunk(row.ref) /\ row.ref[1] # "community"
           /\ \A x, y \in Lore!ContentRows(b) : x.ref = y.ref => x.text = y.text
<1> DEFINE O == {Lore!Row(o, Lore!Words(b, o), {o[2]} \cup {u.id : u \in {u \in b.uses : u.owner = o}}) :
                    o \in {o \in Lore!Objects(b) : o[1] # "style_guide"}}
           R == {Lore!Row(Lore!RelationRef(b, i), "related", {b.rels[i].from, b.rels[i].to}) : i \in DOMAIN b.rels}
<1>1. Lore!ContentRows(b) = O \cup R
  BY DEF Lore!ContentRows
<1>2. ASSUME NEW x \in O
      PROVE  x.ref \in Lore!Objects(b) /\ x.text = Lore!Words(b, x.ref)
  BY <1>2 DEF Lore!Row
<1>3. \A x \in O : x.ref[1] \notin {"relation", "community", "reference_chunk"}
  <2> HIDE DEF O
  <2> QED
    BY <1>2 DEF Lore!WellFormed
<1>4. ASSUME NEW x \in R
      PROVE  x.ref[1] = "relation" /\ x.text = "related"
  BY <1>4 DEF Lore!Row, Lore!RelationRef
<1> HIDE DEF O, R
<1> QED
  BY <1>1, <1>2, <1>3, <1>4 DEF Lore!IsChunk

LEMMA ChunkRowsAre ==
    ASSUME NEW lib, \A c \in DOMAIN lib : c = <<c[1], c[2]>>, NEW row \in Lore!ChunkRows(lib)
    PROVE  /\ Lore!IsChunk(row.ref) /\ <<row.ref[2], row.ref[3]>> \in DOMAIN lib
           /\ row.text = lib[<<row.ref[2], row.ref[3]>>]
<1>1. PICK c \in DOMAIN lib : row = Lore!Row(<<"reference_chunk", c[1], c[2]>>, lib[c], {})
  BY DEF Lore!ChunkRows
<1>2. row.ref = <<"reference_chunk", c[1], c[2]>> /\ row.text = lib[c]
  BY <1>1 DEF Lore!Row
<1>3. <<row.ref[2], row.ref[3]>> = c
  BY <1>2
<1> QED
  BY <1>2, <1>3 DEF Lore!IsChunk

\* What is replaced, and what is left.
LEMMA Replaced ==
    ASSUME Lore!WellFormed, NEW rows, NEW b \in Worlds, NEW lib, \A c \in DOMAIN lib : c = <<c[1], c[2]>>
    PROVE  /\ Lore!Contents(Lore!ReplaceContentIndex(rows, b)) = Lore!ContentRows(b)
           /\ Lore!Chunks(Lore!ReplaceContentIndex(rows, b)) = Lore!Chunks(rows)
           /\ Lore!Contents(Lore!ReplaceReferenceIndex(rows, lib)) = Lore!Contents(rows)
           /\ Lore!Chunks(Lore!ReplaceReferenceIndex(rows, lib)) = Lore!ChunkRows(lib)
<1>1. \A row \in Lore!ContentRows(b) : ~ Lore!IsChunk(row.ref)
  BY RowsAre
<1>2. \A row \in Lore!ChunkRows(lib) : Lore!IsChunk(row.ref)
  BY ChunkRowsAre
<1> QED
  BY <1>1, <1>2 DEF Lore!Contents, Lore!Chunks, Lore!ReplaceContentIndex, Lore!ReplaceReferenceIndex

\* A request that does something else than it did keeps company as it was, if it had started and does not
\* forget whom it met.
LEMMA AloneStays ==
    ASSUME Lore!Alone, DOMAIN reqs = Requests, NEW r \in Requests, NEW x, reqs' = [reqs EXCEPT ![r] = x],
           x.at = "idle" \/ reqs[r].at # "idle",
           x.at \notin {"idle", "answered"} /\ ~ x.beside => reqs[r].at \notin {"idle", "answered"} /\ ~ reqs[r].beside
    PROVE  Lore!Alone'
<1>1. reqs'[r] = x /\ \A p \in Requests : p # r => reqs'[p] = reqs[p]
  OBVIOUS
<1> QED
  BY <1>1 DEF Lore!Alone

\* Only one request moves, and touches nothing but the vectors.
LEMMA OneMoves ==
    ASSUME Lore!WellFormed, Lore!LoreInv, NEW r \in Requests, NEW x, reqs' = [reqs EXCEPT ![r] = x],
           world' = world, library' = library, index' = index, reports' = reports, spent' = spent,
           \A v \in vectors' : v.key = v.space /\ v.key \in {"st", "hashing"},
           Sound(x, library, Lore!Contents(index), reports),
           x.at = "idle" \/ reqs[r].at # "idle",
           x.at \notin {"idle", "answered"} /\ ~ x.beside => reqs[r].at \notin {"idle", "answered"} /\ ~ reqs[r].beside
    PROVE  Lore!LoreInv'
<1>1. Base /\ Lore!Alone /\ EachIsSound
  BY LoreInvIs
<1>2. Base'
  BY <1>1 DEF Base
<1>3. Lore!Alone'
  BY <1>1, AloneStays DEF EachIsSound
<1>4. DOMAIN reqs' = Requests /\ \A p \in Requests : Sound(reqs'[p], library', Lore!Contents(index'), reports')
  BY <1>1 DEF EachIsSound
<1> QED
  BY <1>2, <1>3, <1>4, LoreInvNext

LEMMA LoreEditKeeps ==
    ASSUME Lore!WellFormed, Lore!LoreInv, NEW b \in Worlds, Lore!Edit(b)
    PROVE  Lore!LoreInv'
<1>1. /\ world' = b /\ spent.edits < MaxEdits /\ spent' = [spent EXCEPT !.edits = @ + 1]
      /\ library' = library /\ index' = index /\ vectors' = vectors /\ reports' = reports /\ reqs' = reqs
  BY DEF Lore!Edit
<1>2. Base /\ Lore!Alone /\ EachIsSound
  BY LoreInvIs
<1>3. spent'.edits \in 0..MaxEdits /\ spent'.served \in 0..MaxServed
  <2>1. spent'.served = spent.served
    BY <1>1
  <2>2. spent'.edits = spent.edits \/ spent'.edits = spent.edits + 1
    BY <1>1
  <2>3. MaxEdits \in Nat
    BY DEF Lore!WellFormed
  <2> QED
    BY <1>1, <1>2, <2>1, <2>2, <2>3 DEF Base
<1>4. Base'
  BY <1>1, <1>2, <1>3 DEF Base
<1>5. Lore!Alone'
  BY <1>1, <1>2 DEF Lore!Alone
<1> QED
  BY <1>1, <1>2, <1>4, <1>5, LoreInvNext DEF EachIsSound

\* The fields of a request that looks something up.
LEMMA Looks ==
    ASSUME NEW q, Lore!Steps(q), q.at \in Lore!Looking
    PROVE  /\ DOMAIN q = {"at", "use", "bundle", "model", "loaded", "dense", "space", "pack", "crossed", "beside"}
           /\ q.use \in Lore!Uses /\ q.model \in {"st", "hashing"}
<1>1. q # Lore!Idle
  <2>1. Lore!Idle.at = "idle"
    BY DEF Lore!Idle
  <2>2. q.at # "idle"
    BY DEF Lore!Looking
  <2> QED
    BY <2>1, <2>2
<1>2. q.at \notin Lore!Telling
  BY DEF Lore!Looking, Lore!Telling
<1> QED
  BY <1>1, <1>2 DEF Lore!Steps

LEMMA Overviews ==
    ASSUME NEW q, Lore!Steps(q), q.at \in Lore!Telling
    PROVE  DOMAIN q = {"at", "use", "bundle", "beside", "done"} /\ q.use \in Lore!Uses
<1>1. q # Lore!Idle
  BY DEF Lore!Telling, Lore!Idle
<1>2. q.at \notin Lore!Looking
  BY DEF Lore!Looking, Lore!Telling
<1> QED
  BY <1>1, <1>2 DEF Lore!Steps

\* Having met somebody changes nothing else.
LEMMA MetIsSound ==
    ASSUME NEW q, NEW lib, NEW rows, NEW table, Sound(q, lib, rows, table), q.at # "idle"
    PROVE  Sound([q EXCEPT !.beside = TRUE], lib, rows, table)
<1> DEFINE x == [q EXCEPT !.beside = TRUE]
<1>1. q.at \in Lore!Looking \/ q.at \in Lore!Telling
  BY DEF Sound, Lore!Steps, Lore!Idle
<1>2. CASE q.at \in Lore!Looking
  <2>1. /\ DOMAIN x = DOMAIN q
        /\ x.at = q.at /\ x.use = q.use /\ x.bundle = q.bundle /\ x.model = q.model /\ x.dense = q.dense
        /\ x.pack = q.pack /\ x.crossed = q.crossed
    BY <1>2, Looks DEF Sound
  <2>2. Lore!Steps(x)
    BY <1>2, <2>1, Looks DEF Sound, Lore!Steps
  <2>3. q.at \notin Lore!Telling
    BY <1>2 DEF Lore!Looking, Lore!Telling
  <2> HIDE DEF x
  <2>4. RowsOf(x, rows)
    BY <2>1 DEF Sound, RowsOf
  <2>5. FiledOf(x, lib)
    BY <2>1 DEF Sound, FiledOf
  <2>6. TellsOf(x, table)
    BY <2>1, <2>3 DEF TellsOf
  <2>7. Sound(x, lib, rows, table)
    BY <2>1, <2>2, <2>4, <2>5, <2>6 DEF Sound
  <2> QED
    BY <2>7 DEF x
<1>3. CASE q.at \in Lore!Telling
  <2>1. /\ DOMAIN x = DOMAIN q
        /\ x.at = q.at /\ x.use = q.use /\ x.bundle = q.bundle /\ x.done = q.done /\ x.beside = TRUE
    BY <1>3, Overviews DEF Sound
  <2>2. Lore!Steps(x)
    BY <1>3, <2>1, Overviews DEF Sound, Lore!Steps
  <2>3. q.at \notin Lore!Looking /\ q.at \notin {"prompted", "answered", "shown", "index", "sync", "embed", "embed chunks", "recall"}
    BY <1>3 DEF Lore!Looking, Lore!Telling
  <2> HIDE DEF x
  <2>4. RowsOf(x, rows) /\ FiledOf(x, lib)
    BY <2>1, <2>3 DEF RowsOf, FiledOf
  <2>5. TellsOf(x, table)
    BY <1>3, <2>1 DEF Sound, TellsOf
  <2>6. Sound(x, lib, rows, table)
    BY <2>1, <2>2, <2>4, <2>5 DEF Sound
  <2> QED
    BY <2>6 DEF x
<1> QED
  BY <1>1, <1>2, <1>3

Searching == {"sync", "embed", "embed chunks", "recall"}

LEMMA OtherRowsAreSound ==
    ASSUME NEW q, NEW lib, NEW rows, NEW table, Sound(q, lib, rows, table), NEW more,
           q.at \in Searching /\ ~ q.crossed => more = Lore!ContentRows(q.bundle)
    PROVE  Sound(q, lib, more, table)
<1>1. RowsOf(q, more)
  BY DEF Sound, RowsOf, Searching
<1> QED
  BY <1>1 DEF Sound

LEMMA CrossedIsSound ==
    ASSUME NEW q, NEW lib, NEW rows, NEW table, Sound(q, lib, rows, table), NEW more, q.at \in Searching
    PROVE  /\ Sound([q EXCEPT !.crossed = TRUE], lib, more, table)
           /\ [q EXCEPT !.crossed = TRUE].at = q.at /\ [q EXCEPT !.crossed = TRUE].beside = q.beside
<1> DEFINE x == [q EXCEPT !.crossed = TRUE]
<1>1. q.at \in Lore!Looking /\ q.at \notin Lore!Telling /\ q.at # "idle"
      /\ q.at \notin {"prompted", "answered", "shown", "index"}
  BY DEF Searching, Lore!Looking, Lore!Telling
<1>2. /\ DOMAIN x = DOMAIN q
      /\ x.at = q.at /\ x.use = q.use /\ x.bundle = q.bundle /\ x.model = q.model /\ x.dense = q.dense
      /\ x.pack = q.pack /\ x.beside = q.beside /\ x.crossed = TRUE
  BY <1>1, Looks DEF Sound
<1>3. Lore!Steps(x)
  BY <1>1, <1>2, Looks DEF Sound, Lore!Steps
<1> HIDE DEF x
<1>4. RowsOf(x, more) /\ FiledOf(x, lib) /\ TellsOf(x, table)
  BY <1>1, <1>2 DEF Sound, RowsOf, FiledOf, TellsOf
<1>5. Sound(x, lib, more, table)
  BY <1>2, <1>3, <1>4 DEF Sound
<1> QED
  BY <1>2, <1>5 DEF x

\* A request that looks something up goes on.
LEMMA LookingGoesOn ==
    ASSUME NEW q, Lore!Steps(q), q.at \in Lore!Looking, NEW s \in Lore!Looking
    PROVE  LET x == [q EXCEPT !.at = s]
           IN  /\ x.at = s /\ x.use = q.use /\ x.bundle = q.bundle /\ x.model = q.model /\ x.loaded = q.loaded
               /\ x.dense = q.dense /\ x.space = q.space
               /\ x.pack = q.pack /\ x.crossed = q.crossed /\ x.beside = q.beside
               /\ Lore!Steps(x)
<1> DEFINE x == [q EXCEPT !.at = s]
<1>1. /\ DOMAIN q = {"at", "use", "bundle", "model", "loaded", "dense", "space", "pack", "crossed", "beside"}
      /\ q.use \in Lore!Uses /\ q.model \in {"st", "hashing"}
  BY Looks
<1>2. /\ DOMAIN x = DOMAIN q /\ x.at = s /\ x.use = q.use /\ x.bundle = q.bundle /\ x.model = q.model
      /\ x.loaded = q.loaded /\ x.dense = q.dense /\ x.space = q.space
      /\ x.pack = q.pack /\ x.crossed = q.crossed /\ x.beside = q.beside
  BY <1>1
<1> HIDE DEF x
<1>3. Lore!Steps(x)
  BY <1>1, <1>2 DEF Lore!Steps
<1> QED
  BY <1>2, <1>3 DEF x

LEMMA OpenKeeps ==
    ASSUME Lore!WellFormed, Lore!LoreInv, NEW r \in Requests, NEW use \in Lore!Uses, Lore!Open(r, use)
    PROVE  Lore!LoreInv'
<1>1. Base /\ Lore!Alone /\ EachIsSound
  BY LoreInvIs
<1>2. PICK m \in Models :
         reqs' = [q \in Requests |->
                    IF q = r THEN [at |-> "index", use |-> use, bundle |-> world, model |-> m, loaded |-> m = "hashing",
                                   dense |-> {}, space |-> m, pack |-> {},
                                   crossed |-> FALSE, beside |-> \E p \in Requests \ {r} : reqs[p].at # "idle"]
                    ELSE IF reqs[q].at \in {"idle", "answered"} THEN reqs[q]
                    ELSE [reqs[q] EXCEPT !.beside = TRUE]]
  BY DEF Lore!Open
<1> DEFINE x == [at |-> "index", use |-> use, bundle |-> world, model |-> m, loaded |-> m = "hashing",
                 dense |-> {}, space |-> m, pack |-> {},
                 crossed |-> FALSE, beside |-> \E p \in Requests \ {r} : reqs[p].at # "idle"]
           y(q) == IF reqs[q].at \in {"idle", "answered"} THEN reqs[q] ELSE [reqs[q] EXCEPT !.beside = TRUE]
<1>3. /\ spent.served < MaxServed /\ spent' = [spent EXCEPT !.served = @ + 1]
      /\ world' = world /\ library' = library /\ index' = index /\ vectors' = vectors /\ reports' = reports
      /\ reqs[r].at = "idle"
  BY DEF Lore!Open
<1>4. Base'
  <2>1. spent'.edits = spent.edits /\ (spent'.served = spent.served \/ spent'.served = spent.served + 1)
    BY <1>3
  <2>2. MaxServed \in Nat
    BY DEF Lore!WellFormed
  <2>3. spent'.edits \in 0..MaxEdits /\ spent'.served \in 0..MaxServed
    BY <1>1, <1>3, <2>1, <2>2 DEF Base
  <2> QED
    BY <1>1, <1>3, <2>3 DEF Base
<1>5. /\ x.at = "index" /\ x.bundle = world /\ x.dense = {}
      /\ (~ x.beside => \A p \in Requests \ {r} : reqs[p].at = "idle")
      /\ Lore!Steps(x)
  BY DEF Lore!Steps, Lore!Looking, Lore!WellFormed
<1>6. reqs'[r] = x /\ DOMAIN reqs' = Requests /\ \A q \in Requests : q # r => reqs'[q] = y(q)
  BY <1>2
<1> HIDE DEF x
<1>7. Sound(x, library, Lore!Contents(index), reports)
  BY <1>1, <1>5 DEF Base, Sound, RowsOf, FiledOf, TellsOf, Lore!Telling, Lore!Chunks
<1>8. ASSUME NEW q \in Requests, q # r
      PROVE  /\ Sound(y(q), library, Lore!Contents(index), reports)
             /\ y(q).at = reqs[q].at
             /\ y(q).at \notin {"idle", "answered"} => y(q).beside = TRUE
  <2>1. Sound(reqs[q], library, Lore!Contents(index), reports)
    BY <1>1 DEF EachIsSound
  <2>2. CASE reqs[q].at \in {"idle", "answered"}
    BY <2>1, <2>2
  <2>3. CASE reqs[q].at \notin {"idle", "answered"}
    <3>1. y(q) = [reqs[q] EXCEPT !.beside = TRUE]
      BY <2>3
    <3>2. Sound(y(q), library, Lore!Contents(index), reports)
      BY <2>1, <2>3, <3>1, MetIsSound
    <3>3. "at" \in DOMAIN reqs[q] /\ "beside" \in DOMAIN reqs[q]
      <4>1. reqs[q].at \in Lore!Looking \/ reqs[q].at \in Lore!Telling
        BY <2>1, <2>3 DEF Sound, Lore!Steps, Lore!Idle
      <4> QED
        BY <2>1, <4>1, Looks, Overviews DEF Sound
    <3>4. y(q).at = reqs[q].at /\ y(q).beside = TRUE
      BY <3>1, <3>3
    <3> QED
      BY <3>2, <3>4
  <2> QED
    BY <2>2, <2>3
<1> HIDE DEF y
<1>9. Lore!Alone'
  BY <1>5, <1>6, <1>8 DEF Lore!Alone
<1> QED
  BY <1>3, <1>4, <1>6, <1>7, <1>8, <1>9, LoreInvNext

LEMMA IndexKeeps ==
    ASSUME Lore!WellFormed, Lore!LoreInv, NEW r \in Requests, Lore!IndexContent(r)
    PROVE  Lore!LoreInv'
<1>1. Base /\ Lore!Alone /\ EachIsSound
  BY LoreInvIs
<1> DEFINE b == reqs[r].bundle
           x == [reqs[r] EXCEPT !.at = "sync"]
           y(q) == IF reqs[q].at \in Searching /\ reqs[q].bundle # b THEN [reqs[q] EXCEPT !.crossed = TRUE] ELSE reqs[q]
<1>2. /\ reqs[r].at = "index" /\ index' = Lore!ReplaceContentIndex(index, b)
      /\ reqs' = [Lore!Crossed(r) EXCEPT ![r].at = "sync"]
      /\ world' = world /\ library' = library /\ vectors' = vectors /\ reports' = reports /\ spent' = spent
  BY DEF Lore!IndexContent
<1>3. DOMAIN reqs' = Requests /\ reqs'[r] = x /\ \A q \in Requests : q # r => reqs'[q] = y(q)
  <2>1. /\ DOMAIN Lore!Crossed(r) = Requests /\ Lore!Crossed(r)[r] = reqs[r]
        /\ \A q \in Requests : q # r => Lore!Crossed(r)[q] = y(q)
    BY DEF Lore!Crossed, Searching
  <2> HIDE DEF y
  <2> QED
    BY <1>2, <2>1
<1>4. Sound(reqs[r], library, Lore!Contents(index), reports) /\ b \in Worlds
  BY <1>1, <1>2 DEF EachIsSound, Sound
<1>5. Lore!Contents(index') = Lore!ContentRows(b) /\ Lore!Chunks(index') = Lore!Chunks(index)
  BY <1>1, <1>2, <1>4, Replaced DEF Base
<1>6. Base'
  BY <1>1, <1>2, <1>5 DEF Base
<1>7. /\ x.at = "sync" /\ x.bundle = b /\ x.dense = reqs[r].dense /\ x.beside = reqs[r].beside /\ Lore!Steps(x)
      /\ reqs[r].at \in Lore!Looking
  <2>1. Lore!Steps(reqs[r]) /\ reqs[r].at \in Lore!Looking /\ "sync" \in Lore!Looking
    BY <1>2, <1>4 DEF Sound, Lore!Looking
  <2> QED
    BY ONLY <2>1, LookingGoesOn
<1> HIDE DEF x
<1>8. Sound(x, library, Lore!Contents(index'), reports)
  <2>1. reqs[r].dense = {}
    BY <1>2, <1>4 DEF Sound, RowsOf
  <2> QED
    BY <1>4, <1>5, <1>7, <2>1 DEF Sound, RowsOf, FiledOf, TellsOf, Lore!Telling, Lore!Looking, Lore!Contents, Lore!Chunks
<1>9. ASSUME NEW q \in Requests, q # r
      PROVE  /\ Sound(y(q), library, Lore!Contents(index'), reports)
             /\ y(q).at = reqs[q].at /\ (y(q).at # "idle" => y(q).beside = reqs[q].beside)
  <2>1. Sound(reqs[q], library, Lore!Contents(index), reports)
    BY <1>1 DEF EachIsSound
  <2>2. CASE reqs[q].at \in Searching /\ reqs[q].bundle # b
    BY <2>1, <2>2, CrossedIsSound
  <2>3. CASE ~ (reqs[q].at \in Searching /\ reqs[q].bundle # b)
    BY <1>5, <2>1, <2>3, OtherRowsAreSound
  <2> QED
    BY <2>2, <2>3
<1> HIDE DEF y
<1>10. Lore!Alone'
  <2>1. reqs[r].at \notin {"idle", "answered"}
    BY <1>2
  <2> QED
    BY <1>1, <1>3, <1>7, <1>9, <2>1 DEF Lore!Alone
<1> QED
  BY <1>2, <1>3, <1>6, <1>8, <1>9, <1>10, LoreInvNext

\* One request moves and what all share changes with it.
LEMMA OneMovesOn ==
    ASSUME Lore!WellFormed, Lore!LoreInv, NEW r \in Requests, NEW x, reqs' = [reqs EXCEPT ![r] = x], Base',
           Sound(x, library', Lore!Contents(index'), reports'),
           \A p \in Requests : p # r => Sound(reqs[p], library', Lore!Contents(index'), reports'),
           x.at = "idle" \/ reqs[r].at # "idle",
           x.at \notin {"idle", "answered"} /\ ~ x.beside => reqs[r].at \notin {"idle", "answered"} /\ ~ reqs[r].beside
    PROVE  Lore!LoreInv'
<1>1. Lore!Alone /\ EachIsSound
  BY LoreInvIs
<1>2. Lore!Alone'
  BY <1>1, AloneStays DEF EachIsSound
<1>3. DOMAIN reqs' = Requests /\ \A p \in Requests : Sound(reqs'[p], library', Lore!Contents(index'), reports')
  BY <1>1 DEF EachIsSound
<1> QED
  BY <1>2, <1>3, LoreInvNext

\* Being done.
LEMMA IdleIsSound ==
    ASSUME NEW lib, NEW rows, NEW table
    PROVE  Sound(Lore!Idle, lib, rows, table) /\ Lore!Idle.at = "idle"
<1> DEFINE x == Lore!Idle
<1>1. x.at = "idle"
  BY DEF Lore!Idle
<1>2. Lore!Steps(x)
  BY DEF Lore!Steps
<1> HIDE DEF x
<1>3. Sound(x, lib, rows, table)
  BY <1>1, <1>2 DEF Sound, RowsOf, FiledOf, TellsOf, Lore!Looking, Lore!Telling
<1> QED
  BY <1>1, <1>3 DEF x

LEMMA SyncKeeps ==
    ASSUME Lore!WellFormed, Lore!LoreInv, NEW r \in Requests, Lore!SyncReferences(r)
    PROVE  Lore!LoreInv'
<1>1. Base /\ Lore!Alone /\ EachIsSound
  BY LoreInvIs
<1> DEFINE x == [reqs[r] EXCEPT !.at = "embed"]
<1>2. /\ reqs[r].at = "sync" /\ index' = Lore!ReplaceReferenceIndex(index, library)
      /\ reqs' = [reqs EXCEPT ![r] = x]
      /\ world' = world /\ library' = library /\ vectors' = vectors /\ reports' = reports /\ spent' = spent
  BY DEF Lore!SyncReferences
<1>3. Lore!Contents(index') = Lore!Contents(index) /\ Lore!Chunks(index') = Lore!ChunkRows(library)
  BY <1>1, <1>2, Replaced DEF Base
<1>4. Base'
  BY <1>1, <1>2, <1>3 DEF Base
<1>5. Sound(reqs[r], library, Lore!Contents(index), reports)
  BY <1>1 DEF EachIsSound
<1>6. /\ x.at = "embed" /\ x.bundle = reqs[r].bundle /\ x.dense = reqs[r].dense /\ x.beside = reqs[r].beside
      /\ x.crossed = reqs[r].crossed /\ Lore!Steps(x)
      /\ reqs[r].at \in Lore!Looking /\ "embed" \in Lore!Looking /\ "embed" \notin Lore!Telling
  <2>1. /\ Lore!Steps(reqs[r]) /\ reqs[r].at \in Lore!Looking
        /\ "embed" \in Lore!Looking /\ "embed" \notin Lore!Telling
    BY <1>2, <1>5 DEF Sound, Lore!Looking, Lore!Telling
  <2> QED
    BY ONLY <2>1, LookingGoesOn
<1> HIDE DEF x
<1>7. Sound(x, library, Lore!Contents(index), reports)
  BY <1>2, <1>5, <1>6 DEF Sound, RowsOf, FiledOf, TellsOf
<1>8. \A p \in Requests : Sound(reqs[p], library, Lore!Contents(index), reports)
  BY <1>1 DEF EachIsSound
<1>9. x.at \notin {"idle", "answered"} /\ ~ x.beside => reqs[r].at \notin {"idle", "answered"} /\ ~ reqs[r].beside
  BY <1>2, <1>6
<1> QED
  BY <1>2, <1>3, <1>4, <1>6, <1>7, <1>8, <1>9, OneMovesOn

\* The model may have been replaced, and nothing else.
LEMMA SettledIs ==
    ASSUME NEW q, Lore!Steps(q), q.at \in Lore!Looking, NEW found
    PROVE  \A s \in Lore!Settled(q, found # {}) :
             /\ DOMAIN s = {"at", "use", "bundle", "model", "loaded", "dense", "space", "pack", "crossed", "beside"}
             /\ s.at = q.at /\ s.use = q.use /\ s.bundle = q.bundle /\ s.dense = q.dense /\ s.space = q.space
             /\ s.pack = q.pack /\ s.crossed = q.crossed /\ s.beside = q.beside
             /\ s.model \in {"st", "hashing"}
<1>1. /\ DOMAIN q = {"at", "use", "bundle", "model", "loaded", "dense", "space", "pack", "crossed", "beside"}
      /\ q.model \in {"st", "hashing"}
  BY Looks
<1> SUFFICES ASSUME NEW s \in Lore!Settled(q, found # {})
             PROVE  /\ DOMAIN s = DOMAIN q
                    /\ s.at = q.at /\ s.use = q.use /\ s.bundle = q.bundle /\ s.dense = q.dense /\ s.space = q.space
                    /\ s.pack = q.pack /\ s.crossed = q.crossed /\ s.beside = q.beside
                    /\ s.model \in {"st", "hashing"}
  BY <1>1
<1>2. \/ s = q \/ s = [q EXCEPT !.loaded = TRUE] \/ s = [q EXCEPT !.loaded = TRUE, !.model = "hashing"]
  BY DEF Lore!Settled
<1> QED
  BY ONLY <1>1, <1>2

LEMMA EmbedKeeps ==
    ASSUME Lore!WellFormed, Lore!LoreInv, NEW r \in Requests, Lore!Embed(r)
    PROVE  Lore!LoreInv'
<1>1. Base /\ Lore!Alone /\ EachIsSound
  BY LoreInvIs
<1> DEFINE chunks == reqs[r].at = "embed chunks"
           rows   == IF chunks THEN Lore!Chunks(index) ELSE Lore!Contents(index)
           key    == reqs[r].model
           next   == IF chunks THEN "recall" ELSE "embed chunks"
<1>2. /\ reqs[r].at \in {"embed", "embed chunks"}
      /\ world' = world /\ library' = library /\ index' = index /\ reports' = reports /\ spent' = spent
  BY DEF Lore!Embed
<1>3. PICK s \in Lore!Settled(reqs[r], Lore!ToEmbed(vectors, rows, key) # {}) :
             /\ vectors' = Lore!Reindexed(vectors, rows, chunks, key, s.model)
             /\ reqs' = [reqs EXCEPT ![r] = [s EXCEPT !.at = next, !.dense = @ \cup rows, !.space = s.model]]
  BY DEF Lore!Embed
<1> DEFINE x == [s EXCEPT !.at = next, !.dense = @ \cup rows, !.space = s.model]
<1>4. Sound(reqs[r], library, Lore!Contents(index), reports)
  BY <1>1 DEF EachIsSound
<1>5. /\ reqs[r].at \in Lore!Looking /\ reqs[r].at # "idle"
      /\ next \in {"recall", "embed chunks"} /\ next \in Lore!Looking /\ next \notin Lore!Telling
  BY <1>2 DEF Lore!Looking, Lore!Telling
<1>6. /\ DOMAIN s = {"at", "use", "bundle", "model", "loaded", "dense", "space", "pack", "crossed", "beside"}
      /\ s.bundle = reqs[r].bundle /\ s.dense = reqs[r].dense /\ s.use = reqs[r].use
      /\ s.crossed = reqs[r].crossed /\ s.beside = reqs[r].beside /\ s.model \in {"st", "hashing"}
  <2> DEFINE found == Lore!ToEmbed(vectors, rows, key)
  <2>1. Lore!Steps(reqs[r])
    BY <1>4 DEF Sound
  <2> HIDE DEF rows
  <2>2. s \in Lore!Settled(reqs[r], found # {})
    OBVIOUS
  <2> HIDE DEF found
  <2> QED
    <3> HIDE DEF next, x
    <3>1. reqs[r].at \in Lore!Looking
      BY <1>5
    <3> QED
      BY ONLY <3>1, <2>1, <2>2, SettledIs
<1>7. s.use \in Lore!Uses
  BY <1>4, <1>5, <1>6, Looks DEF Sound
<1>8. /\ DOMAIN x = DOMAIN s /\ x.at = next /\ x.use = s.use /\ x.model = s.model
      /\ x.bundle = reqs[r].bundle /\ x.dense = reqs[r].dense \cup rows
      /\ x.crossed = reqs[r].crossed /\ x.beside = reqs[r].beside
  BY <1>6
<1>9. \A v \in vectors' : v.key = v.space /\ v.key \in {"st", "hashing"}
  <2>1. \A v \in vectors : v.key = v.space /\ v.key \in {"st", "hashing"}
    BY <1>1 DEF Base
  <2>2. \A row : Lore!Vector(row, s.model, s.model).key = s.model /\ Lore!Vector(row, s.model, s.model).space = s.model
    BY DEF Lore!Vector
  <2> DEFINE new == {Lore!Vector(row, s.model, s.model) : row \in Lore!ToEmbed(vectors, rows, s.model)}
  <2>3. \A v \in new : v.key = v.space /\ v.key \in {"st", "hashing"}
    <3>1. s.model \in {"st", "hashing"} /\ \A v \in new : \E row : v = Lore!Vector(row, s.model, s.model)
      BY ONLY <1>6
    <3> HIDE DEF new
    <3> QED
      BY ONLY <3>1, <2>2
  <2> HIDE DEF new
  <2>4. \A v \in Lore!Upserted(vectors, new) : v.key = v.space /\ v.key \in {"st", "hashing"}
    BY <2>1, <2>3 DEF Lore!Upserted
  <2>5. vectors' = vectors \/ vectors' = Lore!Pruned(Lore!Upserted(vectors, new), rows, s.model, chunks)
    BY <1>3 DEF Lore!Reindexed, new
  <2>6. vectors' \subseteq vectors \/ vectors' \subseteq Lore!Upserted(vectors, new)
    BY <2>5 DEF Lore!Pruned
  <2> QED
    BY <2>1, <2>4, <2>6
<1>10. Lore!Steps(x)
  BY <1>5, <1>6, <1>7, <1>8 DEF Lore!Steps
<1>11. rows \subseteq Lore!Contents(index) \/ rows \subseteq Lore!Chunks(index)
  OBVIOUS
<1> HIDE DEF next, rows, x
<1>12. Lore!Chunks(x.dense) \subseteq Lore!ChunkRows(library)
  <2>1. Lore!Chunks(reqs[r].dense) \subseteq Lore!ChunkRows(library) /\ Lore!Chunks(index) \subseteq Lore!ChunkRows(library)
    BY <1>1, <1>4, <1>5 DEF Base, Sound, FiledOf
  <2> QED
    BY <1>8, <1>11, <2>1 DEF Lore!Chunks, Lore!Contents
<1>13. RowsOf(x, Lore!Contents(index))
  <2>1. ASSUME ~ x.crossed
        PROVE  Lore!Contents(index) = Lore!ContentRows(x.bundle) /\ Lore!Contents(x.dense) \subseteq Lore!ContentRows(x.bundle)
    <3>1. Lore!Contents(index) = Lore!ContentRows(x.bundle) /\ Lore!Contents(reqs[r].dense) \subseteq Lore!ContentRows(x.bundle)
      BY <1>2, <1>4, <1>8, <2>1 DEF Sound, RowsOf
    <3>2. Lore!Contents(x.dense) \subseteq Lore!Contents(reqs[r].dense) \cup Lore!Contents(index)
      BY <1>8, <1>11 DEF Lore!Chunks, Lore!Contents
    <3> QED
      BY <3>1, <3>2
  <2> QED
    BY <1>5, <1>8, <2>1 DEF RowsOf
<1>14. Sound(x, library, Lore!Contents(index), reports)
  BY <1>4, <1>5, <1>8, <1>10, <1>12, <1>13 DEF Sound, FiledOf, TellsOf
<1>15. /\ x.at = "idle" \/ reqs[r].at # "idle"
       /\ x.at \notin {"idle", "answered"} /\ ~ x.beside => reqs[r].at \notin {"idle", "answered"} /\ ~ reqs[r].beside
  BY <1>2, <1>8
<1>16. reqs' = [reqs EXCEPT ![r] = x]
  BY <1>3 DEF x
<1> QED
  BY <1>2, <1>9, <1>14, <1>15, <1>16, OneMoves

\* What is fused: the texts of each ref.
LEMMA FusedAre ==
    ASSUME NEW hits, NEW pack \in Lore!Packs(Lore!Fuse(hits)), NEW h \in pack
    PROVE  /\ \E k \in hits : k.ref = h.ref
           /\ h.texts = {k.text : k \in {k \in hits : k.ref = h.ref}}
<1>1. h \in Lore!Fuse(hits)
  BY DEF Lore!Packs
<1>2. PICK ref \in {k.ref : k \in hits} : h = [ref |-> ref, texts |-> {k.text : k \in {k \in hits : k.ref = ref}}]
  BY <1>1 DEF Lore!Fuse
<1> QED
  BY <1>2

\* What is recalled is no part of the library; of a request that nobody crossed it is its world, or a report.
LEMMA RecalledAre ==
    ASSUME Lore!WellFormed, NEW q, q.bundle \in Worlds, NEW asked,
           \/ /\ Lore!Contents(index) = Lore!ContentRows(q.bundle)
              /\ Lore!Contents(q.dense) \subseteq Lore!ContentRows(q.bundle)
           \/ q.crossed,
           NEW h \in Lore!Recalled(q, asked)
    PROVE  /\ ~ Lore!IsChunk(h.ref)
           /\ \/ h.ref[1] = "community" \/ q.crossed
              \/ \E row \in Lore!ContentRows(q.bundle) : row.ref = h.ref /\ row.text = h.text
<1> DEFINE rows  == Lore!Contents(index)
           dense == Lore!Contents(Lore!DenseRows(q))
           found == ((Lore!Hits(Lore!Mentioning(rows, asked)) \cup Lore!Hits(dense))
                     \cup Lore!GraphHits(q.bundle, asked)) \cup Lore!CommunityHits
           Fine(k) == /\ ~ Lore!IsChunk(k.ref)
                      /\ \/ k.ref[1] = "community" \/ q.crossed
                         \/ \E row \in Lore!ContentRows(q.bundle) : row.ref = k.ref /\ row.text = k.text
<1>1. ASSUME NEW some, some \subseteq rows \cup dense, NEW k \in Lore!Hits(some)
      PROVE  Fine(k)
  <2>1. PICK row \in some : k = Lore!Hit(row.ref, row.text)
    BY <1>1 DEF Lore!Hits
  <2>2. k.ref = row.ref /\ k.text = row.text
    BY <2>1 DEF Lore!Hit
  <2>3. row \in rows \/ row \in dense
    BY <1>1
  <2>4. ~ Lore!IsChunk(row.ref)
    BY <2>3 DEF Lore!Contents
  <2>5. dense \subseteq Lore!Contents(q.dense)
    BY DEF Lore!DenseRows, Lore!Contents
  <2>6. q.crossed \/ row \in Lore!ContentRows(q.bundle)
    BY <2>3, <2>5
  <2> QED
    BY <2>2, <2>4, <2>6
<1>2. ASSUME NEW k \in Lore!GraphHits(q.bundle, asked)
      PROVE  Fine(k)
  <2> DEFINE b == q.bundle
  <2>1. PICK o \in Lore!Objects(b) : o[1] \in Lore!Shown /\ k = Lore!Hit(o, Lore!Words(b, o))
    BY <1>2 DEF Lore!GraphHits
  <2>2. k.ref = o /\ k.text = Lore!Words(b, o) /\ o[1] # "style_guide" /\ ~ Lore!IsChunk(o)
    BY <2>1 DEF Lore!Hit, Lore!Shown, Lore!IsChunk
  <2> DEFINE row == Lore!Row(o, Lore!Words(b, o), {o[2]} \cup {u.id : u \in {u \in b.uses : u.owner = o}})
  <2>3. row \in Lore!ContentRows(b)
    BY <2>2 DEF Lore!ContentRows
  <2>4. row.ref = o /\ row.text = Lore!Words(b, o)
    BY DEF Lore!Row
  <2> HIDE DEF row
  <2> QED
    BY <2>2, <2>3, <2>4
<1>3. ASSUME NEW k \in Lore!CommunityHits
      PROVE  Fine(k)
  <2>1. PICK id : k = Lore!Hit(<<"community", id>>, "summary")
    BY <1>3 DEF Lore!CommunityHits
  <2> QED
    BY <2>1 DEF Lore!Hit, Lore!IsChunk
<1>4. h \in found \/ h \in Lore!Hits(Lore!RelationRows(rows, found))
  BY DEF Lore!Recalled
<1>5. Lore!RelationRows(rows, found) \subseteq rows
  <2> HIDE DEF found
  <2> QED
    BY DEF Lore!RelationRows
<1>6. Lore!Mentioning(rows, asked) \subseteq rows
  BY DEF Lore!Mentioning
<1>7. Fine(h)
  <2>1. \/ h \in Lore!Hits(Lore!Mentioning(rows, asked)) \/ h \in Lore!Hits(dense)
        \/ h \in Lore!GraphHits(q.bundle, asked) \/ h \in Lore!CommunityHits
        \/ h \in Lore!Hits(Lore!RelationRows(rows, found))
    <3> HIDE DEF rows, dense
    <3> QED
      BY <1>4
  <2>2. \A some : some \subseteq rows \cup dense => \A k \in Lore!Hits(some) : Fine(k)
    BY <1>1
  <2> HIDE DEF rows, dense, found, Fine
  <2>3. /\ Lore!Mentioning(rows, asked) \subseteq rows \cup dense /\ dense \subseteq rows \cup dense
        /\ Lore!RelationRows(rows, found) \subseteq rows \cup dense
    BY <1>5, <1>6
  <2> QED
    BY <1>2, <1>3, <2>1, <2>2, <2>3
<1> QED
  BY <1>7

LEMMA RecallKeeps ==
    ASSUME Lore!WellFormed, Lore!LoreInv, NEW r \in Requests, Lore!Recall(r)
    PROVE  Lore!LoreInv'
<1>1. Base /\ Lore!Alone /\ EachIsSound
  BY LoreInvIs
<1>2. /\ reqs[r].at = "recall"
      /\ world' = world /\ library' = library /\ index' = index /\ vectors' = vectors /\ reports' = reports /\ spent' = spent
  BY DEF Lore!Recall
<1>3. PICK s \in Lore!Settled(reqs[r], Lore!Contents(reqs[r].dense) # {}) :
        \E asked \in SUBSET Questions : \E pack \in Lore!Packs(Lore!Fuse(Lore!Recalled(s, asked))) :
           reqs' = [reqs EXCEPT ![r] = [s EXCEPT !.at = "prompted", !.pack = pack, !.dense = {}]]
  BY DEF Lore!Recall
<1>4. PICK asked \in SUBSET Questions : \E pack \in Lore!Packs(Lore!Fuse(Lore!Recalled(s, asked))) :
           reqs' = [reqs EXCEPT ![r] = [s EXCEPT !.at = "prompted", !.pack = pack, !.dense = {}]]
  BY <1>3
<1>5. PICK pack \in Lore!Packs(Lore!Fuse(Lore!Recalled(s, asked))) :
           reqs' = [reqs EXCEPT ![r] = [s EXCEPT !.at = "prompted", !.pack = pack, !.dense = {}]]
  BY <1>4
<1>6. Sound(reqs[r], library, Lore!Contents(index), reports)
  BY <1>1 DEF EachIsSound
<1>7. reqs[r].at \in Lore!Looking /\ Lore!Steps(reqs[r])
  BY <1>2, <1>6 DEF Sound, Lore!Looking
<1>8. /\ DOMAIN s = {"at", "use", "bundle", "model", "loaded", "dense", "space", "pack", "crossed", "beside"}
      /\ s.use = reqs[r].use /\ s.bundle = reqs[r].bundle /\ s.dense = reqs[r].dense /\ s.crossed = reqs[r].crossed
      /\ s.beside = reqs[r].beside /\ s.model \in {"st", "hashing"}
  <2> DEFINE found == Lore!Contents(reqs[r].dense)
  <2>1. s \in Lore!Settled(reqs[r], found # {})
    BY <1>3
  <2> HIDE DEF found
  <2> QED
    BY ONLY <1>7, <2>1, SettledIs
<1> DEFINE x == [s EXCEPT !.at = "prompted", !.pack = pack, !.dense = {}]
<1>9. /\ DOMAIN x = DOMAIN s /\ x.at = "prompted" /\ x.use = s.use /\ x.model = s.model /\ x.bundle = s.bundle
      /\ x.dense = {} /\ x.pack = pack /\ x.crossed = s.crossed /\ x.beside = s.beside
  BY <1>8
<1>10. reqs' = [reqs EXCEPT ![r] = x]
  BY <1>5
<1> HIDE DEF x
<1>11. Lore!Steps(x)
  BY <1>7, <1>8, <1>9, Looks DEF Lore!Steps, Lore!Looking
<1>12. s.bundle \in Worlds
  BY <1>2, <1>6, <1>8 DEF Sound
<1>13. ASSUME NEW h \in pack
       PROVE  ~ Lore!IsChunk(h.ref) /\ (~ s.crossed => Lore!Canonic(s.bundle, h))
  <2> DEFINE hits == Lore!Recalled(s, asked)
  <2>1. \/ /\ Lore!Contents(index) = Lore!ContentRows(s.bundle)
           /\ Lore!Contents(s.dense) \subseteq Lore!ContentRows(s.bundle)
        \/ s.crossed
    BY <1>2, <1>6, <1>8 DEF Sound, RowsOf
  <2>2. \A k \in hits : /\ ~ Lore!IsChunk(k.ref)
                        /\ \/ k.ref[1] = "community" \/ s.crossed
                           \/ \E row \in Lore!ContentRows(s.bundle) : row.ref = k.ref /\ row.text = k.text
    BY <1>12, <2>1, RecalledAre
  <2> HIDE DEF hits
  <2>3. (\E k \in hits : k.ref = h.ref) /\ h.texts = {k.text : k \in {k \in hits : k.ref = h.ref}}
    BY <1>13, FusedAre DEF hits
  <2>4. ~ Lore!IsChunk(h.ref)
    BY <2>2, <2>3
  <2>5. ASSUME ~ s.crossed, h.ref[1] # "community"
        PROVE  \E row \in Lore!ContentRows(s.bundle) : row.ref = h.ref /\ h.texts = {row.text}
    <3>1. PICK k \in hits : k.ref = h.ref
      BY <2>3
    <3>2. PICK row \in Lore!ContentRows(s.bundle) : row.ref = h.ref /\ row.text = k.text
      BY <2>2, <2>5, <3>1
    <3>3. \A j \in hits : j.ref = h.ref => j.text = row.text
      BY <1>12, <2>2, <2>5, <3>2, RowsAre
    <3>4. h.texts = {row.text}
      BY <2>3, <3>1, <3>3
    <3> QED
      BY <3>2, <3>4
  <2> QED
    BY <2>4, <2>5 DEF Lore!Canonic
<1>14. Sound(x, library, Lore!Contents(index), reports)
  <2>1. RowsOf(x, Lore!Contents(index))
    BY <1>9, <1>13 DEF RowsOf
  <2>2. FiledOf(x, library) /\ TellsOf(x, reports)
    BY <1>9 DEF FiledOf, TellsOf, Lore!Telling, Lore!Chunks
  <2> QED
    BY <1>9, <1>11, <1>12, <2>1, <2>2 DEF Sound
<1>15. /\ x.at = "idle" \/ reqs[r].at # "idle"
       /\ x.at \notin {"idle", "answered"} /\ ~ x.beside => reqs[r].at \notin {"idle", "answered"} /\ ~ reqs[r].beside
       /\ \A v \in vectors' : v.key = v.space /\ v.key \in {"st", "hashing"}
  BY <1>1, <1>2, <1>8, <1>9 DEF Base
<1> QED
  BY <1>2, <1>10, <1>14, <1>15, OneMoves

LEMMA SearchReferencesKeeps ==
    ASSUME Lore!WellFormed, Lore!LoreInv, NEW r \in Requests, Lore!SearchReferences(r)
    PROVE  Lore!LoreInv'
<1>1. Base /\ Lore!Alone /\ EachIsSound
  BY LoreInvIs
<1> DEFINE chunks == Lore!Chunks(index)
           found(s) == Lore!Hits(chunks) \cup Lore!Hits(Lore!Chunks(Lore!DenseRows(s)))
           hits(s)  == {h \in found(s) : \E row \in chunks : row.ref = h.ref}
<1>2. /\ reqs[r].at = "recall"
      /\ world' = world /\ library' = library /\ index' = index /\ vectors' = vectors /\ reports' = reports /\ spent' = spent
  BY DEF Lore!SearchReferences
<1>3. PICK s \in Lore!Settled(reqs[r], Lore!Chunks(reqs[r].dense) # {}) :
        \E pack \in Lore!Packs(Lore!Fuse(hits(s))) :
           reqs' = [reqs EXCEPT ![r] = [s EXCEPT !.at = "shown", !.pack = pack, !.dense = {}]]
  BY DEF Lore!SearchReferences
<1>4. PICK pack \in Lore!Packs(Lore!Fuse(hits(s))) :
           reqs' = [reqs EXCEPT ![r] = [s EXCEPT !.at = "shown", !.pack = pack, !.dense = {}]]
  BY <1>3
<1>6. Sound(reqs[r], library, Lore!Contents(index), reports)
  BY <1>1 DEF EachIsSound
<1>7. reqs[r].at \in Lore!Looking /\ Lore!Steps(reqs[r])
  BY <1>2, <1>6 DEF Sound, Lore!Looking
<1>8. /\ DOMAIN s = {"at", "use", "bundle", "model", "loaded", "dense", "space", "pack", "crossed", "beside"}
      /\ s.use = reqs[r].use /\ s.bundle = reqs[r].bundle /\ s.dense = reqs[r].dense /\ s.crossed = reqs[r].crossed
      /\ s.beside = reqs[r].beside /\ s.model \in {"st", "hashing"}
  <2> DEFINE some == Lore!Chunks(reqs[r].dense)
  <2>1. s \in Lore!Settled(reqs[r], some # {})
    BY <1>3
  <2> HIDE DEF some
  <2> QED
    BY ONLY <1>7, <2>1, SettledIs
<1> DEFINE x == [s EXCEPT !.at = "shown", !.pack = pack, !.dense = {}]
<1>9. /\ DOMAIN x = DOMAIN s /\ x.at = "shown" /\ x.use = s.use /\ x.model = s.model /\ x.bundle = s.bundle
      /\ x.dense = {} /\ x.pack = pack /\ x.crossed = s.crossed /\ x.beside = s.beside
  BY <1>8
<1>10. reqs' = [reqs EXCEPT ![r] = x]
  BY <1>4
<1> HIDE DEF x
<1>11. Lore!Steps(x)
  BY <1>7, <1>8, <1>9, Looks DEF Lore!Steps, Lore!Looking
<1>12. s.bundle \in Worlds
  BY <1>2, <1>6, <1>8 DEF Sound
<1>13. ASSUME NEW h \in pack
       PROVE  <<h.ref[2], h.ref[3]>> \in DOMAIN library /\ h.texts = {library[<<h.ref[2], h.ref[3]>>]}
  <2>1. \A k \in hits(s) : /\ <<k.ref[2], k.ref[3]>> \in DOMAIN library
                           /\ k.text = library[<<k.ref[2], k.ref[3]>>]
    <3>1. chunks \subseteq Lore!ChunkRows(library) /\ Lore!Chunks(Lore!DenseRows(s)) \subseteq Lore!ChunkRows(library)
      BY <1>1, <1>6, <1>7, <1>8 DEF Base, Sound, FiledOf, Lore!DenseRows, Lore!Chunks
    <3> SUFFICES ASSUME NEW k \in hits(s)
                 PROVE  /\ <<k.ref[2], k.ref[3]>> \in DOMAIN library
                        /\ k.text = library[<<k.ref[2], k.ref[3]>>]
      OBVIOUS
    <3>2. k \in Lore!Hits(chunks) \/ k \in Lore!Hits(Lore!Chunks(Lore!DenseRows(s)))
      OBVIOUS
    <3>3. PICK row \in Lore!ChunkRows(library) : k = Lore!Hit(row.ref, row.text)
      BY <3>1, <3>2 DEF Lore!Hits
    <3>4. k.ref = row.ref /\ k.text = row.text
      BY <3>3 DEF Lore!Hit
    <3>5. <<row.ref[2], row.ref[3]>> \in DOMAIN library /\ row.text = library[<<row.ref[2], row.ref[3]>>]
      BY <1>1, ChunkRowsAre DEF Base
    <3> QED
      BY <3>4, <3>5
  <2> HIDE DEF hits
  <2>2. (\E k \in hits(s) : k.ref = h.ref) /\ h.texts = {k.text : k \in {k \in hits(s) : k.ref = h.ref}}
    BY <1>13, FusedAre
  <2> QED
    BY <2>1, <2>2
<1>14. Sound(x, library, Lore!Contents(index), reports)
  <2>1. RowsOf(x, Lore!Contents(index))
    BY <1>9 DEF RowsOf
  <2>2. FiledOf(x, library) /\ TellsOf(x, reports)
    BY <1>9, <1>13 DEF FiledOf, TellsOf, Lore!Telling, Lore!Chunks
  <2> QED
    BY <1>9, <1>11, <1>12, <2>1, <2>2 DEF Sound
<1>15. /\ x.at = "idle" \/ reqs[r].at # "idle"
       /\ x.at \notin {"idle", "answered"} /\ ~ x.beside => reqs[r].at \notin {"idle", "answered"} /\ ~ reqs[r].beside
       /\ \A v \in vectors' : v.key = v.space /\ v.key \in {"st", "hashing"}
  BY <1>1, <1>2, <1>8, <1>9 DEF Base
<1> QED
  BY <1>2, <1>10, <1>14, <1>15, OneMoves

\* What is filed stays as it is when the library grows.
LEMMA MoreIsFiled ==
    ASSUME NEW q, NEW lib, NEW rows, NEW table, Sound(q, lib, rows, table), NEW more,
           \A c \in DOMAIN lib : c \in DOMAIN more /\ more[c] = lib[c]
    PROVE  Sound(q, more, rows, table)
<1>1. Lore!ChunkRows(lib) \subseteq Lore!ChunkRows(more)
  BY DEF Lore!ChunkRows
<1>2. FiledOf(q, more)
  BY <1>1 DEF Sound, FiledOf
<1> QED
  BY <1>2 DEF Sound

LEMMA AddTextKeeps ==
    ASSUME Lore!WellFormed, Lore!LoreInv, NEW r \in Requests, Lore!AddText(r)
    PROVE  Lore!LoreInv'
<1>1. Base /\ Lore!Alone /\ EachIsSound
  BY LoreInvIs
<1> DEFINE x == [reqs[r] EXCEPT !.at = "resync"]
<1>2. /\ reqs[r].at = "recall" /\ reqs' = [reqs EXCEPT ![r] = x]
      /\ world' = world /\ index' = index /\ vectors' = vectors /\ reports' = reports /\ spent' = spent
  BY DEF Lore!AddText
<1>3. PICK source \in Sources, n \in 1..MaxServed :
           library' = [i \in DOMAIN library \cup {<<source, n>>} |-> i[1]]
  BY DEF Lore!AddText
<1>4. /\ \A c \in DOMAIN library : c \in DOMAIN library' /\ library'[c] = library[c]
      /\ \A c \in DOMAIN library' : library'[c] \in Sources /\ c = <<c[1], c[2]>> /\ library'[c] = c[1]
  <2>1. \A c \in DOMAIN library : library[c] \in Sources /\ c = <<c[1], c[2]>> /\ library[c] = c[1]
    BY <1>1 DEF Base
  <2> QED
    BY <1>3, <2>1
<1>5. Lore!ChunkRows(library) \subseteq Lore!ChunkRows(library')
  BY <1>4 DEF Lore!ChunkRows
<1>6. Base'
  BY <1>1, <1>2, <1>4, <1>5 DEF Base
<1>7. \A p \in Requests : Sound(reqs[p], library', Lore!Contents(index), reports)
  BY <1>1, <1>4, MoreIsFiled DEF EachIsSound
<1>8. /\ x.at = "resync" /\ x.bundle = reqs[r].bundle /\ x.dense = reqs[r].dense /\ x.beside = reqs[r].beside
      /\ Lore!Steps(x) /\ reqs[r].at \in Lore!Looking /\ "resync" \in Lore!Looking /\ "resync" \notin Lore!Telling
  BY <1>2, <1>7, LookingGoesOn DEF Sound, Lore!Looking, Lore!Telling
<1> HIDE DEF x
<1>9. Sound(x, library', Lore!Contents(index), reports)
  BY <1>2, <1>7, <1>8 DEF Sound, RowsOf, FiledOf, TellsOf
<1>10. /\ x.at = "idle" \/ reqs[r].at # "idle"
       /\ x.at \notin {"idle", "answered"} /\ ~ x.beside => reqs[r].at \notin {"idle", "answered"} /\ ~ reqs[r].beside
  BY <1>2, <1>8
<1> QED
  BY <1>2, <1>6, <1>7, <1>9, <1>10, OneMovesOn

LEMMA ResyncKeeps ==
    ASSUME Lore!WellFormed, Lore!LoreInv, NEW r \in Requests, Lore!Resync(r)
    PROVE  Lore!LoreInv'
<1>1. Base /\ Lore!Alone /\ EachIsSound
  BY LoreInvIs
<1>2. /\ index' = Lore!ReplaceReferenceIndex(index, library) /\ reqs' = [reqs EXCEPT ![r] = Lore!Idle]
      /\ world' = world /\ library' = library /\ vectors' = vectors /\ reports' = reports /\ spent' = spent
  BY DEF Lore!Resync
<1>3. Lore!Contents(index') = Lore!Contents(index) /\ Lore!Chunks(index') = Lore!ChunkRows(library)
  BY <1>1, <1>2, Replaced DEF Base
<1>4. Base'
  BY <1>1, <1>2, <1>3 DEF Base
<1>5. \A p \in Requests : Sound(reqs[p], library, Lore!Contents(index), reports)
  BY <1>1 DEF EachIsSound
<1> QED
  BY <1>2, <1>3, <1>4, <1>5, IdleIsSound, OneMovesOn

LEMMA CloseKeeps ==
    ASSUME Lore!WellFormed, Lore!LoreInv, NEW r \in Requests, Lore!Close(r)
    PROVE  Lore!LoreInv'
<1>1. Base
  BY LoreInvIs
<1>2. /\ reqs' = [reqs EXCEPT ![r] = Lore!Idle]
      /\ world' = world /\ library' = library /\ index' = index /\ vectors' = vectors /\ reports' = reports /\ spent' = spent
  BY DEF Lore!Close
<1>3. \A v \in vectors' : v.key = v.space /\ v.key \in {"st", "hashing"}
  BY <1>1, <1>2 DEF Base
<1> QED
  BY <1>2, <1>3, IdleIsSound, OneMoves

LEMMA RefuseKeeps ==
    ASSUME Lore!WellFormed, Lore!LoreInv, NEW r \in Requests, reqs[r].at = "prompted",
           reqs' = [reqs EXCEPT ![r].at = "refused"],
           UNCHANGED <<world, library, index, vectors, reports, spent>>
    PROVE  Lore!LoreInv'
<1>1. Base /\ Lore!Alone /\ EachIsSound
  BY LoreInvIs
<1> DEFINE x == [reqs[r] EXCEPT !.at = "refused"]
<1>2. reqs' = [reqs EXCEPT ![r] = x]
  OBVIOUS
<1>3. Sound(reqs[r], library, Lore!Contents(index), reports)
  BY <1>1 DEF EachIsSound
<1>4. /\ x.at = "refused" /\ x.bundle = reqs[r].bundle /\ x.dense = reqs[r].dense /\ x.beside = reqs[r].beside
      /\ Lore!Steps(x) /\ reqs[r].at \in Lore!Looking /\ "refused" \in Lore!Looking /\ "refused" \notin Lore!Telling
  BY <1>3, LookingGoesOn DEF Sound, Lore!Looking, Lore!Telling
<1> HIDE DEF x
<1>5. Sound(x, library, Lore!Contents(index), reports)
  BY <1>3, <1>4 DEF Sound, RowsOf, FiledOf, TellsOf
<1>6. /\ x.at = "idle" \/ reqs[r].at # "idle"
      /\ x.at \notin {"idle", "answered"} /\ ~ x.beside => reqs[r].at \notin {"idle", "answered"} /\ ~ reqs[r].beside
      /\ \A v \in vectors' : v.key = v.space /\ v.key \in {"st", "hashing"}
  BY <1>1, <1>4 DEF Base
<1> QED
  BY <1>2, <1>5, <1>6, OneMoves

LEMMA AnswerKeeps ==
    ASSUME Lore!WellFormed, Lore!LoreInv, NEW r \in Requests, Lore!Answer(r)
    PROVE  Lore!LoreInv'
<1>1. Base /\ Lore!Alone /\ EachIsSound
  BY LoreInvIs
<1>2. reqs[r].at = "prompted" /\ UNCHANGED <<world, library, index, vectors, reports, spent>>
  BY DEF Lore!Answer
<1>3. CASE reqs' = [reqs EXCEPT ![r].at = "refused"]
  BY <1>2, <1>3, RefuseKeeps
<1>4. CASE \E cites, mentioned : /\ Lore!Valid(reqs[r], cites, mentioned)
                                 /\ reqs' = [reqs EXCEPT ![r].at = "answered", ![r].pack = Lore!Cited(reqs[r], cites)]
  <2>1. PICK cites, mentioned :
           /\ Lore!Valid(reqs[r], cites, mentioned)
           /\ reqs' = [reqs EXCEPT ![r].at = "answered", ![r].pack = Lore!Cited(reqs[r], cites)]
    BY <1>4
  <2> DEFINE cited == Lore!Cited(reqs[r], cites)
             x == [reqs[r] EXCEPT !.at = "answered", !.pack = cited]
  <2>2. Sound(reqs[r], library, Lore!Contents(index), reports) /\ DOMAIN reqs = Requests
    BY <1>1 DEF EachIsSound
  <2>3. /\ DOMAIN reqs[r] = {"at", "use", "bundle", "model", "loaded", "dense", "space", "pack", "crossed", "beside"}
        /\ reqs[r].use \in Lore!Uses /\ reqs[r].model \in {"st", "hashing"}
        /\ reqs[r].at \in Lore!Looking /\ "answered" \in Lore!Looking /\ "answered" \notin Lore!Telling
    BY <1>2, <2>2, Looks DEF Sound, Lore!Looking, Lore!Telling
  <2>4. reqs' = [reqs EXCEPT ![r] = x]
    <3> HIDE DEF cited
    <3>1. reqs' = [reqs EXCEPT ![r].at = "answered", ![r].pack = cited]
      BY <2>1 DEF cited
    <3> QED
      BY <2>2, <3>1
  <2>5. cited \subseteq reqs[r].pack /\ cited # {}
    <3> DEFINE refs == {h.ref : h \in reqs[r].pack}
               all  == UNION {Lore!Canonical(raw, refs) : raw \in cites}
    <3>1. PICK raw \in cites : Lore!Canonical(raw, refs) # {}
      BY <2>1 DEF Lore!Valid
    <3>2. Lore!Canonical(raw, refs) \subseteq refs
      BY DEF Lore!Canonical
    <3>3. PICK ref \in Lore!Canonical(raw, refs) : ref \in refs
      BY <3>1, <3>2
    <3>4. ref \in all
      BY <3>1, <3>3
    <3>5. cited = {h \in reqs[r].pack : h.ref \in all}
      BY DEF Lore!Cited
    <3> QED
      BY <3>3, <3>4, <3>5
  <2> HIDE DEF cited
  <2>6. /\ DOMAIN x = DOMAIN reqs[r] /\ x.at = "answered" /\ x.use = reqs[r].use /\ x.model = reqs[r].model
        /\ x.bundle = reqs[r].bundle /\ x.dense = reqs[r].dense /\ x.pack = cited /\ x.crossed = reqs[r].crossed
        /\ x.beside = reqs[r].beside
    BY <2>3
  <2> HIDE DEF x
  <2>7. Lore!Steps(x)
    BY <2>3, <2>6 DEF Lore!Steps
  <2>8. Sound(x, library, Lore!Contents(index), reports)
    <3>1. RowsOf(x, Lore!Contents(index))
      BY <1>2, <2>2, <2>5, <2>6 DEF Sound, RowsOf
    <3>2. FiledOf(x, library) /\ TellsOf(x, reports)
      BY <2>2, <2>3, <2>6 DEF Sound, FiledOf, TellsOf
    <3> QED
      BY <1>2, <2>2, <2>6, <2>7, <3>1, <3>2 DEF Sound
  <2>9. \A v \in vectors' : v.key = v.space /\ v.key \in {"st", "hashing"}
    BY <1>1, <1>2 DEF Base
  <2> QED
    BY <1>2, <2>4, <2>6, <2>8, <2>9, OneMoves
<1> QED
  BY <1>3, <1>4 DEF Lore!Answer

-----------------------------------------------------------------------------
\* An overview that another request is beside owes nothing to the reports that are stored.
LEMMA OtherReportsAreSound ==
    ASSUME NEW q, NEW lib, NEW rows, NEW table, Sound(q, lib, rows, table), NEW more,
           q.at \in Lore!Telling => q.beside
    PROVE  Sound(q, lib, rows, more)
<1>1. TellsOf(q, more)
  BY DEF Sound, TellsOf
<1> QED
  BY <1>1 DEF Sound

LEMMA OthersAreBeside ==
    ASSUME Lore!Alone, NEW r \in Requests, reqs[r].at # "idle", NEW p \in Requests, p # r
    PROVE  reqs[p].at \in Lore!Telling => reqs[p].beside
BY DEF Lore!Alone, Lore!Telling

\* The reports made so far, and one more.
LEMMA Appended ==
    ASSUME NEW done, done \in Seq(Lore!Range(done)), NEW e
    PROVE  /\ Append(done, e) \in Seq(Lore!Range(Append(done, e)))
           /\ Len(Append(done, e)) = Len(done) + 1 /\ Len(done) \in Nat
           /\ Append(done, e)[Len(done) + 1] = e
           /\ \A k \in 1..Len(done) : Append(done, e)[k] = done[k]
<1> DEFINE S == Lore!Range(done) \cup {e}
           more == Append(done, e)
<1>1. done \in Seq(S) /\ e \in S
  OBVIOUS
<1> HIDE DEF S
<1>2. /\ more \in Seq(S) /\ Len(more) = Len(done) + 1 /\ Len(done) \in Nat
      /\ more[Len(done) + 1] = e /\ \A k \in 1..Len(done) : more[k] = done[k]
  BY <1>1, AppendProperties, LenProperties
<1>3. more = [k \in 1..Len(more) |-> more[k]] /\ Len(more) \in Nat
  <2>1. more \in [1..Len(more) -> S] /\ Len(more) \in Nat
    BY <1>2, LenProperties
  <2> QED
    BY <2>1
<1>4. \A k \in 1..Len(more) : more[k] \in Lore!Range(more)
  BY <1>3 DEF Lore!Range
<1> HIDE DEF more
<1>5. more \in Seq(Lore!Range(more))
  BY <1>2, <1>3, <1>4
<1> QED
  BY <1>2, <1>5 DEF more

LEMMA StartOverviewKeeps ==
    ASSUME Lore!WellFormed, Lore!LoreInv, NEW r \in Requests, Lore!StartOverview(r)
    PROVE  Lore!LoreInv'
<1>1. Base /\ Lore!Alone /\ EachIsSound
  BY LoreInvIs
<1> DEFINE x == [at |-> "community", use |-> "overview", bundle |-> reqs[r].bundle, beside |-> reqs[r].beside,
                 done |-> <<>>]
<1>2. /\ reqs[r].at = "recall" /\ reqs' = [reqs EXCEPT ![r] = x]
      /\ world' = world /\ library' = library /\ index' = index /\ vectors' = vectors /\ reports' = reports /\ spent' = spent
  BY DEF Lore!StartOverview
<1>3. Sound(reqs[r], library, Lore!Contents(index), reports)
  BY <1>1 DEF EachIsSound
<1>4. /\ x.at = "community" /\ x.bundle = reqs[r].bundle /\ x.beside = reqs[r].beside /\ x.done = <<>>
      /\ Lore!Steps(x)
  BY DEF Lore!Steps, Lore!Telling, Lore!Uses
<1> HIDE DEF x
<1>5. x.bundle \in Worlds
  BY <1>2, <1>3, <1>4 DEF Sound
<1>6. TellsOf(x, reports)
  <2>1. Len(Lore!DetectCommunities(x.bundle)) \in Nat
    BY <1>5, CommunitiesAre
  <2>2. x.done \in Seq(Lore!Range(x.done)) /\ Len(x.done) = 0
    BY <1>4
  <2> QED
    BY <1>4, <2>1, <2>2 DEF TellsOf
<1>7. Sound(x, library, Lore!Contents(index), reports)
  BY <1>4, <1>5, <1>6 DEF Sound, RowsOf, FiledOf, Lore!Looking
<1>8. /\ x.at = "idle" \/ reqs[r].at # "idle"
      /\ x.at \notin {"idle", "answered"} /\ ~ x.beside => reqs[r].at \notin {"idle", "answered"} /\ ~ reqs[r].beside
      /\ \A v \in vectors' : v.key = v.space /\ v.key \in {"st", "hashing"}
  BY <1>1, <1>2, <1>4 DEF Base
<1> QED
  BY <1>2, <1>7, <1>8, OneMoves

\* What a report tells is of the very group that its fingerprint was taken of.
LEMMA TellsOfItsGroup ==
    ASSUME NEW told, NEW fingerprint, NEW b, NEW g, fingerprint = Lore!Fingerprint(b, g)
    PROVE  /\ Lore!ReportOf(told, fingerprint) => Lore!StillTells(told, b, g)
           /\ Lore!StillTells(told, b, g) => Lore!ReportOf(told, fingerprint)
<1>1. \A w, h : DOMAIN Lore!Fingerprint(w, h).members = h /\ DOMAIN Lore!Told(w, h).members = h
  BY DEF Lore!Fingerprint, Lore!Told
<1>2. \A w, h : Lore!Fingerprint(w, h) = [members |-> Lore!Told(w, h).members, ties |-> Lore!Told(w, h).ties]
  BY DEF Lore!Fingerprint, Lore!Told
<1>3. ASSUME Lore!ReportOf(told, fingerprint)
      PROVE  Lore!StillTells(told, b, g)
  <2>1. PICK w \in Worlds : /\ told = Lore!Told(w, DOMAIN told.members)
                            /\ fingerprint = Lore!Fingerprint(w, DOMAIN told.members)
    BY <1>3 DEF Lore!ReportOf
  <2> DEFINE h == DOMAIN told.members
  <2>2. h = g
    <3>1. Lore!Fingerprint(w, h) = Lore!Fingerprint(b, g)
      BY <2>1
    <3>2. DOMAIN Lore!Fingerprint(w, h).members = h /\ DOMAIN Lore!Fingerprint(b, g).members = g
      BY <1>1
    <3> HIDE DEF h
    <3> QED
      BY ONLY <3>1, <3>2
  <2>3. Lore!Fingerprint(w, g) = Lore!Fingerprint(b, g) /\ told = Lore!Told(w, g)
    BY <2>1, <2>2
  <2>4. told.members = Lore!Told(b, g).members /\ told.ties = Lore!Told(b, g).ties
    BY <1>2, <2>3
  <2> QED
    BY <2>3, <2>4 DEF Lore!StillTells
<1>4. ASSUME Lore!StillTells(told, b, g)
      PROVE  Lore!ReportOf(told, fingerprint)
  <2>1. PICK w \in Worlds : told = Lore!Told(w, g)
    BY <1>4 DEF Lore!StillTells
  <2>2. told.members = Lore!Told(b, g).members /\ told.ties = Lore!Told(b, g).ties
    BY <1>4 DEF Lore!StillTells
  <2>3. Lore!Fingerprint(w, g) = fingerprint /\ told = Lore!Told(w, g)
    BY <1>2, <2>1, <2>2
  <2>4. DOMAIN told.members = g
    BY <1>1, <2>3
  <2> QED
    BY <2>3, <2>4 DEF Lore!ReportOf
<1> QED
  BY <1>3, <1>4

\* A report is put among the others.
LEMMA PutIsFiled ==
    ASSUME NEW table, Filed(table), NEW id, NEW e,
           IF id = Lore!GlobalId THEN Lore!OverviewOf(e.told, e.fingerprint) ELSE Lore!ReportOf(e.told, e.fingerprint)
    PROVE  /\ Filed(Lore!Put(table, id, e))
           /\ id \in DOMAIN Lore!Put(table, id, e) /\ Lore!Put(table, id, e)[id] = e
           /\ \A j \in DOMAIN table : j # id => /\ j \in DOMAIN Lore!Put(table, id, e)
                                               /\ Lore!Put(table, id, e)[j] = table[j]
<1> DEFINE more == Lore!Put(table, id, e)
<1>1. DOMAIN more = DOMAIN table \cup {id} /\ \A j \in DOMAIN more : more[j] = IF j = id THEN e ELSE table[j]
  BY DEF Lore!Put
<1> HIDE DEF more
<1>2. Filed(more)
  BY <1>1 DEF Filed
<1> QED
  BY <1>1, <1>2 DEF more

\* One more report is made, and is the one that is stored.
LEMMA ToldIsSound ==
    ASSUME Lore!WellFormed, NEW q, NEW lib, NEW rows, NEW table, Sound(q, lib, rows, table),
           q.at \in {"community", "report"}, Len(q.done) < Len(Lore!DetectCommunities(q.bundle)),
           NEW e, Lore!StillTells(e.told, q.bundle, Lore!DetectCommunities(q.bundle)[Len(q.done) + 1]),
           e.fingerprint = Lore!Fingerprint(q.bundle, Lore!DetectCommunities(q.bundle)[Len(q.done) + 1]),
           NEW more, NEW x,
           DOMAIN x = DOMAIN q, x.at = "community", x.use = q.use, x.bundle = q.bundle, x.beside = q.beside,
           x.done = Append(q.done, e),
           Lore!CommunityId(Len(q.done) + 1) \in DOMAIN more, more[Lore!CommunityId(Len(q.done) + 1)].told = e.told,
           \A id \in DOMAIN table : id # Lore!CommunityId(Len(q.done) + 1) => id \in DOMAIN more /\ more[id] = table[id]
    PROVE  Sound(x, lib, rows, more)
<1> DEFINE gs == Lore!DetectCommunities(q.bundle)
           K  == Len(q.done) + 1
<1>1. q.at \in Lore!Telling /\ "community" \in Lore!Telling /\ q.at # "idle"
  BY DEF Lore!Telling
<1>2. q.bundle \in Worlds /\ Lore!Steps(q) /\ TellsOf(q, table)
  BY <1>1 DEF Sound
<1>3. Len(gs) \in Nat /\ DOMAIN gs = 1..Len(gs)
  BY <1>2, CommunitiesAre
<1> HIDE DEF gs
<1>4. q.done \in Seq(Lore!Range(q.done))
  BY <1>1, <1>2 DEF TellsOf
<1>5. /\ x.done \in Seq(Lore!Range(x.done)) /\ Len(x.done) = K /\ Len(q.done) \in Nat /\ x.done[K] = e
      /\ \A k \in 1..Len(q.done) : x.done[k] = q.done[k]
  BY <1>4, Appended
<1>6. Len(x.done) <= Len(gs) /\ K \in 1..Len(gs)
  BY <1>3, <1>5 DEF gs
<1>7. \A k \in 1..Len(x.done) : /\ Lore!StillTells(x.done[k].told, q.bundle, gs[k])
                                  /\ x.done[k].fingerprint = Lore!Fingerprint(q.bundle, gs[k])
  <2>1. \A k \in 1..Len(q.done) : /\ Lore!StillTells(q.done[k].told, q.bundle, gs[k])
                                    /\ q.done[k].fingerprint = Lore!Fingerprint(q.bundle, gs[k])
    BY <1>1, <1>2 DEF TellsOf, gs
  <2>2. \A k \in 1..Len(x.done) : k \in 1..Len(q.done) \/ k = K
    BY <1>5
  <2> QED
    BY <1>5, <2>1, <2>2 DEF gs
<1>8. ASSUME ~ x.beside, NEW k \in 1..Len(x.done)
      PROVE  Lore!CommunityId(k) \in DOMAIN more /\ more[Lore!CommunityId(k)].told = x.done[k].told
  <2>1. CASE k = K
    BY <1>5, <2>1
  <2>2. CASE k # K
    <3>1. k \in 1..Len(q.done) /\ k \in 1..Len(gs)
      BY <1>5, <1>6, <2>2
    <3>2. Lore!CommunityId(k) \in DOMAIN table /\ table[Lore!CommunityId(k)].told = q.done[k].told
      BY <1>1, <1>2, <1>8, <3>1 DEF TellsOf
    <3>3. Lore!CommunityId(k) # Lore!CommunityId(K)
      BY <1>2, <1>3, <1>6, <2>2, <3>1 DEF Lore!WellFormed, gs
    <3> QED
      BY <1>5, <3>1, <3>2, <3>3
  <2> QED
    BY <2>1, <2>2
<1>9. TellsOf(x, more)
  BY <1>5, <1>6, <1>7, <1>8 DEF TellsOf, gs
<1>10. Lore!Steps(x)
  BY <1>1, <1>2, Overviews DEF Lore!Steps
<1> QED
  BY <1>2, <1>9, <1>10 DEF Sound, RowsOf, FiledOf, Lore!Looking

LEMMA ReuseReportKeeps ==
    ASSUME Lore!WellFormed, Lore!LoreInv, NEW r \in Requests, Lore!ReuseReport(r)
    PROVE  Lore!LoreInv'
<1>1. Base /\ Lore!Alone /\ EachIsSound
  BY LoreInvIs
<1> DEFINE q  == reqs[r]
           K  == Len(q.done) + 1
           gs == Lore!DetectCommunities(q.bundle)
           id == Lore!CommunityId(K)
           x  == [q EXCEPT !.done = Append(@, reports[id])]
           y  == [q EXCEPT !.at = "report"]
<1>2. /\ q.at = "community" /\ K <= Len(gs)
      /\ world' = world /\ library' = library /\ index' = index /\ vectors' = vectors /\ reports' = reports /\ spent' = spent
  BY DEF Lore!ReuseReport, Lore!Kth, Lore!Todo
<1>3. \/ /\ Lore!Cached(id, Lore!Fingerprint(q.bundle, gs[K])) /\ reqs' = [reqs EXCEPT ![r] = x]
      \/ reqs' = [reqs EXCEPT ![r] = y]
  <2>1. reqs' = [reqs EXCEPT ![r] = IF Lore!Cached(id, Lore!Fingerprint(q.bundle, gs[K])) THEN x ELSE y]
    BY DEF Lore!ReuseReport, Lore!Kth, Lore!Todo
  <2> HIDE DEF x, y
  <2> QED
    BY <2>1
<1>4. Sound(q, library, Lore!Contents(index), reports)
  BY <1>1 DEF EachIsSound
<1>5. q.at \in Lore!Telling /\ "report" \in Lore!Telling
  BY <1>2 DEF Lore!Telling
<1>6. DOMAIN q = {"at", "use", "bundle", "beside", "done"} /\ q.use \in Lore!Uses /\ q.bundle \in Worlds
  BY <1>2, <1>4, <1>5, Overviews DEF Sound
<1>7. \A v \in vectors' : v.key = v.space /\ v.key \in {"st", "hashing"}
  BY <1>1, <1>2 DEF Base
<1>8. Len(q.done) \in Nat /\ Len(gs) \in Nat
  <2>1. q.done \in Seq(Lore!Range(q.done))
    BY <1>4, <1>5 DEF Sound, TellsOf
  <2> QED
    BY <1>6, <2>1, CommunitiesAre
<1> HIDE DEF gs, q
<1>9. CASE Lore!Cached(id, Lore!Fingerprint(q.bundle, gs[K])) /\ reqs' = [reqs EXCEPT ![r] = x]
  <2>1. /\ DOMAIN x = DOMAIN q /\ x.at = "community" /\ x.use = q.use /\ x.bundle = q.bundle /\ x.beside = q.beside
        /\ x.done = Append(q.done, reports[id])
    BY <1>2, <1>6
  <2>2. /\ id \in DOMAIN reports /\ reports[id].fingerprint = Lore!Fingerprint(q.bundle, gs[K])
    BY <1>9 DEF Lore!Cached
  <2>4. Len(q.done) < Len(gs) /\ K \in DOMAIN gs
    BY <1>2, <1>6, <1>8, CommunitiesAre DEF gs
  <2>3. Lore!StillTells(reports[id].told, q.bundle, gs[K])
    <3>1. id # Lore!GlobalId
      BY <1>6, <2>4 DEF Lore!WellFormed, gs
    <3>2. Lore!ReportOf(reports[id].told, reports[id].fingerprint)
      BY <1>1, <2>2, <3>1 DEF Base, Filed
    <3> QED
      BY <2>2, <3>2, TellsOfItsGroup
  <2> HIDE DEF x
  <2>5. Sound(x, library, Lore!Contents(index), reports)
    BY <1>2, <1>4, <2>1, <2>2, <2>3, <2>4, ToldIsSound DEF gs
  <2>6. /\ x.at = "idle" \/ reqs[r].at # "idle"
        /\ x.at \notin {"idle", "answered"} /\ ~ x.beside => reqs[r].at \notin {"idle", "answered"} /\ ~ reqs[r].beside
    BY <1>2, <2>1 DEF q
  <2>7. reqs' = [reqs EXCEPT ![r] = x]
    BY <1>9
  <2> QED
    BY <1>2, <1>7, <2>5, <2>6, <2>7, OneMoves
<1>10. CASE reqs' = [reqs EXCEPT ![r] = y]
  <2>1. /\ DOMAIN y = DOMAIN q /\ y.at = "report" /\ y.use = q.use /\ y.bundle = q.bundle /\ y.beside = q.beside
        /\ y.done = q.done
    BY <1>6
  <2>2. Len(q.done) < Len(gs)
    BY <1>2, <1>8
  <2>3. reqs' = [reqs EXCEPT ![r] = y]
    BY <1>10
  <2> HIDE DEF y
  <2>4. Lore!Steps(y)
    BY <1>5, <1>6, <2>1 DEF Lore!Steps
  <2>5. TellsOf(y, reports)
    BY <1>2, <1>4, <1>5, <2>1, <2>2 DEF Sound, TellsOf, gs
  <2>6. Sound(y, library, Lore!Contents(index), reports)
    BY <1>6, <2>1, <2>4, <2>5 DEF Sound, RowsOf, FiledOf, Lore!Looking
  <2>7. /\ y.at = "idle" \/ reqs[r].at # "idle"
        /\ y.at \notin {"idle", "answered"} /\ ~ y.beside => reqs[r].at \notin {"idle", "answered"} /\ ~ reqs[r].beside
    BY <1>2, <2>1 DEF q
  <2> QED
    BY <1>2, <1>7, <2>3, <2>6, <2>7, OneMoves
<1> QED
  BY <1>3, <1>9, <1>10

LEMMA SaveReportKeeps ==
    ASSUME Lore!WellFormed, Lore!LoreInv, NEW r \in Requests, Lore!SaveReport(r)
    PROVE  Lore!LoreInv'
<1>1. Base /\ Lore!Alone /\ EachIsSound
  BY LoreInvIs
<1> DEFINE q  == reqs[r]
           K  == Len(q.done) + 1
           gs == Lore!DetectCommunities(q.bundle)
           id == Lore!CommunityId(K)
           e  == Lore!CommunityReport(q.bundle, gs[K])
           x  == [q EXCEPT !.at = "community", !.done = Append(q.done, e)]
<1>2. /\ q.at = "report" /\ reports' = Lore!Put(reports, id, e) /\ reqs' = [reqs EXCEPT ![r] = x]
      /\ world' = world /\ library' = library /\ index' = index /\ vectors' = vectors /\ spent' = spent
  BY DEF Lore!SaveReport, Lore!Kth, Lore!Todo
<1>3. Sound(q, library, Lore!Contents(index), reports)
  BY <1>1 DEF EachIsSound
<1>4. q.at \in Lore!Telling
  BY <1>2 DEF Lore!Telling
<1>5. DOMAIN q = {"at", "use", "bundle", "beside", "done"}
  BY <1>3, <1>4, Overviews DEF Sound
<1>6. Len(q.done) < Len(gs)
  BY <1>2, <1>3, <1>4 DEF Sound, TellsOf
<1>7. /\ Lore!StillTells(e.told, q.bundle, gs[K]) /\ e.fingerprint = Lore!Fingerprint(q.bundle, gs[K])
      /\ Lore!ReportOf(e.told, e.fingerprint)
  <2>1. e.told = Lore!Told(q.bundle, gs[K]) /\ e.fingerprint = Lore!Fingerprint(q.bundle, gs[K])
    BY DEF Lore!CommunityReport
  <2>2. q.bundle \in Worlds
    BY <1>2, <1>3 DEF Sound
  <2> HIDE DEF e, gs, q
  <2>3. Lore!StillTells(e.told, q.bundle, gs[K])
    BY <2>1, <2>2 DEF Lore!StillTells
  <2> QED
    BY <2>1, <2>3, TellsOfItsGroup
<1>8. /\ DOMAIN x = DOMAIN q /\ x.at = "community" /\ x.use = q.use /\ x.bundle = q.bundle /\ x.beside = q.beside
      /\ x.done = Append(q.done, e)
  BY <1>5
<1>9. /\ id \in DOMAIN reports' /\ reports'[id] = e
      /\ \A j \in DOMAIN reports : j # id => j \in DOMAIN reports' /\ reports'[j] = reports[j]
      /\ Filed(reports')
  <2>1. q.bundle \in Worlds
    BY <1>2, <1>3 DEF Sound
  <2>2. K \in DOMAIN gs
    <3>1. Len(gs) \in Nat /\ DOMAIN gs = 1..Len(gs)
      BY <2>1, CommunitiesAre
    <3>2. Len(q.done) \in Nat
      <4>1. q.done \in Seq(Lore!Range(q.done))
        BY <1>3, <1>4 DEF Sound, TellsOf
      <4> QED
        BY <4>1, LenProperties
    <3> QED
      BY <1>6, <3>1, <3>2
  <2>3. id # Lore!GlobalId
    BY <2>1, <2>2 DEF Lore!WellFormed
  <2>4. Filed(reports)
    BY <1>1 DEF Base
  <2> HIDE DEF e, id
  <2> QED
    BY <1>2, <1>7, <2>3, <2>4, PutIsFiled
<1> HIDE DEF e, x
<1>10. Sound(x, library, Lore!Contents(index), reports')
  BY <1>2, <1>3, <1>6, <1>7, <1>8, <1>9, ToldIsSound
<1>11. Base'
  BY <1>1, <1>2, <1>9 DEF Base
<1>12. ASSUME NEW p \in Requests, p # r
       PROVE  Sound(reqs[p], library, Lore!Contents(index), reports')
  <2>1. reqs[p].at \in Lore!Telling => reqs[p].beside
    BY <1>1, <1>2, <1>12, OthersAreBeside
  <2>2. Sound(reqs[p], library, Lore!Contents(index), reports)
    BY <1>1 DEF EachIsSound
  <2> QED
    BY <2>1, <2>2, OtherReportsAreSound
<1>13. /\ x.at = "idle" \/ reqs[r].at # "idle"
       /\ x.at \notin {"idle", "answered"} /\ ~ x.beside => reqs[r].at \notin {"idle", "answered"} /\ ~ reqs[r].beside
  BY <1>2, <1>8
<1> HIDE DEF q
<1> QED
  BY <1>2, <1>10, <1>11, <1>12, <1>13, OneMovesOn

LEMMA SaveGlobalKeeps ==
    ASSUME Lore!WellFormed, Lore!LoreInv, NEW r \in Requests, Lore!SaveGlobal(r)
    PROVE  Lore!LoreInv'
<1>1. Base /\ Lore!Alone /\ EachIsSound
  BY LoreInvIs
<1> DEFINE q  == reqs[r]
           gs == Lore!DetectCommunities(q.bundle)
           e  == Lore!GlobalReport(q.bundle, gs, q.done)
           g  == Lore!GlobalId
           x  == [q EXCEPT !.at = "prune"]
<1>2. /\ q.at = "community" /\ Len(q.done) + 1 > Len(gs)
      /\ reports' = IF Lore!Cached(g, e.fingerprint) THEN reports ELSE Lore!Put(reports, g, e)
      /\ reqs' = [reqs EXCEPT ![r] = x]
      /\ world' = world /\ library' = library /\ index' = index /\ vectors' = vectors /\ spent' = spent
  BY DEF Lore!SaveGlobal, Lore!Kth, Lore!Todo
<1>3. Sound(q, library, Lore!Contents(index), reports)
  BY <1>1 DEF EachIsSound
<1>4. q.at \in Lore!Telling /\ "prune" \in Lore!Telling
  BY <1>2 DEF Lore!Telling
<1>5. DOMAIN q = {"at", "use", "bundle", "beside", "done"} /\ q.use \in Lore!Uses /\ q.bundle \in Worlds
  BY <1>2, <1>3, <1>4, Overviews DEF Sound
<1>6. /\ q.done \in Seq(Lore!Range(q.done)) /\ Len(q.done) \in Nat /\ Len(q.done) <= Len(gs)
      /\ Len(gs) \in Nat /\ DOMAIN gs = 1..Len(gs) /\ DOMAIN q.done = 1..Len(q.done)
  <2>1. q.done \in Seq(Lore!Range(q.done)) /\ Len(q.done) <= Len(gs)
    BY <1>3, <1>4 DEF Sound, TellsOf
  <2>2. Len(gs) \in Nat /\ DOMAIN gs = 1..Len(gs)
    BY <1>5, CommunitiesAre
  <2> HIDE DEF gs, q
  <2> QED
    BY <2>1, <2>2, LenProperties
<1>7. Len(q.done) = Len(gs)
  BY <1>2, <1>6
<1>8. \A k \in 1..Len(q.done) : Lore!ReportOf(q.done[k].told, q.done[k].fingerprint)
  <2> SUFFICES ASSUME NEW k \in 1..Len(q.done)
               PROVE  Lore!ReportOf(q.done[k].told, q.done[k].fingerprint)
    OBVIOUS
  <2>1. /\ Lore!StillTells(q.done[k].told, q.bundle, gs[k])
        /\ q.done[k].fingerprint = Lore!Fingerprint(q.bundle, gs[k])
    BY <1>3, <1>4 DEF Sound, TellsOf
  <2> HIDE DEF gs, q
  <2> QED
    BY <2>1, TellsOfItsGroup
<1>9. Lore!OverviewOf(e.told, e.fingerprint)
  <2> DEFINE told  == [k \in DOMAIN q.done |-> q.done[k].told]
             print == [k \in DOMAIN q.done |-> q.done[k].fingerprint]
  <2>1. /\ e.told.reports = told /\ e.fingerprint.reports = print
        /\ e.told.crosses = e.fingerprint.crosses
    BY DEF Lore!GlobalReport
  <2>2. DOMAIN told = DOMAIN print /\ \A k \in DOMAIN told : Lore!ReportOf(told[k], print[k])
    <3> HIDE DEF q
    <3> QED
      BY <1>6, <1>8
  <2> HIDE DEF told, print, e
  <2> QED
    BY <2>1, <2>2 DEF Lore!OverviewOf
<1> HIDE DEF e
<1>10. /\ g \in DOMAIN reports' /\ reports'[g].fingerprint = e.fingerprint
       /\ \A j \in DOMAIN reports : j # g => j \in DOMAIN reports' /\ reports'[j] = reports[j]
       /\ Filed(reports')
  <2>1. Filed(reports)
    BY <1>1 DEF Base
  <2>2. CASE Lore!Cached(g, e.fingerprint)
    <3>1. reports' = reports /\ g \in DOMAIN reports /\ reports[g].fingerprint = e.fingerprint
      BY <1>2, <2>2 DEF Lore!Cached
    <3> QED
      BY <2>1, <3>1
  <2>3. CASE ~ Lore!Cached(g, e.fingerprint)
    <3>1. reports' = Lore!Put(reports, g, e)
      BY <1>2, <2>3
    <3> QED
      BY <1>9, <2>1, <3>1, PutIsFiled
  <2> QED
    BY <2>2, <2>3
<1> HIDE DEF g
<1>11. /\ DOMAIN x = DOMAIN q /\ x.at = "prune" /\ x.use = q.use /\ x.bundle = q.bundle /\ x.beside = q.beside
       /\ x.done = q.done
  BY <1>5
<1> HIDE DEF x
<1>12. TellsOf(x, reports')
  <2>1. ASSUME ~ x.beside, NEW k \in 1..Len(q.done)
        PROVE  Lore!CommunityId(k) \in DOMAIN reports' /\ reports'[Lore!CommunityId(k)].told = q.done[k].told
    <3>1. Lore!CommunityId(k) \in DOMAIN reports /\ reports[Lore!CommunityId(k)].told = q.done[k].told
      BY <1>3, <1>4, <1>11, <2>1 DEF Sound, TellsOf
    <3>2. Lore!CommunityId(k) # g
      <4>1. k \in DOMAIN gs
        BY <1>6, <1>7
      <4> QED
        BY <1>5, <4>1 DEF Lore!WellFormed, g
    <3> QED
      BY <1>10, <3>1, <3>2
  <2>2. \A k \in 1..Len(q.done) : /\ Lore!StillTells(q.done[k].told, q.bundle, gs[k])
                                  /\ q.done[k].fingerprint = Lore!Fingerprint(q.bundle, gs[k])
    BY <1>3, <1>4 DEF Sound, TellsOf
  <2> HIDE DEF gs, q
  <2> QED
    BY <1>6, <1>7, <1>10, <1>11, <2>1, <2>2 DEF TellsOf, gs, e, g
<1>13. Lore!Steps(x)
  BY <1>4, <1>5, <1>11 DEF Lore!Steps
<1>14. Sound(x, library, Lore!Contents(index), reports')
  BY <1>5, <1>11, <1>12, <1>13 DEF Sound, RowsOf, FiledOf, Lore!Looking
<1>15. Base'
  BY <1>1, <1>2, <1>10 DEF Base
<1>16. ASSUME NEW p \in Requests, p # r
       PROVE  Sound(reqs[p], library, Lore!Contents(index), reports')
  <2>1. reqs[p].at \in Lore!Telling => reqs[p].beside
    BY <1>1, <1>2, <1>16, OthersAreBeside
  <2>2. Sound(reqs[p], library, Lore!Contents(index), reports)
    BY <1>1 DEF EachIsSound
  <2> QED
    BY <2>1, <2>2, OtherReportsAreSound
<1>17. /\ x.at = "idle" \/ reqs[r].at # "idle"
       /\ x.at \notin {"idle", "answered"} /\ ~ x.beside => reqs[r].at \notin {"idle", "answered"} /\ ~ reqs[r].beside
  BY <1>2, <1>11
<1> HIDE DEF q
<1> QED
  BY <1>2, <1>14, <1>15, <1>16, <1>17, OneMovesOn

LEMMA PruneReportsKeeps ==
    ASSUME Lore!WellFormed, Lore!LoreInv, NEW r \in Requests, Lore!PruneReports(r)
    PROVE  Lore!LoreInv'
<1>1. Base /\ Lore!Alone /\ EachIsSound
  BY LoreInvIs
<1> DEFINE q == reqs[r]
           keep == {Lore!GlobalId} \cup {Lore!CommunityId(k) : k \in DOMAIN q.done}
           x == [q EXCEPT !.at = "built"]
<1>2. /\ q.at = "prune" /\ reports' = [id \in DOMAIN reports \cap keep |-> reports[id]]
      /\ reqs' = [reqs EXCEPT ![r] = x]
      /\ world' = world /\ library' = library /\ index' = index /\ vectors' = vectors /\ spent' = spent
  BY DEF Lore!PruneReports
<1>3. Sound(q, library, Lore!Contents(index), reports)
  BY <1>1 DEF EachIsSound
<1>4. q.at \in Lore!Telling /\ "built" \in Lore!Telling
  BY <1>2 DEF Lore!Telling
<1>5. DOMAIN q = {"at", "use", "bundle", "beside", "done"} /\ q.use \in Lore!Uses /\ q.bundle \in Worlds
  BY <1>2, <1>3, <1>4, Overviews DEF Sound
<1>6. DOMAIN q.done = 1..Len(q.done)
  <2>1. q.done \in Seq(Lore!Range(q.done))
    BY <1>3, <1>4 DEF Sound, TellsOf
  <2> QED
    BY <2>1, LenProperties
<1> HIDE DEF keep
<1>7. /\ DOMAIN reports' = DOMAIN reports \cap keep
      /\ \A j \in DOMAIN reports' : reports'[j] = reports[j]
  BY <1>2
<1>8. /\ DOMAIN x = DOMAIN q /\ x.at = "built" /\ x.use = q.use /\ x.bundle = q.bundle /\ x.beside = q.beside
      /\ x.done = q.done
  BY <1>5
<1> HIDE DEF x, q
<1>9. TellsOf(x, reports')
  <2>1. ASSUME ~ x.beside
        PROVE  keep \subseteq DOMAIN reports
    BY <1>2, <1>3, <1>4, <1>6, <1>8, <2>1 DEF Sound, TellsOf, keep
  <2>2. ~ x.beside => DOMAIN reports' = keep
    BY <1>7, <2>1
  <2>3. keep = {Lore!GlobalId} \cup {Lore!CommunityId(k) : k \in 1..Len(q.done)}
    BY <1>6 DEF keep
  <2> QED
    BY <1>2, <1>3, <1>4, <1>7, <1>8, <2>2, <2>3 DEF Sound, TellsOf
<1>10. Lore!Steps(x)
  BY <1>4, <1>5, <1>8 DEF Lore!Steps
<1>11. Sound(x, library, Lore!Contents(index), reports')
  BY <1>5, <1>8, <1>9, <1>10 DEF Sound, RowsOf, FiledOf, Lore!Looking
<1>12. Base'
  <2>1. Filed(reports')
    BY <1>1, <1>7 DEF Base, Filed
  <2> QED
    BY <1>1, <1>2, <2>1 DEF Base
<1>13. ASSUME NEW p \in Requests, p # r
       PROVE  Sound(reqs[p], library, Lore!Contents(index), reports')
  <2>1. reqs[p].at \in Lore!Telling => reqs[p].beside
    BY <1>1, <1>2, <1>13, OthersAreBeside DEF q
  <2>2. Sound(reqs[p], library, Lore!Contents(index), reports)
    BY <1>1 DEF EachIsSound
  <2> QED
    BY <2>1, <2>2, OtherReportsAreSound
<1>14. /\ x.at = "idle" \/ reqs[r].at # "idle"
       /\ x.at \notin {"idle", "answered"} /\ ~ x.beside => reqs[r].at \notin {"idle", "answered"} /\ ~ reqs[r].beside
  BY <1>2, <1>8 DEF q
<1> QED
  BY <1>2, <1>11, <1>12, <1>13, <1>14, OneMovesOn

-----------------------------------------------------------------------------
\* Whatever the requests do, in whatever order, all of this holds.
LEMMA LoreInvAlways == Lore!WellFormed /\ Lore!Spec => []Lore!LoreInv
<1> SUFFICES ASSUME Lore!WellFormed PROVE Lore!Spec => []Lore!LoreInv
  OBVIOUS
<1>1. Lore!Init => Lore!LoreInv
  <2> SUFFICES ASSUME Lore!Init PROVE Lore!LoreInv
    OBVIOUS
  <2>1. /\ world = FirstWorld /\ library = <<>> /\ index = {} /\ vectors = {} /\ reports = <<>>
        /\ reqs = [r \in Requests |-> Lore!Idle] /\ spent = [edits |-> 0, served |-> 0]
    BY DEF Lore!Init
  <2>2. DOMAIN library = {} /\ DOMAIN reports = {} /\ Lore!Chunks(index) = {}
    BY <2>1 DEF Lore!Chunks
  <2>3. Base
    BY <2>1, <2>2 DEF Base, Filed, Lore!WellFormed
  <2>4. EachIsSound
    BY <2>1, IdleIsSound DEF EachIsSound
  <2>5. Lore!Alone
    BY <2>1, IdleIsSound DEF Lore!Alone
  <2> QED
    BY <2>3, <2>4, <2>5, LoreInvIs
<1>2. Lore!LoreInv /\ [Lore!Next]_(Lore!vars) => Lore!LoreInv'
  <2> SUFFICES ASSUME Lore!LoreInv, [Lore!Next]_(Lore!vars) PROVE Lore!LoreInv'
    OBVIOUS
  <2>1. CASE UNCHANGED Lore!vars
    <3>1. Base /\ Lore!Alone /\ EachIsSound
      BY LoreInvIs
    <3>2. /\ world' = world /\ library' = library /\ index' = index /\ vectors' = vectors /\ reports' = reports
          /\ reqs' = reqs /\ spent' = spent
      BY <2>1 DEF Lore!vars
    <3>3. Base' /\ Lore!Alone'
      BY <3>1, <3>2 DEF Base, Lore!Alone
    <3> QED
      BY <3>1, <3>2, <3>3, LoreInvNext DEF EachIsSound
  <2>2. ASSUME NEW b \in Worlds, Lore!Edit(b) PROVE Lore!LoreInv'
    BY <2>2, LoreEditKeeps
  <2>3. ASSUME NEW r \in Requests, NEW use \in Lore!Uses, Lore!Open(r, use) PROVE Lore!LoreInv'
    BY <2>3, OpenKeeps
  <2>4. ASSUME NEW r \in Requests, Lore!IndexContent(r) PROVE Lore!LoreInv'
    BY <2>4, IndexKeeps
  <2>5. ASSUME NEW r \in Requests, Lore!SyncReferences(r) PROVE Lore!LoreInv'
    BY <2>5, SyncKeeps
  <2>6. ASSUME NEW r \in Requests, Lore!Embed(r) PROVE Lore!LoreInv'
    BY <2>6, EmbedKeeps
  <2>7. ASSUME NEW r \in Requests, Lore!Recall(r) PROVE Lore!LoreInv'
    BY <2>7, RecallKeeps
  <2>8. ASSUME NEW r \in Requests, Lore!SearchReferences(r) PROVE Lore!LoreInv'
    BY <2>8, SearchReferencesKeeps
  <2>9. ASSUME NEW r \in Requests, Lore!AddText(r) PROVE Lore!LoreInv'
    BY <2>9, AddTextKeeps
  <2>10. ASSUME NEW r \in Requests, Lore!Resync(r) PROVE Lore!LoreInv'
    BY <2>10, ResyncKeeps
  <2>11. ASSUME NEW r \in Requests, Lore!RefuseEmpty(r) PROVE Lore!LoreInv'
    BY <2>11, RefuseKeeps DEF Lore!RefuseEmpty
  <2>12. ASSUME NEW r \in Requests, Lore!Answer(r) PROVE Lore!LoreInv'
    BY <2>12, AnswerKeeps
  <2>13. ASSUME NEW r \in Requests, Lore!Close(r) PROVE Lore!LoreInv'
    BY <2>13, CloseKeeps
  <2>14. ASSUME NEW r \in Requests, Lore!StartOverview(r) PROVE Lore!LoreInv'
    BY <2>14, StartOverviewKeeps
  <2>15. ASSUME NEW r \in Requests, Lore!ReuseReport(r) PROVE Lore!LoreInv'
    BY <2>15, ReuseReportKeeps
  <2>16. ASSUME NEW r \in Requests, Lore!SaveReport(r) PROVE Lore!LoreInv'
    BY <2>16, SaveReportKeeps
  <2>17. ASSUME NEW r \in Requests, Lore!SaveGlobal(r) PROVE Lore!LoreInv'
    BY <2>17, SaveGlobalKeeps
  <2>18. ASSUME NEW r \in Requests, Lore!PruneReports(r) PROVE Lore!LoreInv'
    BY <2>18, PruneReportsKeeps
  <2> QED
    BY <2>1, <2>2, <2>3, <2>4, <2>5, <2>6, <2>7, <2>8, <2>9, <2>10, <2>11, <2>12, <2>13, <2>14, <2>15, <2>16,
       <2>17, <2>18 DEF Lore!Next
<1> QED
  BY <1>1, <1>2, PTL DEF Lore!Spec

\* LoreInv and the graph give each part of the property.
LEMMA AnswersFollow == Lore!WellFormed /\ Lore!LoreInv => Lore!AnswersHold
<1> SUFFICES ASSUME Lore!WellFormed, Lore!LoreInv PROVE Lore!AnswersHold
  OBVIOUS
<1>1. Lore!GroundedInCanon /\ Lore!InspirationIsFiled /\ Lore!VectorsAreHonest
  BY DEF Lore!LoreInv
<1>2. Lore!ImpactNamesReferrers
  BY ReferrersMustChange DEF Lore!ImpactNamesReferrers
<1>3. Lore!OverviewIsCurrent
  <2> SUFFICES ASSUME NEW r \in Requests, reqs[r].at = "built", ~ reqs[r].beside
               PROVE  LET b  == reqs[r].bundle
                          gs == Lore!DetectCommunities(b)
                          whole == reports[Lore!GlobalId].told
                      IN  /\ DOMAIN reports = {Lore!GlobalId} \cup {Lore!CommunityId(k) : k \in DOMAIN gs}
                          /\ \A k \in DOMAIN gs : Lore!StillTells(reports[Lore!CommunityId(k)].told, b, gs[k])
                          /\ DOMAIN whole.reports = DOMAIN gs
                          /\ \A k \in DOMAIN gs : Lore!StillTells(whole.reports[k], b, gs[k])
                          /\ whole.crosses = Lore!CrossRelations(b, gs)
    BY DEF Lore!OverviewIsCurrent
  <2> DEFINE q  == reqs[r]
             b  == q.bundle
             gs == Lore!DetectCommunities(b)
             e  == Lore!GlobalReport(b, gs, q.done)
  <2>1. Sound(q, library, Lore!Contents(index), reports)
    BY LoreInvIs DEF EachIsSound
  <2>2. q.at \in Lore!Telling
    BY DEF Lore!Telling
  <2>3. b \in Worlds
    BY <2>1 DEF Sound
  <2>4. Len(gs) \in Nat /\ DOMAIN gs = 1..Len(gs)
    BY <2>3, CommunitiesAre
  <2>5. /\ q.done \in Seq(Lore!Range(q.done)) /\ Len(q.done) = Len(gs)
        /\ \A k \in 1..Len(q.done) : /\ Lore!StillTells(q.done[k].told, b, gs[k])
                                     /\ q.done[k].fingerprint = Lore!Fingerprint(b, gs[k])
                                     /\ Lore!CommunityId(k) \in DOMAIN reports
                                     /\ reports[Lore!CommunityId(k)].told = q.done[k].told
        /\ Lore!GlobalId \in DOMAIN reports /\ reports[Lore!GlobalId].fingerprint = e.fingerprint
        /\ DOMAIN reports = {Lore!GlobalId} \cup {Lore!CommunityId(k) : k \in 1..Len(q.done)}
    BY <2>1, <2>2 DEF Sound, TellsOf
  <2>6. DOMAIN q.done = DOMAIN gs
    <3> HIDE DEF q, gs
    <3> QED
      BY <2>4, <2>5, LenProperties
  <2> DEFINE print == [k \in DOMAIN q.done |-> q.done[k].fingerprint]
  <2>7. e.fingerprint.reports = print /\ e.fingerprint.crosses = Lore!CrossRelations(b, gs)
    BY DEF Lore!GlobalReport
  <2> HIDE DEF e, gs, q
  <2>8. DOMAIN print = DOMAIN gs /\ \A k \in DOMAIN gs : print[k] = Lore!Fingerprint(b, gs[k])
    BY <2>4, <2>5, <2>6
  <2> HIDE DEF print
  <2>9. /\ DOMAIN reports = {Lore!GlobalId} \cup {Lore!CommunityId(k) : k \in DOMAIN gs}
        /\ \A k \in DOMAIN gs : Lore!StillTells(reports[Lore!CommunityId(k)].told, b, gs[k])
    BY <2>4, <2>5
  <2> DEFINE whole == reports[Lore!GlobalId]
  <2>10. Lore!OverviewOf(whole.told, whole.fingerprint)
    BY <2>5, LoreInvIs DEF Base, Filed
  <2>11. whole.fingerprint = e.fingerprint
    BY <2>5
  <2> HIDE DEF whole
  <2>12. /\ DOMAIN whole.told.reports = DOMAIN gs /\ whole.told.crosses = Lore!CrossRelations(b, gs)
         /\ \A k \in DOMAIN gs : Lore!ReportOf(whole.told.reports[k], print[k])
    BY <2>7, <2>8, <2>10, <2>11 DEF Lore!OverviewOf
  <2>13. \A k \in DOMAIN gs : Lore!StillTells(whole.told.reports[k], b, gs[k])
    BY <2>8, <2>12, TellsOfItsGroup
  <2> QED
    BY <2>9, <2>12, <2>13 DEF q, gs, whole
<1> QED
  BY <1>1, <1>2, <1>3 DEF Lore!AnswersHold

\* What is served as grounded is of the world that was loaded, what an inspiration search shows is filed, no
\* vector is of another model than its key names, an overview that met nobody is of its world, and who refers
\* to an object is named by its impact (AnswersHold): qa/, retrieval/, inspiration/, impact/, graph/community.py.
THEOREM AnswersAreTrue == Lore!WellFormed /\ Lore!Spec => []Lore!AnswersHold
<1> SUFFICES ASSUME Lore!WellFormed PROVE Lore!Spec => []Lore!AnswersHold
  OBVIOUS
<1>1. Lore!LoreInv => Lore!AnswersHold
  BY AnswersFollow
<1>2. Lore!Spec => []Lore!LoreInv
  BY LoreInvAlways
<1> QED
  BY <1>1, <1>2, PTL

\* The tables and the requests keep their types.
THEOREM AnswersKeepTypes == Lore!WellFormed /\ Lore!Spec => []Lore!TypeOK
<1> SUFFICES ASSUME Lore!WellFormed PROVE Lore!Spec => []Lore!TypeOK
  OBVIOUS
<1>1. Lore!LoreInv => Lore!TypeOK
  BY DEF Lore!LoreInv
<1>2. Lore!Spec => []Lore!LoreInv
  BY LoreInvAlways
<1> QED
  BY <1>1, <1>2, PTL
=============================================================================
