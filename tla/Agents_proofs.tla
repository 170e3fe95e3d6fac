----------------------------- MODULE Agents_proofs -----------------------------
(***************************************************************************)
(* Theorems about the agents: the refine loop that fills the queue         *)
(* (DraftLoop), the session of several agents (MultiAgent), the run of one *)
(* (ReactAgent) and the drafts of a chain of them (WorldGen).              *)
(***************************************************************************)
EXTENDS DraftLoop, FiniteSetTheorems, SequenceTheorems, WellFoundedInduction, TLAPS

-----------------------------------------------------------------------------
(***************************************************************************)
(* DraftLoop                                                               *)
(***************************************************************************)

LEMMA DraftsAre ==
    ASSUME NEW kind, NEW v, NEW d \in Drafts(kind, v)
    PROVE  d \in Draft /\ d.v = v /\ d.v \in Nat
BY DEF Drafts, Draft

LEMMA UnjudgedIs ==
    Unjudged \in Judgment /\ Unjudged.verdict = "none"
BY DEF Unjudged, Judgment, Verdicts, Dims

\* The critic's verdict is never a pass with a blocker.
LEMMA CritiqueIs ==
    ASSUME NEW c \in CritiqueWithRetry
    PROVE  /\ c.ok \in BOOLEAN /\ c.fixes \in BOOLEAN /\ c.dim \in Dims /\ c.blocker \in BOOLEAN
           /\ c.verdict \in {"pass", "revise"}
           /\ c.verdict = "pass" => ~ c.blocker
<1>1. PICK r \in Reply : c = ParseCritique(r)
  BY DEF CritiqueWithRetry
<1>2. r.json \in BOOLEAN /\ r.worded \in BOOLEAN
  BY DEF Reply
<1> QED
  BY <1>1, <1>2 DEF ParseCritique, Dims

\* A step that leaves the items and the lessons alone.
LEMMA QueueKept ==
    ASSUME DraftInv, UNCHANGED <<queue, revising, lessons, reports>>
    PROVE  /\ queue' \in Seq(FiledItem) /\ revising' \in {NoItem} \cup DOMAIN queue'
           /\ lessons' \in [AllKinds \X Dims -> Nat] /\ reports' \in Nat
           /\ RejectedPassBounced' /\ PassIsEarned'
<1>1. TypeOK /\ RejectedPassBounced /\ PassIsEarned
  BY DEF DraftInv
<1>2. queue' = queue /\ revising' = revising /\ lessons' = lessons /\ reports' = reports
  OBVIOUS
<1>3. \A k, d : Bounced(k, d)' = Bounced(k, d)
  BY <1>2 DEF Bounced
<1>4. PassIsEarned'
  BY <1>1, <1>2, <1>3 DEF PassIsEarned
<1>5. RejectedPassBounced'
  BY <1>1, <1>2 DEF RejectedPassBounced
<1> QED
  BY <1>1, <1>2, <1>4, <1>5 DEF TypeOK

LEMMA BeginKeeps ==
    ASSUME WellFormed, DraftInv, NEW kind, NEW speakers \in 1..2, Begin(kind, speakers)
    PROVE  DraftInv'
<1>1. PICK n \in Rounds, d \in Drafts(kind, 1) :
         loop' = [kind |-> kind, stage |-> IF n = 0 THEN "file" ELSE "assess", rounds |-> n,
                  draft |-> d, round |-> 0, last |-> Unjudged, speakers |-> speakers]
  BY DEF Begin
<1>2. kind \in Kinds /\ UNCHANGED <<queue, revising, lessons, reports>>
  BY DEF Begin, Other
<1>3. n \in Nat /\ d \in Draft
  BY DraftsAre DEF WellFormed
<1>4. /\ loop'.kind = kind /\ loop'.stage = (IF n = 0 THEN "file" ELSE "assess") /\ loop'.rounds = n
      /\ loop'.draft = d /\ loop'.round = 0 /\ loop'.last = Unjudged /\ loop'.speakers = speakers
  BY <1>1
<1>5. loop' \in Request
  BY <1>1, <1>2, <1>3, UnjudgedIs DEF Request
<1>6. LoopInv'
  BY <1>3, <1>4, UnjudgedIs DEF LoopInv
<1>7. loop'.round <= loop'.rounds
  BY <1>3, <1>4
<1> QED
  BY <1>2, <1>5, <1>6, <1>7, QueueKept DEF DraftInv, TypeOK

LEMMA LoopIs ==
    ASSUME DraftInv
    PROVE  /\ loop.kind \in Kinds \cup {"none"} /\ loop.stage \in {"idle", "assess", "regenerate", "file"}
           /\ loop.rounds \in Nat /\ loop.round \in Nat /\ loop.draft \in Draft /\ loop.draft.v \in Nat
           /\ loop.draft.gaps \in BOOLEAN /\ loop.draft.errs \in BOOLEAN
           /\ loop.last \in Judgment /\ loop.speakers \in 0..2
BY DEF DraftInv, TypeOK, Request, Draft

\* A judgment that is no success, of a draft the critic passed, has something to fix.
LEMMA AssessKeeps ==
    ASSUME DraftInv, Assess
    PROVE  DraftInv'
<1>1. PICK c \in CritiqueWithRetry :
         loop' = [loop EXCEPT
             !.round = @ + 1,
             !.last = [v |-> loop.draft.v, ok |-> c.ok, verdict |-> c.verdict,
                       dim |-> IF c.ok /\ loop.kind # "quest" THEN c.dim ELSE "general",
                       blocker |-> c.blocker, sound |-> Accepted(c)],
             !.stage = IF Accepted(c) \/ ~ Fixes(c) THEN "file" ELSE "regenerate"]
  BY DEF Assess
<1>2. loop.stage = "assess" /\ UNCHANGED <<queue, revising, lessons, reports>>
  BY DEF Assess, Other
<1> DEFINE j == [v |-> loop.draft.v, ok |-> c.ok, verdict |-> c.verdict,
                 dim |-> IF c.ok /\ loop.kind # "quest" THEN c.dim ELSE "general",
                 blocker |-> c.blocker, sound |-> Accepted(c)]
           s == IF Accepted(c) \/ ~ Fixes(c) THEN "file" ELSE "regenerate"
<1>3. loop' = [loop EXCEPT !.round = loop.round + 1, !.last = j, !.stage = s]
  BY <1>1
<1>4. Accepted(c) \in BOOLEAN
  BY DEF Accepted
<1>5. /\ j \in Judgment /\ j.v = loop.draft.v /\ j.ok = c.ok /\ j.verdict = c.verdict
      /\ j.blocker = c.blocker /\ j.sound = Accepted(c)
  BY <1>4, CritiqueIs, LoopIs DEF Judgment, Verdicts, Dims
<1>6. s \in {"file", "regenerate"} /\ (s = "regenerate" => ~ Accepted(c))
  OBVIOUS
<1>7. s = "file" /\ c.ok /\ c.verdict = "pass" => Accepted(c)
  BY LoopIs DEF Accepted, Fixes
<1> HIDE DEF j, s
<1>8. loop.round < loop.rounds
  BY <1>2 DEF DraftInv, LoopInv
<1>9. /\ loop' \in Request
      /\ loop'.kind = loop.kind /\ loop'.stage = s /\ loop'.rounds = loop.rounds /\ loop'.draft = loop.draft
      /\ loop'.round = loop.round + 1 /\ loop'.last = j
  <2>1. loop \in Request
    BY DEF DraftInv, TypeOK
  <2>2. loop.round + 1 \in Nat
    BY LoopIs
  <2> QED
    BY <2>1, <2>2, <1>3, <1>5, <1>6 DEF Request
<1>10. loop'.round <= loop'.rounds
  BY <1>8, <1>9, LoopIs
<1>11. LoopInv'
  <2>1. loop'.stage # "assess"
    BY <1>6, <1>9
  <2>2. loop'.last.verdict = "pass" => ~ loop'.last.blocker
    BY <1>5, <1>9, CritiqueIs
  <2>3. loop'.stage = "regenerate" => loop'.last.v = loop'.draft.v /\ ~ loop'.last.sound
    BY <1>5, <1>6, <1>9
  <2>4. ASSUME loop'.stage = "file", loop'.last.ok, loop'.last.verdict = "pass"
        PROVE  loop'.draft.v = loop'.last.v + (IF loop'.last.sound THEN 0 ELSE 1)
    <3>1. c.ok /\ c.verdict = "pass" /\ s = "file"
      BY <2>4, <1>5, <1>9
    <3>2. Accepted(c)
      BY <3>1, <1>7
    <3>3. j.sound
      BY <3>2, <1>5
    <3>4. loop'.last.sound
      BY <3>3, <1>9
    <3>5. loop'.draft.v = loop'.last.v /\ loop'.last.v \in Nat
      BY <1>5, <1>9, LoopIs
    <3> QED
      BY <3>4, <3>5
  <2> QED
    BY <2>1, <2>2, <2>3, <2>4 DEF LoopInv
<1> QED
  BY <1>2, <1>9, <1>10, <1>11, QueueKept DEF DraftInv, TypeOK

\* A new draft is the next version; a request that has used its rounds is filed.
LEMMA RegenerateKeeps ==
    ASSUME DraftInv, Regenerate
    PROVE  DraftInv'
<1>1. PICK d \in Drafts(loop.kind, loop.draft.v + 1) \cup (IF loop.kind = "bark" THEN {loop.draft} ELSE {}) :
         loop' = [loop EXCEPT !.draft = d, !.stage = IF loop.round = loop.rounds THEN "file" ELSE "assess"]
  BY DEF Regenerate
<1>2. loop.stage = "regenerate" /\ UNCHANGED <<queue, revising, lessons, reports>>
  BY DEF Regenerate, Other
<1>3. d \in Draft /\ (loop.kind # "bark" => d.v = loop.draft.v + 1)
  BY <1>1, LoopIs, DraftsAre
<1> DEFINE s == IF loop.round = loop.rounds THEN "file" ELSE "assess"
<1>4. loop' = [loop EXCEPT !.draft = d, !.stage = s]
  BY <1>1
<1>5. s \in {"file", "assess"} /\ (s = "assess" => loop.round # loop.rounds)
  OBVIOUS
<1> HIDE DEF s
<1>6. loop \in Request /\ loop.round <= loop.rounds
  BY DEF DraftInv, TypeOK
<1>7. /\ loop' \in Request
      /\ loop'.kind = loop.kind /\ loop'.stage = s /\ loop'.rounds = loop.rounds /\ loop'.draft = d
      /\ loop'.round = loop.round /\ loop'.last = loop.last
  BY <1>3, <1>4, <1>5, <1>6 DEF Request
<1>8. LoopInv'
  <2>1. loop'.stage = "assess" => loop'.round < loop'.rounds
    BY <1>5, <1>6, <1>7, LoopIs
  <2>2. loop'.last.verdict = "pass" => ~ loop'.last.blocker
    BY <1>7 DEF DraftInv, LoopInv
  <2>3. loop'.stage # "regenerate"
    BY <1>5, <1>7
  <2>4. ASSUME loop'.kind # "bark"
        PROVE  loop'.draft.v = loop'.last.v + (IF loop'.last.sound THEN 0 ELSE 1)
    <3>1. loop.last.v = loop.draft.v /\ ~ loop.last.sound
      BY <1>2 DEF DraftInv, LoopInv
    <3>2. ~ loop'.last.sound
      BY <3>1, <1>7
    <3>3. loop'.draft.v = loop'.last.v + 1
      BY <3>1, <2>4, <1>3, <1>7
    <3> QED
      BY <3>2, <3>3
  <2> QED
    BY <2>1, <2>2, <2>3, <2>4 DEF LoopInv
<1> QED
  BY <1>2, <1>6, <1>7, <1>8, QueueKept DEF DraftInv, TypeOK

LEMMA IdleIs ==
    /\ Idle \in Request /\ Idle.round <= Idle.rounds /\ Idle.stage = "idle"
    /\ Idle.last.verdict = "none"
<1>1. [v |-> 1, gaps |-> FALSE, errs |-> FALSE] \in Draft
  BY DEF Draft
<1> QED
  BY <1>1, UnjudgedIs DEF Idle, Request

\* A request that ends, whatever it has filed.
LEMMA EndedRequest ==
    ASSUME loop' = Idle
    PROVE  loop' \in Request /\ loop'.round <= loop'.rounds /\ LoopInv'
BY IdleIs DEF LoopInv

LEMMA RaiseKeeps ==
    ASSUME DraftInv, Raise
    PROVE  DraftInv'
<1>1. loop' = Idle /\ UNCHANGED <<queue, revising, lessons, reports>>
  BY DEF Raise, Other
<1> QED
  BY <1>1, EndedRequest, QueueKept DEF DraftInv, TypeOK

\* What is filed: none of it carries a pass it did not earn.
LEMMA ItemIs ==
    ASSUME DraftInv, NEW verdict, loop.stage = "file",
           verdict = "none" \/ (loop.kind # "bark" /\ verdict = Recorded(loop.last))
    PROVE  /\ Item(verdict) \in FiledItem /\ Earned(Item(verdict))
           /\ Item(verdict).status = "pending_review" /\ Item(verdict).bounced = FALSE
<1> DEFINE x == Item(verdict)
<1>1. /\ x.kind = loop.kind /\ x.v = loop.draft.v /\ x.status = "pending_review" /\ x.verdict = verdict
      /\ x.dim = loop.last.dim /\ x.incomplete = (~ loop.last.ok) /\ x.bounced = FALSE /\ x.revisions = 0
      /\ x.judged = [v |-> loop.last.v, sound |-> loop.last.sound, blocker |-> loop.last.blocker]
      /\ x.judged.v = loop.last.v /\ x.judged.sound = loop.last.sound /\ x.judged.blocker = loop.last.blocker
  BY DEF Item
<1>2. /\ loop.last.v \in Nat /\ loop.last.ok \in BOOLEAN /\ loop.last.verdict \in Verdicts
      /\ loop.last.dim \in Dims /\ loop.last.blocker \in BOOLEAN /\ loop.last.sound \in BOOLEAN
  BY LoopIs DEF Judgment
<1>3. verdict \in Verdicts
  BY <1>2 DEF Recorded, Verdicts
<1>4. x \in FiledItem
  BY <1>2, <1>3, LoopIs DEF Item, FiledItem
<1>5. Earned(x)
  <2> SUFFICES ASSUME x.verdict = "pass"
               PROVE  /\ ~ x.judged.blocker /\ ~ x.incomplete
                      /\ x.v - x.revisions = x.judged.v + (IF x.judged.sound THEN 0 ELSE 1)
    BY DEF Earned
  <2>1. loop.kind # "bark" /\ loop.last.ok /\ loop.last.verdict = "pass"
    BY <1>1 DEF Recorded
  <2>2. ~ loop.last.blocker
    BY <2>1 DEF DraftInv, LoopInv
  <2>3. loop.draft.v = loop.last.v + (IF loop.last.sound THEN 0 ELSE 1)
    BY <2>1 DEF DraftInv, LoopInv
  <2>4. x.v - x.revisions = loop.draft.v
    BY <1>1, LoopIs
  <2>5. ~ x.incomplete
    BY <2>1, <1>1
  <2> HIDE DEF x
  <2> QED
    BY <2>2, <2>3, <2>4, <2>5, <1>1
<1> QED
  BY <1>1, <1>4, <1>5

\* Filing an item keeps what is true of the queue.
LEMMA AppendKeeps ==
    ASSUME DraftInv, NEW x \in FiledItem, Earned(x), x.status = "pending_review", x.bounced = FALSE,
           queue' = Append(queue, x), UNCHANGED <<revising, lessons, reports>>
    PROVE  /\ queue' \in Seq(FiledItem) /\ revising' \in {NoItem} \cup DOMAIN queue'
           /\ lessons' \in [AllKinds \X Dims -> Nat] /\ reports' \in Nat
           /\ RejectedPassBounced' /\ PassIsEarned'
<1>1. TypeOK /\ RejectedPassBounced /\ PassIsEarned
  BY DEF DraftInv
<1>2. queue \in Seq(FiledItem)
  BY <1>1 DEF TypeOK
<1>3. /\ queue' \in Seq(FiledItem) /\ Len(queue') = Len(queue) + 1
      /\ DOMAIN queue' = 1..(Len(queue) + 1) /\ DOMAIN queue = 1..Len(queue) /\ Len(queue) \in Nat
      /\ \A i \in DOMAIN queue : queue'[i] = queue[i]
      /\ queue'[Len(queue) + 1] = x
  BY <1>2
<1>4. \A i \in DOMAIN queue' : i \in DOMAIN queue \/ i = Len(queue) + 1
  BY <1>3
<1>5. RejectedPassBounced'
  BY <1>1, <1>3, <1>4 DEF RejectedPassBounced
<1>6. \A i \in DOMAIN queue' : Earned(queue'[i])
  BY <1>1, <1>3, <1>4 DEF PassIsEarned
<1>7. \A k, d : Bounced(k, d)' = Bounced(k, d)
  <2> SUFFICES ASSUME NEW k, NEW d
               PROVE  Bounced(k, d)' = Bounced(k, d)
    OBVIOUS
  <2>1. \A i : i \in Bounced(k, d)' <=> i \in Bounced(k, d)
    BY <1>3, <1>4 DEF Bounced
  <2> QED
    BY <2>1 DEF Bounced
<1>8. \A k \in AllKinds, d \in Dims : lessons'[<<k, d>>] > 0 => Cardinality(Bounced(k, d)') >= MinFalsePass
  BY <1>1, <1>7 DEF PassIsEarned
<1>9. PassIsEarned'
  BY <1>6, <1>8 DEF PassIsEarned, Earned
<1>10. revising' \in {NoItem} \cup DOMAIN queue'
  BY <1>1, <1>3 DEF TypeOK
<1> QED
  BY <1>1, <1>3, <1>5, <1>9, <1>10 DEF TypeOK

LEMMA FileAsKeeps ==
    ASSUME DraftInv, NEW kind, NEW verdict, FileAs(kind, verdict),
           verdict = "none" \/ (kind # "bark" /\ verdict = Recorded(loop.last))
    PROVE  DraftInv'
<1>1. /\ loop.stage = "file" /\ loop.kind = kind /\ loop' = Idle
      /\ queue' = Append(queue, Item(verdict)) /\ UNCHANGED <<revising, lessons, reports>>
  BY DEF FileAs, Other
<1>2. /\ Item(verdict) \in FiledItem /\ Earned(Item(verdict))
      /\ Item(verdict).status = "pending_review" /\ Item(verdict).bounced = FALSE
  BY <1>1, ItemIs
<1> DEFINE x == Item(verdict)
<1> HIDE DEF x
<1>3. /\ x \in FiledItem /\ Earned(x) /\ x.status = "pending_review" /\ x.bounced = FALSE
      /\ queue' = Append(queue, x)
  BY <1>1, <1>2 DEF x
<1>4. /\ queue' \in Seq(FiledItem) /\ revising' \in {NoItem} \cup DOMAIN queue'
      /\ lessons' \in [AllKinds \X Dims -> Nat] /\ reports' \in Nat
      /\ RejectedPassBounced' /\ PassIsEarned'
  BY <1>1, <1>3, AppendKeeps
<1> QED
  BY <1>1, <1>4, EndedRequest DEF DraftInv, TypeOK

LEMMA FileFlavorKeeps ==
    ASSUME DraftInv, FileFlavor
    PROVE  DraftInv'
<1>1. CASE FileAs("flavor", "none")
  BY <1>1, FileAsKeeps
<1>2. CASE loop' = Idle /\ UNCHANGED queue /\ Other
  BY <1>2, EndedRequest, QueueKept DEF DraftInv, TypeOK, Other
<1> QED
  BY <1>1, <1>2 DEF FileFlavor

\* The texts of one speaker, and then the next speaker's or none.
LEMMA FileBarksKeeps ==
    ASSUME WellFormed, DraftInv, FileBarks
    PROVE  DraftInv'
<1>1. loop.stage = "file" /\ loop.kind = "bark" /\ UNCHANGED <<revising, lessons, reports>>
  BY DEF FileBarks, Other
<1>2. /\ queue' \in Seq(FiledItem) /\ revising' \in {NoItem} \cup DOMAIN queue'
      /\ lessons' \in [AllKinds \X Dims -> Nat] /\ reports' \in Nat
      /\ RejectedPassBounced' /\ PassIsEarned'
  <2>1. CASE queue' = Append(queue, Item("none"))
    <3> DEFINE x == Item("none")
    <3>1. x \in FiledItem /\ Earned(x) /\ x.status = "pending_review" /\ x.bounced = FALSE
      BY <1>1, ItemIs
    <3>2. queue' = Append(queue, x)
      BY <2>1
    <3> HIDE DEF x
    <3> QED
      BY <1>1, <3>1, <3>2, AppendKeeps
  <2>2. CASE UNCHANGED queue
    BY <1>1, <2>2, QueueKept
  <2> QED
    BY <2>1, <2>2 DEF FileBarks
<1>3. loop' \in Request /\ loop'.round <= loop'.rounds /\ LoopInv'
  <2>1. CASE loop' = Idle
    BY <2>1, EndedRequest
  <2>2. ASSUME loop.speakers > 1,
               NEW d \in Drafts("bark", 1),
               loop' = [loop EXCEPT !.stage = IF loop.rounds = 0 THEN "file" ELSE "assess",
                                    !.draft = d, !.round = 0, !.last = Unjudged, !.speakers = @ - 1]
        PROVE  loop' \in Request /\ loop'.round <= loop'.rounds /\ LoopInv'
    <3> DEFINE s == IF loop.rounds = 0 THEN "file" ELSE "assess"
               n == loop.speakers - 1
    <3>1. loop' = [loop EXCEPT !.stage = s, !.draft = d, !.round = 0, !.last = Unjudged, !.speakers = n]
      BY <2>2
    <3>2. s \in {"file", "assess"} /\ (s = "assess" => loop.rounds # 0)
      OBVIOUS
    <3>3. n \in 0..2
      BY <2>2, LoopIs
    <3>4. d \in Draft
      BY <2>2, DraftsAre
    <3> HIDE DEF s, n
    <3>5. loop \in Request
      BY DEF DraftInv, TypeOK
    <3>6. /\ loop' \in Request
          /\ loop'.stage = s /\ loop'.rounds = loop.rounds /\ loop'.draft = d /\ loop'.kind = loop.kind
          /\ loop'.round = 0 /\ loop'.last = Unjudged
      BY <3>1, <3>2, <3>3, <3>4, <3>5, UnjudgedIs DEF Request
    <3>7. loop'.round <= loop'.rounds
      BY <3>6, LoopIs
    <3>8. LoopInv'
      BY <1>1, <3>2, <3>6, <3>7, LoopIs, UnjudgedIs DEF LoopInv
    <3> QED
      BY <3>6, <3>7, <3>8
  <2> QED
    BY <2>1, <2>2 DEF FileBarks
<1> QED
  BY <1>2, <1>3 DEF DraftInv, TypeOK

\* A step that leaves the request alone.
LEMMA LoopKept ==
    ASSUME DraftInv, UNCHANGED loop
    PROVE  loop' \in Request /\ loop'.round <= loop'.rounds /\ LoopInv'
BY DEF DraftInv, TypeOK, LoopInv

\* Bounced drafts stay bounced, so a lesson keeps its reasons: a step that changes items one by
\* one without taking back who was bounced.
LEMMA ItemsChanged ==
    ASSUME WellFormed, DraftInv, queue' \in Seq(FiledItem), DOMAIN queue' = DOMAIN queue,
           lessons' = lessons,
           \A i \in DOMAIN queue : /\ queue'[i].kind = queue[i].kind /\ queue'[i].dim = queue[i].dim
                                   /\ queue[i].bounced => queue'[i].bounced
                                   /\ Earned(queue'[i])
    PROVE  PassIsEarned'
<1>1. \A i \in DOMAIN queue' : Earned(queue'[i])
  OBVIOUS
<1>2. ASSUME NEW k \in AllKinds, NEW d \in Dims, lessons[<<k, d>>] > 0
      PROVE  Cardinality(Bounced(k, d)') >= MinFalsePass
  <2>1. Cardinality(Bounced(k, d)) >= MinFalsePass
    BY <1>2 DEF DraftInv, PassIsEarned
  <2>2. Bounced(k, d) \subseteq Bounced(k, d)'
    BY DEF Bounced
  <2>3. IsFiniteSet(DOMAIN queue') /\ Bounced(k, d)' \subseteq DOMAIN queue'
    <3>1. DOMAIN queue' = 1..Len(queue') /\ Len(queue') \in Nat
      OBVIOUS
    <3>2. IsFiniteSet(1..Len(queue'))
      BY <3>1, FS_Interval
    <3> QED
      BY <3>1, <3>2 DEF Bounced
  <2>4. IsFiniteSet(Bounced(k, d)') /\ IsFiniteSet(Bounced(k, d))
    BY <2>2, <2>3, FS_Subset
  <2>5. Cardinality(Bounced(k, d)) <= Cardinality(Bounced(k, d)')
    BY <2>2, <2>4, FS_Subset
  <2>6. Cardinality(Bounced(k, d)) \in Nat /\ Cardinality(Bounced(k, d)') \in Nat
    BY <2>4, FS_CardinalityType
  <2> QED
    BY <2>1, <2>5, <2>6 DEF WellFormed
<1>3. \A k \in AllKinds, d \in Dims : lessons'[<<k, d>>] > 0 => Cardinality(Bounced(k, d)') >= MinFalsePass
  BY <1>2
<1> QED
  BY <1>1, <1>3 DEF PassIsEarned, Earned

\* What is known of an item on the queue.
LEMMA ItemsAre ==
    ASSUME DraftInv, NEW i \in DOMAIN queue
    PROVE  queue[i] \in FiledItem /\ Earned(queue[i])
           /\ (queue[i].status = "rejected" /\ queue[i].verdict = "pass" => queue[i].bounced)
<1>1. queue \in Seq(FiledItem)
  BY DEF DraftInv, TypeOK
<1> QED
  BY <1>1 DEF DraftInv, PassIsEarned, RejectedPassBounced

LEMMA DecideKeeps ==
    ASSUME WellFormed, DraftInv, Decide
    PROVE  DraftInv'
<1>1. PICK i \in DOMAIN queue, status \in {"accepted", "rejected"} :
         /\ queue[i].status = "pending_review"
         /\ queue' = [queue EXCEPT ![i].status = status,
                                   ![i].bounced = @ \/ (status = "rejected" /\ queue[i].verdict = "pass")]
  BY DEF Decide
<1>2. UNCHANGED <<loop, revising, lessons, reports>>
  BY DEF Decide
<1> DEFINE b == queue[i].bounced \/ (status = "rejected" /\ queue[i].verdict = "pass")
           y == [queue[i] EXCEPT !.status = status, !.bounced = b]
<1>3. queue' = [queue EXCEPT ![i] = y]
  BY <1>1
<1>4. b \in BOOLEAN /\ (queue[i].bounced => b) /\ (status = "rejected" /\ queue[i].verdict = "pass" => b)
  BY ItemsAre DEF FiledItem
<1> HIDE DEF b
<1>5. queue[i] \in FiledItem /\ Earned(queue[i])
  BY ItemsAre
<1>6. /\ y \in FiledItem /\ y.kind = queue[i].kind /\ y.dim = queue[i].dim /\ y.status = status
      /\ y.bounced = b /\ y.v = queue[i].v /\ y.verdict = queue[i].verdict
      /\ y.incomplete = queue[i].incomplete /\ y.judged = queue[i].judged /\ y.revisions = queue[i].revisions
  BY <1>4, <1>5 DEF FiledItem
<1> HIDE DEF y
<1>7. Earned(y)
  BY <1>5, <1>6 DEF Earned
<1>8. queue \in Seq(FiledItem)
  BY DEF DraftInv, TypeOK
<1>9. /\ queue' \in Seq(FiledItem) /\ DOMAIN queue' = DOMAIN queue
      /\ \A k \in DOMAIN queue : queue'[k] = IF k = i THEN y ELSE queue[k]
  BY <1>3, <1>6, <1>8
<1>10. PassIsEarned'
  <2>1. \A k \in DOMAIN queue : /\ queue'[k].kind = queue[k].kind /\ queue'[k].dim = queue[k].dim
                                /\ queue[k].bounced => queue'[k].bounced
                                /\ Earned(queue'[k])
    BY <1>4, <1>6, <1>7, <1>9, ItemsAre
  <2> QED
    BY <1>2, <1>9, <2>1, ItemsChanged
<1>11. RejectedPassBounced'
  <2>1. \A k \in DOMAIN queue : queue'[k].status = "rejected" /\ queue'[k].verdict = "pass" => queue'[k].bounced
    BY <1>4, <1>6, <1>9, ItemsAre
  <2> QED
    BY <2>1, <1>9 DEF RejectedPassBounced
<1> QED
  BY <1>2, <1>9, <1>10, <1>11, LoopKept DEF DraftInv, TypeOK

LEMMA BeginRevisionKeeps ==
    ASSUME DraftInv, BeginRevision
    PROVE  DraftInv'
<1>1. revising' \in DOMAIN queue /\ UNCHANGED <<loop, queue, lessons, reports>>
  BY DEF BeginRevision
<1>2. \A k, d : Bounced(k, d)' = Bounced(k, d)
  BY <1>1 DEF Bounced
<1>3. PassIsEarned' /\ RejectedPassBounced'
  BY <1>1, <1>2 DEF DraftInv, PassIsEarned, RejectedPassBounced
<1> QED
  BY <1>1, <1>3, LoopKept DEF DraftInv, TypeOK

\* The revised draft is the next version and counts as one revision: what its verdict is about
\* can still be told.
LEMMA EndRevisionKeeps ==
    ASSUME WellFormed, DraftInv, EndRevision
    PROVE  DraftInv'
<1>1. revising # NoItem /\ revising' = NoItem /\ UNCHANGED <<loop, lessons, reports>>
  BY DEF EndRevision
<1>2. revising \in DOMAIN queue
  BY <1>1 DEF DraftInv, TypeOK
<1>3. CASE UNCHANGED queue
  <2>1. \A k, d : Bounced(k, d)' = Bounced(k, d)
    BY <1>3 DEF Bounced
  <2>2. PassIsEarned' /\ RejectedPassBounced'
    BY <1>1, <1>3, <2>1 DEF DraftInv, PassIsEarned, RejectedPassBounced
  <2> QED
    BY <1>1, <1>3, <2>2, LoopKept DEF DraftInv, TypeOK
<1>4. CASE queue' = [queue EXCEPT ![revising].status = "pending_review", ![revising].v = @ + 1,
                                  ![revising].revisions = @ + 1]
  <2> DEFINE i == revising
             v == queue[i].v + 1
             r == queue[i].revisions + 1
             y == [queue[i] EXCEPT !.status = "pending_review", !.v = v, !.revisions = r]
  <2>1. queue' = [queue EXCEPT ![i] = y]
    BY <1>4
  <2>2. queue[i] \in FiledItem /\ Earned(queue[i])
    BY <1>2, ItemsAre
  <2>3. v \in Nat /\ r \in Nat /\ v - r = queue[i].v - queue[i].revisions
    BY <2>2 DEF FiledItem
  <2> HIDE DEF v, r
  <2>4. /\ y \in FiledItem /\ y.kind = queue[i].kind /\ y.dim = queue[i].dim
        /\ y.status = "pending_review"
        /\ y.bounced = queue[i].bounced /\ y.v = v /\ y.verdict = queue[i].verdict
        /\ y.incomplete = queue[i].incomplete /\ y.judged = queue[i].judged /\ y.revisions = r
    BY <2>2, <2>3 DEF FiledItem
  <2> HIDE DEF y
  <2>5. Earned(y)
    BY <2>2, <2>3, <2>4 DEF Earned
  <2>6. queue \in Seq(FiledItem)
    BY DEF DraftInv, TypeOK
  <2>7. /\ queue' \in Seq(FiledItem) /\ DOMAIN queue' = DOMAIN queue
        /\ \A k \in DOMAIN queue : queue'[k] = IF k = i THEN y ELSE queue[k]
    BY <1>2, <2>1, <2>4, <2>6
  <2>8. PassIsEarned'
    <3>1. \A k \in DOMAIN queue : /\ queue'[k].kind = queue[k].kind /\ queue'[k].dim = queue[k].dim
                                  /\ queue[k].bounced => queue'[k].bounced
                                  /\ Earned(queue'[k])
      BY <2>4, <2>5, <2>7, ItemsAre
    <3> QED
      BY <1>1, <2>7, <3>1, ItemsChanged
  <2>9. RejectedPassBounced'
    <3>1. \A k \in DOMAIN queue : queue'[k].status = "rejected" /\ queue'[k].verdict = "pass" => queue'[k].bounced
      BY <2>4, <2>7, ItemsAre
    <3> QED
      BY <3>1, <2>7 DEF RejectedPassBounced
  <2> QED
    BY <1>1, <2>7, <2>8, <2>9, LoopKept DEF DraftInv, TypeOK
<1> QED
  BY <1>3, <1>4 DEF EndRevision

\* A lesson is written where enough rejected passes stand, and each of them was bounced.
LEMMA CalibrateKeeps ==
    ASSUME WellFormed, DraftInv, Calibrate
    PROVE  DraftInv'
<1>1. /\ reports' = reports + 1 /\ UNCHANGED <<loop, queue, revising>>
      /\ lessons' = [e \in AllKinds \X Dims |->
                        lessons[e] + (IF Cardinality(FalsePasses(e[1], e[2])) >= MinFalsePass THEN 1 ELSE 0)]
  BY DEF Calibrate
<1>2. lessons \in [AllKinds \X Dims -> Nat] /\ queue \in Seq(FiledItem) /\ reports \in Nat
  BY DEF DraftInv, TypeOK
<1> DEFINE Learned(e) == IF Cardinality(FalsePasses(e[1], e[2])) >= MinFalsePass THEN 1 ELSE 0
<1>14. \A e : Learned(e) \in {0, 1} /\ (Learned(e) = 1 => Cardinality(FalsePasses(e[1], e[2])) >= MinFalsePass)
  OBVIOUS
<1>15. lessons' = [e \in AllKinds \X Dims |-> lessons[e] + Learned(e)]
  BY <1>1
<1> HIDE DEF Learned
<1>3. ASSUME NEW k \in AllKinds, NEW d \in Dims
      PROVE  lessons'[<<k, d>>] = lessons[<<k, d>>] \/ Cardinality(FalsePasses(k, d)) >= MinFalsePass
  <2>1. lessons'[<<k, d>>] = lessons[<<k, d>>] + Learned(<<k, d>>)
    BY <1>15
  <2>2. lessons[<<k, d>>] \in Nat
    BY <1>2
  <2>3. <<k, d>>[1] = k /\ <<k, d>>[2] = d
    OBVIOUS
  <2>4. CASE Learned(<<k, d>>) = 0
    BY <2>1, <2>2, <2>4
  <2>5. CASE Learned(<<k, d>>) = 1
    <3>1. Cardinality(FalsePasses(<<k, d>>[1], <<k, d>>[2])) >= MinFalsePass
      BY <1>14, <2>5
    <3> QED
      BY <3>1, <2>3
  <2> QED
    BY <1>14, <2>4, <2>5
<1>4. lessons' \in [AllKinds \X Dims -> Nat]
  <2>1. \A e \in AllKinds \X Dims : lessons[e] + Learned(e) \in Nat
    BY <1>2, <1>14
  <2> QED
    BY <2>1, <1>15
<1>5. ASSUME NEW k \in AllKinds, NEW d \in Dims, lessons'[<<k, d>>] > 0
      PROVE  Cardinality(Bounced(k, d)) >= MinFalsePass
  <2>1. CASE lessons'[<<k, d>>] = lessons[<<k, d>>]
    BY <1>5, <2>1 DEF DraftInv, PassIsEarned
  <2>2. CASE Cardinality(FalsePasses(k, d)) >= MinFalsePass
    <3>1. FalsePasses(k, d) \subseteq Bounced(k, d)
      BY DEF FalsePasses, Bounced, DraftInv, RejectedPassBounced
    <3>2. IsFiniteSet(DOMAIN queue) /\ Bounced(k, d) \subseteq DOMAIN queue
      <4>1. DOMAIN queue = 1..Len(queue) /\ Len(queue) \in Nat
        BY <1>2
      <4>2. IsFiniteSet(1..Len(queue))
        BY <4>1, FS_Interval
      <4> QED
        BY <4>1, <4>2 DEF Bounced
    <3>3. IsFiniteSet(Bounced(k, d)) /\ IsFiniteSet(FalsePasses(k, d))
      BY <3>1, <3>2, FS_Subset
    <3>4. Cardinality(FalsePasses(k, d)) <= Cardinality(Bounced(k, d))
      BY <3>1, <3>3, FS_Subset
    <3>5. Cardinality(FalsePasses(k, d)) \in Nat /\ Cardinality(Bounced(k, d)) \in Nat
      BY <3>3, FS_CardinalityType
    <3> QED
      BY <2>2, <3>4, <3>5 DEF WellFormed
  <2> QED
    BY <1>3, <2>1, <2>2
<1>6. \A k, d : Bounced(k, d)' = Bounced(k, d)
  BY <1>1 DEF Bounced
<1>7. PassIsEarned' /\ RejectedPassBounced'
  BY <1>1, <1>5, <1>6 DEF DraftInv, PassIsEarned, RejectedPassBounced
<1>8. reports' \in Nat
  BY <1>1, <1>2
<1> QED
  BY <1>1, <1>4, <1>7, <1>8, LoopKept DEF DraftInv, TypeOK

LEMMA DraftInit ==
    ASSUME WellFormed, Init
    PROVE  DraftInv
<1>1. loop = Idle /\ queue = <<>> /\ revising = NoItem /\ reports = 0
      /\ lessons = [e \in AllKinds \X Dims |-> 0]
  BY DEF Init
<1>2. LoopInv
  BY <1>1, IdleIs DEF LoopInv
<1>3. RejectedPassBounced /\ PassIsEarned
  BY <1>1 DEF RejectedPassBounced, PassIsEarned
<1> QED
  BY <1>1, <1>2, <1>3, IdleIs DEF DraftInv, TypeOK

LEMMA DraftStep ==
    ASSUME WellFormed, DraftInv, [Next]_vars
    PROVE  DraftInv'
<1>1. CASE DraftQuest \/ DraftCharacter \/ DraftDialogue \/ DraftFlavor \/ DraftBarks
  <2>1. 1 \in 1..2
    OBVIOUS
  <2> QED
    BY <1>1, <2>1, BeginKeeps DEF DraftQuest, DraftCharacter, DraftDialogue, DraftFlavor, DraftBarks
<1>2. CASE Assess
  BY <1>2, AssessKeeps
<1>3. CASE Regenerate
  BY <1>3, RegenerateKeeps
<1>4. CASE Raise
  BY <1>4, RaiseKeeps
<1>5. CASE FileQuest \/ FileCharacter \/ FileDialogue
  BY <1>5, FileAsKeeps DEF FileQuest, FileCharacter, FileDialogue
<1>6. CASE FileFlavor
  BY <1>6, FileFlavorKeeps
<1>7. CASE FileBarks
  BY <1>7, FileBarksKeeps
<1>8. CASE Decide
  BY <1>8, DecideKeeps
<1>9. CASE BeginRevision
  BY <1>9, BeginRevisionKeeps
<1>10. CASE EndRevision
  BY <1>10, EndRevisionKeeps
<1>11. CASE Calibrate
  BY <1>11, CalibrateKeeps
<1>12. CASE UNCHANGED vars
  BY <1>12, LoopKept, QueueKept DEF DraftInv, TypeOK, vars
<1> QED
  BY <1>1, <1>2, <1>3, <1>4, <1>5, <1>6, <1>7, <1>8, <1>9, <1>10, <1>11, <1>12 DEF Next

LEMMA DraftAlways ==
    WellFormed /\ Spec => []DraftInv
<1> SUFFICES ASSUME WellFormed PROVE Spec => []DraftInv
  OBVIOUS
<1>1. Init => DraftInv
  BY DraftInit
<1>2. DraftInv /\ [Next]_vars => DraftInv'
  BY DraftStep
<1> QED
  BY <1>1, <1>2, PTL DEF Spec

\* A recorded "pass" was earned by the version that was filed, whatever the models replied and
\* however humans decided and revised meanwhile; a lesson has its reasons (refine.py,
\* calibration.py, lessons.py).
THEOREM PassesAreEarned ==
    WellFormed /\ Spec => []PassIsEarned
<1>1. DraftInv => PassIsEarned
  BY DEF DraftInv
<1> QED
  BY <1>1, DraftAlways, PTL

\* The variables keep their types; in particular no request goes beyond its refine_rounds.
THEOREM DraftsKeepTypes ==
    WellFormed /\ Spec => []TypeOK
<1>1. DraftInv => TypeOK
  BY DEF DraftInv
<1> QED
  BY <1>1, DraftAlways, PTL

-----------------------------------------------------------------------------
(***************************************************************************)
(* MultiAgent, for any worker ids the model makes up, any counts and       *)
(* subtasks                                                                *)
(***************************************************************************)
CONSTANTS Strangers, Errors, Counts, MaxTasks
VARIABLES board, tasks, next, diag, results, degraded, stage

Session == INSTANCE MultiAgent

\* The session's instance counts as everybody does.
LEMMA SessionCounts == \A S : Session!Cardinality(S) = Cardinality(S)
BY DEF Cardinality, Session!Cardinality

LEMMA MarkIs ==
    ASSUME NEW b \in Seq(Session!Messages), NEW id \in DOMAIN b, NEW s \in Session!Statuses
    PROVE  LET m == Session!Mark(b, id, s)
           IN  /\ m \in Seq(Session!Messages) /\ Len(m) = Len(b) /\ DOMAIN m = DOMAIN b
               /\ \A i \in DOMAIN b : /\ m[i].type = b[i].type /\ m[i].to = b[i].to /\ m[i].data = b[i].data
                                      /\ m[i].status = IF i = id THEN s ELSE b[i].status
                                      /\ i # id => m[i] = b[i]
<1> DEFINE x == [b[id] EXCEPT !.status = s]
<1>1. b[id] \in Session!Messages
  OBVIOUS
<1>2. /\ x \in Session!Messages /\ x.type = b[id].type /\ x.to = b[id].to /\ x.data = b[id].data
      /\ x.status = s
  BY <1>1 DEF Session!Messages
<1>3. Session!Mark(b, id, s) = [b EXCEPT ![id] = x]
  BY DEF Session!Mark
<1> HIDE DEF x
<1> QED
  BY <1>2, <1>3

LEMMA PostIs ==
    ASSUME NEW b \in Seq(Session!Messages), NEW m \in Session!Messages
    PROVE  /\ Session!Post(b, m) \in Seq(Session!Messages)
           /\ Len(Session!Post(b, m)) = Len(b) + 1 /\ Len(b) \in Nat
           /\ DOMAIN b = 1..Len(b) /\ DOMAIN Session!Post(b, m) = 1..(Len(b) + 1)
           /\ \A i \in DOMAIN b : Session!Post(b, m)[i] = b[i]
           /\ Session!Post(b, m)[Len(b) + 1] = m
BY DEF Session!Post

\* What the messages are.
LEMMA MessagesAre ==
    /\ \A to \in Session!Workers \cup Strangers, told \in Nat :
           LET m == Session!TaskAssign(to, told)
           IN  m \in Session!Messages /\ m.type = "task_assign" /\ m.to = to /\ m.status = "pending"
               /\ m.data.told = told
    /\ \A s \in Session!Statuses, t \in Nat, c, d \in Session!Claims :
           LET m == Session!TaskResult(s, t, c, d)
           IN  m \in Session!Messages /\ m.type = "task_result" /\ m.data.task = t
    /\ \A t \in Nat :
           LET m == Session!VerifyRequest(t)
           IN  m \in Session!Messages /\ m.type = "verify_request"
    /\ \A t \in Nat, c, d \in Session!Claims, v \in {"pass", "fail", "needs_more"} :
           LET m == Session!VerifyResult(t, c, d, v)
           IN  m \in Session!Messages /\ m.type = "verify_result" /\ m.data.target = t
<1>1. ASSUME NEW to \in Session!Workers \cup Strangers, NEW told \in Nat
      PROVE  LET m == Session!TaskAssign(to, told)
             IN  m \in Session!Messages /\ m.type = "task_assign" /\ m.to = to /\ m.status = "pending"
                 /\ m.data.told = told
  <2>1. [told |-> told] \in Session!Data
    BY DEF Session!Data
  <2> QED
    BY <2>1 DEF Session!TaskAssign, Session!Message, Session!Messages, Session!Statuses
<1>2. ASSUME NEW s \in Session!Statuses, NEW t \in Nat, NEW c \in Session!Claims, NEW d \in Session!Claims
      PROVE  LET m == Session!TaskResult(s, t, c, d)
             IN  m \in Session!Messages /\ m.type = "task_result" /\ m.data.task = t
  <2> DEFINE o == [task |-> t, claim |-> c, said |-> d]
  <2>1. o \in Session!Outcome /\ o \in Session!Data /\ o.task = t
    BY DEF Session!Outcome, Session!Data
  <2>2. Session!TaskResult(s, t, c, d) = Session!Message("task_result", "orchestrator", s, o)
    BY DEF Session!TaskResult
  <2> HIDE DEF o
  <2> QED
    BY <2>1, <2>2 DEF Session!Message, Session!Messages
<1>3. ASSUME NEW t \in Nat
      PROVE  LET m == Session!VerifyRequest(t)
             IN  m \in Session!Messages /\ m.type = "verify_request"
  <2>1. [target |-> t] \in Session!Data
    BY DEF Session!Data
  <2> QED
    BY <2>1 DEF Session!VerifyRequest, Session!Message, Session!Messages, Session!Statuses
<1>4. ASSUME NEW t \in Nat, NEW c \in Session!Claims, NEW d \in Session!Claims,
             NEW v \in {"pass", "fail", "needs_more"}
      PROVE  LET m == Session!VerifyResult(t, c, d, v)
             IN  m \in Session!Messages /\ m.type = "verify_result" /\ m.data.target = t
  <2> DEFINE o == [target |-> t, claim |-> c, counted |-> d, verdict |-> v]
  <2>1. o \in Session!Data /\ o.target = t
    BY DEF Session!Data
  <2>2. Session!VerifyResult(t, c, d, v) = Session!Message("verify_result", "orchestrator", "done", o)
    BY DEF Session!VerifyResult
  <2> HIDE DEF o
  <2> QED
    BY <2>1, <2>2 DEF Session!Message, Session!Messages, Session!Statuses
<1> QED
  BY <1>1, <1>2, <1>3, <1>4

\* What is known of the board before a step.
LEMMA BoardIs ==
    ASSUME Session!SessionInv
    PROVE  /\ board \in Seq(Session!Messages) /\ DOMAIN board = 1..Len(board) /\ Len(board) \in Nat
           /\ \A i \in DOMAIN board : board[i] \in Session!Messages
           /\ tasks \in Seq(Nat) /\ DOMAIN tasks = 1..Len(tasks) /\ Len(tasks) \in Nat
           /\ next \in Nat /\ next >= 1 /\ next <= Len(tasks) + 1
           /\ diag \in Nat
           /\ results \in Seq(Nat)
           /\ \A t : Session!Of(board, t) \subseteq DOMAIN board
<1>1. Session!TypeOK
  BY DEF Session!SessionInv
<1>2. board \in Seq(Session!Messages) /\ tasks \in Seq(Nat) /\ results \in Seq(Nat) /\ next \in 1..(Len(tasks) + 1)
  BY <1>1 DEF Session!TypeOK
<1>3. \A t : Session!Of(board, t) \subseteq DOMAIN board
  BY DEF Session!Of
<1>4. diag \in Nat
  BY <1>1, <1>2, <1>3 DEF Session!TypeOK
<1> QED
  BY <1>2, <1>3, <1>4

\* Messages that are neither tasks nor results leave alone all that is known of tasks and results.
LEMMA TasksKept ==
    ASSUME Session!SessionInv, UNCHANGED <<tasks, next, diag>>,
           DOMAIN board \subseteq DOMAIN board', \A i \in DOMAIN board : board'[i] = board[i],
           \A i \in DOMAIN board' \ DOMAIN board : board'[i].type \notin {"task_assign", "task_result"}
    PROVE  /\ Session!Of(board', "task_assign") = Session!Of(board, "task_assign")
           /\ Session!Of(board', "task_result") = Session!Of(board, "task_result")
           /\ Session!Claimable' /\ Session!OneResultEach' /\ Session!SettledInTurn'
<1>1. ASSUME NEW t \in {"task_assign", "task_result"}
      PROVE  Session!Of(board', t) = Session!Of(board, t)
  <2>1. \A i : i \in Session!Of(board', t) <=> i \in Session!Of(board, t)
    BY DEF Session!Of
  <2> QED
    BY <2>1 DEF Session!Of
<1>2. /\ Session!Of(board', "task_assign") = Session!Of(board, "task_assign")
      /\ Session!Of(board', "task_result") = Session!Of(board, "task_result")
  BY <1>1
<1>3. \A k \in DOMAIN tasks : k \in DOMAIN board
  BY DEF Session!SessionInv, Session!Known, Session!Of
<1>4. \A w : Session!Remaining(w)' = Session!Remaining(w) /\ Session!Waiting(w)' = Session!Waiting(w)
  <2> TAKE w
  <2>1. \A k : k \in Session!Remaining(w)' <=> k \in Session!Remaining(w)
    BY <1>3, BoardIs DEF Session!Remaining
  <2>2. \A i : i \in Session!Waiting(w)' <=> i \in Session!Waiting(w)
    BY <1>2, BoardIs DEF Session!Waiting
  <2> QED
    BY <2>1, <2>2 DEF Session!Remaining, Session!Waiting
<1>5. Session!Claimable'
  BY <1>4 DEF Session!SessionInv, Session!Claimable
<1>6. \A r \in Session!Of(board, "task_result") :
        board'[r] = board[r] /\ board'[board[r].data.task] = board[board[r].data.task]
  BY BoardIs DEF Session!SessionInv, Session!OneResultEach
<1>7. Session!OneResultEach'
  BY <1>2, <1>6 DEF Session!SessionInv, Session!OneResultEach
<1>8. Session!NoWorkerTwice' <=> Session!NoWorkerTwice
  <2>1. \A k \in DOMAIN tasks : board'[tasks[k]] = board[tasks[k]]
    BY <1>3 DEF Session!SessionInv, Session!Known
  <2> QED
    BY <2>1 DEF Session!NoWorkerTwice
<1>9. \A t \in Session!Of(board, "task_assign") : board'[t] = board[t]
  BY BoardIs
<1>10. Session!SettledInTurn'
  BY <1>2, <1>6, <1>8, <1>9 DEF Session!SessionInv, Session!SettledInTurn, Session!Worker
<1> QED
  BY <1>2, <1>5, <1>7, <1>10

\* The first messages are the tasks of the split.
LEMMA SplitKeeps ==
    ASSUME Session!SessionInv, NEW to, NEW n \in Nat, DOMAIN to = 1..n,
           \A k \in 1..n : to[k] \in Session!Workers \cup Strangers,
           stage = "start", stage' = "dispatch", degraded' \in BOOLEAN,
           board' = [k \in DOMAIN to |-> Session!TaskAssign(to[k], 0)],
           tasks' = [k \in DOMAIN to |-> k],
           UNCHANGED <<next, diag, results>>
    PROVE  Session!SessionInv'
<1>1. /\ next = 1 /\ results = <<>> /\ diag = 0
  <2>1. board = <<>> /\ tasks = <<>> /\ results = <<>>
    BY DEF Session!SessionInv, Session!Known
  <2>2. next = 1
    BY <2>1, BoardIs
  <2>3. Session!Of(board, "task_result") = {}
    BY <2>1 DEF Session!Of
  <2> QED
    BY <2>1, <2>2, <2>3 DEF Session!SessionInv, Session!TypeOK
<1>2. /\ board' \in Seq(Session!Messages) /\ DOMAIN board' = 1..n /\ Len(board') = n
      /\ \A k \in 1..n : /\ board'[k].type = "task_assign" /\ board'[k].to = to[k]
                         /\ board'[k].status = "pending"
  <2>1. \A k \in 1..n : /\ Session!TaskAssign(to[k], 0) \in Session!Messages
                        /\ Session!TaskAssign(to[k], 0).type = "task_assign"
                        /\ Session!TaskAssign(to[k], 0).to = to[k]
                        /\ Session!TaskAssign(to[k], 0).status = "pending"
    BY MessagesAre
  <2> DEFINE m(k) == Session!TaskAssign(to[k], 0)
  <2>2. board' = [k \in 1..n |-> m(k)]
    OBVIOUS
  <2>3. \A k \in 1..n : m(k) \in Session!Messages
    BY <2>1
  <2>4. \A k \in 1..n : m(k).type = "task_assign" /\ m(k).to = to[k] /\ m(k).status = "pending"
    BY <2>1
  <2> HIDE DEF m
  <2> QED
    BY <2>2, <2>3, <2>4
<1>3. tasks' \in Seq(Nat) /\ Len(tasks') = n /\ DOMAIN tasks' = 1..n /\ \A k \in 1..n : tasks'[k] = k
  OBVIOUS
<1>4. Session!Of(board', "task_assign") = 1..n /\ \A t : t # "task_assign" => Session!Of(board', t) = {}
  BY <1>2 DEF Session!Of
<1>5. Session!TypeOK'
  BY <1>1, <1>2, <1>3, BoardIs DEF Session!TypeOK
<1>6. Session!Known'
  BY <1>1, <1>3, <1>4 DEF Session!Known
<1>7. \A w : Session!Remaining(w)' = Session!Waiting(w)'
  <2> TAKE w
  <2>1. \A k : k \in Session!Remaining(w)' <=> k \in Session!Waiting(w)'
    BY <1>1, <1>2, <1>3, <1>4 DEF Session!Remaining, Session!Waiting
  <2> QED
    BY <2>1 DEF Session!Remaining, Session!Waiting
<1>8. \A w : IsFiniteSet(Session!Remaining(w)')
  <2> TAKE w
  <2>1. IsFiniteSet(1..n)
    BY FS_Interval
  <2>2. Session!Remaining(w)' \subseteq 1..n
    BY <1>1, <1>3 DEF Session!Remaining
  <2> QED
    BY <2>1, <2>2, FS_Subset
<1>9. Session!Claimable'
  <2> SUFFICES ASSUME NEW w \in Session!Workers
               PROVE  Cardinality(Session!Remaining(w)') <= Cardinality(Session!Waiting(w)')
    BY SessionCounts DEF Session!Claimable
  <2>1. Cardinality(Session!Remaining(w)') \in Nat
    BY <1>8, FS_CardinalityType
  <2> QED
    BY <2>1, <1>7
<1>10. Session!OneResultEach'
  <2>1. Cardinality({}) = 0
    BY FS_EmptySet
  <2>2. Session!Of(board', "task_result") = {} /\ next' = 1
    BY <1>1, <1>4
  <2>3. Session!Cardinality(Session!Of(board', "task_result")) = next' - 1
    <3> DEFINE S == Session!Of(board', "task_result")
    <3>1. S = {} /\ next' = 1
      BY <2>2
    <3> HIDE DEF S
    <3>2. Session!Cardinality(S) = Cardinality(S)
      BY SessionCounts
    <3>3. Cardinality(S) = 0
      BY <3>1, <2>1
    <3>4. Session!Cardinality(S) = next' - 1
      BY <3>1, <3>2, <3>3
    <3> QED
      BY <3>4 DEF S
  <2> QED
    BY <2>2, <2>3 DEF Session!OneResultEach
<1>11. Session!OneVerdictEach'
  BY <1>4 DEF Session!OneVerdictEach
<1>12. Session!SettledInTurn'
  BY <1>1, <1>2, <1>3, <1>4 DEF Session!SettledInTurn
<1>13. Session!Reported'
  BY DEF Session!Reported
<1> QED
  BY <1>5, <1>6, <1>9, <1>10, <1>11, <1>12, <1>13 DEF Session!SessionInv

\* A message about a result, that is not a verdict: who has which verdict stays.
LEMMA VerdictsKept ==
    ASSUME Session!SessionInv, UNCHANGED results,
           DOMAIN board \subseteq DOMAIN board', \A i \in DOMAIN board : board'[i] = board[i],
           \A i \in DOMAIN board' \ DOMAIN board : board'[i].type \notin {"task_assign", "task_result", "verify_result"},
           Session!Of(board', "task_result") = Session!Of(board, "task_result")
    PROVE  Session!OneVerdictEach'
<1>1. Session!Of(board', "verify_result") = Session!Of(board, "verify_result")
  <2>1. \A i : i \in Session!Of(board', "verify_result") <=> i \in Session!Of(board, "verify_result")
    BY DEF Session!Of
  <2> QED
    BY <2>1 DEF Session!Of
<1>2. \A v \in Session!Of(board, "verify_result") : board'[v] = board[v]
  BY BoardIs
<1>3. \A r : Session!Verdicts(r)' = Session!Verdicts(r)
  <2> TAKE r
  <2>1. \A v : v \in Session!Verdicts(r)' <=> v \in Session!Verdicts(r)
    BY <1>1, <1>2 DEF Session!Verdicts
  <2> QED
    BY <2>1 DEF Session!Verdicts
<1>4. \A r \in Session!Of(board, "task_result") : Session!Worker(r)' = Session!Worker(r)
  BY BoardIs DEF Session!SessionInv, Session!OneResultEach, Session!Worker
<1> QED
  BY <1>1, <1>2, <1>3, <1>4 DEF Session!SessionInv, Session!OneVerdictEach

LEMMA VerifierDownKeeps ==
    ASSUME Session!SessionInv, Session!VerifierDown
    PROVE  Session!SessionInv'
<1>1. /\ board' = Session!Post(board, Session!VerifyRequest(Head(results)))
      /\ stage' = "raised" /\ UNCHANGED <<tasks, next, diag, results, degraded>>
      /\ results # <<>>
  BY DEF Session!VerifierDown, Session!Verifying
<1>2. Head(results) \in Nat
  BY <1>1, BoardIs
<1>3. Session!VerifyRequest(Head(results)) \in Session!Messages
      /\ Session!VerifyRequest(Head(results)).type = "verify_request"
  BY <1>2, MessagesAre
<1> DEFINE m == Session!VerifyRequest(Head(results))
<1> HIDE DEF m
<1>4. /\ board' \in Seq(Session!Messages) /\ DOMAIN board' = 1..(Len(board) + 1)
      /\ \A i \in DOMAIN board : board'[i] = board[i]
      /\ board'[Len(board) + 1].type = "verify_request"
  <2>1. m \in Session!Messages /\ m.type = "verify_request" /\ board' = Session!Post(board, m)
    BY <1>1, <1>3 DEF m
  <2> QED
    BY <2>1, PostIs, BoardIs
<1>5. DOMAIN board \subseteq DOMAIN board' /\ \A i \in DOMAIN board' \ DOMAIN board : i = Len(board) + 1
  BY <1>4, BoardIs
<1>6. /\ Session!Of(board', "task_assign") = Session!Of(board, "task_assign")
      /\ Session!Of(board', "task_result") = Session!Of(board, "task_result")
      /\ Session!Claimable' /\ Session!OneResultEach' /\ Session!SettledInTurn'
  BY <1>1, <1>4, <1>5, TasksKept
<1>7. Session!OneVerdictEach'
  BY <1>1, <1>4, <1>5, <1>6, VerdictsKept
<1>8. Session!TypeOK'
  BY <1>1, <1>4, <1>6 DEF Session!SessionInv, Session!TypeOK
<1>9. \A r \in Session!Of(board, "task_result") : Session!Worker(r)' = Session!Worker(r)
  BY <1>4, BoardIs DEF Session!SessionInv, Session!OneResultEach, Session!Worker
<1>10. Session!Known'
  BY <1>1, <1>6, <1>9 DEF Session!SessionInv, Session!Known
<1>11. Session!Reported'
  BY <1>1 DEF Session!Reported
<1> QED
  BY <1>6, <1>7, <1>8, <1>10, <1>11 DEF Session!SessionInv

LEMMA SynthesizeKeeps ==
    ASSUME Session!SessionInv, Session!Synthesize
    PROVE  Session!SessionInv'
<1> DEFINE m == Session!Synthesis(Session!Of(board, "task_result"), Session!Of(board, "verify_result"))
<1>1. /\ board' = Session!Post(board, m)
      /\ stage' = "done" /\ UNCHANGED <<tasks, next, diag, results, degraded>>
      /\ results = <<>> /\ next > Len(tasks)
  BY DEF Session!Synthesize
<1>2. /\ m \in Session!Messages /\ m.type = "synthesize"
      /\ m.data.results = Session!Of(board, "task_result")
  <2> DEFINE d == [results |-> Session!Of(board, "task_result"), verdicts |-> Session!Of(board, "verify_result"),
                   degraded |-> degraded]
  <2>1. Session!Of(board, "task_result") \in SUBSET Nat /\ Session!Of(board, "verify_result") \in SUBSET Nat
    BY BoardIs
  <2>2. degraded \in BOOLEAN
    BY DEF Session!SessionInv, Session!TypeOK
  <2>3. d \in Session!Data /\ d.results = Session!Of(board, "task_result")
    BY <2>1, <2>2 DEF Session!Data
  <2>4. m = Session!Message("synthesize", "broadcast", "done", d)
    BY DEF Session!Synthesis
  <2> HIDE DEF d, m
  <2> QED
    BY <2>3, <2>4 DEF Session!Message, Session!Messages, Session!Statuses
<1> HIDE DEF m
<1>4. /\ board' \in Seq(Session!Messages) /\ DOMAIN board' = 1..(Len(board) + 1) /\ Len(board') = Len(board) + 1
      /\ \A i \in DOMAIN board : board'[i] = board[i]
      /\ board'[Len(board) + 1] = m
  BY <1>1, <1>2, PostIs, BoardIs
<1>5. DOMAIN board \subseteq DOMAIN board' /\ \A i \in DOMAIN board' \ DOMAIN board : i = Len(board) + 1
  BY <1>4, BoardIs
<1>6. /\ Session!Of(board', "task_assign") = Session!Of(board, "task_assign")
      /\ Session!Of(board', "task_result") = Session!Of(board, "task_result")
      /\ Session!Claimable' /\ Session!OneResultEach' /\ Session!SettledInTurn'
  BY <1>1, <1>2, <1>4, <1>5, TasksKept
<1>7. Session!OneVerdictEach'
  BY <1>1, <1>2, <1>4, <1>5, <1>6, VerdictsKept
<1>8. Session!TypeOK'
  BY <1>1, <1>4, <1>6 DEF Session!SessionInv, Session!TypeOK
<1>9. \A r \in Session!Of(board, "task_result") : Session!Worker(r)' = Session!Worker(r)
  BY <1>4, BoardIs DEF Session!SessionInv, Session!OneResultEach, Session!Worker
<1>10. Session!Known'
  BY <1>1, <1>6, <1>9 DEF Session!SessionInv, Session!Known
<1>11. Session!Reported'
  BY <1>1, <1>2, <1>4, <1>6 DEF Session!Reported
<1> QED
  BY <1>6, <1>7, <1>8, <1>10, <1>11 DEF Session!SessionInv

\* A verdict on the first of the results that wait for one.
LEMMA JudgedKeeps ==
    ASSUME Session!SessionInv, Session!Verifying,
           NEW counted \in Session!Claims, NEW verdict \in {"pass", "fail", "needs_more"},
           Session!Judged(Head(results), counted, verdict), results' = Tail(results),
           UNCHANGED <<tasks, next, diag, degraded, stage>>
    PROVE  Session!SessionInv'
<1> DEFINE N == Len(board)
           h == results[1]
           m1 == Session!VerifyRequest(h)
           m2 == Session!VerifyResult(h, Session!Claim(board[h]), counted, verdict)
           b1 == Session!Post(board, m1)
           b2 == Session!Post(b1, m2)
<1>1. /\ results # <<>> /\ stage = "dispatch" /\ next > Len(tasks)
      /\ Head(results) = h /\ h \in Nat /\ 1 \in DOMAIN results
  BY BoardIs DEF Session!Verifying
<1>2. board' = Session!Mark(b2, N + 1, "done")
  BY <1>1 DEF Session!Judged
<1>3. h \in Session!Of(board, "task_result") /\ Session!Worker(h) \in Session!Workers
  BY <1>1 DEF Session!SessionInv, Session!Known
<1>4. Session!Claim(board[h]) \in Session!Claims
  <2>1. board[h] \in Session!Messages /\ board[h].type = "task_result"
    BY <1>3, BoardIs DEF Session!Of
  <2>2. board[h].data \in Session!Outcome
    BY <2>1 DEF Session!Messages
  <2>3. board[h].data.claim \in Session!Claims /\ board[h].data.said \in Session!Claims
    BY <2>2 DEF Session!Outcome
  <2> QED
    BY <2>3 DEF Session!Claim
<1>5. /\ m1 \in Session!Messages /\ m1.type = "verify_request"
      /\ m2 \in Session!Messages /\ m2.type = "verify_result" /\ m2.data.target = h
  BY <1>1, <1>4, MessagesAre
<1> HIDE DEF m1, m2
<1>6. /\ b1 \in Seq(Session!Messages) /\ Len(b1) = N + 1 /\ DOMAIN b1 = 1..(N + 1) /\ N \in Nat
      /\ \A i \in DOMAIN board : b1[i] = board[i]
      /\ b1[N + 1] = m1
  BY <1>5, PostIs, BoardIs
<1> HIDE DEF b1
<1>7. /\ b2 \in Seq(Session!Messages) /\ Len(b2) = N + 2 /\ DOMAIN b2 = 1..(N + 2)
      /\ \A i \in DOMAIN board : b2[i] = board[i]
      /\ b2[N + 1] = m1 /\ b2[N + 2] = m2
  <2>1. /\ b2 \in Seq(Session!Messages) /\ Len(b2) = Len(b1) + 1 /\ DOMAIN b2 = 1..(Len(b1) + 1)
        /\ \A i \in DOMAIN b1 : b2[i] = b1[i]
        /\ b2[Len(b1) + 1] = m2
    BY <1>5, <1>6, PostIs
  <2> HIDE DEF b2
  <2>2. Len(b1) = N + 1 /\ N + 1 + 1 = N + 2 /\ N + 1 \in DOMAIN b1 /\ DOMAIN board \subseteq DOMAIN b1
    BY <1>6, BoardIs
  <2>3. Len(b2) = N + 2 /\ DOMAIN b2 = 1..(N + 2) /\ b2[N + 2] = m2
    BY <2>1, <2>2
  <2>4. b2[N + 1] = m1 /\ \A i \in DOMAIN board : b2[i] = board[i]
    BY <2>1, <2>2, <1>6
  <2> QED
    BY <2>1, <2>3, <2>4
<1> HIDE DEF b2
<1>8. /\ board' \in Seq(Session!Messages) /\ DOMAIN board' = 1..(N + 2)
      /\ \A i \in DOMAIN board : board'[i] = board[i]
      /\ board'[N + 1].type = "verify_request"
      /\ board'[N + 2].type = "verify_result" /\ board'[N + 2].data.target = h
  <2>1. N + 1 \in DOMAIN b2 /\ "done" \in Session!Statuses
    BY <1>6, <1>7 DEF Session!Statuses
  <2>2. /\ board' \in Seq(Session!Messages) /\ DOMAIN board' = DOMAIN b2
        /\ \A i \in DOMAIN b2 : /\ board'[i].type = b2[i].type /\ board'[i].data = b2[i].data
                                /\ i # N + 1 => board'[i] = b2[i]
    BY <1>2, <1>7, <2>1, MarkIs
  <2>3. \A i \in DOMAIN board : i \in DOMAIN b2 /\ i # N + 1
    BY <1>7, BoardIs
  <2>4. N + 1 \in DOMAIN b2 /\ N + 2 \in DOMAIN b2
    BY <1>6, <1>7
  <2> QED
    BY <1>5, <1>7, <2>2, <2>3, <2>4
<1>9. DOMAIN board \subseteq DOMAIN board' /\ (\A i \in DOMAIN board' \ DOMAIN board : i = N + 1 \/ i = N + 2)
      /\ N + 2 \in DOMAIN board' /\ N + 2 \notin DOMAIN board
  <2>1. DOMAIN board = 1..N /\ N \in Nat
    BY BoardIs
  <2>2. DOMAIN board' = 1..(N + 2)
    BY <1>8
  <2> HIDE DEF N
  <2> QED
    BY ONLY <2>1, <2>2
<1>10. /\ Session!Of(board', "task_assign") = Session!Of(board, "task_assign")
       /\ Session!Of(board', "task_result") = Session!Of(board, "task_result")
       /\ Session!Claimable' /\ Session!OneResultEach' /\ Session!SettledInTurn'
  BY <1>8, <1>9, TasksKept
<1>11. \A r \in Session!Of(board, "task_result") : Session!Worker(r)' = Session!Worker(r)
  BY <1>8, BoardIs DEF Session!SessionInv, Session!OneResultEach, Session!Worker
<1>18. \A r \in Session!Of(board, "task_result") :
         board'[board'[r].data.task].to = board[board[r].data.task].to
  BY <1>11 DEF Session!Worker
<1>12. /\ results' \in Seq(Nat) /\ \A k \in DOMAIN results' : k + 1 \in DOMAIN results /\ results'[k] = results[k + 1]
       /\ \A k \in DOMAIN results : k = 1 \/ (k - 1 \in DOMAIN results' /\ results'[k - 1] = results[k])
       /\ \A k \in DOMAIN results' : k \in Nat /\ k >= 1
  <2> DEFINE n == Len(results)
  <2>1. /\ results \in Seq(Nat) /\ results # <<>> /\ results' = Tail(results)
        /\ n \in Nat /\ n >= 1 /\ DOMAIN results = 1..n
    BY <1>1, BoardIs, LenProperties
  <2>2. /\ results' \in Seq(Nat) /\ Len(results') = n - 1
        /\ \A i \in 1..Len(results') : results'[i] = results[i + 1]
    BY <2>1, HeadTailProperties
  <2>3. DOMAIN results' = 1..(n - 1) /\ \A i \in 1..(n - 1) : results'[i] = results[i + 1]
    BY <2>2, LenProperties
  <2> HIDE DEF n
  <2>4. /\ \A k \in 1..(n - 1) : k + 1 \in 1..n /\ k \in Nat /\ k >= 1
        /\ \A k \in 1..n : k = 1 \/ (k - 1 \in 1..(n - 1) /\ k - 1 + 1 = k)
    BY <2>1
  <2> QED
    BY <2>1, <2>2, <2>3, <2>4
<1>13. \A r : (\E k \in DOMAIN results' : results'[k] = r) <=> (r # h /\ \E k \in DOMAIN results : results[k] = r)
  <2> TAKE r
  <2>1. ASSUME NEW k \in DOMAIN results', results'[k] = r
        PROVE  r # h /\ \E j \in DOMAIN results : results[j] = r
    <3>1. k + 1 \in DOMAIN results /\ results[k + 1] = r /\ k + 1 # 1
      BY <2>1, <1>12
    <3>2. r # h
      BY <3>1, <1>1 DEF Session!SessionInv, Session!Known
    <3> QED
      BY <3>1, <3>2
  <2>2. ASSUME r # h, NEW k \in DOMAIN results, results[k] = r
        PROVE  \E j \in DOMAIN results' : results'[j] = r
    BY <2>2, <1>12
  <2> QED
    BY <2>1, <2>2
<1>14. Session!Known'
  <2>1. \A k \in DOMAIN tasks' : tasks'[k] = k /\ k \in Session!Of(board', "task_assign")
    BY <1>10 DEF Session!SessionInv, Session!Known
  <2>2. \A k \in DOMAIN results' :
          /\ results'[k] \in Session!Of(board', "task_result")
          /\ board'[board'[results'[k]].data.task].to \in Session!Workers
    BY <1>10, <1>18, <1>12 DEF Session!SessionInv, Session!Known, Session!Worker
  <2>3. ASSUME NEW j \in DOMAIN results', NEW k \in DOMAIN results', results'[j] = results'[k]
        PROVE  j = k
    <3>1. j + 1 = k + 1
      BY <2>3, <1>12 DEF Session!SessionInv, Session!Known
    <3> QED
      BY <3>1, <1>12
  <2>4. stage' # "start"
    BY <1>1
  <2> QED
    BY <2>1, <2>2, <2>3, <2>4 DEF Session!Known, Session!Worker
<1>15. Session!OneVerdictEach'
  <2>1. \A v : v \in Session!Of(board', "verify_result") <=> v \in Session!Of(board, "verify_result") \/ v = N + 2
    BY <1>8, <1>9 DEF Session!Of
  <2>2. \A v \in Session!Of(board, "verify_result") : board'[v] = board[v] /\ v # N + 2
    BY <1>8, <1>9, BoardIs
  <2>3. ASSUME NEW r
        PROVE  \A v : v \in Session!Verdicts(r)' <=> v \in Session!Verdicts(r) \/ (r = h /\ v = N + 2)
    BY <2>1, <2>2, <1>8 DEF Session!Verdicts
  <2>4. ASSUME NEW v \in Session!Of(board', "verify_result")
        PROVE  board'[v].data.target \in Session!Of(board', "task_result")
    BY <2>1, <2>2, <1>3, <1>8, <1>10 DEF Session!SessionInv, Session!OneVerdictEach
  <2>5. ASSUME NEW r \in Session!Of(board', "task_result")
        PROVE  IF Session!Worker(r)' \notin Session!Workers \/ \E k \in DOMAIN results' : results'[k] = r
               THEN Session!Verdicts(r)' = {}
               ELSE \E v \in Session!Of(board', "verify_result") : Session!Verdicts(r)' = {v}
    <3>1. CASE r = h
      <4>1. Session!Verdicts(r) = {}
        BY <3>1, <1>1, <1>3 DEF Session!SessionInv, Session!OneVerdictEach
      <4>2. \A v : v \in Session!Verdicts(r)' <=> v = N + 2
        BY <2>3, <3>1, <4>1
      <4>3. N + 2 \in Session!Of(board', "verify_result")
        BY <2>1
      <4>4. \E v \in Session!Of(board', "verify_result") : Session!Verdicts(r)' = {v}
        <5> DEFINE n == N + 2
        <5>1. \A v : v \in Session!Verdicts(r)' <=> v = n
          BY <4>2
        <5>2. n \in Session!Of(board', "verify_result")
          BY <4>3
        <5> HIDE DEF n
        <5>3. Session!Verdicts(r)' = {n}
          BY <5>1
        <5> QED
          BY <5>2, <5>3
      <4>5. Session!Worker(r)' \in Session!Workers
        <5>1. Session!Worker(r)' = Session!Worker(r) /\ Session!Worker(r) \in Session!Workers
          BY <3>1, <1>3, <1>11
        <5> QED
          BY <5>1
      <4>6. ~ (\E k \in DOMAIN results' : results'[k] = r)
        BY <3>1, <1>13
      <4> QED
        BY <4>4, <4>5, <4>6
    <3>2. CASE r # h
      <4>1. Session!Verdicts(r)' = Session!Verdicts(r)
        <5>1. \A v : v \in Session!Verdicts(r)' <=> v \in Session!Verdicts(r)
          BY <2>3, <3>2
        <5> QED
          BY <5>1 DEF Session!Verdicts
      <4>2. Session!Worker(r)' = Session!Worker(r) /\ r \in Session!Of(board, "task_result")
        BY <1>10, <1>11, <2>5
      <4>3. (\E k \in DOMAIN results' : results'[k] = r) <=> (\E k \in DOMAIN results : results[k] = r)
        BY <1>13, <3>2
      <4>4. IF Session!Worker(r) \notin Session!Workers \/ \E k \in DOMAIN results : results[k] = r
            THEN Session!Verdicts(r) = {}
            ELSE \E v \in Session!Of(board, "verify_result") : Session!Verdicts(r) = {v}
        BY <4>2 DEF Session!SessionInv, Session!OneVerdictEach
      <4> QED
        BY <4>1, <4>2, <4>3, <4>4, <2>1
    <3> QED
      BY <3>1, <3>2
  <2> QED
    BY <2>4, <2>5 DEF Session!OneVerdictEach
<1>16. Session!TypeOK'
  BY <1>8, <1>10, <1>12 DEF Session!SessionInv, Session!TypeOK
<1>17. Session!Reported'
  BY <1>1 DEF Session!Reported
<1> QED
  BY <1>10, <1>14, <1>15, <1>16, <1>17 DEF Session!SessionInv

-----------------------------------------------------------------------------
(* The dispatch of a task. *)

\* The oldest of the tasks that a worker may claim.
LEMMA OldestIs ==
    ASSUME NEW S \in SUBSET Nat, S # {}
    PROVE  \E i \in S : \A j \in S : i <= j
<1>1. IsWellFoundedOn(OpToRel(<, Nat), Nat)
  BY NatLessThanWellFounded
<1>2. PICK m \in S : \A k \in S : ~ (<<k, m>> \in OpToRel(<, Nat))
  <2> DEFINE R == OpToRel(<, Nat)
  <2>1. IsWellFoundedOn(R, Nat)
    BY <1>1
  <2> HIDE DEF R
  <2>2. \E m \in S : \A k \in S : ~ (<<k, m>> \in R)
    BY <2>1, WFMin
  <2> QED
    BY <2>2 DEF R
<1>3. \A k \in S : ~ (k < m)
  BY <1>2 DEF OpToRel
<1> QED
  BY <1>3

LEMMA TaskIs ==
    ASSUME Session!SessionInv, next <= Len(tasks)
    PROVE  /\ Session!Task = next /\ Session!To = board[next].to
           /\ next \in Session!Of(board, "task_assign") /\ next \in DOMAIN board
<1>1. next \in DOMAIN tasks
  BY BoardIs
<1>2. tasks[next] = next /\ next \in Session!Of(board, "task_assign")
  BY <1>1 DEF Session!SessionInv, Session!Known
<1> QED
  BY <1>2, BoardIs DEF Session!Task, Session!To

\* A result of a task that had none, as the last message of a dispatch.
LEMMA ResultPosted ==
    ASSUME Session!SessionInv, stage = "dispatch", next <= Len(tasks),
           NEW p, NEW id,
           board' \in Seq(Session!Messages), DOMAIN board \subseteq DOMAIN board',
           \A i \in DOMAIN board : /\ board'[i].type = board[i].type /\ board'[i].to = board[i].to
                                   /\ board'[i].data = board[i].data
                                   /\ board'[i].status = board[i].status \/ board'[i].status \in {"done", "failed"},
           p \in DOMAIN board' \ DOMAIN board, board'[p].type = "task_result", board'[p].data.task = id,
           \A i \in DOMAIN board' \ DOMAIN board : i # p => board'[i].type = "task_assign",
           id \in Session!Of(board', "task_assign"), board'[id].status \in {"done", "failed"},
           board'[id].to \in Session!Workers \/ id <= next,
           id \in Nat, \A r \in Session!Of(board, "task_result") : board[r].data.task # id,
           results' = IF board'[id].to \in Session!Workers THEN Append(results, p) ELSE results,
           next' = next + 1, UNCHANGED <<tasks, stage, degraded>>, diag' \in {diag, p}
    PROVE  /\ Session!TypeOK' /\ Session!Known' /\ Session!OneResultEach' /\ Session!OneVerdictEach'
           /\ Session!Reported'
           /\ Session!Of(board', "task_result") = Session!Of(board, "task_result") \cup {p}
<1> DEFINE TR == Session!Of(board, "task_result")
           TA == Session!Of(board, "task_assign")
<1>1. /\ p \in Nat /\ p \notin TR /\ p \in DOMAIN board'
      /\ TR \subseteq DOMAIN board /\ TA \subseteq DOMAIN board
      /\ TR \subseteq Nat
  <2>1. TR \subseteq DOMAIN board /\ TA \subseteq DOMAIN board
    BY BoardIs
  <2>2. DOMAIN board = 1..Len(board) /\ Len(board) \in Nat
    BY BoardIs
  <2>3. DOMAIN board \subseteq Nat
    BY ONLY <2>2
  <2>4. DOMAIN board' = 1..Len(board') /\ Len(board') \in Nat
    OBVIOUS
  <2>5. p \in Nat
    <3>1. p \in DOMAIN board'
      OBVIOUS
    <3> QED
      BY ONLY <3>1, <2>4
  <2> HIDE DEF TR, TA
  <2> QED
    BY <2>1, <2>3, <2>5
<1>2. Session!Of(board', "task_result") = TR \cup {p}
  <2>1. \A i : i \in Session!Of(board', "task_result") <=> i \in TR \cup {p}
    BY DEF Session!Of
  <2> QED
    BY <2>1 DEF Session!Of
<1>3. TA \subseteq Session!Of(board', "task_assign")
  BY DEF Session!Of
<1>4. \A r \in TR : /\ board'[r].data = board[r].data
                    /\ board[r].data.task \in TA
                    /\ board'[board[r].data.task].to = board[board[r].data.task].to
                    /\ board'[board[r].data.task].status # "pending"
                    /\ board[board[r].data.task].to \in Session!Workers \/ board[r].data.task < next
                    /\ board[r].data.task # id
  <2> SUFFICES ASSUME NEW r \in TR
               PROVE  /\ board'[r].data = board[r].data
                      /\ board[r].data.task \in TA
                      /\ board'[board[r].data.task].to = board[board[r].data.task].to
                      /\ board'[board[r].data.task].status # "pending"
                      /\ board[board[r].data.task].to \in Session!Workers \/ board[r].data.task < next
                      /\ board[r].data.task # id
    OBVIOUS
  <2>1. /\ board[r].data.task \in TA /\ board[board[r].data.task].status # "pending"
        /\ board[board[r].data.task].to \in Session!Workers \/ board[r].data.task < next
    BY DEF Session!SessionInv, Session!OneResultEach
  <2> QED
    BY <2>1, <1>1
<1>5. Session!OneResultEach'
  <2>1. Session!Cardinality(Session!Of(board', "task_result")) = next' - 1
    <3>1. IsFiniteSet(TR)
      <4>1. IsFiniteSet(1..Len(board))
        BY BoardIs, FS_Interval
      <4> HIDE DEF TR
      <4> QED
        BY <4>1, <1>1, BoardIs, FS_Subset
    <3>2. Session!Cardinality(TR) = next - 1
      BY DEF Session!SessionInv, Session!OneResultEach
    <3>3. Cardinality(TR) = next - 1
      <4> HIDE DEF TR
      <4> QED
        BY <3>2, SessionCounts
    <3> DEFINE S == Session!Of(board', "task_result")
    <3>4. S = TR \cup {p}
      BY <1>2
    <3> HIDE DEF S, TR
    <3>5. Cardinality(TR \cup {p}) = Cardinality(TR) + 1
      BY <1>1, <3>1, FS_AddElement
    <3>6. Session!Cardinality(S) = Cardinality(S)
      BY SessionCounts
    <3>7. Session!Cardinality(S) = next' - 1
      BY <3>3, <3>4, <3>5, <3>6, BoardIs
    <3> QED
      BY <3>7 DEF S
  <2>2. ASSUME NEW r \in TR \cup {p}
        PROVE  LET t == board'[r].data.task
               IN  /\ t \in Session!Of(board', "task_assign") /\ board'[t].status # "pending"
                   /\ board'[t].to \in Session!Workers \/ t < next'
    <3>1. CASE r \in TR
      <4> DEFINE t == board[r].data.task
      <4>1. /\ board'[r].data = board[r].data /\ t \in TA
            /\ board'[t].to = board[t].to /\ board'[t].status # "pending"
            /\ board[t].to \in Session!Workers \/ t < next
        BY <3>1, <1>4
      <4>2. t \in Nat
        <5>1. TA \subseteq DOMAIN board /\ DOMAIN board = 1..Len(board) /\ Len(board) \in Nat
          BY <1>1, BoardIs
        <5>2. t \in TA
          BY <4>1
        <5> HIDE DEF t, TA
        <5> QED
          BY ONLY <5>1, <5>2
      <4>3. board'[t].to \in Session!Workers \/ t < next'
        <5>1. next \in Nat /\ next' = next + 1
          BY BoardIs
        <5>2. t < next => t < next'
          <6> HIDE DEF t
          <6> QED
            BY ONLY <4>2, <5>1
        <5> HIDE DEF t
        <5> QED
          BY ONLY <4>1, <5>2
      <4> QED
        BY <4>1, <4>3, <1>3
    <3>2. CASE r = p
      <4>1. board'[id].to \in Session!Workers \/ id < next'
        BY BoardIs
      <4> QED
        BY <3>2, <4>1
    <3> QED
      BY <3>1, <3>2
  <2>3. ASSUME NEW r \in TR \cup {p}, NEW q \in TR \cup {p}, board'[r].data.task = board'[q].data.task
        PROVE  r = q
    <3>1. CASE r \in TR /\ q \in TR
      <4>1. board[r].data.task = board[q].data.task
        BY <2>3, <3>1, <1>4
      <4> QED
        BY <3>1, <4>1 DEF Session!SessionInv, Session!OneResultEach
    <3>2. CASE r = p /\ q \in TR
      BY <2>3, <3>2, <1>4
    <3>3. CASE r \in TR /\ q = p
      BY <2>3, <3>3, <1>4
    <3> QED
      BY <3>1, <3>2, <3>3
  <2> QED
    BY <2>1, <2>2, <2>3, <1>2 DEF Session!OneResultEach
<1>6. /\ results' \in Seq(Nat)
      /\ \A k \in DOMAIN results : k \in DOMAIN results' /\ results'[k] = results[k]
      /\ \A k \in DOMAIN results' : k \in DOMAIN results \/
            (k = Len(results) + 1 /\ results'[k] = p /\ board'[id].to \in Session!Workers)
      /\ board'[id].to \in Session!Workers => \E k \in DOMAIN results' : results'[k] = p
      /\ \A k \in DOMAIN results : k # Len(results) + 1 /\ results[k] \in TR
  <2>1. results \in Seq(Nat) /\ DOMAIN results = 1..Len(results) /\ Len(results) \in Nat
    BY BoardIs
  <2>2. \A k \in DOMAIN results : results[k] \in TR
    BY DEF Session!SessionInv, Session!Known
  <2>3. CASE board'[id].to \in Session!Workers
    <3>1. results' = Append(results, p)
      BY <2>3
    <3>2. /\ results' \in Seq(Nat) /\ DOMAIN results' = 1..(Len(results) + 1)
          /\ \A k \in DOMAIN results : results'[k] = results[k]
          /\ results'[Len(results) + 1] = p
      BY <3>1, <2>1, <1>1
    <3> HIDE DEF TR
    <3> QED
      BY <2>1, <2>2, <2>3, <3>2
  <2>4. CASE board'[id].to \notin Session!Workers
    <3>1. results' = results
      BY <2>4
    <3> HIDE DEF TR
    <3> QED
      BY <2>1, <2>2, <2>4, <3>1
  <2> QED
    BY <2>3, <2>4
<1>7. Session!Known'
  <2>1. \A k \in DOMAIN tasks' : tasks'[k] = k /\ k \in Session!Of(board', "task_assign")
    BY <1>3 DEF Session!SessionInv, Session!Known
  <2>2. ASSUME NEW k \in DOMAIN results'
        PROVE  /\ results'[k] \in Session!Of(board', "task_result")
               /\ board'[board'[results'[k]].data.task].to \in Session!Workers
    <3>1. CASE k \in DOMAIN results
      <4>1. results'[k] = results[k] /\ results[k] \in TR
        BY <3>1, <1>6
      <4>2. board[board[results[k]].data.task].to \in Session!Workers
        BY <3>1 DEF Session!SessionInv, Session!Known, Session!Worker
      <4> HIDE DEF TR
      <4> QED
        BY <4>1, <4>2, <1>2, <1>4
    <3>2. CASE results'[k] = p /\ board'[id].to \in Session!Workers
      BY <3>2, <1>2
    <3> QED
      BY <3>1, <3>2, <1>6
  <2>3. ASSUME NEW j \in DOMAIN results', NEW k \in DOMAIN results', results'[j] = results'[k]
        PROVE  j = k
    <3>1. CASE j \in DOMAIN results /\ k \in DOMAIN results
      <4>1. results[j] = results[k]
        BY <2>3, <3>1, <1>6
      <4> QED
        BY <4>1, <3>1 DEF Session!SessionInv, Session!Known
    <3>2. CASE j \in DOMAIN results /\ k \notin DOMAIN results
      <4>1. results'[j] \in TR /\ results'[k] = p
        BY <3>2, <1>6
      <4> QED
        BY <4>1, <2>3, <1>1
    <3>3. CASE j \notin DOMAIN results /\ k \in DOMAIN results
      <4>1. results'[k] \in TR /\ results'[j] = p
        BY <3>3, <1>6
      <4> QED
        BY <4>1, <2>3, <1>1
    <3>4. CASE j \notin DOMAIN results /\ k \notin DOMAIN results
      BY <3>4, <1>6
    <3> QED
      BY <3>1, <3>2, <3>3, <3>4
  <2>4. stage' # "start"
    OBVIOUS
  <2> QED
    BY <2>1, <2>2, <2>3, <2>4 DEF Session!Known, Session!Worker
<1>8. Session!OneVerdictEach'
  <2>1. Session!Of(board', "verify_result") = Session!Of(board, "verify_result")
    <3>1. \A v : v \in Session!Of(board', "verify_result") <=> v \in Session!Of(board, "verify_result")
      BY DEF Session!Of
    <3> QED
      BY <3>1 DEF Session!Of
  <2>2. \A v \in Session!Of(board, "verify_result") :
          board'[v].data = board[v].data /\ board[v].data.target \in TR
    BY BoardIs DEF Session!SessionInv, Session!OneVerdictEach
  <2>3. \A r : Session!Verdicts(r)' = Session!Verdicts(r)
    <3> TAKE r
    <3>1. \A v : v \in Session!Verdicts(r)' <=> v \in Session!Verdicts(r)
      BY <2>1, <2>2 DEF Session!Verdicts
    <3> QED
      BY <3>1 DEF Session!Verdicts
  <2>4. ASSUME NEW r \in TR \cup {p}
        PROVE  IF Session!Worker(r)' \notin Session!Workers \/ \E k \in DOMAIN results' : results'[k] = r
               THEN Session!Verdicts(r)' = {}
               ELSE \E v \in Session!Of(board', "verify_result") : Session!Verdicts(r)' = {v}
    <3>1. CASE r \in TR
      <4>1. Session!Worker(r)' = Session!Worker(r)
        BY <3>1, <1>4 DEF Session!Worker
      <4>2. (\E k \in DOMAIN results' : results'[k] = r) <=> (\E k \in DOMAIN results : results[k] = r)
        BY <3>1, <1>1, <1>6
      <4>3. IF Session!Worker(r) \notin Session!Workers \/ \E k \in DOMAIN results : results[k] = r
            THEN Session!Verdicts(r) = {}
            ELSE \E v \in Session!Of(board, "verify_result") : Session!Verdicts(r) = {v}
        BY <3>1 DEF Session!SessionInv, Session!OneVerdictEach
      <4> QED
        BY <4>1, <4>2, <4>3, <2>1, <2>3
    <3>2. CASE r = p
      <4>1. Session!Verdicts(r) = {}
        BY <3>2, <2>2, <1>1 DEF Session!Verdicts
      <4>2. Session!Worker(r)' \notin Session!Workers \/ \E k \in DOMAIN results' : results'[k] = r
        <5>1. Session!Worker(r)' = board'[id].to
          BY <3>2 DEF Session!Worker
        <5> QED
          BY <5>1, <3>2, <1>6
      <4> QED
        BY <4>1, <4>2, <2>3
    <3> QED
      BY <3>1, <3>2
  <2> QED
    BY <1>2, <2>1, <2>2, <2>4 DEF Session!OneVerdictEach
<1>9. Session!TypeOK'
  <2>1. next' \in 1..(Len(tasks') + 1)
    BY BoardIs
  <2>2. diag' \in {0} \cup Session!Of(board', "task_result")
    BY <1>2 DEF Session!SessionInv, Session!TypeOK
  <2> QED
    BY <1>6, <2>1, <2>2 DEF Session!SessionInv, Session!TypeOK
<1>10. Session!Reported'
  BY DEF Session!Reported
<1> QED
  BY <1>2, <1>5, <1>7, <1>8, <1>9, <1>10

LEMMA FiniteBoard ==
    ASSUME Session!SessionInv, NEW w
    PROVE  /\ IsFiniteSet(Session!Remaining(w)) /\ IsFiniteSet(Session!Waiting(w))
           /\ Cardinality(Session!Remaining(w)) \in Nat /\ Cardinality(Session!Waiting(w)) \in Nat
<1>1. IsFiniteSet(1..Len(tasks)) /\ IsFiniteSet(1..Len(board))
  BY BoardIs, FS_Interval
<1>2. Session!Remaining(w) \subseteq 1..Len(tasks)
  BY BoardIs DEF Session!Remaining
<1>3. Session!Waiting(w) \subseteq 1..Len(board)
  BY BoardIs DEF Session!Waiting, Session!Of
<1>4. IsFiniteSet(Session!Remaining(w)) /\ IsFiniteSet(Session!Waiting(w))
  BY <1>1, <1>2, <1>3, FS_Subset
<1> QED
  BY <1>4, FS_CardinalityType

\* A dispatch takes one task away from its worker, and none from the others.
LEMMA ClaimableNext ==
    ASSUME Session!SessionInv, next <= Len(tasks), next' = next + 1, tasks' = tasks,
           NEW w0, w0 = board[next].to,
           DOMAIN board \subseteq DOMAIN board',
           \A i \in DOMAIN board : /\ board'[i].type = board[i].type /\ board'[i].to = board[i].to
                                   /\ board[i].to # w0 => board'[i].status = board[i].status,
           \A i \in DOMAIN board' \ DOMAIN board : board'[i].type = "task_assign" => board'[i].to = w0,
           w0 \in Session!Workers =>
               \E n \in Nat : n = Cardinality(Session!Waiting(w0)') /\ n >= Cardinality(Session!Waiting(w0)) - 1
    PROVE  Session!Claimable'
<1> SUFFICES ASSUME NEW w \in Session!Workers
             PROVE  Cardinality(Session!Remaining(w)') <= Cardinality(Session!Waiting(w)')
  BY SessionCounts DEF Session!Claimable
<1>1. Cardinality(Session!Remaining(w)) <= Cardinality(Session!Waiting(w))
  BY SessionCounts DEF Session!SessionInv, Session!Claimable
<1>2. \A k \in DOMAIN tasks : k \in DOMAIN board
  BY DEF Session!SessionInv, Session!Known, Session!Of
<1>3. CASE w = w0
  <2>1. Session!Remaining(w)' = Session!Remaining(w) \ {next}
    <3>1. \A k : k \in Session!Remaining(w)' <=> k \in Session!Remaining(w) \ {next}
      BY <1>2, BoardIs DEF Session!Remaining
    <3> QED
      BY <3>1 DEF Session!Remaining
  <2>2. next \in Session!Remaining(w)
    BY <1>3, BoardIs DEF Session!Remaining
  <2> DEFINE R == Session!Remaining(w)
             R2 == Session!Remaining(w)'
  <2>3. IsFiniteSet(R) /\ Cardinality(R) \in Nat /\ Cardinality(Session!Waiting(w)) \in Nat
    BY FiniteBoard
  <2>4. R2 = R \ {next} /\ next \in R /\ Cardinality(R) <= Cardinality(Session!Waiting(w))
    BY <1>1, <2>1, <2>2
  <2>5. PICK n \in Nat : n = Cardinality(Session!Waiting(w)') /\ n >= Cardinality(Session!Waiting(w)) - 1
    BY <1>3
  <2> HIDE DEF R, R2
  <2>6. Cardinality(R2) = Cardinality(R) - 1
    BY <2>3, <2>4, FS_RemoveElement
  <2>7. Cardinality(R2) <= n
    <3>1. \A a, b, c, d \in Nat : a <= b /\ d = a - 1 /\ c >= b - 1 => d <= c
      OBVIOUS
    <3>2. Cardinality(R2) \in Nat
      BY <2>3, <2>4, FS_RemoveElement, FS_CardinalityType
    <3> QED
      BY ONLY <2>3, <2>4, <2>5, <2>6, <3>1, <3>2
  <2> QED
    BY <2>5, <2>7 DEF R2
<1>4. CASE w # w0
  <2>1. Session!Remaining(w)' = Session!Remaining(w)
    <3>1. \A k : k \in Session!Remaining(w)' <=> k \in Session!Remaining(w)
      <4> TAKE k
      <4>1. next' = next + 1 /\ Len(tasks') = Len(tasks) /\ next \in Nat /\ Len(tasks) \in Nat
        BY BoardIs
      <4>2. k \in Session!Remaining(w) <=> k \in next..Len(tasks) /\ board[k].to = w
        BY DEF Session!Remaining
      <4>3. k \in Session!Remaining(w)' <=> k \in next'..Len(tasks') /\ board'[k].to = w
        BY DEF Session!Remaining
      <4>4. k \in next'..Len(tasks') <=> k \in next..Len(tasks) /\ k # next
        BY ONLY <4>1
      <4>5. k \in next..Len(tasks) => board'[k].to = board[k].to
        <5>1. next \in Nat /\ next >= 1 /\ DOMAIN tasks = 1..Len(tasks) /\ Len(tasks) \in Nat
          BY BoardIs
        <5>2. k \in next..Len(tasks) => k \in DOMAIN tasks
          BY ONLY <5>1
        <5> QED
          BY <1>2, <5>2
      <4>6. board[next].to # w
        BY <1>4
      <4> QED
        BY ONLY <4>2, <4>3, <4>4, <4>5, <4>6
    <3> QED
      BY <3>1 DEF Session!Remaining
  <2>2. Session!Waiting(w)' = Session!Waiting(w)
    <3>1. \A i : i \in Session!Waiting(w)' <=> i \in Session!Waiting(w)
      BY <1>4 DEF Session!Waiting, Session!Of
    <3> QED
      BY <3>1 DEF Session!Waiting
  <2> QED
    BY <1>1, <2>1, <2>2
<1> QED
  BY <1>3, <1>4

\* The workers that the tasks of the split name stay the same.
LEMMA NamesKept ==
    ASSUME Session!SessionInv, tasks' = tasks,
           \A i \in DOMAIN board : board'[i].to = board[i].to
    PROVE  Session!NoWorkerTwice' <=> Session!NoWorkerTwice
<1>1. \A k \in DOMAIN tasks : tasks[k] \in DOMAIN board
  BY DEF Session!SessionInv, Session!Known, Session!Of
<1> QED
  BY <1>1 DEF Session!NoWorkerTwice

LEMMA UnroutedKeeps ==
    ASSUME Session!SessionInv, Session!Unrouted
    PROVE  Session!SessionInv'
<1> DEFINE N == Len(board)
           m == Session!TaskResult("failed", next, Session!NoClaim, Session!NoClaim)
           b == Session!Post(board, m)
<1>1. /\ stage = "dispatch" /\ next <= Len(tasks) /\ board[next].to \notin Session!Workers
      /\ board' = Session!Mark(b, next, "failed") /\ next' = next + 1
      /\ UNCHANGED <<tasks, diag, results, degraded, stage>>
      /\ next \in Session!Of(board, "task_assign") /\ next \in DOMAIN board /\ next \in Nat
  BY TaskIs, BoardIs DEF Session!Unrouted
<1>2. m \in Session!Messages /\ m.type = "task_result" /\ m.data.task = next
  <2>1. "failed" \in Session!Statuses /\ Session!NoClaim \in Session!Claims /\ next \in Nat
    BY <1>1 DEF Session!Statuses, Session!Claims
  <2> QED
    BY <2>1, MessagesAre
<1> HIDE DEF m
<1>3. /\ b \in Seq(Session!Messages) /\ DOMAIN b = 1..(N + 1) /\ N \in Nat /\ DOMAIN board = 1..N
      /\ \A i \in DOMAIN board : b[i] = board[i]
      /\ b[N + 1] = m
  BY <1>2, PostIs, BoardIs
<1> HIDE DEF b
<1>4. /\ board' \in Seq(Session!Messages) /\ DOMAIN board' = 1..(N + 1)
      /\ \A i \in DOMAIN board : /\ board'[i].type = board[i].type /\ board'[i].to = board[i].to
                                 /\ board'[i].data = board[i].data
                                 /\ board'[i].status = IF i = next THEN "failed" ELSE board[i].status
      /\ board'[N + 1].type = "task_result" /\ board'[N + 1].data.task = next
  <2>1. next \in DOMAIN b /\ "failed" \in Session!Statuses
    BY <1>1, <1>3 DEF Session!Statuses
  <2>2. /\ board' \in Seq(Session!Messages) /\ DOMAIN board' = DOMAIN b
        /\ \A i \in DOMAIN b : /\ board'[i].type = b[i].type /\ board'[i].to = b[i].to /\ board'[i].data = b[i].data
                               /\ board'[i].status = IF i = next THEN "failed" ELSE b[i].status
    <3> DEFINE x == Session!Mark(b, next, "failed")
    <3>1. /\ x \in Seq(Session!Messages) /\ DOMAIN x = DOMAIN b
          /\ \A i \in DOMAIN b : /\ x[i].type = b[i].type /\ x[i].to = b[i].to /\ x[i].data = b[i].data
                                 /\ x[i].status = IF i = next THEN "failed" ELSE b[i].status
      BY <1>3, <2>1, MarkIs
    <3>2. board' = x
      BY <1>1
    <3> HIDE DEF x
    <3> QED
      BY <3>1, <3>2
  <2>3. N + 1 \in DOMAIN b /\ \A i \in DOMAIN board : i \in DOMAIN b
    BY <1>3
  <2> QED
    BY <1>2, <1>3, <2>2, <2>3
<1>5. /\ DOMAIN board \subseteq DOMAIN board' /\ N + 1 \in DOMAIN board' \ DOMAIN board
      /\ \A i \in DOMAIN board' \ DOMAIN board : i = N + 1
  BY <1>3, <1>4
<1>6. \A r \in Session!Of(board, "task_result") : board[r].data.task # next
  <2> SUFFICES ASSUME NEW r \in Session!Of(board, "task_result"), board[r].data.task = next
               PROVE  FALSE
    OBVIOUS
  <2>1. board[next].to \in Session!Workers \/ next < next
    BY DEF Session!SessionInv, Session!OneResultEach
  <2> QED
    BY <1>1, <2>1
<1>7. /\ next \in Session!Of(board', "task_assign") /\ board'[next].status = "failed"
      /\ board'[next].to = board[next].to
  BY <1>1, <1>4, <1>5 DEF Session!Of
<1>8. /\ Session!TypeOK' /\ Session!Known' /\ Session!OneResultEach' /\ Session!OneVerdictEach'
      /\ Session!Reported'
      /\ Session!Of(board', "task_result") = Session!Of(board, "task_result") \cup {N + 1}
  <2> DEFINE p == N + 1
             id == next
  <2>1. /\ p \in DOMAIN board' \ DOMAIN board /\ board'[p].type = "task_result" /\ board'[p].data.task = id
        /\ \A i \in DOMAIN board' \ DOMAIN board : i # p => board'[i].type = "task_assign"
    BY <1>4, <1>5
  <2>2. \A i \in DOMAIN board : /\ board'[i].type = board[i].type /\ board'[i].to = board[i].to
                                /\ board'[i].data = board[i].data
                                /\ board'[i].status = board[i].status \/ board'[i].status \in {"done", "failed"}
    BY <1>4
  <2>3. id \in Session!Of(board', "task_assign") /\ board'[id].status \in {"done", "failed"} /\ id <= next
    BY <1>1, <1>7
  <2>4. results' = IF board'[id].to \in Session!Workers THEN Append(results, p) ELSE results
    BY <1>1, <1>7
  <2> HIDE DEF p
  <2>5. /\ Session!TypeOK' /\ Session!Known' /\ Session!OneResultEach' /\ Session!OneVerdictEach'
        /\ Session!Reported'
        /\ Session!Of(board', "task_result") = Session!Of(board, "task_result") \cup {p}
    BY <1>1, <1>4, <1>5, <1>6, <2>1, <2>2, <2>3, <2>4, ResultPosted
  <2> QED
    BY <2>5 DEF p
<1>9. Session!Claimable'
  <2>1. board[next].to \notin Session!Workers
    BY <1>1
  <2>2. \A i \in DOMAIN board : /\ board'[i].type = board[i].type /\ board'[i].to = board[i].to
                                /\ board[i].to # board[next].to => board'[i].status = board[i].status
    BY <1>4
  <2>3. \A i \in DOMAIN board' \ DOMAIN board : board'[i].type # "task_assign"
    BY <1>4, <1>5
  <2> QED
    BY <1>1, <1>5, <2>1, <2>2, <2>3, ClaimableNext
<1>10. Session!SettledInTurn'
  <2>1. \A t : t \in Session!Of(board', "task_assign") <=> t \in Session!Of(board, "task_assign")
    BY <1>4, <1>5, BoardIs DEF Session!Of
  <2> SUFFICES ASSUME Session!NoWorkerTwice
               PROVE  /\ \A t \in Session!Of(board, "task_assign") :
                           IF t \in (next + 1)..Len(tasks) THEN board'[t].status = "pending"
                                                           ELSE board'[t].status \in {"done", "failed"}
                      /\ \A r \in Session!Of(board', "task_result") :
                           Session!Worker(r)' = "repair_01" /\ diag # 0 /\ diag < r =>
                               board'[board'[r].data.task].data.told = diag
    BY <1>1, <1>4, <2>1, NamesKept DEF Session!SettledInTurn
  <2>2. ASSUME NEW t \in Session!Of(board, "task_assign")
        PROVE  IF t \in (next + 1)..Len(tasks) THEN board'[t].status = "pending"
                                               ELSE board'[t].status \in {"done", "failed"}
    <3>1. IF t \in next..Len(tasks) THEN board[t].status = "pending" ELSE board[t].status \in {"done", "failed"}
      BY DEF Session!SessionInv, Session!SettledInTurn
    <3>2. t \in DOMAIN board /\ t \in Nat
      BY BoardIs
    <3>3. t \in next..Len(tasks) <=> t \in (next + 1)..Len(tasks) \/ t = next
      BY <1>1, <3>2, BoardIs
    <3>4. t \in (next + 1)..Len(tasks) => t # next
      BY <1>1
    <3> QED
      BY <1>4, <3>1, <3>2, <3>3, <3>4
  <2>3. ASSUME NEW r \in Session!Of(board', "task_result"), Session!Worker(r)' = "repair_01", diag # 0, diag < r
        PROVE  board'[board'[r].data.task].data.told = diag
    <3>1. r # N + 1
      <4>1. board'[board'[N + 1].data.task].to \notin Session!Workers
        BY <1>1, <1>4, <1>7
      <4> QED
        BY <2>3, <4>1 DEF Session!Worker, Session!Workers
    <3>2. r \in Session!Of(board, "task_result")
      BY <1>8, <3>1
    <3>3. board'[r].data = board[r].data /\ board[r].data.task \in DOMAIN board
      BY <3>2, <1>4, BoardIs DEF Session!SessionInv, Session!OneResultEach
    <3>4. Session!Worker(r) = "repair_01"
      BY <2>3, <3>3, <1>4 DEF Session!Worker
    <3>5. board[board[r].data.task].data.told = diag
      BY <2>3, <3>2, <3>4 DEF Session!SessionInv, Session!SettledInTurn
    <3> QED
      BY <3>3, <3>5, <1>4
  <2> QED
    BY <2>2, <2>3
<1> QED
  BY <1>8, <1>9, <1>10 DEF Session!SessionInv

\* Whether the repair is told of a diagnosis.
Told == Session!To = "repair_01" /\ diag # 0

\* The board before the worker claims: a told task in place of the generic one, or nothing new.
LEMMA EnrichedIs ==
    ASSUME Session!SessionInv, next <= Len(tasks), Session!To \in Session!Workers
    PROVE  LET e == Session!Enriched
           IN  /\ e \in Seq(Session!Messages) /\ Len(e) = IF Told THEN Len(board) + 1 ELSE Len(board)
               /\ DOMAIN e = 1..Len(e) /\ Len(e) \in Nat
               /\ \A i \in DOMAIN board :
                      /\ i \in DOMAIN e
                      /\ e[i].type = board[i].type /\ e[i].to = board[i].to /\ e[i].data = board[i].data
                      /\ e[i].status = IF Told /\ i = next THEN "done" ELSE board[i].status
               /\ Told => LET m == e[Len(board) + 1]
                          IN  m.type = "task_assign" /\ m.to = Session!To /\ m.status = "pending" /\ m.data.told = diag
<1> DEFINE N == Len(board)
           b == Session!Mark(board, next, "done")
           m == Session!TaskAssign(Session!To, diag)
           e == Session!Enriched
<1>1. Session!Task = next /\ next \in DOMAIN board
  BY TaskIs
<1>2. CASE Told
  <2>1. e = Session!Post(b, m)
    BY <1>1, <1>2 DEF Session!Enriched, Told
  <2>2. /\ b \in Seq(Session!Messages) /\ Len(b) = N /\ DOMAIN b = DOMAIN board
        /\ \A i \in DOMAIN board : /\ b[i].type = board[i].type /\ b[i].to = board[i].to /\ b[i].data = board[i].data
                                   /\ b[i].status = IF i = next THEN "done" ELSE board[i].status
    <3>1. "done" \in Session!Statuses
      BY DEF Session!Statuses
    <3>2. board \in Seq(Session!Messages)
      BY BoardIs
    <3> QED
      BY <1>1, <3>1, <3>2, MarkIs
  <2>3. m \in Session!Messages /\ m.type = "task_assign" /\ m.to = Session!To /\ m.status = "pending" /\ m.data.told = diag
    BY MessagesAre, BoardIs
  <2> HIDE DEF b, m, e
  <2>4. /\ e \in Seq(Session!Messages) /\ Len(e) = N + 1 /\ DOMAIN e = 1..(N + 1) /\ N \in Nat
        /\ \A i \in DOMAIN board : i \in DOMAIN e /\ e[i] = b[i]
        /\ e[N + 1] = m
    <3>1. /\ e \in Seq(Session!Messages) /\ Len(e) = Len(b) + 1 /\ DOMAIN e = 1..(Len(b) + 1)
          /\ \A i \in DOMAIN b : e[i] = b[i]
          /\ e[Len(b) + 1] = m
      BY <2>1, <2>2, <2>3, PostIs
    <3> QED
      BY <3>1, <2>2, BoardIs
  <2>5. DOMAIN e = 1..Len(e) /\ Len(e) \in Nat
    BY <2>4
  <2> QED
    BY <1>2, <2>2, <2>3, <2>4, <2>5 DEF e
<1>3. CASE ~ Told
  <2>1. e = board
    BY <1>3 DEF Session!Enriched, Told
  <2> QED
    BY <1>3, <2>1, BoardIs
<1> QED
  BY <1>2, <1>3

\* The worker finds at least as many tasks as it had before, and so one.
LEMMA PendingIs ==
    ASSUME Session!SessionInv, next <= Len(tasks), Session!To \in Session!Workers
    PROVE  LET S == Session!Pending(Session!Enriched)
           IN  /\ S \subseteq DOMAIN Session!Enriched /\ S \subseteq Nat
               /\ IsFiniteSet(S) /\ Cardinality(S) \in Nat
               /\ Cardinality(S) >= Cardinality(Session!Waiting(Session!To))
               /\ S # {}
<1> DEFINE N == Len(board)
           e == Session!Enriched
           S == Session!Pending(e)
           W == Session!Waiting(Session!To)
           W1 == W \ {next}
           W2 == W1 \cup {N + 1}
<1>1. /\ IsFiniteSet(W) /\ Cardinality(W) \in Nat /\ IsFiniteSet(Session!Remaining(Session!To))
      /\ Cardinality(Session!Remaining(Session!To)) \in Nat
  BY FiniteBoard
<1>2. /\ Len(e) = (IF Told THEN N + 1 ELSE N) /\ DOMAIN e = 1..Len(e) /\ N \in Nat /\ DOMAIN board = 1..N
      /\ \A i \in DOMAIN board :
             /\ i \in DOMAIN e
             /\ e[i].type = board[i].type /\ e[i].to = board[i].to
             /\ e[i].status = IF Told /\ i = next THEN "done" ELSE board[i].status
      /\ Told => e[N + 1].type = "task_assign" /\ e[N + 1].to = Session!To /\ e[N + 1].status = "pending"
  BY EnrichedIs, BoardIs
<1> HIDE DEF e
<1>3. S \subseteq DOMAIN e /\ S \subseteq 1..Len(e) /\ Len(e) \in Nat
  BY <1>2 DEF Session!Pending, Session!Of
<1>4. IsFiniteSet(S) /\ Cardinality(S) \in Nat
  <2>1. IsFiniteSet(1..Len(e))
    BY <1>3, FS_Interval
  <2>2. IsFiniteSet(S)
    BY <1>3, <2>1, FS_Subset
  <2> QED
    BY <2>2, FS_CardinalityType
<1>5. Cardinality(S) >= Cardinality(W)
  <2>1. CASE ~ Told
    <3>1. \A i : i \in S <=> i \in W
      BY <1>2, <2>1 DEF Session!Pending, Session!Waiting, Session!Of
    <3>2. S = W
      BY <3>1
    <3> QED
      BY <1>1, <3>2
  <2>2. CASE Told
    <3>1. \A i : i \in S <=> i \in W2
      BY <1>2, <2>2 DEF Session!Pending, Session!Waiting, Session!Of
    <3>2. N + 1 \notin W1
      BY <1>2 DEF Session!Waiting, Session!Of
    <3> HIDE DEF S, W
    <3>3. S = W2
      BY <3>1
    <3>4. IsFiniteSet(W1) /\ Cardinality(W1) = IF next \in W THEN Cardinality(W) - 1 ELSE Cardinality(W)
      BY <1>1, FS_RemoveElement
    <3> HIDE DEF W1
    <3>5. Cardinality(W2) = Cardinality(W1) + 1
      BY <3>2, <3>4, FS_AddElement
    <3>6. Cardinality(W2) >= Cardinality(W)
      BY <1>1, <3>4, <3>5
    <3> QED
      BY <3>3, <3>6
  <2> QED
    BY <2>1, <2>2
<1>6. S # {}
  <2>1. next \in Session!Remaining(Session!To)
    BY TaskIs, BoardIs DEF Session!Remaining
  <2>2. Cardinality(Session!Remaining(Session!To)) # 0
    BY <1>1, <2>1, FS_EmptySet
  <2>3. Cardinality(Session!Remaining(Session!To)) <= Cardinality(W)
    BY SessionCounts DEF Session!SessionInv, Session!Claimable
  <2>4. Cardinality(S) # 0
    <3> HIDE DEF S, W
    <3> QED
      BY <1>1, <1>4, <1>5, <2>2, <2>3
  <2> QED
    BY <2>4, FS_EmptySet
<1>7. S \subseteq Nat
  BY <1>3
<1> QED
  BY <1>3, <1>4, <1>5, <1>6, <1>7 DEF e

\* So a worker that has its turn never finds nothing.
LEMMA AlwaysATask ==
    ASSUME Session!SessionInv
    PROVE  ~ Session!NothingToClaim
BY PendingIs DEF Session!NothingToClaim

\* What a task that was run has done to the board.
Ran(e, id, s) ==
    LET p == Len(e) + 1
    IN  /\ board' \in Seq(Session!Messages) /\ DOMAIN board' = 1..p
        /\ \A i \in DOMAIN e : /\ board'[i].type = e[i].type /\ board'[i].to = e[i].to /\ board'[i].data = e[i].data
                               /\ board'[i].status = IF i = id THEN s ELSE e[i].status
        /\ board'[p].type = "task_result" /\ board'[p].data.task = id
        /\ results' = Append(results, p)
        /\ diag' = diag \/ (diag' = p /\ Session!To = "diag_01")

LEMMA RunTaskIs ==
    ASSUME Session!SessionInv, Session!RunTask
    PROVE  \E id \in Session!Pending(Session!Enriched), s \in {"done", "failed"} : Ran(Session!Enriched, id, s)
<1> DEFINE e == Session!Enriched
           id == Session!Claimed(e)
           p == Len(e) + 1
           c == Session!Mark(e, id, "claimed")
<1>1. /\ next <= Len(tasks) /\ Session!To \in Session!Workers
      /\ \/ /\ \E claim \in {Errors, Session!NoClaim}, said \in Counts \cup {Session!NoClaim} :
                 board' = Session!Mark(Session!Post(c, Session!TaskResult("done", id, claim, said)), id, "done")
            /\ results' = Append(results, p)
            /\ diag' = IF Session!To = "diag_01" THEN p ELSE diag
         \/ /\ board' = Session!Post(Session!Mark(c, id, "failed"),
                                     Session!TaskResult("failed", id, Session!NoClaim, Session!NoClaim))
            /\ results' = Append(results, p)
            /\ diag' = diag
  BY DEF Session!RunTask
<1>2. id \in Session!Pending(e)
  <2> DEFINE S == Session!Pending(e)
  <2>1. S \subseteq Nat /\ S # {}
    BY <1>1, PendingIs
  <2>2. \E i \in S : \A j \in S : i <= j
    <3> HIDE DEF S
    <3> QED
      BY <2>1, OldestIs
  <2>3. id = CHOOSE i \in S : \A j \in S : i <= j
    BY DEF Session!Claimed
  <2> HIDE DEF S, id
  <2>4. id \in S
    BY <2>2, <2>3
  <2> QED
    BY <2>4 DEF S
<1>3. e \in Seq(Session!Messages) /\ DOMAIN e = 1..Len(e) /\ Len(e) \in Nat
  BY <1>1, EnrichedIs
<1>4. id \in DOMAIN e /\ id \in Nat
  BY <1>2, <1>3 DEF Session!Pending, Session!Of
<1> HIDE DEF e, id
<1>5. /\ c \in Seq(Session!Messages) /\ DOMAIN c = DOMAIN e /\ Len(c) = Len(e)
      /\ \A i \in DOMAIN e : /\ c[i].type = e[i].type /\ c[i].to = e[i].to /\ c[i].data = e[i].data
                             /\ c[i].status = IF i = id THEN "claimed" ELSE e[i].status
  <2>1. "claimed" \in Session!Statuses
    BY DEF Session!Statuses
  <2>2. e \in Seq(Session!Messages) /\ id \in DOMAIN e
    BY <1>3, <1>4
  <2> QED
    BY ONLY <2>1, <2>2, MarkIs
<1> HIDE DEF c
<1>6. ASSUME NEW claim \in Session!Claims, NEW said \in Session!Claims,
             board' = Session!Mark(Session!Post(c, Session!TaskResult("done", id, claim, said)), id, "done")
      PROVE  /\ board' \in Seq(Session!Messages) /\ DOMAIN board' = 1..p
             /\ \A i \in DOMAIN e : /\ board'[i].type = e[i].type /\ board'[i].to = e[i].to /\ board'[i].data = e[i].data
                                    /\ board'[i].status = IF i = id THEN "done" ELSE e[i].status
             /\ board'[p].type = "task_result" /\ board'[p].data.task = id
  <2> DEFINE m == Session!TaskResult("done", id, claim, said)
             b == Session!Post(c, m)
             x == Session!Mark(b, id, "done")
  <2>1. m \in Session!Messages /\ m.type = "task_result" /\ m.data.task = id
    BY <1>4, MessagesAre DEF Session!Statuses
  <2> HIDE DEF m
  <2>2. /\ b \in Seq(Session!Messages) /\ DOMAIN b = 1..(Len(c) + 1)
        /\ \A i \in DOMAIN c : b[i] = c[i]
        /\ b[Len(c) + 1] = m
    BY <1>5, <2>1, PostIs
  <2> HIDE DEF b
  <2>3. DOMAIN b = 1..p /\ id \in DOMAIN b /\ b[p] = m /\ p \in DOMAIN b /\ \A i \in DOMAIN e : i \in DOMAIN b /\ b[i] = c[i]
    BY <1>3, <1>4, <1>5, <2>2
  <2>4. /\ x \in Seq(Session!Messages) /\ DOMAIN x = DOMAIN b
        /\ \A i \in DOMAIN b : /\ x[i].type = b[i].type /\ x[i].to = b[i].to /\ x[i].data = b[i].data
                               /\ x[i].status = IF i = id THEN "done" ELSE b[i].status
    <3>1. "done" \in Session!Statuses
      BY DEF Session!Statuses
    <3> QED
      <4>1. b \in Seq(Session!Messages) /\ id \in DOMAIN b
        BY <2>2, <2>3
      <4> QED
        BY <3>1, <4>1, MarkIs
  <2>5. board' = x
    BY <1>6 DEF b, m
  <2> HIDE DEF x, p
  <2>6. \A i \in DOMAIN e : /\ x[i].type = e[i].type /\ x[i].to = e[i].to /\ x[i].data = e[i].data
                            /\ x[i].status = IF i = id THEN "done" ELSE e[i].status
    BY <1>5, <2>3, <2>4
  <2> QED
    BY <2>1, <2>3, <2>4, <2>5, <2>6
<1>7. ASSUME board' = Session!Post(Session!Mark(c, id, "failed"),
                                   Session!TaskResult("failed", id, Session!NoClaim, Session!NoClaim))
      PROVE  /\ board' \in Seq(Session!Messages) /\ DOMAIN board' = 1..p
             /\ \A i \in DOMAIN e : /\ board'[i].type = e[i].type /\ board'[i].to = e[i].to /\ board'[i].data = e[i].data
                                    /\ board'[i].status = IF i = id THEN "failed" ELSE e[i].status
             /\ board'[p].type = "task_result" /\ board'[p].data.task = id
  <2> DEFINE m == Session!TaskResult("failed", id, Session!NoClaim, Session!NoClaim)
             x == Session!Mark(c, id, "failed")
             b == Session!Post(x, m)
  <2>1. m \in Session!Messages /\ m.type = "task_result" /\ m.data.task = id
    BY <1>4, MessagesAre DEF Session!Statuses, Session!Claims
  <2> HIDE DEF m
  <2>2. /\ x \in Seq(Session!Messages) /\ DOMAIN x = DOMAIN c /\ Len(x) = Len(c)
        /\ \A i \in DOMAIN c : /\ x[i].type = c[i].type /\ x[i].to = c[i].to /\ x[i].data = c[i].data
                               /\ x[i].status = IF i = id THEN "failed" ELSE c[i].status
    <3>1. "failed" \in Session!Statuses /\ id \in DOMAIN c
      BY <1>4, <1>5 DEF Session!Statuses
    <3> QED
      BY <1>5, <3>1, MarkIs
  <2> HIDE DEF x
  <2>3. /\ b \in Seq(Session!Messages) /\ DOMAIN b = 1..(Len(x) + 1)
        /\ \A i \in DOMAIN x : b[i] = x[i]
        /\ b[Len(x) + 1] = m
    BY <2>1, <2>2, PostIs
  <2>4. board' = b
    BY <1>7 DEF x, m
  <2> HIDE DEF b
  <2>5. Len(x) = Len(e) /\ Len(x) + 1 = p
    BY <1>5, <2>2
  <2>6. \A i \in DOMAIN e : /\ x[i].type = e[i].type /\ x[i].to = e[i].to /\ x[i].data = e[i].data
                            /\ x[i].status = IF i = id THEN "failed" ELSE e[i].status
    BY <1>5, <2>2
  <2> HIDE DEF p
  <2>7. \A i \in DOMAIN e : b[i] = x[i]
    BY <1>5, <2>2, <2>3
  <2> QED
    BY <2>1, <2>3, <2>4, <2>5, <2>6, <2>7
<1>8. CASE /\ \E claim \in {Errors, Session!NoClaim}, said \in Counts \cup {Session!NoClaim} :
                 board' = Session!Mark(Session!Post(c, Session!TaskResult("done", id, claim, said)), id, "done")
           /\ results' = Append(results, p)
           /\ diag' = IF Session!To = "diag_01" THEN p ELSE diag
  <2>1. PICK claim \in Session!Claims, said \in Session!Claims :
          board' = Session!Mark(Session!Post(c, Session!TaskResult("done", id, claim, said)), id, "done")
    BY <1>8 DEF Session!Claims
  <2>2. Ran(e, id, "done")
    BY <1>6, <1>8, <2>1 DEF Ran
  <2> QED
    BY <1>2, <2>2 DEF e
<1>9. CASE /\ board' = Session!Post(Session!Mark(c, id, "failed"),
                                    Session!TaskResult("failed", id, Session!NoClaim, Session!NoClaim))
           /\ results' = Append(results, p)
           /\ diag' = diag
  <2>1. Ran(e, id, "failed")
    BY <1>7, <1>9 DEF Ran
  <2> QED
    BY <1>2, <2>1 DEF e
<1> QED
  BY <1>1, <1>8, <1>9 DEF e, id, c

LEMMA RunTaskKeeps ==
    ASSUME Session!SessionInv, Session!RunTask
    PROVE  Session!SessionInv'
<1> DEFINE N == Len(board)
           e == Session!Enriched
<1>0. PICK to : to = Session!To
  OBVIOUS
<1>1. PICK id \in Session!Pending(e), s \in {"done", "failed"} : Ran(e, id, s)
  BY RunTaskIs
<1> DEFINE p == Len(e) + 1
<1>2. /\ stage = "dispatch" /\ next <= Len(tasks) /\ to \in Session!Workers
      /\ next' = next + 1 /\ UNCHANGED <<tasks, degraded, stage>>
      /\ to = board[next].to
      /\ next \in Session!Of(board, "task_assign") /\ next \in DOMAIN board /\ next \in Nat
  BY <1>0, TaskIs, BoardIs DEF Session!RunTask
<1>3. /\ board' \in Seq(Session!Messages) /\ DOMAIN board' = 1..p
      /\ \A i \in DOMAIN e : /\ board'[i].type = e[i].type /\ board'[i].to = e[i].to /\ board'[i].data = e[i].data
                             /\ board'[i].status = IF i = id THEN s ELSE e[i].status
      /\ board'[p].type = "task_result" /\ board'[p].data.task = id
      /\ results' = Append(results, p)
      /\ diag' = diag \/ (diag' = p /\ to = "diag_01")
  BY <1>0, <1>1 DEF Ran
<1>4. /\ Len(e) = (IF Told THEN N + 1 ELSE N) /\ DOMAIN e = 1..Len(e) /\ Len(e) \in Nat
      /\ N \in Nat /\ DOMAIN board = 1..N
      /\ \A i \in DOMAIN board :
             /\ i \in DOMAIN e
             /\ e[i].type = board[i].type /\ e[i].to = board[i].to /\ e[i].data = board[i].data
             /\ e[i].status = IF Told /\ i = next THEN "done" ELSE board[i].status
      /\ Told => e[N + 1].type = "task_assign" /\ e[N + 1].to = to /\ e[N + 1].status = "pending"
                 /\ e[N + 1].data.told = diag
  BY <1>0, <1>2, EnrichedIs, BoardIs
<1>5. id \in DOMAIN e /\ e[id].type = "task_assign" /\ e[id].to = to /\ e[id].status = "pending" /\ id \in Nat
  BY <1>0, <1>4 DEF Session!Pending, Session!Of
<1>6. /\ Cardinality(Session!Pending(e)) >= Cardinality(Session!Waiting(to)) /\ IsFiniteSet(Session!Pending(e))
      /\ Cardinality(Session!Pending(e)) \in Nat /\ Cardinality(Session!Waiting(to)) \in Nat
  BY <1>0, <1>2, PendingIs, FiniteBoard
<1>7. id \in Session!Pending(e)
  OBVIOUS
<1>8. \A i : i \in Session!Pending(e) <=> i \in DOMAIN e /\ e[i].type = "task_assign" /\ e[i].to = to /\ e[i].status = "pending"
  BY <1>0 DEF Session!Pending, Session!Of
<1> DEFINE P == Session!Pending(e)
<1>9. /\ \A i : i \in P <=> i \in DOMAIN e /\ e[i].type = "task_assign" /\ e[i].to = to /\ e[i].status = "pending"
      /\ id \in P /\ IsFiniteSet(P) /\ Cardinality(P) \in Nat
      /\ Cardinality(P) >= Cardinality(Session!Waiting(to)) /\ Cardinality(Session!Waiting(to)) \in Nat
  BY <1>6, <1>7, <1>8
<1> HIDE DEF P, e
<1>10. /\ DOMAIN board \subseteq DOMAIN board'
       /\ \A i \in DOMAIN board :
              /\ board'[i].type = board[i].type /\ board'[i].to = board[i].to /\ board'[i].data = board[i].data
              /\ board'[i].status = IF i = id THEN s ELSE IF Told /\ i = next THEN "done" ELSE board[i].status
       /\ p \in DOMAIN board' \ DOMAIN board
  BY <1>3, <1>4
<1>11. \A i \in DOMAIN board' \ DOMAIN board : i # p =>
          /\ Told /\ i = N + 1 /\ board'[i].type = "task_assign" /\ board'[i].to = to /\ board'[i].data.told = diag
          /\ board'[i].status = IF i = id THEN s ELSE "pending"
  <2> SUFFICES ASSUME NEW i \in DOMAIN board' \ DOMAIN board, i # p
               PROVE  /\ Told /\ i = N + 1 /\ board'[i].type = "task_assign" /\ board'[i].to = to
                      /\ board'[i].data.told = diag
                      /\ board'[i].status = IF i = id THEN s ELSE "pending"
    OBVIOUS
  <2>1. i \in DOMAIN e /\ i \notin 1..N
    BY <1>3, <1>4
  <2>2. Told /\ i = N + 1
    BY <2>1, <1>4
  <2> QED
    BY <2>1, <2>2, <1>3, <1>4
<1>12. /\ id \in Session!Of(board', "task_assign") /\ board'[id].status = s /\ board'[id].to = to
  BY <1>3, <1>4, <1>5 DEF Session!Of
<1>13. \A r \in Session!Of(board, "task_result") : board[r].data.task # id
  <2> SUFFICES ASSUME NEW r \in Session!Of(board, "task_result"), board[r].data.task = id
               PROVE  FALSE
    OBVIOUS
  <2>1. id \in DOMAIN board /\ board[id].status # "pending"
    BY BoardIs DEF Session!SessionInv, Session!OneResultEach
  <2>2. e[id].status # "pending"
    BY <2>1, <1>4
  <2> QED
    BY <2>2, <1>5
<1>14. /\ Session!TypeOK' /\ Session!Known' /\ Session!OneResultEach' /\ Session!OneVerdictEach'
       /\ Session!Reported'
       /\ Session!Of(board', "task_result") = Session!Of(board, "task_result") \cup {p}
  <2>1. \A i \in DOMAIN board : /\ board'[i].type = board[i].type /\ board'[i].to = board[i].to
                                /\ board'[i].data = board[i].data
                                /\ board'[i].status = board[i].status \/ board'[i].status \in {"done", "failed"}
    BY <1>10
  <2>2. board'[id].status \in {"done", "failed"} /\ board'[id].to \in Session!Workers
    BY <1>2, <1>12
  <2>3. results' = IF board'[id].to \in Session!Workers THEN Append(results, p) ELSE results
    BY <1>3, <2>2
  <2>4. \A i \in DOMAIN board' \ DOMAIN board : i # p => board'[i].type = "task_assign"
    BY <1>11
  <2>5. diag' \in {diag, p} /\ board'[p].type = "task_result" /\ board'[p].data.task = id
    BY <1>3
  <2>6. p \in DOMAIN board' \ DOMAIN board
    BY <1>10
  <2> HIDE DEF p
  <2> QED
    BY <1>2, <1>3, <1>5, <1>10, <1>12, <1>13, <2>1, <2>2, <2>3, <2>4, <2>5, <2>6, ResultPosted
<1>15. Session!Claimable'
  <2>1. Session!Waiting(to)' = P \ {id}
    <3>1. \A i : i \in DOMAIN board' /\ board'[i].type = "task_assign" => i \in DOMAIN e
      BY <1>3, <1>4
    <3>2. \A i : i \in DOMAIN e => i \in DOMAIN board'
      BY <1>3, <1>4
    <3>3. \A i : i \in {k \in Session!Of(board', "task_assign") : board'[k].to = to /\ board'[k].status = "pending"}
                   <=> i \in P /\ i # id
      BY <3>1, <3>2, <1>3, <1>9 DEF Session!Of
    <3>4. {k \in Session!Of(board', "task_assign") : board'[k].to = to /\ board'[k].status = "pending"} = P \ {id}
      BY <3>3
    <3> QED
      BY <3>4 DEF Session!Waiting
  <2>2. \E n \in Nat : n = Cardinality(Session!Waiting(to)') /\ n >= Cardinality(Session!Waiting(to)) - 1
    <3> DEFINE W0 == Session!Waiting(to)
               W2 == Session!Waiting(to)'
    <3>1. W2 = P \ {id} /\ IsFiniteSet(P) /\ id \in P
      BY <2>1, <1>9
    <3>2. /\ IsFiniteSet(P \ {id}) /\ Cardinality(P \ {id}) = Cardinality(P) - 1
      BY <3>1, FS_RemoveElement
    <3>3. Cardinality(P \ {id}) \in Nat
      BY <3>2, FS_CardinalityType
    <3>4. Cardinality(P) >= Cardinality(W0) /\ Cardinality(P) \in Nat /\ Cardinality(W0) \in Nat
      BY <1>9
    <3> HIDE DEF W0, W2, P
    <3>5. Cardinality(W2) \in Nat /\ Cardinality(W2) >= Cardinality(W0) - 1
      BY <3>1, <3>2, <3>3, <3>4
    <3> QED
      BY <3>5 DEF W0, W2
  <2>3. \A i \in DOMAIN board : /\ board'[i].type = board[i].type /\ board'[i].to = board[i].to
                                /\ board[i].to # to => board'[i].status = board[i].status
    BY <1>2, <1>4, <1>5, <1>10
  <2>4. \A i \in DOMAIN board' \ DOMAIN board : board'[i].type = "task_assign" => board'[i].to = to
    BY <1>3, <1>11
  <2> QED
    BY <1>2, <1>10, <2>2, <2>3, <2>4, ClaimableNext
<1>16. Session!SettledInTurn'
  <2> SUFFICES ASSUME Session!NoWorkerTwice
               PROVE  /\ \A t \in Session!Of(board', "task_assign") :
                           IF t \in (next + 1)..Len(tasks) THEN board'[t].status = "pending"
                                                           ELSE board'[t].status \in {"done", "failed"}
                      /\ \A r \in Session!Of(board', "task_result") :
                           Session!Worker(r)' = "repair_01" /\ diag' # 0 /\ diag' < r =>
                               board'[board'[r].data.task].data.told = diag'
    BY <1>2, <1>10, NamesKept DEF Session!SettledInTurn
  <2>1. id = IF Told THEN N + 1 ELSE next
    <3>1. ASSUME NEW t \in DOMAIN board, board[t].type = "task_assign", board[t].to = to, board[t].status = "pending"
          PROVE  t = next
      <4>1. t \in next..Len(tasks)
        BY <3>1 DEF Session!SessionInv, Session!SettledInTurn, Session!Of
      <4>2. t \in DOMAIN tasks /\ next \in DOMAIN tasks
        BY <4>1, <1>2, BoardIs
      <4>3. tasks[t] = t /\ tasks[next] = next
        BY <4>2 DEF Session!SessionInv, Session!Known
      <4> QED
        BY <3>1, <4>2, <4>3, <1>2 DEF Session!NoWorkerTwice
    <3>2. CASE id \in DOMAIN board
      <4>1. board[id].type = "task_assign" /\ board[id].to = to /\ e[id].status = "pending"
        BY <3>2, <1>4, <1>5
      <4>2. board[id].status = "pending" /\ ~ (Told /\ id = next)
        BY <3>2, <4>1, <1>4
      <4>3. id = next
        BY <3>1, <3>2, <4>1, <4>2
      <4> QED
        BY <4>2, <4>3
    <3>3. CASE id \notin DOMAIN board
      BY <3>3, <1>4, <1>5
    <3> QED
      BY <3>2, <3>3
  <2>2. ASSUME NEW t \in Session!Of(board', "task_assign")
        PROVE  IF t \in (next + 1)..Len(tasks) THEN board'[t].status = "pending"
                                               ELSE board'[t].status \in {"done", "failed"}
    <3>1. \A k \in next..Len(tasks) : k \in DOMAIN board
      BY BoardIs DEF Session!SessionInv, Session!Known, Session!Of
    <3>2. CASE t \in DOMAIN board
      <4>1. t \in Session!Of(board, "task_assign") /\ t \in Nat
        BY <3>2, <1>10, BoardIs DEF Session!Of
      <4>2. IF t \in next..Len(tasks) THEN board[t].status = "pending" ELSE board[t].status \in {"done", "failed"}
        BY <4>1 DEF Session!SessionInv, Session!SettledInTurn
      <4>3. CASE t = next
        <5>1. board'[t].status \in {"done", "failed"} /\ t \notin (next + 1)..Len(tasks)
          BY <4>3, <3>2, <2>1, <1>2, <1>10
        <5> QED
          BY <5>1
      <4>4. CASE t # next
        <5>1. t # id
          BY <4>4, <3>2, <2>1, <1>4
        <5>2. board'[t].status = board[t].status
          BY <4>4, <5>1, <3>2, <1>10
        <5>3. t \in next..Len(tasks) <=> t \in (next + 1)..Len(tasks)
          BY <4>1, <4>4, <1>2, BoardIs
        <5> QED
          BY <4>2, <5>2, <5>3
      <4> QED
        BY <4>3, <4>4
    <3>3. CASE t \notin DOMAIN board
      <4>1. t \in DOMAIN board' \ DOMAIN board /\ t # p
        BY <3>3, <1>3 DEF Session!Of
      <4>2. Told /\ t = N + 1 /\ board'[t].status = IF t = id THEN s ELSE "pending"
        BY <4>1, <1>11
      <4>3. board'[t].status \in {"done", "failed"}
        BY <4>2, <2>1
      <4>4. t \notin (next + 1)..Len(tasks)
        <5>1. \A k \in (next + 1)..Len(tasks) : k \in next..Len(tasks)
          BY <1>2, BoardIs
        <5> QED
          BY <5>1, <3>1, <3>3
      <4> QED
        BY <4>3, <4>4
    <3> QED
      BY <3>2, <3>3
  <2>3. ASSUME NEW r \in Session!Of(board', "task_result"), Session!Worker(r)' = "repair_01", diag' # 0, diag' < r
        PROVE  board'[board'[r].data.task].data.told = diag'
    <3>1. r \in DOMAIN board' /\ r \in Nat /\ r <= p
      BY <1>3, <1>4 DEF Session!Of
    <3>2. diag' = diag
      <4>1. diag' # p
        <5>1. p \in Nat
          BY <1>4
        <5> HIDE DEF p
        <5> QED
          BY <2>3, <3>1, <5>1
      <4> QED
        BY <4>1, <1>3
    <3>3. CASE r = p
      <4>1. Session!Worker(r)' = to
        BY <3>3, <1>3, <1>12 DEF Session!Worker
      <4>2. Told
        BY <2>3, <3>2, <4>1, <1>0 DEF Told
      <4>3. id = N + 1 /\ id \in DOMAIN e
        BY <4>2, <2>1, <1>5
      <4>4. board'[id].data = e[id].data /\ e[id].data.told = diag
        BY <4>2, <4>3, <1>3, <1>4
      <4> QED
        BY <3>2, <3>3, <4>4, <1>3
    <3>4. CASE r # p
      <4>1. r \in Session!Of(board, "task_result")
        BY <3>4, <1>14
      <4>2. board'[r].data = board[r].data /\ board[r].data.task \in DOMAIN board
        BY <4>1, <1>10, BoardIs DEF Session!SessionInv, Session!OneResultEach
      <4>3. Session!Worker(r) = "repair_01"
        BY <2>3, <4>2, <1>10 DEF Session!Worker
      <4>4. board[board[r].data.task].data.told = diag
        BY <2>3, <3>2, <4>1, <4>3 DEF Session!SessionInv, Session!SettledInTurn
      <4> QED
        BY <3>2, <4>2, <4>4, <1>10
    <3> QED
      BY <3>3, <3>4
  <2> QED
    BY <2>2, <2>3
<1> QED
  BY <1>14, <1>15, <1>16 DEF Session!SessionInv

LEMMA SessionStart ==
    ASSUME Session!Init
    PROVE  Session!SessionInv
<1>1. /\ board = <<>> /\ tasks = <<>> /\ next = 1 /\ diag = 0 /\ results = <<>> /\ degraded = FALSE
      /\ stage = "start"
  BY DEF Session!Init
<1>2. \A t : Session!Of(board, t) = {}
  BY <1>1 DEF Session!Of
<1>3. Session!TypeOK /\ Session!Known /\ Session!OneVerdictEach /\ Session!SettledInTurn /\ Session!Reported
  <2>1. Session!TypeOK
    <3>1. board \in Seq(Session!Messages) /\ tasks \in Seq(Nat) /\ results \in Seq(Nat) /\ Len(tasks) = 0
      BY <1>1
    <3>2. next \in 1..(Len(tasks) + 1)
      BY <1>1, <3>1
    <3>3. diag \in {0} \cup Session!Of(board, "task_result")
      BY <1>1
    <3>4. degraded \in BOOLEAN /\ stage \in {"start", "dispatch", "done", "raised"}
      BY <1>1
    <3> QED
      BY <3>1, <3>2, <3>3, <3>4 DEF Session!TypeOK
  <2>2. Session!Known
    BY <1>1, <1>2 DEF Session!Known
  <2>3. Session!OneVerdictEach
    BY <1>1, <1>2 DEF Session!OneVerdictEach
  <2>4. Session!SettledInTurn
    BY <1>1, <1>2 DEF Session!SettledInTurn
  <2>5. Session!Reported
    BY <1>1, <1>2 DEF Session!Reported
  <2> QED
    BY <2>1, <2>2, <2>3, <2>4, <2>5
<1>4. Session!Claimable
  <2> SUFFICES ASSUME NEW w \in Session!Workers
               PROVE  Cardinality(Session!Remaining(w)) <= Cardinality(Session!Waiting(w))
    BY SessionCounts DEF Session!Claimable
  <2>1. Session!Remaining(w) = {} /\ Session!Waiting(w) = {}
    BY <1>1, <1>2 DEF Session!Remaining, Session!Waiting
  <2> QED
    BY <2>1, FS_EmptySet
<1>5. Session!OneResultEach
  <2> DEFINE S == Session!Of(board, "task_result")
  <2>1. S = {} /\ next = 1
    BY <1>1, <1>2
  <2> HIDE DEF S
  <2>2. Session!Cardinality(S) = Cardinality(S) /\ Cardinality({}) = 0
    BY SessionCounts, FS_EmptySet
  <2>3. Session!Cardinality(S) = next - 1
    BY <2>1, <2>2
  <2> QED
    BY <2>1, <2>3 DEF Session!OneResultEach, S
<1> QED
  BY <1>3, <1>4, <1>5 DEF Session!SessionInv

LEMMA PostTaskAssignmentsKeeps ==
    ASSUME Session!SessionInv, Session!PostTaskAssignments
    PROVE  Session!SessionInv'
<1>1. /\ stage = "start" /\ stage' = "dispatch" /\ UNCHANGED <<next, diag, results>>
      /\ \E split \in {[to |-> Session!Fallback, degraded |-> TRUE]} \cup
                      {[to |-> [k \in DOMAIN a |-> a[k].worker], degraded |-> FALSE] :
                         a \in {a \in UNION {[1..n -> Session!Subtasks] : n \in 1..MaxTasks} : Session!Parsed(a)}} :
           /\ board' = [k \in DOMAIN split.to |-> Session!TaskAssign(split.to[k], 0)]
           /\ tasks' = [k \in DOMAIN split.to |-> k]
           /\ degraded' = split.degraded
  BY DEF Session!PostTaskAssignments
<1>2. PICK split \in {[to |-> Session!Fallback, degraded |-> TRUE]} \cup
                    {[to |-> [k \in DOMAIN a |-> a[k].worker], degraded |-> FALSE] :
                       a \in {a \in UNION {[1..n -> Session!Subtasks] : n \in 1..MaxTasks} : Session!Parsed(a)}} :
           /\ board' = [k \in DOMAIN split.to |-> Session!TaskAssign(split.to[k], 0)]
           /\ tasks' = [k \in DOMAIN split.to |-> k]
           /\ degraded' = split.degraded
  BY <1>1
<1>3. \E n \in Nat : DOMAIN split.to = 1..n /\ \A k \in 1..n : split.to[k] \in Session!Workers \cup Strangers
  <2>1. CASE split = [to |-> Session!Fallback, degraded |-> TRUE]
    <3>1. split.to = <<"diag_01", "repair_01">>
      BY <2>1 DEF Session!Fallback
    <3>2. DOMAIN split.to = 1..2 /\ split.to[1] = "diag_01" /\ split.to[2] = "repair_01"
      BY <3>1
    <3> QED
      BY <3>2 DEF Session!Workers
  <2>2. ASSUME NEW n \in 1..MaxTasks, NEW a \in [1..n -> Session!Subtasks],
               split = [to |-> [k \in DOMAIN a |-> a[k].worker], degraded |-> FALSE]
        PROVE  \E j \in Nat : DOMAIN split.to = 1..j /\ \A k \in 1..j : split.to[k] \in Session!Workers \cup Strangers
    <3>1. split.to = [k \in 1..n |-> a[k].worker]
      BY <2>2
    <3>2. \A k \in 1..n : a[k].worker \in Session!Workers \cup Strangers
      BY DEF Session!Subtasks
    <3>3. n \in Nat
      OBVIOUS
    <3> QED
      BY <3>1, <3>2, <3>3
  <2> QED
    BY <2>1, <2>2
<1>4. PICK n \in Nat : DOMAIN split.to = 1..n /\ \A k \in 1..n : split.to[k] \in Session!Workers \cup Strangers
  BY <1>3
<1>5. split.degraded \in BOOLEAN
  <2>1. CASE split = [to |-> Session!Fallback, degraded |-> TRUE]
    BY <2>1
  <2>2. ASSUME NEW a, split = [to |-> [k \in DOMAIN a |-> a[k].worker], degraded |-> FALSE]
        PROVE  split.degraded \in BOOLEAN
    BY <2>2
  <2> QED
    BY <2>1, <2>2
<1> DEFINE to == split.to
<1>6. /\ DOMAIN to = 1..n /\ \A k \in 1..n : to[k] \in Session!Workers \cup Strangers
      /\ board' = [k \in DOMAIN to |-> Session!TaskAssign(to[k], 0)]
      /\ tasks' = [k \in DOMAIN to |-> k]
      /\ degraded' \in BOOLEAN
  BY <1>2, <1>4, <1>5
<1> HIDE DEF to
<1> QED
  BY <1>1, <1>6, SplitKeeps

LEMMA SessionStep ==
    ASSUME Session!SessionInv, [Session!Next]_(Session!vars)
    PROVE  Session!SessionInv'
<1>1. CASE Session!PostTaskAssignments
  BY <1>1, PostTaskAssignmentsKeeps
<1>2. CASE Session!Unrouted
  BY <1>2, UnroutedKeeps
<1>3. CASE Session!RunTask
  BY <1>3, RunTaskKeeps
<1>4. CASE Session!NothingToClaim
  BY <1>4, AlwaysATask
<1>5. CASE Session!VerifyByAudit
  <2>1. Session!Verdict(Errors, Session!Claim(board[Head(results)]), 0) \in {"pass", "fail", "needs_more"}
    BY DEF Session!Verdict
  <2>2. Errors \in Session!Claims
    BY DEF Session!Claims
  <2> QED
    BY <1>5, <2>1, <2>2, JudgedKeeps DEF Session!VerifyByAudit
<1>6. CASE Session!VerifyByAgent
  <2>1. PICK counted \in Counts \cup {Session!NoClaim} :
          Session!Judged(Head(results), counted,
                IF counted = Session!NoClaim THEN "needs_more"
                ELSE Session!Verdict(counted, Session!Claim(board[Head(results)]), 1))
    BY <1>6 DEF Session!VerifyByAgent
  <2> DEFINE v == IF counted = Session!NoClaim THEN "needs_more"
                  ELSE Session!Verdict(counted, Session!Claim(board[Head(results)]), 1)
  <2>2. v \in {"pass", "fail", "needs_more"}
    BY DEF Session!Verdict
  <2>3. counted \in Session!Claims
    BY DEF Session!Claims
  <2>4. Session!Judged(Head(results), counted, v)
    BY <2>1
  <2> HIDE DEF v
  <2> QED
    BY <1>6, <2>2, <2>3, <2>4, JudgedKeeps DEF Session!VerifyByAgent
<1>7. CASE Session!VerifierDown
  BY <1>7, VerifierDownKeeps
<1>8. CASE Session!Synthesize
  BY <1>8, SynthesizeKeeps
<1>9. CASE Session!GatewayDown \/ UNCHANGED Session!vars
  <2>1. UNCHANGED <<board, tasks, next, diag, results, degraded>> /\ stage' \in {stage, "raised"}
    BY <1>9 DEF Session!GatewayDown, Session!vars
  <2>2. Session!TypeOK' /\ Session!Known' /\ Session!Reported'
    BY <2>1 DEF Session!SessionInv, Session!TypeOK, Session!Known, Session!Reported, Session!Worker
  <2>3. Session!Claimable' /\ Session!OneResultEach' /\ Session!SettledInTurn'
    BY <2>1, TasksKept
  <2>4. Session!OneVerdictEach'
    BY <2>1, <2>3, VerdictsKept
  <2> QED
    BY <2>2, <2>3, <2>4 DEF Session!SessionInv
<1> QED
  BY <1>1, <1>2, <1>3, <1>4, <1>5, <1>6, <1>7, <1>8, <1>9 DEF Session!Next

LEMMA SessionAlways == Session!Spec => []Session!SessionInv
<1>1. Session!Init => Session!SessionInv
  BY SessionStart
<1>2. Session!SessionInv /\ [Session!Next]_(Session!vars) => Session!SessionInv'
  BY SessionStep
<1> QED
  BY <1>1, <1>2, PTL DEF Session!Spec

\* The session's report has one result per task of the split, each of another task; one verdict on
\* every result of a worker and none on others; and, as long as the split names no worker twice,
\* every task is settled and a repair that ran after the diagnosis was told of it: for splits of
\* every length, whatever ids and counts the models make up (MultiAgentSession.run).
THEOREM ReportsAccount == Session!Spec => []Session!ReportAccounts
<1>1. Session!SessionInv => Session!ReportAccounts
  <2> SUFFICES ASSUME Session!SessionInv, stage = "done"
               PROVE  LET report == board[Len(board)].data
                      IN  /\ Session!Cardinality(report.results) = Len(tasks)
                          /\ \A r, s \in report.results : board[r].data.task = board[s].data.task => r = s
                          /\ \A r \in report.results :
                                 Session!Cardinality(Session!Verdicts(r)) =
                                     IF Session!Worker(r) \in Session!Workers THEN 1 ELSE 0
                          /\ Session!NoWorkerTwice =>
                                 /\ \A t \in Session!Of(board, "task_assign") : board[t].status \in {"done", "failed"}
                                 /\ \A r \in report.results :
                                        Session!Worker(r) = "repair_01" /\ diag # 0 /\ diag < r =>
                                            board[board[r].data.task].data.told = diag
    BY DEF Session!ReportAccounts
  <2> DEFINE R == board[Len(board)].data.results
  <2>1. /\ next > Len(tasks) /\ results = <<>>
        /\ R = Session!Of(board, "task_result")
    BY DEF Session!SessionInv, Session!Reported
  <2> HIDE DEF R
  <2>2. Session!Cardinality(R) = Len(tasks)
    <3>1. Session!Cardinality(Session!Of(board, "task_result")) = next - 1
      BY DEF Session!SessionInv, Session!OneResultEach
    <3>2. next - 1 = Len(tasks)
      BY <2>1, BoardIs
    <3> QED
      BY <2>1, <3>1, <3>2
  <2>3. \A r, s \in R : board[r].data.task = board[s].data.task => r = s
    BY <2>1 DEF Session!SessionInv, Session!OneResultEach
  <2>4. ASSUME NEW r \in R
        PROVE  Session!Cardinality(Session!Verdicts(r)) = IF Session!Worker(r) \in Session!Workers THEN 1 ELSE 0
    <3>1. ~ (\E k \in DOMAIN results : results[k] = r)
      BY <2>1
    <3>2. IF Session!Worker(r) \notin Session!Workers
          THEN Session!Verdicts(r) = {}
          ELSE \E v \in Session!Of(board, "verify_result") : Session!Verdicts(r) = {v}
      BY <2>1, <3>1 DEF Session!SessionInv, Session!OneVerdictEach
    <3> DEFINE V == Session!Verdicts(r)
    <3>3. CASE Session!Worker(r) \notin Session!Workers
      <4>1. V = {}
        BY <3>2, <3>3
      <4> HIDE DEF V
      <4>2. Session!Cardinality(V) = 0
        BY <4>1, SessionCounts, FS_EmptySet
      <4> QED
        BY <3>3, <4>2 DEF V
    <3>4. CASE Session!Worker(r) \in Session!Workers
      <4>1. PICK v : V = {v}
        BY <3>2, <3>4
      <4> HIDE DEF V
      <4>2. Cardinality({v}) = 1
        BY FS_Singleton
      <4>3. Session!Cardinality(V) = 1
        BY <4>1, <4>2, SessionCounts
      <4> QED
        BY <3>4, <4>3 DEF V
    <3> QED
      BY <3>3, <3>4
  <2>5. ASSUME Session!NoWorkerTwice, NEW t \in Session!Of(board, "task_assign")
        PROVE  board[t].status \in {"done", "failed"}
    <3>1. t \notin next..Len(tasks)
      BY <2>1, BoardIs
    <3> QED
      BY <2>5, <3>1 DEF Session!SessionInv, Session!SettledInTurn
  <2>6. ASSUME Session!NoWorkerTwice, NEW r \in R, Session!Worker(r) = "repair_01", diag # 0, diag < r
        PROVE  board[board[r].data.task].data.told = diag
    BY <2>1, <2>6 DEF Session!SessionInv, Session!SettledInTurn
  <2> QED
    BY <2>2, <2>3, <2>4, <2>5, <2>6 DEF R
<1> QED
  BY <1>1, SessionAlways, PTL

\* Every worker that gets its turn finds a task to claim: no dispatch is lost, though a repair that is
\* told of a diagnosis may leave its generic task to the next.
THEOREM WorkersFindTasks == Session!Spec => [][~ Session!NothingToClaim]_(Session!vars)
<1>1. Session!SessionInv /\ [Session!Next]_(Session!vars) => [~ Session!NothingToClaim]_(Session!vars)
  BY AlwaysATask
<1> QED
  BY <1>1, SessionAlways, PTL DEF Session!Spec

-----------------------------------------------------------------------------
(***************************************************************************)
(* ReactAgent, for any tools, budgets and number of steps                  *)
(***************************************************************************)
CONSTANTS Registered, CanonWriting, Scope, MaxSteps, MaxCalls, KeepRecent, Budget, Trigger, Sizes
VARIABLES mode, transcript, cache, prompt, planned, stop

Agent == INSTANCE ReactAgent

\* The agent's instance counts as everybody does.
LEMMA AgentCounts == \A S : Agent!Cardinality(S) = Cardinality(S)
BY DEF Cardinality, Agent!Cardinality

\* The members of a set of positions, in their order: each once.
LEMMA InOrderLists ==
    ASSUME NEW n \in Int, NEW S \in SUBSET (1..n)
    PROVE  /\ Agent!InOrder(S) \in Seq(Nat)
           /\ \A k \in DOMAIN Agent!InOrder(S) : Agent!InOrder(S)[k] \in S
           /\ \A i \in S : \E k \in DOMAIN Agent!InOrder(S) : Agent!InOrder(S)[k] = i
           /\ \A j, k \in DOMAIN Agent!InOrder(S) : Agent!InOrder(S)[j] = Agent!InOrder(S)[k] => j = k
<1> DEFINE UpTo(i) == {j \in S : j <= i}
           rank == [i \in S |-> Cardinality(UpTo(i))]
           c == Cardinality(S)
           f == Agent!InOrder(S)
<1>1. IsFiniteSet(S) /\ c \in Nat /\ S \subseteq Nat
  <2>1. IsFiniteSet(1..n)
    BY FS_Interval
  <2>2. IsFiniteSet(S)
    BY <2>1, FS_Subset
  <2> QED
    BY <2>2, FS_CardinalityType
<1>2. ASSUME NEW i \in S
      PROVE  IsFiniteSet(UpTo(i)) /\ Cardinality(UpTo(i)) \in 1..c
  <2>1. UpTo(i) \in SUBSET S /\ i \in UpTo(i)
    BY <1>1
  <2>2. IsFiniteSet(UpTo(i)) /\ Cardinality(UpTo(i)) <= c
    BY <1>1, <2>1, FS_Subset
  <2>3. Cardinality(UpTo(i)) \in Nat /\ Cardinality(UpTo(i)) # 0
    BY <2>1, <2>2, FS_CardinalityType, FS_EmptySet
  <2> QED
    BY <1>1, <2>2, <2>3
<1>3. ASSUME NEW i \in S, NEW k \in S, i < k
      PROVE  Cardinality(UpTo(i)) # Cardinality(UpTo(k))
  <2>1. UpTo(i) \in SUBSET UpTo(k)
    <3>1. ASSUME NEW j \in S, j <= i PROVE j <= k
      BY <1>1, <1>3, <3>1
    <3> QED
      BY <3>1
  <2>2. k \in UpTo(k) /\ k \notin UpTo(i)
    BY <1>1, <1>3
  <2>3. UpTo(i) # UpTo(k)
    BY <2>2
  <2> HIDE DEF UpTo
  <2> QED
    BY <1>2, <2>1, <2>3, FS_Subset
<1>4. \A i \in S : rank[i] = Cardinality(UpTo(i)) /\ rank[i] \in 1..c
  BY <1>2
<1>5. \A i, k \in S : rank[i] = rank[k] => i = k
  <2> SUFFICES ASSUME NEW i \in S, NEW k \in S, i # k PROVE rank[i] # rank[k]
    OBVIOUS
  <2>1. i < k \/ k < i
    BY <1>1
  <2> HIDE DEF UpTo, rank
  <2> QED
    BY <2>1, <1>3, <1>4
<1>6. \A k \in 1..c : \E i \in S : rank[i] = k
  <2>1. rank \in [S -> 1..c]
    BY <1>2
  <2> HIDE DEF rank, c
  <2>2. rank \in Injection(S, 1..c)
    BY <2>1, <1>5 DEF Injection, IsInjective
  <2>3. IsFiniteSet(1..c) /\ Cardinality(1..c) = c
    BY <1>1, FS_Interval
  <2>4. rank \in Surjection(S, 1..c)
    BY <2>2, <2>3, FS_Injection DEF c
  <2> QED
    BY <2>4 DEF Surjection
<1>7. f = [k \in 1..c |-> CHOOSE i \in S : Cardinality(UpTo(i)) = k]
  BY DEF Agent!InOrder, Agent!Cardinality, Cardinality
<1>8. \A k \in 1..c : f[k] \in S /\ rank[f[k]] = k
  <2> SUFFICES ASSUME NEW k \in 1..c PROVE f[k] \in S /\ rank[f[k]] = k
    OBVIOUS
  <2>1. f[k] = CHOOSE i \in S : Cardinality(UpTo(i)) = k
    BY <1>7
  <2>2. \E i \in S : Cardinality(UpTo(i)) = k
    BY <1>4, <1>6
  <2> HIDE DEF f, UpTo, rank
  <2>3. f[k] \in S /\ Cardinality(UpTo(f[k])) = k
    BY <2>1, <2>2
  <2> QED
    BY <2>3, <1>4
<1>9. DOMAIN f = 1..c /\ f \in Seq(Nat)
  <2> HIDE DEF f
  <2>1. DOMAIN f = 1..c /\ f = [k \in 1..c |-> f[k]]
    <3> DEFINE at(k) == CHOOSE i \in S : Cardinality(UpTo(i)) = k
    <3>1. f = [k \in 1..c |-> at(k)]
      BY <1>7
    <3> HIDE DEF at, c
    <3> QED
      BY <3>1
  <2>2. \A k \in 1..c : f[k] \in Nat
    BY <1>1, <1>8
  <2> QED
    BY <2>1, <2>2, <1>1
<1> HIDE DEF f, rank, c
<1>10. \A i \in S : f[rank[i]] = i
  BY <1>4, <1>5, <1>8
<1>11. \A i \in S : \E k \in DOMAIN f : f[k] = i
  BY <1>4, <1>9, <1>10
<1>12. \A j, k \in DOMAIN f : f[j] = f[k] => j = k
  BY <1>8, <1>9
<1> QED
  BY <1>8, <1>9, <1>11, <1>12 DEF f

\* What the trim leaves: the end of the view, which fits or is the newest entry.
LEMMA TrimIs ==
    ASSUME NEW E, NEW view \in Seq(E), view # <<>>
    PROVE  \E first \in 1..Len(view) :
             /\ Agent!Trim(view) = [entries |-> SubSeq(view, first, Len(view)), omitted |-> first - 1]
             /\ first = Len(view) \/ Agent!Tokens(SubSeq(view, first, Len(view))) <= Budget
<1> DEFINE From(k) == SubSeq(view, k, Len(view))
           fits == {k \in DOMAIN view : Agent!Tokens(From(k)) <= Budget} \cup {Len(view)}
           first == CHOOSE k \in fits : \A j \in fits : k <= j
<1>1. Len(view) \in Nat /\ Len(view) >= 1 /\ DOMAIN view = 1..Len(view)
  OBVIOUS
<1>2. fits \in SUBSET (1..Len(view)) /\ fits # {}
  BY <1>1
<1>3. \A k \in fits : k = Len(view) \/ Agent!Tokens(From(k)) <= Budget
  OBVIOUS
<1>4. Agent!Trim(view) = [entries |-> From(first), omitted |-> first - 1]
  BY DEF Agent!Trim
<1> HIDE DEF fits, From
<1>5. \E k \in fits : \A j \in fits : k <= j
  <2>1. fits \in SUBSET Nat
    BY <1>1, <1>2
  <2> QED
    BY <2>1, <1>2, OldestIs
<1>6. first \in fits
  BY <1>5
<1> HIDE DEF first
<1> QED
  BY <1>2, <1>3, <1>4, <1>6 DEF From

LEMMA ToldIs ==
    ASSUME NEW view, NEW i
    PROVE  i \in Agent!Told(view) <=> \E k \in DOMAIN view : \E a \in DOMAIN view[k].of : view[k].of[a] = i
<1>1. i \in Agent!Told(view) <=> \E k \in DOMAIN view : i \in Agent!Range(view[k].of)
  BY DEF Agent!Told
<1>2. \A k : i \in Agent!Range(view[k].of) <=> \E a \in DOMAIN view[k].of : view[k].of[a] = i
  BY DEF Agent!Range
<1> QED
  BY <1>1, <1>2

\* A view with every turn in it.
Honest(view) ==
    /\ view # <<>> /\ \E E : view \in Seq(E)
    /\ view[Len(view)] = Agent!Verbatim(Len(transcript))
    /\ Agent!Once(view) /\ Agent!ErrorsKept(view)
    /\ Agent!Told(view) = DOMAIN transcript

LEMMA TrimmedTells ==
    ASSUME NEW view, Honest(view)
    PROVE  LET shown == Agent!Trim(view).entries
           IN  /\ Agent!Last(shown) = Agent!Verbatim(Len(transcript))
               /\ Agent!Once(shown) /\ Agent!ErrorsKept(shown)
               /\ Agent!Trim(view).omitted = 0 => Agent!Told(shown) = DOMAIN transcript
               /\ Len(shown) = 1 \/ Agent!Tokens(shown) <= Budget
<1>1. PICK E : view \in Seq(E)
  BY DEF Honest
<1>2. view # <<>>
  BY DEF Honest
<1>3. PICK first \in 1..Len(view) :
          /\ Agent!Trim(view) = [entries |-> SubSeq(view, first, Len(view)), omitted |-> first - 1]
          /\ first = Len(view) \/ Agent!Tokens(SubSeq(view, first, Len(view))) <= Budget
  BY <1>1, <1>2, TrimIs
<1> DEFINE shown == SubSeq(view, first, Len(view))
           n == Len(view) - first + 1
<1>4. /\ Len(view) \in Nat /\ n \in Nat /\ n >= 1 /\ n <= Len(view)
      /\ DOMAIN view = 1..Len(view) /\ DOMAIN shown = 1..n /\ Len(shown) = n
      /\ \A k \in 1..n : shown[k] = view[first + k - 1] /\ first + k - 1 \in DOMAIN view
  BY <1>1
<1>5. Agent!Trim(view).entries = shown /\ Agent!Trim(view).omitted = first - 1
  BY <1>3
<1>6. Len(shown) = 1 \/ Agent!Tokens(shown) <= Budget
  <2>1. CASE first = Len(view)
    <3>1. Len(shown) = 1
      BY <2>1, <1>4
    <3> QED
      BY <3>1
  <2>2. CASE Agent!Tokens(SubSeq(view, first, Len(view))) <= Budget
    BY <2>2
  <2> QED
    BY <2>1, <2>2, <1>3
<1>7. first - 1 = 0 => shown = view
  BY <1>1
<1> HIDE DEF shown
<1>8. Agent!Last(shown) = Agent!Verbatim(Len(transcript))
  <2>1. shown[n] = view[Len(view)]
    BY <1>4
  <2> QED
    BY <2>1, <1>4 DEF Agent!Last, Honest
<1>9. Agent!Once(shown)
  <2> SUFFICES ASSUME NEW j \in DOMAIN shown, NEW k \in DOMAIN shown,
                      NEW a \in DOMAIN shown[j].of, NEW b \in DOMAIN shown[k].of, shown[j].of[a] = shown[k].of[b]
               PROVE  j = k /\ a = b
    BY DEF Agent!Once
  <2> DEFINE u == first + j - 1
             v == first + k - 1
  <2>1. u \in DOMAIN view /\ v \in DOMAIN view /\ shown[j] = view[u] /\ shown[k] = view[v]
    BY <1>4
  <2>2. u = v /\ a = b
    <3> HIDE DEF u, v
    <3> QED
      BY <2>1 DEF Honest, Agent!Once
  <2> QED
    BY <2>2, <1>4
<1>10. Agent!ErrorsKept(shown)
  <2> SUFFICES ASSUME NEW k \in DOMAIN shown, shown[k].summary
               PROVE  \A i \in Agent!Range(shown[k].of) : transcript[i].ok
    BY DEF Agent!ErrorsKept
  <2> DEFINE v == first + k - 1
  <2>1. v \in DOMAIN view /\ shown[k] = view[v]
    BY <1>4
  <2> HIDE DEF v
  <2> QED
    BY <2>1 DEF Honest, Agent!ErrorsKept
<1> QED
  BY <1>5, <1>6, <1>7, <1>8, <1>9, <1>10 DEF Honest

\* The uncompressed view.
LEMMA WholeIsHonest ==
    ASSUME Agent!TypeOK, transcript # <<>>
    PROVE  Honest(Agent!Turns(Agent!Upto(Len(transcript))))
<1> DEFINE n == Len(transcript)
           view == Agent!Turns(Agent!Upto(n))
<1>1. n \in Nat /\ n >= 1 /\ DOMAIN transcript = 1..n
  BY DEF Agent!TypeOK
<1> HIDE DEF n
<1>2. view = [k \in 1..n |-> Agent!Verbatim(k)]
  BY DEF Agent!Turns, Agent!Upto
<1> HIDE DEF view
<1>3. \A k \in 1..n : view[k].of = <<k>> /\ view[k].summary = FALSE
  BY <1>2 DEF Agent!Verbatim
<1>4. DOMAIN view = 1..n /\ view \in Seq({Agent!Verbatim(k) : k \in 1..n}) /\ Len(view) = n
  BY <1>1, <1>2
<1>5. Agent!Once(view)
  BY <1>3, <1>4 DEF Agent!Once
<1>6. Agent!ErrorsKept(view)
  BY <1>3, <1>4 DEF Agent!ErrorsKept
<1>7. Agent!Told(view) = DOMAIN transcript
  <2>1. \A k \in 1..n : DOMAIN view[k].of = {1} /\ view[k].of[1] = k
    BY <1>3
  <2>2. \A i : i \in Agent!Told(view) <=> i \in 1..n
    BY <2>1, <1>4, ToldIs
  <2>3. Agent!Told(view) = 1..n
    BY <2>2
  <2> QED
    BY <2>3, <1>1
<1>8. view # <<>> /\ view[n] = Agent!Verbatim(n)
  BY <1>1, <1>2, <1>4
<1> QED
  BY <1>4, <1>5, <1>6, <1>7, <1>8 DEF Honest, view, n

\* The compressed view: the checkpoints of the older turns, their summary, the newer turns.
LEMMA CompactedIsHonest ==
    ASSUME Agent!WellFormed, Agent!TypeOK, Agent!ErrorsChecked, transcript # <<>>,
           NEW summary, summary.of = Agent!Compactable, summary.summary
    PROVE  Honest(Agent!Compacted(summary))
<1> DEFINE n == Len(transcript)
           r == Agent!Recent
           CS == {i \in Agent!Older : transcript[i].checkpoint}
           KS == {i \in Agent!Older : ~ transcript[i].checkpoint}
           C == Agent!Checkpoints
           K == Agent!Compactable
           c == Len(C)
           T == Agent!Turns(C)
           W == Agent!Turns(Agent!Newer)
           view == Agent!Compacted(summary)
<1>1. n \in Nat /\ n >= 1 /\ DOMAIN transcript = 1..n
  BY DEF Agent!TypeOK
<1>2. r \in 1..n
  BY <1>1 DEF Agent!Recent, Agent!WellFormed
<1>3. /\ Agent!Older = 1..(n - r) /\ n - r \in Int
      /\ CS \in SUBSET (1..(n - r)) /\ KS \in SUBSET (1..(n - r))
      /\ \A i \in 1..(n - r) : i \in CS \/ i \in KS
      /\ \A i \in CS : i \notin KS
      /\ \A i \in KS : transcript[i].ok
  <2>1. Agent!Older = 1..(n - r) /\ n - r \in Int /\ \A i \in Agent!Older : i \in DOMAIN transcript
    BY <1>1, <1>2 DEF Agent!Older
  <2> HIDE DEF n, r
  <2>2. \A i \in KS : transcript[i].ok
    BY <2>1 DEF Agent!ErrorsChecked
  <2>3. CS \subseteq Agent!Older /\ KS \subseteq Agent!Older
    OBVIOUS
  <2>4. \A i \in Agent!Older : i \in CS \/ i \in KS
    OBVIOUS
  <2>5. \A i \in CS : i \notin KS
    OBVIOUS
  <2> HIDE DEF CS, KS
  <2> QED
    BY ONLY <2>1, <2>2, <2>3, <2>4, <2>5
<1>4. C = Agent!InOrder(CS) /\ K = Agent!InOrder(KS)
  BY DEF Agent!Checkpoints, Agent!Compactable
<1>22. \A i \in CS \cup KS : i \in 1..n /\ i <= n - r
  BY <1>1, <1>2, <1>3
<1>23. \A m \in 1..r : n - r + m \in 1..n /\ n - r + m > n - r
  BY <1>1, <1>2
<1> HIDE DEF CS, KS, C, K, n, r
<1>5. /\ C \in Seq(Nat) /\ \A k \in DOMAIN C : C[k] \in CS
      /\ \A i \in CS : \E k \in DOMAIN C : C[k] = i
      /\ \A j, k \in DOMAIN C : C[j] = C[k] => j = k
  <2> DEFINE m == n - r
  <2>1. m \in Int /\ CS \in SUBSET (1..m)
    BY <1>3
  <2> HIDE DEF m
  <2>2. C = Agent!InOrder(CS)
    BY <1>4
  <2>3. /\ Agent!InOrder(CS) \in Seq(Nat)
        /\ \A k \in DOMAIN Agent!InOrder(CS) : Agent!InOrder(CS)[k] \in CS
        /\ \A i \in CS : \E k \in DOMAIN Agent!InOrder(CS) : Agent!InOrder(CS)[k] = i
        /\ \A j, k \in DOMAIN Agent!InOrder(CS) : Agent!InOrder(CS)[j] = Agent!InOrder(CS)[k] => j = k
    BY ONLY <2>1, InOrderLists
  <2> QED
    BY ONLY <2>2, <2>3
<1>6. /\ K \in Seq(Nat) /\ \A k \in DOMAIN K : K[k] \in KS
      /\ \A i \in KS : \E k \in DOMAIN K : K[k] = i
      /\ \A j, k \in DOMAIN K : K[j] = K[k] => j = k
  BY <1>3, <1>4, InOrderLists
<1>7. T = [k \in DOMAIN C |-> Agent!Verbatim(C[k])]
  BY DEF Agent!Turns
<1>8. W = [m \in 1..r |-> Agent!Verbatim(n - r + m)]
  BY DEF Agent!Turns, Agent!Newer, n, r
<1>9. view = T \o <<summary>> \o W
  BY DEF Agent!Compacted, C
<1> DEFINE E == {Agent!Verbatim(i) : i \in Nat} \cup {summary}
<1> HIDE DEF T, W, view
<1>10. c \in Nat /\ DOMAIN C = 1..c
  BY <1>5
<1>11. T \in Seq(E) /\ Len(T) = c /\ W \in Seq(E) /\ Len(W) = r
  <2>1. \A k \in 1..c : Agent!Verbatim(C[k]) \in E
    BY <1>5, <1>10
  <2>2. \A m \in 1..r : Agent!Verbatim(n - r + m) \in E
    BY <1>1, <1>2
  <2> HIDE DEF E
  <2>3. T \in Seq(E) /\ Len(T) = c
    BY <2>1, <1>7, <1>10
  <2>4. W \in Seq(E) /\ Len(W) = r
    BY <2>2, <1>2, <1>8
  <2> QED
    BY <2>3, <2>4
<1>12. /\ view \in Seq(E) /\ Len(view) = c + 1 + r /\ DOMAIN view = 1..(c + 1 + r)
       /\ \A k \in 1..c : view[k] = T[k]
       /\ view[c + 1] = summary
       /\ \A m \in 1..r : view[c + 1 + m] = W[m]
  <2>1. <<summary>> \in Seq(E) /\ Len(<<summary>>) = 1
    OBVIOUS
  <2> HIDE DEF E, c
  <2> DEFINE TS == T \o <<summary>>
  <2>2. /\ TS \in Seq(E) /\ Len(TS) = c + 1 /\ \A k \in 1..c : TS[k] = T[k]
        /\ TS[c + 1] = summary
    BY <2>1, <1>10, <1>11
  <2>3. view = TS \o W
    BY <1>9
  <2> HIDE DEF TS
  <2>4. view \in Seq(E) /\ Len(view) = c + 1 + r
    <3>1. view \in Seq(E)
      BY <2>2, <2>3, <1>11
    <3>2. Len(TS \o W) = Len(TS) + Len(W)
      BY <2>2, <1>11
    <3> QED
      BY <3>1, <3>2, <2>2, <2>3, <1>11
  <2>5. \A k \in 1..(c + 1) : view[k] = TS[k]
    BY <2>2, <2>3, <1>10, <1>11
  <2>6. \A m \in 1..r : view[c + 1 + m] = W[m]
    BY <2>2, <2>3, <1>2, <1>10, <1>11
  <2> QED
    BY <2>2, <2>4, <2>5, <2>6, <1>10
<1> HIDE DEF E, c
<1>13. \A k \in 1..c : view[k].of = <<C[k]>> /\ view[k].summary = FALSE /\ C[k] \in CS
  <2> SUFFICES ASSUME NEW k \in 1..c
               PROVE  view[k].of = <<C[k]>> /\ view[k].summary = FALSE /\ C[k] \in CS
    OBVIOUS
  <2>1. view[k] = Agent!Verbatim(C[k]) /\ C[k] \in CS
    BY <1>5, <1>7, <1>10, <1>12
  <2> QED
    BY <2>1 DEF Agent!Verbatim
<1>14. \A m \in 1..r : view[c + 1 + m].of = <<n - r + m>> /\ view[c + 1 + m].summary = FALSE
  BY <1>8, <1>12 DEF Agent!Verbatim
<1>15. view[c + 1].of = K /\ view[c + 1].summary
  BY <1>12 DEF K
<1>16. \A k \in DOMAIN view : \/ k \in 1..c \/ k = c + 1 \/ \E m \in 1..r : k = c + 1 + m
  <2>1. ASSUME NEW k \in DOMAIN view, k > c + 1 PROVE \E m \in 1..r : k = c + 1 + m
    <3>1. k - (c + 1) \in 1..r /\ k = c + 1 + (k - (c + 1))
      BY <2>1, <1>2, <1>10, <1>12
    <3> QED
      BY <3>1
  <2> QED
    BY <2>1, <1>10, <1>12
<1>17. Agent!Once(view)
  <2> SUFFICES ASSUME NEW j \in DOMAIN view, NEW k \in DOMAIN view,
                      NEW a \in DOMAIN view[j].of, NEW b \in DOMAIN view[k].of, view[j].of[a] = view[k].of[b]
               PROVE  j = k /\ a = b
    BY DEF Agent!Once
  <2> DEFINE i == view[j].of[a]
  <2>1. ASSUME NEW h \in 1..c, NEW g \in DOMAIN view[h].of
        PROVE  g = 1 /\ view[h].of[g] = C[h] /\ C[h] \in CS
    BY <1>13
  <2>2. ASSUME NEW m \in 1..r, NEW g \in DOMAIN view[c + 1 + m].of
        PROVE  g = 1 /\ view[c + 1 + m].of[g] = n - r + m
    BY <1>14
  <2>3. ASSUME NEW g \in DOMAIN view[c + 1].of
        PROVE  g \in DOMAIN K /\ view[c + 1].of[g] = K[g] /\ K[g] \in KS
    BY <1>6, <1>15
  <2>4. CASE j \in 1..c
    <3>1. a = 1 /\ i = C[j] /\ i \in CS /\ i <= n - r
      BY <2>1, <2>4, <1>22
    <3>2. CASE k \in 1..c
      BY <3>1, <3>2, <2>1, <2>4, <1>5, <1>10
    <3>3. CASE k = c + 1
      BY <3>1, <3>3, <2>3, <1>3
    <3>4. CASE \E m \in 1..r : k = c + 1 + m
      BY <3>1, <3>4, <2>2, <1>1, <1>2, <1>22, <1>23
    <3> QED
      BY <3>2, <3>3, <3>4, <1>16
  <2>5. CASE j = c + 1
    <3>1. a \in DOMAIN K /\ i = K[a] /\ i \in KS /\ i <= n - r
      BY <2>3, <2>5, <1>22
    <3>2. CASE k \in 1..c
      BY <3>1, <3>2, <2>1, <1>3
    <3>3. CASE k = c + 1
      BY <3>1, <3>3, <2>3, <2>5, <1>6
    <3>4. ASSUME NEW m \in 1..r, k = c + 1 + m PROVE FALSE
      <4>1. view[k].of[b] = n - r + m /\ n - r + m > n - r
        BY <3>4, <2>2, <1>23
      <4>2. ~ i > n - r
        BY <3>1, <1>1, <1>2, <1>22
      <4> HIDE DEF i
      <4>3. i = n - r + m
        BY <4>1 DEF i
      <4> QED
        BY <4>1, <4>2, <4>3
    <3> QED
      BY <3>2, <3>3, <3>4, <1>16
  <2>6. ASSUME NEW m \in 1..r, j = c + 1 + m PROVE j = k /\ a = b
    <3>1. a = 1 /\ i = n - r + m /\ i > n - r
      BY <2>2, <2>6, <1>23
    <3>2. CASE k \in 1..c
      BY <3>1, <3>2, <2>1, <1>1, <1>2, <1>22
    <3>3. CASE k = c + 1
      BY <3>1, <3>3, <2>3, <1>1, <1>2, <1>22
    <3>4. ASSUME NEW l \in 1..r, k = c + 1 + l PROVE j = k /\ a = b
      BY <3>1, <3>4, <2>2, <2>6, <1>1, <1>2
    <3> QED
      BY <3>2, <3>3, <3>4, <1>16
  <2> QED
    BY <2>4, <2>5, <2>6, <1>16
<1>18. Agent!ErrorsKept(view)
  <2> SUFFICES ASSUME NEW k \in DOMAIN view, view[k].summary
               PROVE  \A i \in Agent!Range(view[k].of) : transcript[i].ok
    BY DEF Agent!ErrorsKept
  <2>1. k = c + 1
    BY <1>13, <1>14, <1>16
  <2> QED
    BY <2>1, <1>3, <1>6, <1>15 DEF Agent!Range
<1>19. Agent!Told(view) = DOMAIN transcript
  <2>1. ASSUME NEW i \in Agent!Told(view) PROVE i \in 1..n
    <3>1. PICK k \in DOMAIN view : \E a \in DOMAIN view[k].of : view[k].of[a] = i
      BY ToldIs
    <3>2. CASE k \in 1..c
      BY <3>1, <3>2, <1>13, <1>22
    <3>3. CASE k = c + 1
      BY <3>1, <3>3, <1>6, <1>15, <1>22
    <3>4. CASE \E m \in 1..r : k = c + 1 + m
      BY <3>1, <3>4, <1>14, <1>23
    <3> QED
      BY <3>2, <3>3, <3>4, <1>16
  <2>2. ASSUME NEW i \in 1..n PROVE i \in Agent!Told(view)
    <3>1. CASE i \in CS
      <4>1. PICK k \in 1..c : C[k] = i
        BY <3>1, <1>5, <1>10
      <4>2. k \in DOMAIN view /\ 1 \in DOMAIN view[k].of /\ view[k].of[1] = i
        BY <4>1, <1>2, <1>10, <1>12, <1>13
      <4> QED
        BY <4>2, ToldIs
    <3>2. CASE i \in KS
      <4>1. PICK a \in DOMAIN K : K[a] = i
        BY <3>2, <1>6
      <4>2. c + 1 \in DOMAIN view /\ a \in DOMAIN view[c + 1].of /\ view[c + 1].of[a] = i
        BY <4>1, <1>2, <1>10, <1>12, <1>15
      <4> QED
        BY <4>2, ToldIs
    <3>3. CASE i > n - r
      <4> DEFINE m == i - (n - r)
      <4>1. m \in 1..r /\ n - r + m = i
        BY <3>3, <1>1, <1>2
      <4> HIDE DEF m
      <4>2. c + 1 + m \in DOMAIN view /\ 1 \in DOMAIN view[c + 1 + m].of /\ view[c + 1 + m].of[1] = i
        BY <4>1, <1>2, <1>10, <1>12, <1>14
      <4> QED
        BY <4>2, ToldIs
    <3>4. i > n - r \/ i \in 1..(n - r)
      BY <1>1, <1>2
    <3> QED
      BY <3>1, <3>2, <3>3, <3>4, <1>3
  <2> QED
    BY <2>1, <2>2, <1>1
<1>20. view # <<>> /\ view[Len(view)] = Agent!Verbatim(n)
  <2>1. r \in 1..r /\ Len(view) = c + 1 + r /\ Len(view) # 0
    BY <1>2, <1>10, <1>12
  <2>2. W[r] = Agent!Verbatim(n - r + r) /\ n - r + r = n
    BY <2>1, <1>1, <1>2, <1>8
  <2>3. view[c + 1 + r] = W[r]
    BY <2>1, <1>12
  <2> QED
    BY <2>1, <2>2, <2>3, <1>12
<1>21. Honest(view)
  BY <1>12, <1>17, <1>18, <1>19, <1>20 DEF Honest, n
<1> QED
  BY <1>21 DEF view

\* What is reused, and what is folded in, together are the turns to sum up.
LEMMA LookupCovers ==
    ASSUME Agent!CacheInv, NEW K \in Seq(Nat)
    PROVE  LET found == Agent!Lookup(K)
           IN  /\ found.reuse.of \o found.fold = K
               /\ found.reuse.of \in Seq(Nat) /\ found.reuse.summary
<1> DEFINE found == Agent!Lookup(K)
           t == cache.turns
<1>1. ASSUME t # <<>>, Agent!IsPrefix(t, K)
      PROVE  found.reuse.of \o found.fold = K /\ found.reuse.of \in Seq(Nat)
  <2>1. found.reuse.of = t /\ found.fold = SubSeq(K, Len(t) + 1, Len(K))
    BY <1>1 DEF Agent!Lookup, Agent!CacheInv
  <2>2. /\ t \in Seq(Nat) /\ Len(t) \in Nat /\ Len(t) <= Len(K)
        /\ SubSeq(t, 1, Len(t)) = SubSeq(K, 1, Len(t))
    BY <1>1 DEF Agent!IsPrefix, Agent!CacheInv
  <2> HIDE DEF t
  <2>3. t \o SubSeq(K, Len(t) + 1, Len(K)) = K
    <3>1. \A k \in 1..Len(t) : t[k] = K[k]
      BY <2>2
    <3> DEFINE rest == SubSeq(K, Len(t) + 1, Len(K))
    <3>2. /\ rest \in Seq(Nat) /\ Len(rest) = Len(K) - Len(t)
          /\ \A k \in 1..Len(rest) : rest[k] = K[Len(t) + k]
      BY <2>2
    <3> HIDE DEF rest
    <3>3. Len(t \o rest) = Len(K) /\ t \o rest \in Seq(Nat)
      BY <2>2, <3>2
    <3>4. \A k \in 1..Len(K) : (t \o rest)[k] = K[k]
      <4> SUFFICES ASSUME NEW k \in 1..Len(K) PROVE (t \o rest)[k] = K[k]
        OBVIOUS
      <4>1. CASE k <= Len(t)
        BY <4>1, <2>2, <3>1, <3>2
      <4>2. CASE k > Len(t)
        <5>1. (t \o rest)[k] = rest[k - Len(t)]
          BY <4>2, <2>2, <3>2
        <5>2. k - Len(t) \in 1..Len(rest) /\ Len(t) + (k - Len(t)) = k
          BY <4>2, <2>2, <3>2
        <5> QED
          BY <5>1, <5>2, <3>2
      <4>3. k <= Len(t) \/ k > Len(t)
        BY <2>2
      <4> QED
        BY <4>1, <4>2, <4>3
    <3>5. t \o rest = K
      <4> DEFINE u == t \o rest
      <4> HIDE DEF u
      <4>1. Len(u) = Len(K) /\ u \in Seq(Nat) /\ \A k \in 1..Len(K) : u[k] = K[k]
        BY <3>3, <3>4 DEF u
      <4>2. u = K
        <5>1. K \in Seq(Nat)
          OBVIOUS
        <5> QED
          BY ONLY <4>1, <5>1, SeqEqual
      <4> QED
        BY <4>2 DEF u
    <3> QED
      BY <3>5 DEF rest
  <2>4. found.reuse.of \in Seq(Nat)
    BY <2>1, <2>2 DEF t
  <2> HIDE DEF found
  <2> QED
    BY <2>1, <2>3, <2>4
<1>2. ASSUME ~ (t # <<>> /\ Agent!IsPrefix(t, K))
      PROVE  found.reuse.of \o found.fold = K /\ found.reuse.of \in Seq(Nat)
  <2>1. found.reuse.of = <<>> /\ found.fold = K
    BY <1>2 DEF Agent!Lookup, Agent!NoSummary, Agent!Summary
  <2> HIDE DEF found
  <2> QED
    BY <2>1
<1>3. found.reuse.summary
  BY DEF Agent!Lookup, Agent!NoSummary, Agent!Summary, Agent!CacheInv
<1> QED
  BY <1>1, <1>2, <1>3

LEMMA CompactableIs ==
    ASSUME Agent!WellFormed, Agent!TypeOK
    PROVE  Agent!Compactable \in Seq(Nat)
<1> DEFINE K == Agent!Compactable
           KS == {i \in Agent!Older : ~ transcript[i].checkpoint}
<1>1. Len(transcript) - Agent!Recent \in Int
  BY DEF Agent!TypeOK, Agent!Recent, Agent!WellFormed
<1>2. KS \in SUBSET (1..(Len(transcript) - Agent!Recent)) /\ K = Agent!InOrder(KS)
  BY DEF Agent!Older, Agent!Compactable
<1> HIDE DEF KS, K
<1>3. K \in Seq(Nat)
  BY <1>1, <1>2, InOrderLists
<1> QED
  BY <1>3 DEF K

LEMMA ViewTells ==
    ASSUME Agent!WellFormed, Agent!TypeOK, Agent!CacheInv, Agent!ErrorsChecked, transcript # <<>>, Agent!View
    PROVE  \E view : Honest(view) /\ prompt' = Agent!Trim(view)
<1> DEFINE whole == Agent!Turns(Agent!Upto(Len(transcript)))
           K == Agent!Compactable
           found == Agent!Lookup(K)
<1>1. Honest(whole)
  BY WholeIsHonest
<1>2. K \in Seq(Nat)
  BY CompactableIs
<1>3. found.reuse.of \o found.fold = K /\ found.reuse.of \in Seq(Nat) /\ found.reuse.summary
  BY <1>2, LookupCovers
<1>5. CASE prompt' = Agent!Trim(whole)
  BY <1>1, <1>5
<1>6. CASE found.fold = <<>> /\ prompt' = Agent!Trim(Agent!Compacted(found.reuse))
  <2>1. found.reuse.of = K
    <3> HIDE DEF found
    <3> QED
      BY <1>3, <1>6
  <2> HIDE DEF found
  <2>2. Honest(Agent!Compacted(found.reuse))
    BY <2>1, <1>3, CompactedIsHonest
  <2> QED
    BY <2>2, <1>6
<1>7. ASSUME NEW z, prompt' = Agent!Trim(Agent!Compacted(Agent!Summary(found.reuse.of \o found.fold, z)))
      PROVE  \E view : Honest(view) /\ prompt' = Agent!Trim(view)
  <2> DEFINE summary == Agent!Summary(found.reuse.of \o found.fold, z)
  <2>1. summary.of = K /\ summary.summary
    BY <1>3 DEF Agent!Summary
  <2> HIDE DEF summary, found
  <2>2. Honest(Agent!Compacted(summary))
    BY <2>1, CompactedIsHonest
  <2> QED
    BY <2>2, <1>7 DEF summary
<1>8. \/ prompt' = Agent!Trim(whole)
      \/ found.fold = <<>> /\ prompt' = Agent!Trim(Agent!Compacted(found.reuse))
      \/ \E z \in Sizes : prompt' = Agent!Trim(Agent!Compacted(Agent!Summary(found.reuse.of \o found.fold, z)))
  BY DEF Agent!View, Agent!Show
<1> QED
  BY <1>5, <1>6, <1>7, <1>8

LEMMA ViewKeepsCache ==
    ASSUME Agent!WellFormed, Agent!TypeOK, Agent!CacheInv, Agent!View
    PROVE  Agent!CacheInv'
<1> DEFINE K == Agent!Compactable
           found == Agent!Lookup(K)
<1>1. K \in Seq(Nat)
  BY CompactableIs
<1>2. found.reuse.of \o found.fold = K
  BY <1>1, LookupCovers
<1>3. cache' = cache \/ \E z \in Sizes :
          cache' = [turns |-> K, summary |-> Agent!Summary(found.reuse.of \o found.fold, z)]
  BY DEF Agent!View
<1> HIDE DEF found, K
<1> QED
  BY <1>1, <1>2, <1>3 DEF Agent!CacheInv, Agent!Summary

LEMMA PlanKeeps ==
    ASSUME Agent!WellFormed, Agent!AgentInv, Agent!Plan
    PROVE  Agent!AgentInv'
<1>1. /\ Agent!TypeOK /\ Agent!CacheInv /\ Agent!ErrorsChecked /\ Agent!StepsLeft
  BY DEF Agent!AgentInv
<1>2. /\ stop = "plan" /\ planned' = planned + 1 /\ stop' \in {"act", "raised"}
      /\ mode' = mode /\ transcript' = transcript
  BY DEF Agent!Plan, Agent!Raised
<1>3. Agent!TypeOK' /\ Agent!ErrorsChecked' /\ Agent!StepsLeft'
  <2>1. planned' \in 0..MaxSteps /\ planned' > 0
    BY <1>1, <1>2 DEF Agent!TypeOK, Agent!StepsLeft, Agent!WellFormed
  <2> QED
    BY <2>1, <1>1, <1>2 DEF Agent!TypeOK, Agent!StepsLeft, Agent!ErrorsChecked, Agent!Raised
<1>4. Agent!CacheInv'
  <2>1. CASE Agent!View
    BY <2>1, <1>1, ViewKeepsCache
  <2>2. CASE cache' = cache
    BY <2>2, <1>1 DEF Agent!CacheInv
  <2> QED
    BY <2>1, <2>2 DEF Agent!Plan
<1>5. Agent!PromptTellsAll'
  <2> SUFFICES ASSUME transcript # <<>>
               PROVE  LET shown == prompt'.entries
                      IN  /\ Agent!Last(shown) = Agent!Verbatim(Len(transcript))
                          /\ Agent!Once(shown) /\ Agent!ErrorsKept(shown)
                          /\ prompt'.omitted = 0 => Agent!Told(shown) = DOMAIN transcript
                          /\ mode = "native" \/ Len(shown) = 1 \/ Agent!Tokens(shown) <= Budget
    BY <1>2 DEF Agent!PromptTellsAll, Agent!ErrorsKept, Agent!Verbatim, Agent!Last, Agent!Once, Agent!Told
  <2>1. CASE Agent!View
    <3>1. PICK view : Honest(view) /\ prompt' = Agent!Trim(view)
      BY <2>1, <1>1, ViewTells
    <3> QED
      BY <3>1, TrimmedTells
  <2>2. CASE mode # "text"
    <3> DEFINE whole == Agent!Turns(Agent!Upto(Len(transcript)))
    <3>1. mode = "native" /\ prompt'.entries = whole
      BY <2>2, <1>1 DEF Agent!Plan, Agent!TypeOK
    <3>2. Honest(whole)
      BY <1>1, WholeIsHonest
    <3> HIDE DEF whole
    <3> QED
      BY <3>1, <3>2 DEF Honest, Agent!Last
  <2> QED
    BY <2>1, <2>2 DEF Agent!Plan
<1> QED
  BY <1>3, <1>4, <1>5 DEF Agent!AgentInv

\* Turns are added, and the run goes on or is out of steps.
LEMMA TurnsKeep ==
    ASSUME Agent!WellFormed, Agent!AgentInv, stop = "act", Agent!Continue, UNCHANGED <<mode, cache, planned>>,
           NEW turns \in Seq([ok : BOOLEAN, checkpoint : BOOLEAN, size : Sizes]),
           \A k \in DOMAIN turns : turns[k].ok \/ turns[k].checkpoint,
           transcript' = transcript \o turns
    PROVE  Agent!AgentInv'
<1> DEFINE Turn == [ok : BOOLEAN, checkpoint : BOOLEAN, size : Sizes]
<1>1. /\ mode \in {"text", "native"} /\ transcript \in Seq(Turn) /\ planned \in 0..MaxSteps
      /\ Agent!CacheInv /\ Agent!ErrorsChecked
  BY DEF Agent!AgentInv, Agent!TypeOK
<1>2. stop' \in {"plan", "max_steps"} /\ (stop' = "plan" => planned < MaxSteps)
  BY <1>1 DEF Agent!Continue, Agent!WellFormed
<1> HIDE DEF Turn
<1>3. transcript' \in Seq(Turn)
  BY <1>1 DEF Turn
<1>4. Agent!ErrorsChecked'
  <2> SUFFICES ASSUME NEW i \in DOMAIN transcript'
               PROVE  transcript'[i].ok \/ transcript'[i].checkpoint
    BY DEF Agent!ErrorsChecked
  <2>1. CASE i \in DOMAIN transcript
    <3>1. transcript'[i] = transcript[i]
      BY <2>1, <1>1
    <3> QED
      BY <3>1, <2>1, <1>1 DEF Agent!ErrorsChecked
  <2>2. CASE i \notin DOMAIN transcript
    <3>1. i - Len(transcript) \in DOMAIN turns /\ transcript'[i] = turns[i - Len(transcript)]
      BY <2>2, <1>1
    <3> QED
      BY <3>1
  <2> QED
    BY <2>1, <2>2
<1>5. Agent!TypeOK' /\ Agent!StepsLeft' /\ Agent!CacheInv'
  BY <1>1, <1>2, <1>3 DEF Turn, Agent!TypeOK, Agent!StepsLeft, Agent!CacheInv, Agent!Raised
<1>6. Agent!PromptTellsAll'
  BY <1>2 DEF Agent!PromptTellsAll
<1> QED
  BY <1>4, <1>5, <1>6 DEF Agent!AgentInv

LEMMA ObservedIs ==
    \A ok, worded \in BOOLEAN, z \in Sizes :
        /\ Agent!Observed(ok, worded, z) \in [ok : BOOLEAN, checkpoint : BOOLEAN, size : Sizes]
        /\ Agent!Observed(ok, worded, z).ok \/ Agent!Observed(ok, worded, z).checkpoint
BY DEF Agent!Observed

LEMMA AgentStep ==
    ASSUME Agent!WellFormed, Agent!AgentInv, [Agent!Next]_(Agent!vars)
    PROVE  Agent!AgentInv'
<1> DEFINE Turn == [ok : BOOLEAN, checkpoint : BOOLEAN, size : Sizes]
<1>1. CASE Agent!Plan
  BY <1>1, PlanKeeps
<1>2. CASE Agent!Finish
  BY <1>2 DEF Agent!Finish, Agent!AgentInv, Agent!TypeOK, Agent!CacheInv, Agent!ErrorsChecked, Agent!StepsLeft,
              Agent!PromptTellsAll
<1>3. ASSUME stop = "act", Agent!Continue, UNCHANGED <<mode, cache, planned>>,
             NEW turn, turn \in Turn, turn.ok \/ turn.checkpoint, transcript' = Append(transcript, turn)
      PROVE  Agent!AgentInv'
  <2> DEFINE turns == <<turn>>
  <2>1. turns \in Seq(Turn) /\ \A k \in DOMAIN turns : turns[k].ok \/ turns[k].checkpoint
    BY <1>3
  <2>2. transcript' = transcript \o turns
    BY <1>3 DEF Agent!AgentInv, Agent!TypeOK
  <2> HIDE DEF turns
  <2> QED
    BY <1>3, <2>1, <2>2, TurnsKeep
<1>4. CASE Agent!Nudge
  <2>1. PICK z \in Sizes : transcript' = Append(transcript, Agent!Observed(FALSE, TRUE, z))
    BY <1>4 DEF Agent!Nudge
  <2> QED
    BY <2>1, <1>3, <1>4, ObservedIs DEF Agent!Nudge
<1>5. \A turn \in Agent!Observations : turn \in Turn /\ (turn.ok \/ turn.checkpoint)
  <2> SUFFICES ASSUME NEW turn \in Agent!Observations
               PROVE  turn \in Turn /\ (turn.ok \/ turn.checkpoint)
    OBVIOUS
  <2>1. \E ok, worded \in BOOLEAN, z \in Sizes : turn = Agent!Observed(ok, worded, z)
    <3>1. PICK ok \in {Agent!Runs(s, c) /\ up : s \in Agent!Skills, c \in BOOLEAN, up \in BOOLEAN},
               worded \in BOOLEAN, z \in Sizes : turn = Agent!Observed(ok, worded, z)
      BY DEF Agent!Observations
    <3>2. ok \in BOOLEAN
      <4>1. PICK s \in Agent!Skills, c \in BOOLEAN, up \in BOOLEAN : ok = (Agent!Runs(s, c) /\ up)
        BY <3>1
      <4> QED
        BY <4>1
    <3> QED
      BY <3>1, <3>2
  <2> QED
    BY <2>1, ObservedIs
<1>6. CASE Agent!Call
  <2>1. PICK turn \in Agent!Observations : transcript' = Append(transcript, turn)
    BY <1>6 DEF Agent!Call
  <2> QED
    BY <2>1, <1>3, <1>5, <1>6 DEF Agent!Call
<1>7. CASE Agent!NativeCalls
  <2>1. PICK n \in 1..(MaxCalls - Len(transcript)) : \E turns \in [1..n -> Agent!Observations] :
           transcript' = transcript \o turns
    BY <1>7 DEF Agent!NativeCalls
  <2>2. PICK turns \in [1..n -> Agent!Observations] : transcript' = transcript \o turns
    BY <2>1
  <2>3. n \in Nat
    BY DEF Agent!AgentInv, Agent!TypeOK, Agent!WellFormed
  <2>4. turns \in Seq(Turn) /\ \A k \in DOMAIN turns : turns[k].ok \/ turns[k].checkpoint
    <3> HIDE DEF Turn
    <3> QED
      BY <2>3, <1>5
  <2> QED
    BY <2>2, <2>4, <1>7, TurnsKeep DEF Agent!NativeCalls
<1>8. CASE UNCHANGED Agent!vars
  BY <1>8 DEF Agent!vars, Agent!AgentInv, Agent!TypeOK, Agent!CacheInv, Agent!ErrorsChecked, Agent!StepsLeft,
              Agent!PromptTellsAll, Agent!Once, Agent!Told, Agent!ErrorsKept, Agent!Verbatim
<1> QED
  BY <1>1, <1>2, <1>4, <1>6, <1>7, <1>8 DEF Agent!Next

LEMMA AgentAlways == Agent!WellFormed /\ Agent!Spec => []Agent!AgentInv
<1> SUFFICES ASSUME Agent!WellFormed PROVE Agent!Spec => []Agent!AgentInv
  OBVIOUS
<1>1. ASSUME Agent!Init PROVE Agent!AgentInv
  <2>1. Agent!TypeOK
    BY <1>1 DEF Agent!Init, Agent!TypeOK, Agent!WellFormed
  <2>2. Agent!CacheInv
    BY <1>1 DEF Agent!Init, Agent!CacheInv, Agent!NoSummary, Agent!Summary
  <2>3. Agent!ErrorsChecked /\ Agent!StepsLeft /\ Agent!PromptTellsAll
    BY <1>1 DEF Agent!Init, Agent!ErrorsChecked, Agent!StepsLeft, Agent!PromptTellsAll, Agent!WellFormed
  <2> QED
    BY <2>1, <2>2, <2>3 DEF Agent!AgentInv
<1> QED
  BY <1>1, AgentStep, PTL DEF Agent!Spec

\* Every prompt of a run accounts for every turn of its transcript: the newest is shown as it was, none is there
\* twice or was told to the summary twice, no error is summed up, none is missing unless the prompt
\* says so, and it fits the budget unless the newest turn does not.
THEOREM PromptsTellAll == Agent!WellFormed /\ Agent!Spec => []Agent!PromptTellsAll
<1>1. Agent!AgentInv => Agent!PromptTellsAll
  BY DEF Agent!AgentInv
<1> QED
  BY <1>1, AgentAlways, PTL

\* A run keeps its types, and makes no more planning calls than its max_steps.
THEOREM AgentsKeepTypes == Agent!WellFormed /\ Agent!Spec => []Agent!TypeOK
<1>1. Agent!AgentInv => Agent!TypeOK
  BY DEF Agent!AgentInv
<1> QED
  BY <1>1, AgentAlways, PTL

-----------------------------------------------------------------------------
(***************************************************************************)
(* WorldGen                                                                *)
(***************************************************************************)

CONSTANTS Canons, Amounts, NamesOf, MaxOf, MaxRevised, Chances
VARIABLES plan, payload, draft, round

Growth == INSTANCE WorldGen WITH Counts <- Amounts, Rounds <- Chances

LEMMA GrowthCounts == \A S : Growth!Cardinality(S) = Cardinality(S)
BY DEF Cardinality, Growth!Cardinality, IsFiniteSet, Growth!IsFiniteSet

LEMMA ListRange ==
    ASSUME NEW x, NEW S, x \in Seq(S)
    PROVE  IsFiniteSet(Growth!Range(x)) /\ Growth!Range(x) \subseteq S /\ x \in Seq(Growth!Range(x))
<1> DEFINE R == Growth!Range(x)
           g == [k \in 1..Len(x) |-> x[k]]
<1>1. Len(x) \in Nat /\ DOMAIN x = 1..Len(x) /\ \A k \in 1..Len(x) : x[k] \in S
  BY LenProperties, ElementOfSeq
<1>2. g \in Surjection(1..Len(x), R)
  BY <1>1 DEF Surjection, Growth!Range
<1>3. R \subseteq S
  BY <1>1 DEF Growth!Range
<1>4. \A k \in 1..Len(x) : x[k] \in R
  BY <1>1 DEF Growth!Range
<1>5. x \in Seq(R)
  <2> HIDE DEF R
  <2> QED
    BY <1>1, <1>4, IsASeq, LenProperties, SeqDef
<1>6. IsFiniteSet(1..Len(x))
  BY <1>1, FS_Interval
<1> HIDE DEF g, R
<1>7. IsFiniteSet(R)
  BY <1>2, <1>6, FS_Surjection
<1> QED
  BY <1>3, <1>5, <1>7 DEF R

LEMMA RangeAppended ==
    ASSUME NEW x, x \in Seq(Growth!Range(x)), NEW e
    PROVE  /\ Len(x) \in Nat /\ DOMAIN x = 1..Len(x)
           /\ Append(x, e) \in Seq(Growth!Range(Append(x, e)))
           /\ Len(Append(x, e)) = Len(x) + 1
           /\ Growth!Range(Append(x, e)) = Growth!Range(x) \cup {e}
           /\ Append(x, e)[Len(x) + 1] = e
           /\ \A k \in 1..Len(x) : Append(x, e)[k] = x[k]
<1> DEFINE S == Growth!Range(x) \cup {e}
           y == Append(x, e)
<1>1. Len(x) \in Nat /\ DOMAIN x = 1..Len(x) /\ \A k \in 1..Len(x) : x[k] \in S
  BY LenProperties DEF Growth!Range
<1>2. x \in Seq(S)
  BY <1>1, LenProperties, SeqDef
<1> HIDE DEF S
<1>3. e \in S
  BY DEF S
<1>4. /\ y \in Seq(S) /\ Len(y) = Len(x) + 1 /\ y[Len(x) + 1] = e /\ \A k \in 1..Len(x) : y[k] = x[k]
  BY <1>2, <1>3, AppendProperties
<1>5. DOMAIN y = 1..(Len(x) + 1)
  BY <1>4, LenProperties
<1> HIDE DEF y
<1>6. Growth!Range(y) = Growth!Range(x) \cup {e}
  BY <1>1, <1>4, <1>5 DEF Growth!Range
<1>7. y \in Seq(Growth!Range(y))
  BY <1>4, ListRange
<1> QED
  BY <1>1, <1>4, <1>6, <1>7 DEF y

\* Among finitely many ids some number from n on is free, and a least one is.
LEMMA FreeNumber ==
    ASSUME NEW used, IsFiniteSet(used), NEW s, NEW text, NEW n \in Nat
    PROVE  /\ Cardinality(used) \in Nat
           /\ \E m \in n..(n + Cardinality(used)) :
                 /\ Growth!Id(s, text, m) \notin used
                 /\ \A k \in n..(m - 1) : Growth!Id(s, text, k) \in used
<1> DEFINE c == Cardinality(used)
           N == n..(n + c)
           f == [m \in N |-> Growth!Id(s, text, m)]
           free == {m \in N : Growth!Id(s, text, m) \notin used}
<1>1. c \in Nat
  BY FS_CardinalityType
<1>2. free # {}
  <2> SUFFICES ASSUME free = {} PROVE FALSE
    OBVIOUS
  <2>1. f \in [N -> used]
    OBVIOUS
  <2>2. IsFiniteSet(N) /\ Cardinality(N) = c + 1
    BY <1>1, FS_Interval
  <2>3. \A x, y \in N : f[x] = f[y] => x = y
    BY DEF Growth!Id
  <2> HIDE DEF f, N
  <2>4. Cardinality(used) < Cardinality(N)
    BY <1>1, <2>2
  <2> QED
    BY <2>1, <2>2, <2>3, <2>4, FS_PigeonHole
<1>3. free \in SUBSET Nat
  BY <1>1
<1> HIDE DEF free
<1>4. PICK m \in free : \A k \in free : m <= k
  BY <1>2, <1>3, OldestIs
<1>5. m \in N /\ Growth!Id(s, text, m) \notin used
  BY DEF free
<1>6. \A k \in n..(m - 1) : k \in N /\ k \notin free
  BY <1>1, <1>4, <1>5
<1>7. \A k \in n..(m - 1) : Growth!Id(s, text, k) \in used
  BY <1>6 DEF free
<1> QED
  BY <1>1, <1>5, <1>7

\* unique_id: an id of its section that neither the world nor the bundle has; one that is free stays.
LEMMA UniqueIdIs ==
    ASSUME NEW ids, NEW s, NEW id, Growth!IsId(id, s),
           IsFiniteSet(Growth!Range(plan.canon[s])), IsFiniteSet(Growth!Range(ids[s]))
    PROVE  LET used == Growth!Range(plan.canon[s]) \cup Growth!Range(ids[s])
           IN  /\ Growth!IsId(Growth!UniqueId(id, ids), s) /\ Growth!UniqueId(id, ids)[1] = s
               /\ Growth!UniqueId(id, ids) \notin used
               /\ id \notin used => Growth!UniqueId(id, ids) = id
<1> DEFINE used == Growth!Range(plan.canon[s]) \cup Growth!Range(ids[s])
           text == id[2]
           first == id[3]
           Is(m) == /\ Growth!Id(s, text, m) \notin used
                    /\ \A k \in first..(m - 1) : Growth!Id(s, text, k) \in used
           n == CHOOSE m \in first..(first + Growth!Cardinality(used)) : Is(m)
<1>1. id = <<s, text, first>> /\ first \in Nat /\ id[1] = s
  BY DEF Growth!IsId, Growth!Id
<1>2. IsFiniteSet(used)
  BY FS_Union
<1>3. Growth!Cardinality(used) = Cardinality(used)
  BY GrowthCounts
<1>4. Growth!UniqueId(id, ids) = Growth!Id(s, text, n)
  BY <1>1 DEF Growth!UniqueId
<1> HIDE DEF used
<1>5. Cardinality(used) \in Nat /\ \E m \in first..(first + Growth!Cardinality(used)) : Is(m)
  BY <1>1, <1>2, <1>3, FreeNumber
<1> HIDE DEF Is
<1>6. n \in first..(first + Growth!Cardinality(used)) /\ Is(n)
  BY <1>5
<1>7. n \in Nat /\ first <= n
  BY <1>1, <1>3, <1>5, <1>6
<1> HIDE DEF n
<1>8. Growth!Id(s, text, n) \notin used
  BY <1>6 DEF Is
<1>9. Growth!IsId(Growth!Id(s, text, n), s) /\ Growth!Id(s, text, n)[1] = s
  BY <1>7 DEF Growth!IsId, Growth!Id
<1>10. ASSUME id \notin used PROVE Growth!Id(s, text, n) = id
  <2>1. Growth!Id(s, text, first) = id
    BY <1>1 DEF Growth!Id
  <2>2. first \in first..(n - 1) => Growth!Id(s, text, first) \in used
    BY <1>6 DEF Is
  <2>3. ~(first <= n - 1)
    BY <2>1, <2>2, <1>10, <1>1, <1>7
  <2>4. n = first
    BY <2>3, <1>1, <1>7
  <2> QED
    BY <2>1, <2>4
<1> QED
  BY <1>4, <1>8, <1>9, <1>10 DEF used

-----------------------------------------------------------------------------
\* The plan is one of those that Init allows.
Planned ==
    /\ plan.mode \in {"seed", "expand"}
    /\ \A s \in Growth!Sections :
          /\ plan.canon[s] \in Seq(Growth!Range(plan.canon[s]))
          /\ \A id \in Growth!Range(plan.canon[s]) : Growth!IsId(id, s)
          /\ plan.count[s] \in Nat

IsItem(item, s) ==
    /\ Growth!IsId(item.id, s) /\ item.name = Growth!Name(item.name[2])
    /\ DOMAIN item.ref = Growth!Fields(s)

\* What a bundle says of itself, from its first item on: its ids are its own, what its names stand
\* for is in it, its ties land, and a field is open only if there is nothing to refer to.
Numbered(ids) ==
    /\ DOMAIN ids = Growth!Sections
    /\ \A s \in Growth!Sections :
          /\ ids[s] \in Seq(Growth!Range(ids[s]))
          /\ \A id \in Growth!Range(ids[s]) : Growth!IsId(id, s) /\ id \notin Growth!Range(plan.canon[s])
          /\ \A j, k \in DOMAIN ids[s] : ids[s][j] = ids[s][k] => j = k
Meant(ids, idMap) ==
    /\ Growth!None \in DOMAIN idMap /\ idMap[Growth!None] = Growth!None
    /\ \A x \in DOMAIN idMap \ {Growth!None} : \E u \in Growth!Sections :
          idMap[x] \in Growth!Range(ids[u]) /\ (x[1] \in Growth!Sections => u = x[1])
Lands(ids, t, to) ==
    \/ to \in Growth!Range(ids[t]) \cup Growth!Range(plan.canon[t])
    \/ plan.mode = "expand" /\ to \in Growth!LeftOut(t, ids[t])
Tied(ids, ties) ==
    \A tie \in ties :
        /\ tie = <<tie[1], tie[2], tie[3]>> /\ tie[1][1] \in Growth!Sections
        /\ tie[1] \in Growth!Range(ids[tie[1][1]]) /\ tie[2] \in Growth!Fields(tie[1][1])
        /\ Lands(ids, tie[2], tie[3])
Single(ties) == \A a, b \in ties : a[1] = b[1] /\ a[2] = b[2] => a = b
Bare(ids, t) == ids[t] = <<>> /\ plan.canon[t] = <<>>
Closed(ids, ties) ==
    \A s \in Growth!Sections : \A id \in Growth!Range(ids[s]), t \in Growth!Fields(s) :
        (\E tie \in ties : tie[1] = id /\ tie[2] = t) \/ Bare(ids, t)

Sane(acc) ==
    /\ Numbered(acc.ids) /\ Meant(acc.ids, acc.idMap)
    /\ Tied(acc.ids, acc.ties) /\ Single(acc.ties) /\ Closed(acc.ids, acc.ties)

\* Where the fields of an item may land, on what is there.
Landing(acc, s, to) ==
    /\ DOMAIN to = Growth!Fields(s)
    /\ \A t \in Growth!Fields(s) : IF to[t] = Growth!None THEN Bare(acc.ids, t) ELSE Lands(acc.ids, t, to[t])

\* Nothing that refers to section s has been placed.
Before(acc, s) == \A u \in Growth!Sections : s \in Growth!Fields(u) => acc.ids[u] = <<>>

NewTies(id, to) == {<<id, t, to[t]>> : t \in {t \in DOMAIN to : to[t] # Growth!None}}

\* A step of either kind of assembly, up to its ledger.
PlacedAs(acc, item, s, to, b) ==
    LET id == Growth!UniqueId(item.id, acc.ids)
    IN  /\ b.ids = [acc.ids EXCEPT ![s] = Append(acc.ids[s], id)]
        /\ b.idMap = Growth!Remember(acc.idMap, item, id)
        /\ b.ties = acc.ties \cup NewTies(id, to)

LEMMA FieldsAre ==
    ASSUME NEW s \in Growth!Sections
    PROVE  Growth!Fields(s) \subseteq Growth!Sections \ {s}
BY DEF Growth!Fields, Growth!Sections

LEMMA ItemsAreNamed ==
    ASSUME NEW s \in Growth!Sections, NEW id, Growth!IsId(id, s)
    PROVE  id[1] = s /\ id # Growth!None
BY DEF Growth!IsId, Growth!Id, Growth!None, Growth!Sections

LEMMA PlacedKeeps ==
    ASSUME Planned, NEW acc, Sane(acc), NEW s \in Growth!Sections, NEW item, IsItem(item, s), Before(acc, s),
           NEW to, Landing(acc, s, to), NEW b, PlacedAs(acc, item, s, to, b)
    PROVE  /\ Sane(b)
           /\ Len(b.ids[s]) = Len(acc.ids[s]) + 1 /\ Len(acc.ids[s]) \in Nat
           /\ \A u \in Growth!Sections \ {s} : b.ids[u] = acc.ids[u]
           /\ \A k \in 1..Len(acc.ids[s]) : b.ids[s][k] = acc.ids[s][k]
           /\ b.ids[s][Len(acc.ids[s]) + 1] = Growth!UniqueId(item.id, acc.ids)
<1> DEFINE id == Growth!UniqueId(item.id, acc.ids)
           R(u) == Growth!Range(acc.ids[u])
           Q(u) == Growth!Range(b.ids[u])
           C(u) == Growth!Range(plan.canon[u])
           said == {item.id, item.name, id}
           new == NewTies(id, to)
<1>0. /\ Numbered(acc.ids) /\ Meant(acc.ids, acc.idMap) /\ Tied(acc.ids, acc.ties) /\ Single(acc.ties)
      /\ Closed(acc.ids, acc.ties)
  BY DEF Sane
<1>1. /\ b.ids = [acc.ids EXCEPT ![s] = Append(acc.ids[s], id)]
      /\ b.idMap = Growth!Remember(acc.idMap, item, id) /\ b.ties = acc.ties \cup new
  BY DEF PlacedAs
<1>2. /\ Growth!IsId(id, s) /\ id[1] = s /\ id \notin C(s) /\ id \notin R(s)
  <2>1. IsFiniteSet(C(s)) /\ IsFiniteSet(R(s))
    BY <1>0, ListRange DEF Planned, Numbered
  <2> QED
    BY <2>1, UniqueIdIs DEF IsItem
<1> HIDE DEF id
<1>3. /\ DOMAIN b.ids = Growth!Sections
      /\ \A u \in Growth!Sections \ {s} : b.ids[u] = acc.ids[u]
      /\ b.ids[s] = Append(acc.ids[s], id)
  BY <1>0, <1>1 DEF Numbered
<1>4. /\ Len(acc.ids[s]) \in Nat /\ DOMAIN acc.ids[s] = 1..Len(acc.ids[s])
      /\ b.ids[s] \in Seq(Q(s)) /\ Len(b.ids[s]) = Len(acc.ids[s]) + 1 /\ Q(s) = R(s) \cup {id}
      /\ b.ids[s][Len(acc.ids[s]) + 1] = id
      /\ \A k \in 1..Len(acc.ids[s]) : b.ids[s][k] = acc.ids[s][k]
  BY <1>0, <1>3, RangeAppended DEF Numbered
<1>5. /\ \A u \in Growth!Sections : R(u) \subseteq Q(u)
      /\ \A u \in Growth!Sections \ {s} : R(u) = Q(u)
  BY <1>3, <1>4
<1>6. Growth!Fields(s) \subseteq Growth!Sections \ {s}
  BY FieldsAre
<1>7. \A u \in Growth!Sections : s \in Growth!Fields(u) => R(u) = {} /\ u # s
  BY FieldsAre, LenProperties DEF Before, Growth!Range
<1>8. Numbered(b.ids)
  <2>1. \A u \in Growth!Sections : b.ids[u] \in Seq(Q(u))
    BY <1>0, <1>3, <1>4 DEF Numbered
  <2>2. ASSUME NEW u \in Growth!Sections, NEW x \in Q(u) PROVE Growth!IsId(x, u) /\ x \notin C(u)
    <3>1. CASE x \in R(u)
      BY <3>1, <1>0 DEF Numbered
    <3>2. CASE x \notin R(u)
      BY <3>2, <1>2, <1>4, <1>5
    <3> QED
      BY <3>1, <3>2
  <2>3. ASSUME NEW u \in Growth!Sections, NEW j \in DOMAIN b.ids[u], NEW k \in DOMAIN b.ids[u], b.ids[u][j] = b.ids[u][k]
        PROVE  j = k
    <3>1. CASE u # s
      BY <3>1, <2>3, <1>0, <1>3 DEF Numbered
    <3>2. CASE u = s
      <4> DEFINE n == Len(acc.ids[s])
      <4>1. DOMAIN b.ids[s] = 1..(n + 1)
        BY <1>4, <2>1, LenProperties
      <4>2. \A i \in 1..n : b.ids[s][i] = acc.ids[s][i] /\ acc.ids[s][i] \in R(s)
        BY <1>4 DEF Growth!Range
      <4>3. CASE j \in 1..n /\ k \in 1..n
        BY <4>2, <4>3, <3>2, <2>3, <1>0, <1>4 DEF Numbered
      <4>4. CASE j = n + 1 /\ k = n + 1
        BY <4>4
      <4>5. CASE j = n + 1 /\ k \in 1..n
        BY <4>2, <4>5, <3>2, <2>3, <1>2, <1>4
      <4>6. CASE k = n + 1 /\ j \in 1..n
        BY <4>2, <4>6, <3>2, <2>3, <1>2, <1>4
      <4>7. j \in 1..(n + 1) /\ k \in 1..(n + 1) /\ n \in Nat
        BY <4>1, <3>2, <1>4
      <4> HIDE DEF n
      <4> QED
        BY <4>3, <4>4, <4>5, <4>6, <4>7
    <3> QED
      BY <3>1, <3>2
  <2> QED
    BY <1>3, <2>1, <2>2, <2>3 DEF Numbered
<1>9. Meant(b.ids, b.idMap)
  <2>1. /\ DOMAIN b.idMap = DOMAIN acc.idMap \cup said
        /\ \A x \in DOMAIN b.idMap : b.idMap[x] = IF x \in said THEN id ELSE acc.idMap[x]
    BY <1>1 DEF Growth!Remember
  <2>2. Growth!None \notin said /\ \A x \in said : x[1] \in Growth!Sections => s = x[1]
    <3>1. item.id[1] = s /\ item.id # Growth!None /\ id # Growth!None
      BY <1>2, ItemsAreNamed DEF IsItem
    <3>2. item.name = <<"name", item.name[2], 0>>
      BY DEF IsItem, Growth!Name
    <3>3. item.name # Growth!None /\ item.name[1] \notin Growth!Sections
      BY <3>2 DEF Growth!None, Growth!Sections
    <3> QED
      BY <3>1, <3>3, <1>2
  <2> HIDE DEF said
  <2>3. \A x \in said : b.idMap[x] \in Q(s)
    BY <2>1, <1>4
  <2>4. ASSUME NEW x \in DOMAIN b.idMap \ {Growth!None}
        PROVE  \E u \in Growth!Sections : b.idMap[x] \in Q(u) /\ (x[1] \in Growth!Sections => u = x[1])
    <3>1. CASE x \in said
      BY <3>1, <2>2, <2>3
    <3>2. CASE x \notin said
      <4>1. x \in DOMAIN acc.idMap \ {Growth!None} /\ b.idMap[x] = acc.idMap[x]
        BY <3>2, <2>1
      <4>2. PICK u \in Growth!Sections : acc.idMap[x] \in R(u) /\ (x[1] \in Growth!Sections => u = x[1])
        BY <4>1, <1>0 DEF Meant
      <4> QED
        BY <4>1, <4>2, <1>5
    <3> QED
      BY <3>1, <3>2
  <2>5. Growth!None \in DOMAIN b.idMap /\ b.idMap[Growth!None] = Growth!None
    BY <2>1, <2>2, <1>0 DEF Meant
  <2> QED
    BY <2>4, <2>5 DEF Meant
<1>10. \A tie \in acc.ties : tie[1] # id /\ tie[2] # s
  <2> SUFFICES ASSUME NEW tie \in acc.ties PROVE tie[1] # id /\ tie[2] # s
    OBVIOUS
  <2>1. tie[1][1] \in Growth!Sections /\ tie[1] \in R(tie[1][1]) /\ tie[2] \in Growth!Fields(tie[1][1])
    BY <1>0 DEF Tied
  <2> QED
    BY <2>1, <1>2, <1>7
<1>11. \A x \in new : \E t \in Growth!Fields(s) : x = <<id, t, to[t]>> /\ to[t] # Growth!None /\ Lands(b.ids, t, to[t])
  <2>1. \A t \in Growth!Fields(s) : to[t] # Growth!None => Lands(acc.ids, t, to[t])
    BY DEF Landing
  <2>2. \A t \in Growth!Fields(s) : b.ids[t] = acc.ids[t]
    BY <1>3, <1>6
  <2> QED
    BY <2>1, <2>2 DEF Landing, Lands, NewTies
<1>12. \A t \in Growth!Fields(s) : to[t] # Growth!None => <<id, t, to[t]>> \in new
  BY DEF Landing, NewTies
<1> HIDE DEF new
<1>13. Tied(b.ids, b.ties)
  <2> SUFFICES ASSUME NEW tie \in acc.ties \cup new
               PROVE  /\ tie = <<tie[1], tie[2], tie[3]>> /\ tie[1][1] \in Growth!Sections
                      /\ tie[1] \in Q(tie[1][1]) /\ tie[2] \in Growth!Fields(tie[1][1])
                      /\ Lands(b.ids, tie[2], tie[3])
    BY <1>1 DEF Tied
  <2>1. CASE tie \in new
    <3>1. PICK t \in Growth!Fields(s) : tie = <<id, t, to[t]>> /\ Lands(b.ids, t, to[t])
      BY <2>1, <1>11
    <3>2. tie[1] = id /\ tie[2] = t /\ tie[3] = to[t]
      BY <3>1
    <3> QED
      BY <3>1, <3>2, <1>2, <1>4
  <2>2. CASE tie \in acc.ties
    <3>1. /\ tie = <<tie[1], tie[2], tie[3]>> /\ tie[1][1] \in Growth!Sections
          /\ tie[1] \in R(tie[1][1]) /\ tie[2] \in Growth!Fields(tie[1][1])
          /\ Lands(acc.ids, tie[2], tie[3])
      BY <2>2, <1>0 DEF Tied
    <3>2. tie[2] \in Growth!Sections \ {s}
      BY <3>1, <2>2, <1>10, FieldsAre
    <3>3. Lands(b.ids, tie[2], tie[3])
      BY <3>1, <3>2, <1>3 DEF Lands
    <3> QED
      BY <3>1, <3>3, <1>5
  <2> QED
    BY <2>1, <2>2
<1>14. Single(b.ties)
  <2> SUFFICES ASSUME NEW x \in acc.ties \cup new, NEW y \in acc.ties \cup new, x[1] = y[1], x[2] = y[2]
               PROVE  x = y
    BY <1>1 DEF Single
  <2>1. CASE x \in new /\ y \in new
    <3>1. PICK t \in Growth!Fields(s) : x = <<id, t, to[t]>>
      BY <2>1, <1>11
    <3>2. PICK v \in Growth!Fields(s) : y = <<id, v, to[v]>>
      BY <2>1, <1>11
    <3>3. t = v
      BY <3>1, <3>2
    <3> QED
      BY <3>1, <3>2, <3>3
  <2>2. CASE x \in acc.ties /\ y \in acc.ties
    BY <2>2, <1>0 DEF Single
  <2>3. \A z \in new : z[1] = id
    BY <1>11
  <2> QED
    BY <2>1, <2>2, <2>3, <1>10
<1>15. Closed(b.ids, b.ties)
  <2> SUFFICES ASSUME NEW u \in Growth!Sections, NEW x \in Q(u), NEW t \in Growth!Fields(u)
               PROVE  (\E tie \in b.ties : tie[1] = x /\ tie[2] = t) \/ Bare(b.ids, t)
    BY DEF Closed
  <2>1. CASE x \in R(u)
    <3>1. t # s /\ t \in Growth!Sections
      BY <2>1, <1>7, FieldsAre
    <3>2. (\E tie \in acc.ties : tie[1] = x /\ tie[2] = t) \/ Bare(acc.ids, t)
      BY <2>1, <1>0 DEF Closed
    <3>3. Bare(acc.ids, t) => Bare(b.ids, t)
      BY <3>1, <1>3 DEF Bare
    <3> QED
      BY <3>2, <3>3, <1>1
  <2>2. CASE x \notin R(u)
    <3>1. u = s /\ x = id
      BY <2>2, <1>4, <1>5
    <3>2. CASE to[t] # Growth!None
      <4>1. <<id, t, to[t]>> \in b.ties
        BY <3>1, <3>2, <1>1, <1>12
      <4> QED
        BY <4>1, <3>1
    <3>3. CASE to[t] = Growth!None
      <4>1. Bare(acc.ids, t)
        BY <3>1, <3>3 DEF Landing
      <4>2. b.ids[t] = acc.ids[t]
        BY <3>1, <1>3, <1>6
      <4> QED
        BY <4>1, <4>2 DEF Bare
    <3> QED
      BY <3>2, <3>3
  <2> QED
    BY <2>1, <2>2
<1> QED
  BY <1>3, <1>4, <1>8, <1>9, <1>13, <1>14, <1>15 DEF Sane, id

-----------------------------------------------------------------------------
\* Induction over the naturals, for a set, and the same below a bound.
LEMMA CountingUp ==
    ASSUME NEW S, 0 \in S, \A n \in Nat : n \in S => n + 1 \in S
    PROVE  Nat \subseteq S
<1> SUFFICES ASSUME Nat \ S # {} PROVE FALSE
  OBVIOUS
<1>1. PICK m \in Nat \ S : \A k \in Nat \ S : m <= k
  BY OldestIs
<1>2. m # 0 /\ m - 1 \in Nat /\ m - 1 < m /\ m - 1 + 1 = m
  OBVIOUS
<1> QED
  BY <1>1, <1>2

LEMMA CountingUpTo ==
    ASSUME NEW m \in Nat, NEW S, 0 \in S, \A n \in 0..(m - 1) : n \in S => n + 1 \in S
    PROVE  0..m \subseteq S
<1> DEFINE T == {n \in Nat : n \in 0..m => n \in S}
<1>1. 0 \in T
  OBVIOUS
<1>2. ASSUME NEW n \in Nat, n \in T PROVE n + 1 \in T
  <2>1. CASE n + 1 \in 0..m
    <3>1. n \in 0..m /\ n \in 0..(m - 1)
      BY <2>1
    <3> QED
      BY <1>2, <3>1
  <2> QED
    BY <2>1
<1>3. Nat \subseteq T
  <2> HIDE DEF T
  <2> QED
    BY <1>1, <1>2, CountingUp
<1> QED
  BY <1>3

ItemsOf(list, s) ==
    list \in Seq(Growth!Range(list)) /\ \A k \in DOMAIN list : IsItem(list[k], s)

\* _ensure_count.
LEMMA KeptIs ==
    ASSUME Planned, NEW s \in Growth!Sections, NEW list, ItemsOf(list, s)
    PROVE  LET kept == Growth!EnsureCount(list, s)
           IN  /\ Len(kept) \in Nat /\ DOMAIN kept = 1..Len(kept)
               /\ \A k \in 1..Len(kept) : IsItem(kept[k], s) /\ (k \in DOMAIN list => kept[k] = list[k])
               /\ plan.mode = "seed" => Len(kept) = plan.count[s]
               /\ plan.mode = "expand" => 1..Len(kept) \subseteq DOMAIN list
<1> DEFINE n == plan.count[s]
           m == IF plan.mode = "seed" THEN n ELSE Growth!Least(n, Len(list))
           kept == Growth!EnsureCount(list, s)
<1>1. Len(list) \in Nat /\ DOMAIN list = 1..Len(list) /\ \A k \in 1..Len(list) : IsItem(list[k], s)
  BY LenProperties DEF ItemsOf
<1>2. n \in Nat /\ plan.mode \in {"seed", "expand"}
  BY DEF Planned
<1>3. m \in Nat /\ (plan.mode = "seed" => m = n) /\ (plan.mode = "expand" => m <= Len(list))
  BY <1>1, <1>2 DEF Growth!Least
<1>4. kept = [k \in 1..m |-> IF k <= Len(list) THEN list[k] ELSE Growth!Placeholder(s)]
  BY DEF Growth!EnsureCount
<1>5. IsItem(Growth!Placeholder(s), s)
  BY DEF IsItem, Growth!Placeholder, Growth!IsId, Growth!Id, Growth!Name
<1> HIDE DEF m
<1>6. DOMAIN kept = 1..m
  BY <1>4
<1>7. \A k \in 1..m : IsItem(kept[k], s) /\ (k \in DOMAIN list => kept[k] = list[k])
  BY <1>1, <1>3, <1>4, <1>5
<1>8. kept \in Seq(Growth!Range(kept)) /\ Len(kept) = m
  <2>1. \A k \in 1..m : kept[k] \in Growth!Range(kept)
    BY <1>6 DEF Growth!Range
  <2>2. kept = [k \in 1..m |-> kept[k]]
    BY <1>4, <1>6
  <2> HIDE DEF kept
  <2>3. kept \in [1..m -> Growth!Range(kept)]
    BY <2>1, <2>2
  <2>4. kept \in Seq(Growth!Range(kept))
    BY <2>3, <1>3, SeqDef
  <2> QED
    BY <2>3, <2>4, <1>3, LenProperties
<1> HIDE DEF kept
<1>9. plan.mode = "expand" => 1..m \subseteq DOMAIN list
  BY <1>1, <1>3
<1> QED
  BY <1>3, <1>6, <1>7, <1>8, <1>9 DEF kept

\* The loop over a section is a function that steps from item to item.
LEMMA SeedLoop ==
    ASSUME NEW acc, NEW items, NEW s, Len(Growth!EnsureCount(items[s], s)) \in Nat
    PROVE  LET kept == Growth!EnsureCount(items[s], s)
           IN  \E done : /\ DOMAIN done = 0..Len(kept) /\ done[0] = acc
                         /\ \A k \in 1..Len(kept) : done[k] = Growth!Place(done[k - 1], kept[k], k - 1)
                         /\ Growth!PlaceSection(acc, items, s) = done[Len(kept)]
<1> DEFINE kept == Growth!EnsureCount(items[s], s)
           Is(f, n) == f = [k \in 0..n |-> IF k = 0 THEN acc ELSE Growth!Place(f[k - 1], kept[k], k - 1)]
           N == {n \in Nat : \E f : Is(f, n)}
           done == CHOOSE f : Is(f, Len(kept))
<1>1. 0 \in N
  <2> DEFINE f == [k \in 0..0 |-> acc]
  <2>1. f = [k \in 0..0 |-> IF k = 0 THEN acc ELSE Growth!Place(f[k - 1], kept[k], k - 1)]
    OBVIOUS
  <2> QED
    BY <2>1
<1>2. ASSUME NEW n \in Nat, n \in N PROVE n + 1 \in N
  <2>1. PICK f : Is(f, n)
    BY <1>2
  <2> DEFINE g == [k \in 0..(n + 1) |-> IF k = n + 1 THEN Growth!Place(f[n], kept[n + 1], n) ELSE f[k]]
  <2>2. ASSUME NEW k \in 0..(n + 1)
        PROVE  g[k] = IF k = 0 THEN acc ELSE Growth!Place(g[k - 1], kept[k], k - 1)
    <3>1. CASE k = n + 1
      <4>1. g[n + 1] = Growth!Place(f[n], kept[n + 1], n) /\ g[n] = f[n] /\ n + 1 # 0 /\ n + 1 - 1 = n
        OBVIOUS
      <4> HIDE DEF g, kept
      <4> QED
        BY <3>1, <4>1
    <3>2. CASE k \in 0..n
      <4>1. f[k] = IF k = 0 THEN acc ELSE Growth!Place(f[k - 1], kept[k], k - 1)
        BY <2>1, <3>2
      <4>2. k # 0 => g[k - 1] = f[k - 1]
        BY <3>2
      <4>3. g[k] = f[k]
        BY <3>2
      <4> QED
        BY <4>1, <4>2, <4>3
    <3> QED
      BY <3>1, <3>2
  <2>3. Is(g, n + 1)
    <3>1. g = [k \in 0..(n + 1) |-> g[k]]
      OBVIOUS
    <3> HIDE DEF g
    <3> QED
      BY ONLY <2>2, <3>1
  <2>4. \E h : Is(h, n + 1)
    <3> HIDE DEF g
    <3> WITNESS g
    <3> QED
      BY <2>3
  <2> HIDE DEF Is
  <2>5. n + 1 \in Nat
    OBVIOUS
  <2> QED
    BY ONLY <2>4, <2>5
<1>3. Nat \subseteq N
  <2> HIDE DEF N
  <2> QED
    BY <1>1, <1>2, CountingUp
<1>4. Is(done, Len(kept))
  <2>1. \E f : Is(f, Len(kept))
    BY <1>3
  <2> HIDE DEF Is
  <2> QED
    BY <2>1
<1>5. Growth!PlaceSection(acc, items, s) = done[Len(kept)]
  BY DEF Growth!PlaceSection
<1> HIDE DEF done, kept
<1>6. /\ DOMAIN done = 0..Len(kept) /\ done[0] = acc
      /\ \A k \in 1..Len(kept) : done[k] = Growth!Place(done[k - 1], kept[k], k - 1)
  <2>1. Len(kept) \in Nat
    BY DEF kept
  <2> QED
    BY <1>4, <2>1
<1> QED
  BY <1>5, <1>6 DEF kept

Shaped(acc) == DOMAIN acc = {"ids", "idMap", "ties", "grounded", "dangling", "unspecified"}

LEMMA RoundRobinIs ==
    ASSUME NEW values, values \in Seq(Growth!Range(values)), NEW index \in Nat
    PROVE  IF values = <<>> THEN Growth!RoundRobin(values, index) = Growth!None
           ELSE Growth!RoundRobin(values, index) \in Growth!Range(values)
<1>1. Len(values) \in Nat /\ DOMAIN values = 1..Len(values)
  BY LenProperties
<1>2. ASSUME values # <<>> PROVE Growth!RoundRobin(values, index) \in Growth!Range(values)
  <2>1. Len(values) # 0
    BY <1>2, <1>1, EmptySeq
  <2>2. (index % Len(values)) + 1 \in 1..Len(values)
    BY <1>1, <2>1
  <2> QED
    BY <1>1, <1>2, <2>2 DEF Growth!RoundRobin, Growth!Range
<1> QED
  BY <1>2 DEF Growth!RoundRobin

\* What stays of an accumulator's record.
WithId(ids, id) == [ids EXCEPT ![id[1]] = Append(ids[id[1]], id)]

LEMMA PlacedShape ==
    ASSUME NEW acc, Shaped(acc), NEW item, NEW id, NEW to
    PROVE  LET b == Growth!Placed(acc, item, id, to)
           IN  /\ Shaped(b)
               /\ b.ids = WithId(acc.ids, id)
               /\ b.idMap = Growth!Remember(acc.idMap, item, id)
               /\ b.ties = acc.ties \cup NewTies(id, to)
               /\ b.grounded = acc.grounded /\ b.dangling = acc.dangling /\ b.unspecified = acc.unspecified
<1> DEFINE ids == WithId(acc.ids, id)
           idMap == Growth!Remember(acc.idMap, item, id)
           more == NewTies(id, to)
<1>1. Growth!Placed(acc, item, id, to) = [acc EXCEPT !.ids = ids, !.idMap = idMap, !.ties = acc.ties \cup more]
  BY DEF Growth!Placed, NewTies, WithId
<1> HIDE DEF ids, idMap, more
<1>2. Shaped(acc)
  OBVIOUS
<1> QED
  BY <1>1, <1>2 DEF Shaped, ids, idMap, more

LEMMA PlaceIs ==
    ASSUME Planned, NEW acc, Shaped(acc), Sane(acc), NEW s \in Growth!Sections, NEW item, IsItem(item, s),
           NEW index \in Nat
    PROVE  LET b  == Growth!Place(acc, item, index)
               to == [t \in Growth!Fields(s) |-> Growth!KnownOr(acc, t, Growth!Resolve(item.ref[t], b.idMap), index)]
           IN  Shaped(b) /\ PlacedAs(acc, item, s, to, b) /\ Landing(acc, s, to)
<1> DEFINE id == Growth!UniqueId(item.id, acc.ids)
           idMap == Growth!Remember(acc.idMap, item, id)
           to == [t \in Growth!Fields(s) |-> Growth!KnownOr(acc, t, Growth!Resolve(item.ref[t], idMap), index)]
           b == Growth!Place(acc, item, index)
<1>1. Numbered(acc.ids)
  BY DEF Sane
<1>2. id[1] = s
  <2>1. IsFiniteSet(Growth!Range(plan.canon[s])) /\ IsFiniteSet(Growth!Range(acc.ids[s]))
    BY <1>1, ListRange DEF Planned, Numbered
  <2> QED
    BY <2>1, UniqueIdIs DEF IsItem
<1>3. b = Growth!Placed(acc, item, id, to)
  BY <1>2 DEF Growth!Place
<1> HIDE DEF b
<1>4. Shaped(b) /\ b.idMap = idMap /\ PlacedAs(acc, item, s, to, b)
  <2> HIDE DEF id, idMap, to
  <2>1. /\ Shaped(b)
        /\ b.ids = WithId(acc.ids, id)
        /\ b.idMap = Growth!Remember(acc.idMap, item, id)
        /\ b.ties = acc.ties \cup NewTies(id, to)
    BY <1>3, PlacedShape
  <2> QED
    BY <2>1, <1>2 DEF PlacedAs, id, idMap, WithId
<1>5. ASSUME NEW t \in Growth!Fields(s), NEW resolved
      PROVE  LET v == Growth!KnownOr(acc, t, resolved, index)
             IN  IF v = Growth!None THEN Bare(acc.ids, t) ELSE Lands(acc.ids, t, v)
  <2> DEFINE known == IF acc.ids[t] # <<>> THEN acc.ids[t] ELSE plan.canon[t]
             v == Growth!KnownOr(acc, t, resolved, index)
  <2>1. t \in Growth!Sections
    BY FieldsAre
  <2>2. known \in Seq(Growth!Range(known)) /\ \A x \in Growth!Range(known) : Growth!IsId(x, t)
    BY <2>1, <1>1 DEF Planned, Numbered
  <2>3. Growth!Range(known) \subseteq Growth!Range(acc.ids[t]) \cup Growth!Range(plan.canon[t])
    OBVIOUS
  <2>4. known = <<>> => Bare(acc.ids, t)
    BY DEF Bare
  <2>5. v = IF resolved \in Growth!Range(known) THEN resolved ELSE Growth!RoundRobin(known, index)
    BY DEF Growth!KnownOr
  <2> HIDE DEF known, v
  <2>6. v \in Growth!Range(known) \/ (known = <<>> /\ v = Growth!None)
    BY <2>2, <2>5, RoundRobinIs
  <2>7. CASE v \in Growth!Range(known)
    <3>1. v # Growth!None
      BY <2>7, <2>1, <2>2, ItemsAreNamed
    <3> QED
      BY <3>1, <2>7, <2>3 DEF Lands, v
  <2>8. CASE known = <<>> /\ v = Growth!None
    BY <2>8, <2>4 DEF v
  <2> QED
    BY <2>6, <2>7, <2>8
<1>6. Landing(acc, s, to)
  BY <1>5 DEF Landing
<1> HIDE DEF to
<1> QED
  BY <1>4, <1>6 DEF to, b

\* Along the loop over section s.
Along(acc, s, k, d) ==
    /\ Shaped(d) /\ Sane(d) /\ Len(d.ids[s]) = k
    /\ \A u \in Growth!Sections \ {s} : d.ids[u] = acc.ids[u]

SeedTo(s, item, d, e, k) ==
    [t \in Growth!Fields(s) |-> Growth!KnownOr(d, t, Growth!Resolve(item.ref[t], e.idMap), k - 1)]

SeedRun(acc, items, s, done) ==
    LET kept == Growth!EnsureCount(items[s], s)
    IN  /\ done[0] = acc /\ done[Len(kept)] = Growth!PlaceSection(acc, items, s)
        /\ \A k \in 0..Len(kept) : Along(acc, s, k, done[k])
        /\ \A k \in 1..Len(kept) :
              /\ PlacedAs(done[k - 1], kept[k], s, SeedTo(s, kept[k], done[k - 1], done[k], k), done[k])
              /\ \A j \in 1..(k - 1) : done[k].ids[s][j] = done[k - 1].ids[s][j]
              /\ done[k].ids[s][k] = Growth!UniqueId(kept[k].id, done[k - 1].ids)

LEMMA SeedRuns ==
    ASSUME Planned, NEW acc, Shaped(acc), Sane(acc), NEW s \in Growth!Sections, NEW items, ItemsOf(items[s], s),
           acc.ids[s] = <<>>, Before(acc, s)
    PROVE  \E done : SeedRun(acc, items, s, done)
<1> DEFINE kept == Growth!EnsureCount(items[s], s)
           n == Len(kept)
<1>1. n \in Nat /\ \A k \in 1..n : IsItem(kept[k], s)
  BY KeptIs
<1>2. PICK done : /\ done[0] = acc
                  /\ \A k \in 1..n : done[k] = Growth!Place(done[k - 1], kept[k], k - 1)
                  /\ Growth!PlaceSection(acc, items, s) = done[n]
  BY <1>1, SeedLoop
<1> HIDE DEF kept, n
<1> DEFINE Step(k) == /\ PlacedAs(done[k - 1], kept[k], s, SeedTo(s, kept[k], done[k - 1], done[k], k), done[k])
                      /\ \A j \in 1..(k - 1) : done[k].ids[s][j] = done[k - 1].ids[s][j]
                      /\ done[k].ids[s][k] = Growth!UniqueId(kept[k].id, done[k - 1].ids)
<1>3. ASSUME NEW k \in 1..n, Along(acc, s, k - 1, done[k - 1])
      PROVE  Along(acc, s, k, done[k]) /\ Step(k)
  <2> DEFINE d == done[k - 1]  e == done[k]  item == kept[k]  to == SeedTo(s, item, d, e, k)
  <2>1. k - 1 \in Nat /\ IsItem(item, s) /\ e = Growth!Place(d, item, k - 1)
    BY <1>1, <1>2
  <2>2. Shaped(d) /\ Sane(d) /\ Len(d.ids[s]) = k - 1 /\ \A u \in Growth!Sections \ {s} : d.ids[u] = acc.ids[u]
    BY <1>3 DEF Along
  <2>3. Before(d, s)
    BY <2>2, FieldsAre DEF Before
  <2> HIDE DEF d, e, item
  <2>4. Shaped(e) /\ PlacedAs(d, item, s, to, e) /\ Landing(d, s, to)
    BY <2>1, <2>2, PlaceIs DEF SeedTo
  <2> HIDE DEF to
  <2>5. /\ Sane(e) /\ Len(e.ids[s]) = Len(d.ids[s]) + 1
        /\ \A u \in Growth!Sections \ {s} : e.ids[u] = d.ids[u]
        /\ \A j \in 1..Len(d.ids[s]) : e.ids[s][j] = d.ids[s][j]
        /\ e.ids[s][Len(d.ids[s]) + 1] = Growth!UniqueId(item.id, d.ids)
    BY <2>1, <2>2, <2>3, <2>4, PlacedKeeps
  <2>6. Len(e.ids[s]) = k /\ Len(d.ids[s]) + 1 = k
    BY <2>1, <2>2, <2>5
  <2>7. Along(acc, s, k, e)
    BY <2>2, <2>4, <2>5, <2>6 DEF Along
  <2>8. /\ \A j \in 1..(k - 1) : e.ids[s][j] = d.ids[s][j]
        /\ e.ids[s][k] = Growth!UniqueId(item.id, d.ids)
    BY <2>2, <2>5, <2>6
  <2> QED
    BY <2>4, <2>7, <2>8 DEF d, e, item, to
<1> DEFINE S == {k \in 0..n : Along(acc, s, k, done[k])}
<1>4. 0 \in S
  <2>1. Len(<<>>) = 0
    OBVIOUS
  <2>2. Along(acc, s, 0, acc)
    BY <2>1 DEF Along
  <2> QED
    BY <2>2, <1>1, <1>2
<1>5. ASSUME NEW k \in 0..(n - 1), k \in S PROVE k + 1 \in S
  <2>1. k + 1 \in 1..n /\ k + 1 - 1 = k /\ k + 1 \in 0..n
    BY <1>1
  <2>2. Along(acc, s, (k + 1) - 1, done[(k + 1) - 1])
    BY <1>5, <2>1
  <2>3. Along(acc, s, k + 1, done[k + 1])
    BY ONLY <2>1, <2>2, <1>3
  <2> QED
    BY <2>1, <2>3
<1>6. \A k \in 0..n : Along(acc, s, k, done[k])
  <2> HIDE DEF S
  <2>1. 0..n \subseteq S
    BY <1>1, <1>4, <1>5, CountingUpTo
  <2> QED
    BY <2>1 DEF S
<1>7. \A k \in 1..n : Step(k)
  <2> SUFFICES ASSUME NEW k \in 1..n PROVE Step(k)
    OBVIOUS
  <2>1. k - 1 \in 0..n
    BY <1>1
  <2>2. Along(acc, s, k - 1, done[k - 1])
    BY <2>1, <1>6
  <2> QED
    BY ONLY <2>2, <1>3, k \in 1..n
<1>8. SeedRun(acc, items, s, done)
  BY <1>2, <1>6, <1>7 DEF SeedRun, kept, n
<1> QED
  BY <1>8

\* A name of another section, which an item of section s never takes over.
Elsewhere(v, s) == v[1] \in Growth!Sections \ {s}

LEMMA RememberIs ==
    ASSUME Planned, NEW s \in Growth!Sections, NEW acc, Numbered(acc.ids), NEW item, IsItem(item, s),
           NEW to, NEW b, PlacedAs(acc, item, s, to, b)
    PROVE  LET id == Growth!UniqueId(item.id, acc.ids)
           IN  /\ Growth!IsId(id, s)
               /\ id \in DOMAIN b.idMap /\ b.idMap[id] = id
               /\ \A v \in DOMAIN acc.idMap :
                     v \in DOMAIN b.idMap /\ (v \notin {item.id, item.name, id} => b.idMap[v] = acc.idMap[v])
               /\ \A v \in DOMAIN acc.idMap : Elsewhere(v, s) => b.idMap[v] = acc.idMap[v]
               /\ acc.ties \subseteq b.ties
               /\ \A t \in DOMAIN to : to[t] # Growth!None => <<id, t, to[t]>> \in b.ties
<1> DEFINE id == Growth!UniqueId(item.id, acc.ids)
<1>1. /\ b.idMap = Growth!Remember(acc.idMap, item, id) /\ b.ties = acc.ties \cup NewTies(id, to)
  BY DEF PlacedAs
<1>2. Growth!IsId(id, s)
  <2>1. IsFiniteSet(Growth!Range(plan.canon[s])) /\ IsFiniteSet(Growth!Range(acc.ids[s]))
    BY ListRange DEF Planned, Numbered
  <2> QED
    BY <2>1, UniqueIdIs DEF IsItem
<1> HIDE DEF id
<1>3. /\ id \in DOMAIN b.idMap /\ b.idMap[id] = id
      /\ \A v \in DOMAIN acc.idMap :
            v \in DOMAIN b.idMap /\ (v \notin {item.id, item.name, id} => b.idMap[v] = acc.idMap[v])
  BY <1>1 DEF Growth!Remember
<1>4. ASSUME NEW v, Elsewhere(v, s) PROVE v \notin {item.id, item.name, id}
  <2>1. item.id[1] = s /\ id[1] = s
    BY <1>2, ItemsAreNamed DEF IsItem
  <2>2. item.name = <<"name", item.name[2], 0>>
    BY DEF IsItem, Growth!Name
  <2>3. item.name[1] \notin Growth!Sections
    BY <2>2 DEF Growth!Sections
  <2> QED
    BY <1>4, <2>1, <2>3 DEF Elsewhere
<1>5. \A t \in DOMAIN to : to[t] # Growth!None => <<id, t, to[t]>> \in NewTies(id, to)
  BY DEF NewTies
<1> QED
  BY <1>1, <1>2, <1>3, <1>4, <1>5 DEF id

\* A section of a new world, on the sections it refers to.
LEMMA SeedSectionIs ==
    ASSUME Planned, plan.mode = "seed", NEW acc, Shaped(acc), Sane(acc), NEW s \in Growth!Sections,
           NEW items, ItemsOf(items[s], s), acc.ids[s] = <<>>, Before(acc, s)
    PROVE  LET b == Growth!PlaceSection(acc, items, s)
           IN  /\ Along(acc, s, plan.count[s], b)
               /\ \A v \in DOMAIN acc.idMap :
                     Elsewhere(v, s) => v \in DOMAIN b.idMap /\ b.idMap[v] = acc.idMap[v]
               /\ acc.ties \subseteq b.ties
<1> DEFINE kept == Growth!EnsureCount(items[s], s)
           n == Len(kept)
           Still(d) == /\ \A v \in DOMAIN acc.idMap :
                             Elsewhere(v, s) => v \in DOMAIN d.idMap /\ d.idMap[v] = acc.idMap[v]
                       /\ acc.ties \subseteq d.ties
<1>1. n \in Nat /\ n = plan.count[s] /\ \A k \in 1..n : IsItem(kept[k], s)
  BY KeptIs
<1>2. PICK done : SeedRun(acc, items, s, done)
  BY SeedRuns
<1>3. /\ done[0] = acc /\ done[n] = Growth!PlaceSection(acc, items, s)
      /\ \A k \in 0..n : Along(acc, s, k, done[k])
      /\ \A k \in 1..n : \E to : PlacedAs(done[k - 1], kept[k], s, to, done[k])
  BY <1>2 DEF SeedRun
<1> HIDE DEF kept, n
<1> DEFINE S == {k \in 0..n : Still(done[k])}
<1>4. 0 \in S
  BY <1>1, <1>3
<1>5. ASSUME NEW k \in 0..(n - 1), k \in S PROVE k + 1 \in S
  <2> DEFINE d == done[k]  e == done[k + 1]
  <2>1. k + 1 \in 1..n /\ k + 1 - 1 = k /\ k + 1 \in 0..n /\ k \in 0..n
    BY <1>1
  <2>2. IsItem(kept[k + 1], s) /\ \E to : PlacedAs(done[(k + 1) - 1], kept[k + 1], s, to, done[k + 1])
    BY ONLY <2>1, <1>1, <1>3
  <2>3. PICK to : PlacedAs(d, kept[k + 1], s, to, e)
    BY <2>1, <2>2
  <2>4. Numbered(d.ids) /\ Still(d)
    BY <1>3, <1>5, <2>1 DEF Along, Sane
  <2> HIDE DEF d, e
  <2>5. /\ \A v \in DOMAIN d.idMap : v \in DOMAIN e.idMap /\ (Elsewhere(v, s) => e.idMap[v] = d.idMap[v])
        /\ d.ties \subseteq e.ties
    BY <2>2, <2>3, <2>4, RememberIs
  <2>6. Still(e)
    BY <2>4, <2>5
  <2> QED
    BY <2>1, <2>6 DEF e
<1>6. n \in S
  <2> HIDE DEF S
  <2>1. 0..n \subseteq S
    BY <1>1, <1>4, <1>5, CountingUpTo
  <2> QED
    BY <2>1, <1>1
<1>7. Along(acc, s, n, done[n]) /\ Still(done[n])
  BY <1>1, <1>3, <1>6
<1> QED
  BY <1>1, <1>3, <1>7

\* What a revision does with a section it leaves alone: ids that are free and different stay.
LEMMA SeedSectionKeeps ==
    ASSUME Planned, plan.mode = "seed", NEW acc, Shaped(acc), Sane(acc), NEW s \in Growth!Sections,
           NEW items, ItemsOf(items[s], s), acc.ids[s] = <<>>, Before(acc, s),
           NEW old, DOMAIN old = Growth!Sections, Numbered(old), Len(old[s]) = plan.count[s],
           Len(items[s]) = plan.count[s], \A k \in DOMAIN items[s] : items[s][k].id = old[s][k]
    PROVE  LET b == Growth!PlaceSection(acc, items, s)
           IN  /\ b.ids[s] = old[s]
               /\ \A id \in Growth!Range(old[s]) : id \in DOMAIN b.idMap /\ b.idMap[id] = id
<1> DEFINE kept == Growth!EnsureCount(items[s], s)
           n == Len(kept)
           Same(k, d) == \A j \in 1..k : /\ d.ids[s][j] = old[s][j]
                                         /\ old[s][j] \in DOMAIN d.idMap /\ d.idMap[old[s][j]] = old[s][j]
<1>1. /\ n \in Nat /\ n = plan.count[s]
      /\ \A k \in 1..n : IsItem(kept[k], s) /\ (k \in DOMAIN items[s] => kept[k] = items[s][k])
  BY KeptIs
<1>2. DOMAIN items[s] = 1..n /\ DOMAIN old[s] = 1..n
  BY <1>1, LenProperties DEF ItemsOf, Numbered
<1>3. PICK done : SeedRun(acc, items, s, done)
  BY SeedRuns
<1>4. /\ done[0] = acc /\ done[n] = Growth!PlaceSection(acc, items, s)
      /\ \A k \in 0..n : Along(acc, s, k, done[k])
      /\ \A k \in 1..n : /\ \E to : PlacedAs(done[k - 1], kept[k], s, to, done[k])
                         /\ \A j \in 1..(k - 1) : done[k].ids[s][j] = done[k - 1].ids[s][j]
                         /\ done[k].ids[s][k] = Growth!UniqueId(kept[k].id, done[k - 1].ids)
  BY <1>3 DEF SeedRun
<1>5. \A k \in 1..n : kept[k].id = old[s][k]
  BY <1>1, <1>2
<1>6. /\ \A k \in 1..n : Growth!IsId(old[s][k], s) /\ old[s][k] \notin Growth!Range(plan.canon[s])
      /\ \A j, k \in 1..n : old[s][j] = old[s][k] => j = k
  BY <1>2 DEF Numbered, Growth!Range
<1> HIDE DEF kept, n
<1> DEFINE S == {k \in 0..n : Same(k, done[k])}
<1>7. 0 \in S
  BY <1>1
<1>8. ASSUME NEW k \in 0..(n - 1), k \in S PROVE k + 1 \in S
  <2> DEFINE d == done[k]  e == done[k + 1]  item == kept[k + 1]
  <2>1. k + 1 \in 1..n /\ k + 1 - 1 = k /\ k + 1 \in 0..n /\ k \in 0..n /\ \A j \in 1..k : j \in 1..n /\ j # k + 1
    BY <1>1
  <2>2. /\ IsItem(item, s) /\ item.id = old[s][k + 1]
        /\ \E to : PlacedAs(d, item, s, to, e)
        /\ \A j \in 1..k : e.ids[s][j] = d.ids[s][j]
        /\ e.ids[s][k + 1] = Growth!UniqueId(item.id, d.ids)
    <3> DEFINE m == k + 1
    <3>1. m \in 1..n /\ m - 1 = k
      BY <2>1
    <3> HIDE DEF m
    <3>2. /\ IsItem(kept[m], s) /\ kept[m].id = old[s][m]
          /\ \E to : PlacedAs(done[m - 1], kept[m], s, to, done[m])
          /\ \A j \in 1..(m - 1) : done[m].ids[s][j] = done[m - 1].ids[s][j]
          /\ done[m].ids[s][m] = Growth!UniqueId(kept[m].id, done[m - 1].ids)
      BY ONLY <3>1, <1>1, <1>4, <1>5
    <3> QED
      BY ONLY <3>1, <3>2 DEF m
  <2>3. PICK to : PlacedAs(d, item, s, to, e)
    BY <2>2
  <2>4. Numbered(d.ids) /\ Len(d.ids[s]) = k /\ Same(k, d)
    BY <1>4, <1>8, <2>1 DEF Along, Sane
  <2> HIDE DEF d, e, item
  <2> DEFINE id == Growth!UniqueId(item.id, d.ids)
  <2>5. id = old[s][k + 1]
    <3>1. DOMAIN d.ids[s] = 1..k
      BY <2>4, LenProperties DEF Numbered
    <3>2. item.id \notin Growth!Range(d.ids[s])
      BY <2>1, <2>2, <2>4, <3>1, <1>6 DEF Growth!Range
    <3>3. item.id \notin Growth!Range(plan.canon[s]) /\ Growth!IsId(item.id, s)
      BY <2>1, <2>2, <1>6
    <3>4. IsFiniteSet(Growth!Range(plan.canon[s])) /\ IsFiniteSet(Growth!Range(d.ids[s]))
      BY <2>4, ListRange DEF Planned, Numbered
    <3> QED
      BY <3>2, <3>3, <3>4, <2>2, UniqueIdIs
  <2>6. /\ id \in DOMAIN e.idMap /\ e.idMap[id] = id
        /\ \A v \in DOMAIN d.idMap :
              v \in DOMAIN e.idMap /\ (v \notin {item.id, item.name, id} => e.idMap[v] = d.idMap[v])
    BY <2>2, <2>3, <2>4, RememberIs
  <2> HIDE DEF id
  <2>7. ASSUME NEW j \in 1..k PROVE old[s][j] \notin {item.id, item.name, id}
    <3>1. old[s][j] # old[s][k + 1]
      BY <2>1, <1>6
    <3>2. old[s][j][1] = s
      BY <2>1, <1>6, ItemsAreNamed
    <3>3. item.name = <<"name", item.name[2], 0>>
      BY <2>2 DEF IsItem, Growth!Name
    <3>4. old[s][j] # item.name
      BY <3>2, <3>3 DEF Growth!Sections
    <3> QED
      BY <3>1, <3>4, <2>2, <2>5
  <2>8. Same(k + 1, e)
    <3> SUFFICES ASSUME NEW j \in 1..(k + 1)
                 PROVE  /\ e.ids[s][j] = old[s][j]
                        /\ old[s][j] \in DOMAIN e.idMap /\ e.idMap[old[s][j]] = old[s][j]
      OBVIOUS
    <3>1. CASE j = k + 1
      BY <3>1, <2>2, <2>5, <2>6 DEF id
    <3>2. CASE j \in 1..k
      BY <3>2, <2>2, <2>4, <2>6, <2>7
    <3> QED
      BY <3>1, <3>2
  <2> QED
    BY <2>1, <2>8 DEF e
<1>9. n \in S
  <2> HIDE DEF S
  <2>1. 0..n \subseteq S
    BY <1>1, <1>7, <1>8, CountingUpTo
  <2> QED
    BY <2>1, <1>1
<1>10. Same(n, done[n]) /\ Numbered(done[n].ids) /\ Len(done[n].ids[s]) = n
  BY <1>1, <1>4, <1>9 DEF Along, Sane
<1> DEFINE b == done[n]
<1> HIDE DEF b, S
<1>11. b.ids[s] = old[s]
  <2>1. /\ b.ids[s] \in Seq(Growth!Range(b.ids[s])) /\ old[s] \in Seq(Growth!Range(old[s]))
        /\ Len(b.ids[s]) = n /\ Len(old[s]) = n
    BY <1>1, <1>10 DEF Numbered, b
  <2>2. \A j \in 1..n : b.ids[s][j] = old[s][j]
    BY <1>10 DEF b
  <2> DEFINE x == b.ids[s]  y == old[s]
  <2>3. x = [j \in 1..n |-> x[j]] /\ y = [j \in 1..n |-> y[j]]
    <3> HIDE DEF x, y
    <3>1. x \in Seq(Growth!Range(x)) /\ y \in Seq(Growth!Range(y)) /\ Len(x) = n /\ Len(y) = n
      BY <2>1 DEF x, y
    <3>2. x \in [1..n -> Growth!Range(x)] /\ y \in [1..n -> Growth!Range(y)]
      BY ONLY <3>1, LenProperties
    <3> QED
      BY ONLY <3>2
  <2> QED
    BY ONLY <2>2, <2>3
<1>12. \A id \in Growth!Range(old[s]) : id \in DOMAIN b.idMap /\ b.idMap[id] = id
  BY <1>2, <1>10 DEF Growth!Range, b
<1> QED
  BY <1>4, <1>11, <1>12 DEF b

\* A field of a new world that names an id which is there, lands there.
LEMMA SeedTies ==
    ASSUME Planned, plan.mode = "seed", NEW acc, Shaped(acc), Sane(acc), NEW s \in Growth!Sections,
           NEW items, ItemsOf(items[s], s), acc.ids[s] = <<>>, Before(acc, s),
           NEW k \in 1..plan.count[s], k \in DOMAIN items[s], NEW t \in Growth!Fields(s), NEW v,
           v = items[s][k].ref[t], v \in Growth!Range(acc.ids[t]), v \in DOMAIN acc.idMap, acc.idMap[v] = v
    PROVE  LET b == Growth!PlaceSection(acc, items, s)
           IN  <<b.ids[s][k], t, v>> \in b.ties
<1> DEFINE kept == Growth!EnsureCount(items[s], s)
           n == Len(kept)
<1>1. /\ n \in Nat /\ n = plan.count[s]
      /\ \A j \in 1..n : IsItem(kept[j], s) /\ (j \in DOMAIN items[s] => kept[j] = items[s][j])
  BY KeptIs
<1>2. PICK done : SeedRun(acc, items, s, done)
  BY SeedRuns
<1>3. /\ done[0] = acc /\ done[n] = Growth!PlaceSection(acc, items, s)
      /\ \A j \in 0..n : Along(acc, s, j, done[j])
      /\ \A j \in 1..n : /\ PlacedAs(done[j - 1], kept[j], s, SeedTo(s, kept[j], done[j - 1], done[j], j), done[j])
                         /\ \A i \in 1..(j - 1) : done[j].ids[s][i] = done[j - 1].ids[s][i]
                         /\ done[j].ids[s][j] = Growth!UniqueId(kept[j].id, done[j - 1].ids)
  BY <1>2 DEF SeedRun
<1>4. kept[k] = items[s][k]
  BY <1>1
<1> HIDE DEF kept, n
<1> DEFINE Knows(d) == v \in DOMAIN d.idMap /\ d.idMap[v] = v
           tie == <<done[k].ids[s][k], t, v>>
<1>5. t \in Growth!Sections \ {s} /\ Growth!IsId(v, t) /\ Elsewhere(v, s) /\ v # Growth!None
  <2>1. t \in Growth!Sections \ {s}
    BY FieldsAre
  <2>2. Growth!IsId(v, t)
    BY <2>1 DEF Sane, Numbered
  <2> QED
    BY <2>1, <2>2, ItemsAreNamed DEF Elsewhere
<1>6. ASSUME NEW j \in 1..n, Knows(done[j - 1])
      PROVE  /\ Knows(done[j]) /\ done[j - 1].ties \subseteq done[j].ties
             /\ j = k => tie \in done[j].ties
  <2> DEFINE d == done[j - 1]  e == done[j]  item == kept[j]  to == SeedTo(s, item, d, e, j)
  <2>1. j - 1 \in 0..n
    BY <1>1
  <2>2. /\ PlacedAs(d, item, s, to, e) /\ e.ids[s][j] = Growth!UniqueId(item.id, d.ids) /\ IsItem(item, s)
        /\ Numbered(d.ids) /\ d.ids[t] = acc.ids[t]
    BY <1>1, <1>3, <1>5, <2>1 DEF Along, Sane
  <2>3. DOMAIN to = Growth!Fields(s) /\ to[t] = Growth!KnownOr(d, t, Growth!Resolve(item.ref[t], e.idMap), j - 1)
    BY DEF SeedTo
  <2>4. j = k => item.ref[t] = v
    BY <1>4
  <2>5. Knows(d)
    BY <1>6
  <2>6. j = k => tie = <<e.ids[s][j], t, v>>
    OBVIOUS
  <2> HIDE DEF d, e, item, to
  <2>7. /\ \A x \in DOMAIN d.idMap : x \in DOMAIN e.idMap /\ (Elsewhere(x, s) => e.idMap[x] = d.idMap[x])
        /\ d.ties \subseteq e.ties
        /\ to[t] # Growth!None => <<Growth!UniqueId(item.id, d.ids), t, to[t]>> \in e.ties
    BY <2>2, <2>3, RememberIs
  <2>8. Knows(e)
    BY <2>5, <2>7, <1>5
  <2>9. ASSUME j = k PROVE to[t] = v
    <3>1. Growth!Resolve(item.ref[t], e.idMap) = v
      BY <2>4, <2>8, <2>9 DEF Growth!Resolve
    <3>2. d.ids[t] # <<>> /\ v \in Growth!Range(d.ids[t])
      BY <2>2 DEF Growth!Range
    <3> QED
      BY <2>3, <3>1, <3>2 DEF Growth!KnownOr
  <2> HIDE DEF tie
  <2> QED
    BY <2>2, <2>6, <2>7, <2>8, <2>9, <1>5 DEF d, e
<1> DEFINE S == {j \in 0..n : /\ Knows(done[j])
                              /\ j >= k => tie \in done[j].ties /\ done[j].ids[s][k] = done[k].ids[s][k]}
<1>7. k \in 1..n
  BY <1>1
<1>8. 0 \in S
  BY <1>1, <1>3, <1>7
<1>9. ASSUME NEW j \in 0..(n - 1), j \in S PROVE j + 1 \in S
  <2> DEFINE m == j + 1
  <2>1. m \in 1..n /\ m - 1 = j /\ m \in 0..n /\ (m >= k <=> j >= k \/ m = k)
    BY <1>1, <1>7
  <2>2. Knows(done[j]) /\ (j >= k => tie \in done[j].ties /\ done[j].ids[s][k] = done[k].ids[s][k])
    BY <1>9
  <2>3. j >= k => k \in 1..(m - 1)
    BY <1>7
  <2> HIDE DEF m, tie
  <2>4. Knows(done[m - 1])
    BY <2>1, <2>2
  <2>5. Knows(done[m]) /\ done[m - 1].ties \subseteq done[m].ties /\ (m = k => tie \in done[m].ties)
    BY ONLY <2>1, <2>4, <1>6
  <2>6. \A i \in 1..(m - 1) : done[m].ids[s][i] = done[m - 1].ids[s][i]
    BY <2>1, <1>3
  <2>7. m \in S
    BY <2>1, <2>2, <2>3, <2>5, <2>6
  <2> QED
    BY <2>7 DEF m
<1>10. n \in S
  <2> HIDE DEF S
  <2>1. 0..n \subseteq S
    BY <1>1, <1>8, <1>9, CountingUpTo
  <2> QED
    BY <2>1, <1>1
<1>11. n >= k
  BY <1>1, <1>7
<1> QED
  BY <1>3, <1>10, <1>11

-----------------------------------------------------------------------------
\* The four sections of a new world, one on the other.
Factions(items)  == Growth!PlaceSection(Growth!Nothing, items, "factions")
Locations(items) == Growth!PlaceSection(Factions(items), items, "locations")
Npcs(items)      == Growth!PlaceSection(Locations(items), items, "npcs")

LEMMA NothingIs ==
    /\ Shaped(Growth!Nothing) /\ Sane(Growth!Nothing)
    /\ \A s \in Growth!Sections : Growth!Nothing.ids[s] = <<>>
<1> DEFINE z == Growth!Nothing
<1>1. Shaped(z)
  BY DEF Shaped, Growth!Nothing
<1>2. DOMAIN z.ids = Growth!Sections /\ \A s \in Growth!Sections : z.ids[s] = <<>>
  BY DEF Growth!Nothing, Growth!NoItems
<1>3. z.ties = {} /\ DOMAIN z.idMap = {Growth!None} /\ z.idMap[Growth!None] = Growth!None
  BY DEF Growth!Nothing
<1> HIDE DEF z
<1>4. Growth!Range(<<>>) = {} /\ <<>> \in Seq({})
  BY DEF Growth!Range
<1>5. Numbered(z.ids)
  <2>1. \A s \in Growth!Sections :
           z.ids[s] \in Seq(Growth!Range(z.ids[s])) /\ Growth!Range(z.ids[s]) = {} /\ DOMAIN z.ids[s] = {}
    <3> SUFFICES ASSUME NEW s \in Growth!Sections, NEW e, e = <<>>
                 PROVE  e \in Seq(Growth!Range(e)) /\ Growth!Range(e) = {} /\ DOMAIN e = {}
      BY <1>2
    <3>1. Growth!Range(e) = {}
      BY <1>4
    <3>2. e \in Seq({})
      BY <1>4
    <3>3. DOMAIN e = {}
      OBVIOUS
    <3> QED
      BY <3>1, <3>2, <3>3
  <2> QED
    BY <1>2, <2>1 DEF Numbered
<1>6. Meant(z.ids, z.idMap)
  BY <1>3 DEF Meant
<1>7. Tied(z.ids, z.ties) /\ Single(z.ties)
  BY <1>3 DEF Tied, Single
<1>8. Closed(z.ids, z.ties)
  BY <1>2, <1>4 DEF Closed
<1> QED
  BY <1>1, <1>2, <1>5, <1>6, <1>7, <1>8 DEF Sane, z

LEMMA SectionsAre ==
    /\ Growth!Sections = {"factions", "locations", "npcs", "quests"}
    /\ Growth!Fields("factions") = {} /\ Growth!Fields("locations") = {"factions"}
    /\ Growth!Fields("npcs") = {"factions", "locations"} /\ Growth!Fields("quests") = {"locations", "npcs"}
BY DEF Growth!Sections, Growth!Fields

LEMMA SeedStages ==
    ASSUME Planned, plan.mode = "seed", NEW items, \A s \in Growth!Sections : ItemsOf(items[s], s)
    PROVE  LET a == Factions(items)  b == Locations(items)  c == Npcs(items)  d == Growth!BundleFromPayload(items)
           IN  /\ Along(Growth!Nothing, "factions", plan.count["factions"], a)
               /\ Along(a, "locations", plan.count["locations"], b)
               /\ Along(b, "npcs", plan.count["npcs"], c)
               /\ Along(c, "quests", plan.count["quests"], d)
               /\ a.ids["locations"] = <<>> /\ a.ids["npcs"] = <<>> /\ a.ids["quests"] = <<>>
               /\ b.ids["npcs"] = <<>> /\ b.ids["quests"] = <<>> /\ c.ids["quests"] = <<>>
               /\ d = Growth!PlaceSection(c, items, "quests")
<1> DEFINE z == Growth!Nothing  a == Factions(items)  b == Locations(items)  c == Npcs(items)
           d == Growth!BundleFromPayload(items)
<1>0. /\ a = Growth!PlaceSection(z, items, "factions") /\ b = Growth!PlaceSection(a, items, "locations")
      /\ c = Growth!PlaceSection(b, items, "npcs") /\ d = Growth!PlaceSection(c, items, "quests")
  BY DEF Factions, Locations, Npcs, Growth!BundleFromPayload
<1>1. Shaped(z) /\ Sane(z) /\ \A s \in Growth!Sections : z.ids[s] = <<>>
  BY NothingIs
<1> HIDE DEF z, a, b, c, d
<1>2. Along(z, "factions", plan.count["factions"], a)
  <2>1. Before(z, "factions") /\ "factions" \in Growth!Sections
    BY <1>1, SectionsAre DEF Before
  <2> QED
    BY <1>0, <1>1, <2>1, SeedSectionIs
<1>3. /\ Shaped(a) /\ Sane(a)
      /\ a.ids["locations"] = <<>> /\ a.ids["npcs"] = <<>> /\ a.ids["quests"] = <<>>
  BY <1>1, <1>2, SectionsAre DEF Along
<1>4. Along(a, "locations", plan.count["locations"], b)
  <2>1. Before(a, "locations") /\ "locations" \in Growth!Sections
    BY <1>3, SectionsAre DEF Before
  <2> QED
    BY <1>0, <1>3, <2>1, SeedSectionIs
<1>5. Shaped(b) /\ Sane(b) /\ b.ids["npcs"] = <<>> /\ b.ids["quests"] = <<>>
  BY <1>3, <1>4, SectionsAre DEF Along
<1>6. Along(b, "npcs", plan.count["npcs"], c)
  <2>1. Before(b, "npcs") /\ "npcs" \in Growth!Sections
    BY <1>5, SectionsAre DEF Before
  <2> QED
    BY <1>0, <1>5, <2>1, SeedSectionIs
<1>7. Shaped(c) /\ Sane(c) /\ c.ids["quests"] = <<>>
  BY <1>5, <1>6, SectionsAre DEF Along
<1>8. Along(c, "quests", plan.count["quests"], d)
  <2>1. Before(c, "quests") /\ "quests" \in Growth!Sections
    BY <1>7, SectionsAre DEF Before
  <2> QED
    BY <1>0, <1>7, <2>1, SeedSectionIs
<1> QED
  BY <1>0, <1>2, <1>3, <1>4, <1>5, <1>6, <1>7, <1>8 DEF z, a, b, c, d

\* A new world has the number of each section that was asked for, and closes.
LEMMA SeedBundleIs ==
    ASSUME Planned, plan.mode = "seed", NEW items, \A s \in Growth!Sections : ItemsOf(items[s], s)
    PROVE  LET d == Growth!BundleFromPayload(items)
           IN  Shaped(d) /\ Sane(d) /\ \A s \in Growth!Sections : Len(d.ids[s]) = plan.count[s]
<1> DEFINE z == Growth!Nothing  a == Factions(items)  b == Locations(items)  c == Npcs(items)
           d == Growth!BundleFromPayload(items)
<1>1. /\ Along(z, "factions", plan.count["factions"], a) /\ Along(a, "locations", plan.count["locations"], b)
      /\ Along(b, "npcs", plan.count["npcs"], c) /\ Along(c, "quests", plan.count["quests"], d)
  BY SeedStages
<1> HIDE DEF z, a, b, c, d
<1> QED
  BY <1>1, SectionsAre DEF Along, d

-----------------------------------------------------------------------------
(* Revising. *)

Again == Growth!PayloadFromBundle

\* The draft that is revised.
Revisable ==
    /\ Numbered(draft.ids) /\ Tied(draft.ids, draft.ties) /\ Single(draft.ties)
    /\ \A s \in Growth!Sections : Len(draft.ids[s]) = plan.count[s]

LEMMA AgainIs ==
    ASSUME Revisable, NEW s \in Growth!Sections
    PROVE  /\ ItemsOf(Again[s], s) /\ Len(Again[s]) = Len(draft.ids[s])
           /\ \A k \in DOMAIN Again[s] : Again[s][k].id = draft.ids[s][k]
<1> DEFINE ids == draft.ids[s]
           item(k) == [id |-> ids[k], name |-> Growth!Name(ids[k][2]),
                       ref |-> [t \in Growth!Fields(s) |-> IF s = "npcs" THEN Growth!None ELSE Growth!Target(ids[k], t)]]
           x == Again[s]
<1>1. ids \in Seq(Growth!Range(ids)) /\ \A id \in Growth!Range(ids) : Growth!IsId(id, s)
  BY DEF Revisable, Numbered
<1>2. Len(ids) \in Nat /\ DOMAIN ids = 1..Len(ids)
  BY <1>1, LenProperties
<1>3. x = [k \in DOMAIN ids |-> item(k)]
  BY DEF Again, Growth!PayloadFromBundle
<1>4. ASSUME NEW k \in DOMAIN ids PROVE IsItem(item(k), s) /\ item(k).id = ids[k]
  <2>1. Growth!IsId(ids[k], s)
    BY <1>1 DEF Growth!Range
  <2>2. Growth!Name(ids[k][2]) = Growth!Name(Growth!Name(ids[k][2])[2])
    BY DEF Growth!Name
  <2> QED
    BY <2>1, <2>2 DEF IsItem
<1> HIDE DEF item
<1>5. DOMAIN x = 1..Len(ids) /\ \A k \in DOMAIN ids : x[k] = item(k)
  BY <1>2, <1>3
<1>6. x \in Seq(Growth!Range(x)) /\ Len(x) = Len(ids)
  <2>1. \A k \in 1..Len(ids) : x[k] \in Growth!Range(x)
    BY <1>5 DEF Growth!Range
  <2>2. x = [k \in 1..Len(ids) |-> x[k]]
    BY <1>2, <1>3, <1>5
  <2> HIDE DEF x, ids
  <2>3. x \in [1..Len(ids) -> Growth!Range(x)]
    BY <2>1, <2>2
  <2>4. x \in Seq(Growth!Range(x))
    BY <2>3, <1>2, SeqDef
  <2> QED
    BY <2>3, <2>4, <1>2, LenProperties
<1> QED
  BY <1>2, <1>4, <1>5, <1>6 DEF ItemsOf

\* What the bundle says of the ids of a section that is left alone.
Unmoved(d, s) ==
    /\ d.ids[s] = draft.ids[s]
    /\ \A id \in Growth!Range(draft.ids[s]) : id \in DOMAIN d.idMap /\ d.idMap[id] = id

LEMMA UnmovedStays ==
    ASSUME Planned, plan.mode = "seed", Revisable, NEW acc, Shaped(acc), Sane(acc), NEW s \in Growth!Sections,
           NEW items, ItemsOf(items[s], s), acc.ids[s] = <<>>, Before(acc, s)
    PROVE  LET b == Growth!PlaceSection(acc, items, s)
           IN  /\ \A u \in Growth!Sections \ {s} : Unmoved(acc, u) => Unmoved(b, u)
               /\ items[s] = Again[s] => Unmoved(b, s)
<1> DEFINE b == Growth!PlaceSection(acc, items, s)
<1>1. /\ Along(acc, s, plan.count[s], b)
      /\ \A v \in DOMAIN acc.idMap : Elsewhere(v, s) => v \in DOMAIN b.idMap /\ b.idMap[v] = acc.idMap[v]
  BY SeedSectionIs
<1>2. ASSUME items[s] = Again[s] PROVE Unmoved(b, s)
  <2>1. /\ Len(items[s]) = plan.count[s] /\ Len(draft.ids[s]) = plan.count[s]
        /\ \A k \in DOMAIN items[s] : items[s][k].id = draft.ids[s][k]
        /\ Numbered(draft.ids) /\ DOMAIN draft.ids = Growth!Sections
    BY <1>2, AgainIs DEF Revisable, Numbered
  <2> QED
    BY <2>1, SeedSectionKeeps DEF Unmoved
<1>3. ASSUME NEW u \in Growth!Sections \ {s}, Unmoved(acc, u) PROVE Unmoved(b, u)
  <2>1. b.ids[u] = acc.ids[u] /\ acc.ids[u] = draft.ids[u]
    BY <1>1, <1>3 DEF Along, Unmoved
  <2>2. ASSUME NEW id \in Growth!Range(draft.ids[u]) PROVE id \in DOMAIN b.idMap /\ b.idMap[id] = id
    <3>1. Elsewhere(id, s)
      BY ItemsAreNamed DEF Revisable, Numbered, Elsewhere
    <3> QED
      BY <3>1, <1>1, <1>3 DEF Unmoved
  <2> HIDE DEF b
  <2> QED
    BY <2>1, <2>2 DEF Unmoved
<1> QED
  BY <1>2, <1>3

\* A revision of section r: the other sections keep their ids, and what is known of them.
LEMMA RevisionKeepsIds ==
    ASSUME Planned, plan.mode = "seed", Revisable, NEW r \in Growth!Sections, NEW items,
           ItemsOf(items[r], r), \A s \in Growth!Sections \ {r} : items[s] = Again[s]
    PROVE  /\ \A s \in Growth!Sections : ItemsOf(items[s], s)
           /\ \A s \in Growth!Sections \ {r} : Unmoved(Growth!BundleFromPayload(items), s)
           /\ \A s \in Growth!Sections \ {r, "quests"} : Unmoved(Npcs(items), s)
<1> DEFINE z == Growth!Nothing  a == Factions(items)  b == Locations(items)  c == Npcs(items)
           d == Growth!BundleFromPayload(items)
<1>0. \A s \in Growth!Sections : ItemsOf(items[s], s)
  BY AgainIs
<1>1. /\ Along(z, "factions", plan.count["factions"], a) /\ Along(a, "locations", plan.count["locations"], b)
      /\ Along(b, "npcs", plan.count["npcs"], c) /\ Along(c, "quests", plan.count["quests"], d)
      /\ a.ids["locations"] = <<>> /\ a.ids["npcs"] = <<>> /\ a.ids["quests"] = <<>>
      /\ b.ids["npcs"] = <<>> /\ b.ids["quests"] = <<>> /\ c.ids["quests"] = <<>>
      /\ d = Growth!PlaceSection(c, items, "quests")
  BY <1>0, SeedStages
<1>2. /\ a = Growth!PlaceSection(z, items, "factions") /\ b = Growth!PlaceSection(a, items, "locations")
      /\ c = Growth!PlaceSection(b, items, "npcs")
  BY DEF Factions, Locations, Npcs
<1>3. Shaped(z) /\ Sane(z) /\ \A s \in Growth!Sections : z.ids[s] = <<>>
  BY NothingIs
<1> HIDE DEF z, a, b, c, d
<1>4. Shaped(a) /\ Sane(a) /\ Shaped(b) /\ Sane(b) /\ Shaped(c) /\ Sane(c)
  BY <1>1 DEF Along
<1>5. Before(z, "factions") /\ Before(a, "locations") /\ Before(b, "npcs") /\ Before(c, "quests")
  BY <1>1, <1>3, SectionsAre DEF Before
<1>6. "factions" # r => Unmoved(a, "factions")
  BY <1>0, <1>2, <1>3, <1>5, SectionsAre, UnmovedStays
<1>7. /\ "factions" # r => Unmoved(b, "factions")
      /\ "locations" # r => Unmoved(b, "locations")
  BY <1>0, <1>1, <1>2, <1>4, <1>5, <1>6, SectionsAre, UnmovedStays
<1>8. /\ "factions" # r => Unmoved(c, "factions")
      /\ "locations" # r => Unmoved(c, "locations")
      /\ "npcs" # r => Unmoved(c, "npcs")
  BY <1>0, <1>1, <1>2, <1>4, <1>5, <1>7, SectionsAre, UnmovedStays
<1>9. /\ "factions" # r => Unmoved(d, "factions")
      /\ "locations" # r => Unmoved(d, "locations")
      /\ "npcs" # r => Unmoved(d, "npcs")
      /\ "quests" # r => Unmoved(d, "quests")
  BY <1>0, <1>1, <1>4, <1>5, <1>8, SectionsAre, UnmovedStays
<1> QED
  BY <1>0, <1>8, <1>9, SectionsAre DEF c, d

\* An old tie of a person or a place, carried over, ends in its section.
LEMMA KeptAreTied ==
    ASSUME Planned, plan.mode = "seed", Revisable, NEW d, Sane(d)
    PROVE  Tied(d.ids, Growth!Kept(d))
<1> DEFINE Now(v) == Growth!Resolve(v, d.idMap)
           new == UNION {Growth!Range(d.ids[s]) : s \in Growth!Sections}
           R(s) == Growth!Range(d.ids[s])
<1>1. Numbered(d.ids) /\ Meant(d.ids, d.idMap)
  BY DEF Sane
<1>2. ASSUME NEW u \in Growth!Sections, NEW v, Growth!IsId(v, u), Now(v) \in new PROVE Now(v) \in R(u)
  <2>1. v[1] = u /\ v # Growth!None
    BY <1>2, ItemsAreNamed
  <2>2. CASE v \in DOMAIN d.idMap
    <3>1. v \in DOMAIN d.idMap \ {Growth!None}
      BY <2>1, <2>2
    <3>2. d.idMap[v] \in R(u)
      BY <2>1, <3>1, <1>1 DEF Meant
    <3> QED
      BY <2>2, <3>2 DEF Growth!Resolve
  <2>3. CASE v \notin DOMAIN d.idMap
    <3>1. Now(v) = v
      BY <2>3 DEF Growth!Resolve
    <3>2. PICK w \in Growth!Sections : v \in R(w)
      BY <1>2, <3>1
    <3>3. v[1] = w
      BY <3>2, <1>1, ItemsAreNamed DEF Numbered
    <3> QED
      BY <2>1, <3>1, <3>2, <3>3
  <2> QED
    BY <2>2, <2>3
<1>3. ASSUME NEW tie \in Growth!Kept(d)
      PROVE  /\ tie[1] \in new /\ tie[3] \in new
             /\ \E old \in draft.ties : tie = <<Now(old[1]), old[2], Now(old[3])>>
  BY DEF Growth!Kept
<1> HIDE DEF Now, new
<1> SUFFICES ASSUME NEW tie \in Growth!Kept(d)
             PROVE  /\ tie = <<tie[1], tie[2], tie[3]>> /\ tie[1][1] \in Growth!Sections
                    /\ tie[1] \in R(tie[1][1]) /\ tie[2] \in Growth!Fields(tie[1][1])
                    /\ Lands(d.ids, tie[2], tie[3])
  BY DEF Tied
<1>4. PICK old \in draft.ties : tie = <<Now(old[1]), old[2], Now(old[3])>>
  BY <1>3
<1>5. tie[1] \in new /\ tie[3] \in new
  BY <1>3
<1>6. tie[1] = Now(old[1]) /\ tie[2] = old[2] /\ tie[3] = Now(old[3])
  BY <1>4
<1> DEFINE s == old[1][1]  t == old[2]
<1>7. /\ s \in Growth!Sections /\ old[1] \in Growth!Range(draft.ids[s]) /\ t \in Growth!Fields(s)
      /\ Lands(draft.ids, t, old[3])
  BY DEF Revisable, Tied
<1>8. Growth!IsId(old[1], s)
  BY <1>7 DEF Revisable, Numbered
<1>9. t \in Growth!Sections /\ Growth!IsId(old[3], t)
  <2>1. t \in Growth!Sections
    BY <1>7, FieldsAre
  <2>2. old[3] \in Growth!Range(draft.ids[t]) \cup Growth!Range(plan.canon[t])
    BY <1>7 DEF Lands
  <2> QED
    BY <2>1, <2>2 DEF Revisable, Numbered, Planned
<1> HIDE DEF s, t
<1>10. tie[1] \in R(s)
  BY <1>2, <1>5, <1>6, <1>7, <1>8 DEF s
<1>11. tie[3] \in R(t)
  BY <1>2, <1>5, <1>6, <1>9 DEF t
<1>12. tie[1][1] = s
  BY <1>1, <1>7, <1>10, ItemsAreNamed DEF Numbered
<1> QED
  BY <1>4, <1>6, <1>7, <1>10, <1>11, <1>12 DEF Lands, t

\* A revision of section r keeps every tie that neither starts nor ends in it, if its end is still there.
LEMMA RevisionKeepsTies ==
    ASSUME Planned, plan.mode = "seed", Revisable, NEW r \in Growth!Sections, NEW items,
           ItemsOf(items[r], r), \A s \in Growth!Sections \ {r} : items[s] = Again[s],
           NEW tie \in draft.ties, tie[1][1] # r, tie[2] # r
    PROVE  LET d == Growth!BundleFromPayload(items)
           IN  tie[3] \in Growth!Range(d.ids[tie[2]]) => tie \in d.ties \cup Growth!Kept(d)
<1> DEFINE d == Growth!BundleFromPayload(items)
           c == Npcs(items)
           s == tie[1][1]  t == tie[2]  v == tie[3]
<1>1. /\ \A u \in Growth!Sections : ItemsOf(items[u], u)
      /\ \A u \in Growth!Sections \ {r} : Unmoved(d, u)
      /\ \A u \in Growth!Sections \ {r, "quests"} : Unmoved(c, u)
  BY RevisionKeepsIds
<1>2. /\ Along(Locations(items), "npcs", plan.count["npcs"], c) /\ c.ids["quests"] = <<>>
      /\ d = Growth!PlaceSection(c, items, "quests")
  BY <1>1, SeedStages
<1>3. /\ tie = <<tie[1], t, v>> /\ s \in Growth!Sections \ {r} /\ tie[1] \in Growth!Range(draft.ids[s])
      /\ t \in Growth!Fields(s) /\ t \in Growth!Sections \ {r}
  <2>1. /\ tie = <<tie[1], t, v>> /\ s \in Growth!Sections /\ tie[1] \in Growth!Range(draft.ids[s])
        /\ t \in Growth!Fields(s)
    BY DEF Revisable, Tied
  <2> QED
    BY <2>1, FieldsAre
<1> HIDE DEF d, c
<1>4. SUFFICES ASSUME v \in Growth!Range(d.ids[t]) PROVE tie \in d.ties \cup Growth!Kept(d)
  BY DEF d
<1>5. v \in Growth!Range(draft.ids[t])
  BY <1>1, <1>3, <1>4 DEF Unmoved
<1>6. CASE s # "quests"
  <2>1. Growth!Resolve(tie[1], d.idMap) = tie[1] /\ tie[1] \in Growth!Range(d.ids[s])
    BY <1>1, <1>3 DEF Unmoved, Growth!Resolve
  <2>2. Growth!Resolve(v, d.idMap) = v
    BY <1>1, <1>3, <1>5 DEF Unmoved, Growth!Resolve
  <2> DEFINE new == UNION {Growth!Range(d.ids[u]) : u \in Growth!Sections}
             ties == {<<Growth!Resolve(x[1], d.idMap), x[2], Growth!Resolve(x[3], d.idMap)>> :
                        x \in {x \in draft.ties : x[1][1] # "quests"}}
  <2>3. tie[1] \in new /\ v \in new
    BY <2>1, <1>3, <1>4
  <2>4. tie \in ties
    <3>1. tie \in {x \in draft.ties : x[1][1] # "quests"}
      BY <1>6
    <3>2. <<Growth!Resolve(tie[1], d.idMap), tie[2], Growth!Resolve(tie[3], d.idMap)>> \in ties
      BY <3>1
    <3>3. <<Growth!Resolve(tie[1], d.idMap), tie[2], Growth!Resolve(tie[3], d.idMap)>> = tie
      BY <1>3, <2>1, <2>2
    <3> HIDE DEF ties
    <3> QED
      BY <3>2, <3>3
  <2>5. Growth!Kept(d) = {x \in ties : x[1] \in new /\ x[3] \in new}
    BY DEF Growth!Kept
  <2> HIDE DEF ties, new
  <2> QED
    BY <2>3, <2>4, <2>5
<1>7. CASE s = "quests"
  <2>1. /\ "quests" \in Growth!Sections /\ r # "quests" /\ t \in Growth!Sections \ {r, "quests"}
        /\ t \in Growth!Fields("quests")
    BY <1>3, <1>7, FieldsAre, SectionsAre
  <2>2. /\ Shaped(c) /\ Sane(c) /\ Before(c, "quests")
    BY <1>2, SectionsAre DEF Along, Before
  <2>3. c.ids[t] = draft.ids[t] /\ v \in Growth!Range(c.ids[t]) /\ v \in DOMAIN c.idMap /\ c.idMap[v] = v
    BY <1>1, <1>5, <2>1 DEF Unmoved
  <2>4. PICK k \in DOMAIN draft.ids["quests"] : draft.ids["quests"][k] = tie[1]
    BY <1>3, <1>7 DEF Growth!Range
  <2>5. /\ ItemsOf(items["quests"], "quests") /\ items["quests"] = Again["quests"]
        /\ k \in 1..plan.count["quests"] /\ k \in DOMAIN items["quests"]
    <3>1. Len(draft.ids["quests"]) = plan.count["quests"] /\ draft.ids["quests"] \in Seq(Growth!Range(draft.ids["quests"]))
      BY <2>1 DEF Revisable, Numbered
    <3>2. DOMAIN draft.ids["quests"] = 1..plan.count["quests"]
      BY <3>1, LenProperties
    <3>3. items["quests"] = Again["quests"]
      BY <2>1
    <3>4. ItemsOf(Again["quests"], "quests") /\ Len(Again["quests"]) = Len(draft.ids["quests"])
      BY <2>1, AgainIs
    <3>5. DOMAIN Again["quests"] = 1..plan.count["quests"]
      BY <3>1, <3>4, LenProperties DEF ItemsOf
    <3> QED
      BY <2>4, <3>2, <3>3, <3>4, <3>5
  <2>6. items["quests"][k].ref[t] = v
    <3>1. Again["quests"][k].ref[t] = Growth!Target(tie[1], t)
      BY <2>1, <2>4 DEF Again, Growth!PayloadFromBundle
    <3>2. \A x \in draft.ties : x[1] = tie[1] /\ x[2] = t => x = tie
      BY DEF Revisable, Single
    <3>3. Growth!Target(tie[1], t) = v
      BY <3>2 DEF Growth!Target
    <3> QED
      BY <2>5, <3>1, <3>3
  <2>7. <<d.ids["quests"][k], t, v>> \in d.ties
    <3> HIDE DEF t, v
    <3> QED
      BY <1>2, <2>1, <2>2, <2>3, <2>5, <2>6, SeedTies
  <2>8. d.ids["quests"] = draft.ids["quests"]
    BY <1>1, <2>1 DEF Unmoved
  <2> QED
    BY <2>4, <2>7, <2>8, <1>3
<1> QED
  BY <1>6, <1>7

-----------------------------------------------------------------------------
(* A batch on a world that is there. *)

\* The loop over a section of a batch is a function that steps from item to item.
LEMMA BatchLoop ==
    ASSUME NEW acc, NEW items, NEW s, Len(Growth!EnsureCount(items[s], s)) \in Nat
    PROVE  LET kept == Growth!EnsureCount(items[s], s)
           IN  \E done : /\ DOMAIN done = 0..Len(kept) /\ done[0] = acc
                         /\ \A k \in 1..Len(kept) : done[k] = Growth!PlaceOnCanon(done[k - 1], kept[k])
                         /\ Growth!PlaceSectionOnCanon(acc, items, s) = done[Len(kept)]
<1> DEFINE kept == Growth!EnsureCount(items[s], s)
           Is(f, n) == f = [k \in 0..n |-> IF k = 0 THEN acc ELSE Growth!PlaceOnCanon(f[k - 1], kept[k])]
           N == {n \in Nat : \E f : Is(f, n)}
           done == CHOOSE f : Is(f, Len(kept))
<1>1. 0 \in N
  <2> DEFINE f == [k \in 0..0 |-> acc]
  <2>1. f = [k \in 0..0 |-> IF k = 0 THEN acc ELSE Growth!PlaceOnCanon(f[k - 1], kept[k])]
    OBVIOUS
  <2> QED
    BY <2>1
<1>2. ASSUME NEW n \in Nat, n \in N PROVE n + 1 \in N
  <2>1. PICK f : Is(f, n)
    BY <1>2
  <2> DEFINE g == [k \in 0..(n + 1) |-> IF k = n + 1 THEN Growth!PlaceOnCanon(f[n], kept[n + 1]) ELSE f[k]]
  <2>2. ASSUME NEW k \in 0..(n + 1)
        PROVE  g[k] = IF k = 0 THEN acc ELSE Growth!PlaceOnCanon(g[k - 1], kept[k])
    <3>1. CASE k = n + 1
      <4>1. g[n + 1] = Growth!PlaceOnCanon(f[n], kept[n + 1]) /\ g[n] = f[n] /\ n + 1 # 0 /\ n + 1 - 1 = n
        OBVIOUS
      <4> HIDE DEF g, kept
      <4> QED
        BY <3>1, <4>1
    <3>2. CASE k \in 0..n
      <4>1. f[k] = IF k = 0 THEN acc ELSE Growth!PlaceOnCanon(f[k - 1], kept[k])
        BY <2>1, <3>2
      <4>2. k # 0 => g[k - 1] = f[k - 1]
        BY <3>2
      <4>3. g[k] = f[k]
        BY <3>2
      <4> QED
        BY <4>1, <4>2, <4>3
    <3> QED
      BY <3>1, <3>2
  <2>3. Is(g, n + 1)
    <3>1. g = [k \in 0..(n + 1) |-> g[k]]
      OBVIOUS
    <3> HIDE DEF g
    <3> QED
      BY ONLY <2>2, <3>1
  <2>4. \E h : Is(h, n + 1)
    <3> HIDE DEF g
    <3> WITNESS g
    <3> QED
      BY <2>3
  <2> HIDE DEF Is
  <2>5. n + 1 \in Nat
    OBVIOUS
  <2> QED
    BY ONLY <2>4, <2>5
<1>3. Nat \subseteq N
  <2> HIDE DEF N
  <2> QED
    BY <1>1, <1>2, CountingUp
<1>4. Is(done, Len(kept))
  <2>1. \E f : Is(f, Len(kept))
    BY <1>3
  <2> HIDE DEF Is
  <2> QED
    BY <2>1
<1>5. Growth!PlaceSectionOnCanon(acc, items, s) = done[Len(kept)]
  BY DEF Growth!PlaceSectionOnCanon
<1> HIDE DEF done, kept
<1>6. /\ DOMAIN done = 0..Len(kept) /\ done[0] = acc
      /\ \A k \in 1..Len(kept) : done[k] = Growth!PlaceOnCanon(done[k - 1], kept[k])
  <2>1. Len(kept) \in Nat
    BY DEF kept
  <2> QED
    BY <1>4, <2>1
<1> QED
  BY <1>5, <1>6 DEF kept

\* Every reference that the items placed so far may be meant by is known.
Noted(acc) ==
    \A t \in Growth!Sections : \A k \in DOMAIN payload[t] \cap 1..Len(acc.ids[t]) :
        payload[t][k].id \in DOMAIN acc.idMap /\ payload[t][k].name \in DOMAIN acc.idMap

\* The ledger has every field of what was placed so far once.
Ledger(acc) ==
    /\ acc.grounded \in Nat /\ acc.dangling \in Nat /\ acc.unspecified \in Nat
    /\ acc.grounded + acc.dangling + acc.unspecified =
         Len(acc.ids["locations"]) + 2 * Len(acc.ids["npcs"]) + 2 * Len(acc.ids["quests"])

Replied == DOMAIN payload = Growth!Sections /\ \A s \in Growth!Sections : ItemsOf(payload[s], s)

Batch == {"locations", "npcs", "quests"}

\* An item that the stages were told of has the id of its section, or a name.
LEMMA RefsAre ==
    ASSUME Replied, NEW t \in Growth!Sections, NEW v \in Growth!Refs(t)
    PROVE  v # Growth!None /\ (Growth!IsId(v, t) \/ v[1] \notin Growth!Sections)
<1>1. PICK k \in DOMAIN payload[t] : v = payload[t][k].id \/ v = payload[t][k].name
  BY DEF Growth!Refs
<1>2. IsItem(payload[t][k], t)
  BY <1>1 DEF Replied, ItemsOf
<1>3. CASE v = payload[t][k].id
  BY <1>2, <1>3, ItemsAreNamed DEF IsItem
<1>4. CASE v = payload[t][k].name
  <2>1. v = <<"name", v[2], 0>>
    BY <1>2, <1>4 DEF IsItem, Growth!Name
  <2> QED
    BY <2>1 DEF Growth!None, Growth!Sections
<1> QED
  BY <1>1, <1>3, <1>4

\* Where a field of a batch lands, it lands on something; and None is never a hit.
LEMMA LandIs ==
    ASSUME Planned, plan.mode = "expand", Replied, NEW acc, Sane(acc), Noted(acc),
           NEW s \in Growth!Sections, NEW t \in Growth!Fields(s), NEW item, IsItem(item, s),
           NEW idMap, idMap = Growth!Remember(acc.idMap, item, Growth!UniqueId(item.id, acc.ids)), NEW ref
    PROVE  LET resolved == Growth!Resolve(ref, idMap)
               v == Growth!Land(acc, t, resolved)
           IN  /\ IF v = Growth!None THEN Bare(acc.ids, t) ELSE Lands(acc.ids, t, v)
               /\ ref = Growth!None => resolved \notin Growth!Valid(acc, t)
<1> DEFINE id == Growth!UniqueId(item.id, acc.ids)
           resolved == Growth!Resolve(ref, idMap)
           v == Growth!Land(acc, t, resolved)
           R(u) == Growth!Range(acc.ids[u])
           C(u) == Growth!Range(plan.canon[u])
           said == {item.id, item.name, id}
<1>1. t \in Growth!Sections \ {s}
  BY FieldsAre
<1>2. Numbered(acc.ids) /\ Meant(acc.ids, acc.idMap)
  BY DEF Sane
<1>3. Growth!IsId(id, s)
  <2>1. IsFiniteSet(C(s)) /\ IsFiniteSet(R(s))
    BY <1>2, ListRange DEF Planned, Numbered
  <2> QED
    BY <2>1, UniqueIdIs DEF IsItem
<1>4. /\ DOMAIN idMap = DOMAIN acc.idMap \cup said
      /\ \A x \in DOMAIN idMap : idMap[x] = IF x \in said THEN id ELSE acc.idMap[x]
  BY DEF Growth!Remember
<1>5. Growth!None \notin said
  <2>1. item.id # Growth!None /\ id # Growth!None
    BY <1>3, ItemsAreNamed DEF IsItem
  <2>2. item.name = <<"name", item.name[2], 0>>
    BY DEF IsItem, Growth!Name
  <2>3. item.name # Growth!None
    BY <2>2 DEF Growth!None
  <2> QED
    BY <2>1, <2>3
<1> HIDE DEF said, id
<1>6. Growth!None \in DOMAIN idMap /\ idMap[Growth!None] = Growth!None
  BY <1>2, <1>4, <1>5 DEF Meant
<1>7. \A x \in R(t) \cup C(t) : Growth!IsId(x, t) /\ x # Growth!None
  BY <1>1, <1>2, ItemsAreNamed DEF Numbered, Planned
<1>8. Growth!None \notin Growth!Valid(acc, t)
  BY <1>1, <1>7, RefsAre DEF Growth!Valid
<1>9. ref = Growth!None => resolved \notin Growth!Valid(acc, t)
  BY <1>6, <1>8 DEF Growth!Resolve
<1>10. CASE resolved \in Growth!Valid(acc, t)
  <2>1. v = resolved /\ v # Growth!None
    BY <1>8, <1>10 DEF Growth!Land
  <2>2. CASE resolved \in R(t) \cup C(t)
    BY <2>1, <2>2, <1>9 DEF Lands
  <2>3. CASE resolved \notin R(t) \cup C(t)
    <3>1. resolved \in Growth!Refs(t)
      BY <2>3, <1>10 DEF Growth!Valid
    <3>2. Growth!IsId(resolved, t) \/ resolved[1] \notin Growth!Sections
      BY <3>1, <1>1, RefsAre
    <3>3. ref \notin DOMAIN idMap
      <4> SUFFICES ASSUME ref \in DOMAIN idMap PROVE FALSE
        OBVIOUS
      <4>1. resolved = idMap[ref]
        BY DEF Growth!Resolve
      <4>2. CASE ref \in said
        <5>1. resolved = id /\ resolved[1] = s
          BY <4>1, <4>2, <1>3, <1>4, ItemsAreNamed
        <5> QED
          BY <5>1, <3>2, <1>1, ItemsAreNamed
      <4>3. CASE ref \notin said
        <5>1. ref \in DOMAIN acc.idMap /\ resolved = acc.idMap[ref]
          BY <4>1, <4>3, <1>4
        <5>2. ref # Growth!None
          BY <1>9, <1>10
        <5>3. PICK u \in Growth!Sections : resolved \in R(u)
          BY <5>1, <5>2, <1>2 DEF Meant
        <5>4. resolved[1] = u
          BY <5>3, <1>2, ItemsAreNamed DEF Numbered
        <5>5. u = t
          BY <5>3, <5>4, <3>2, <1>1, ItemsAreNamed
        <5> QED
          BY <5>3, <5>5, <2>3
      <4> QED
        BY <4>2, <4>3
    <3>4. resolved = ref
      BY <3>3 DEF Growth!Resolve
    <3>5. resolved \in Growth!LeftOut(t, acc.ids[t])
      <4> DEFINE told == UNION {{payload[t][k].id, payload[t][k].name} : k \in DOMAIN payload[t] \cap 1..Len(acc.ids[t])}
      <4>1. resolved \notin told
        <5> SUFFICES ASSUME NEW k \in DOMAIN payload[t] \cap 1..Len(acc.ids[t]),
                            resolved \in {payload[t][k].id, payload[t][k].name}
                     PROVE  FALSE
          OBVIOUS
        <5>1. resolved \in DOMAIN acc.idMap
          BY <1>1 DEF Noted
        <5> QED
          BY <5>1, <3>3, <3>4, <1>4
      <4>2. Growth!LeftOut(t, acc.ids[t]) = Growth!Refs(t) \ told
        BY DEF Growth!LeftOut
      <4> HIDE DEF told
      <4> QED
        BY <3>1, <4>1, <4>2
    <3> QED
      BY <2>1, <3>5, <1>9 DEF Lands
  <2> QED
    BY <2>2, <2>3
<1>11. CASE resolved \notin Growth!Valid(acc, t)
  <2>1. CASE acc.ids[t] # <<>>
    <3>1. v = Head(acc.ids[t])
      BY <1>11, <2>1 DEF Growth!Land
    <3>2. acc.ids[t] \in Seq(R(t))
      BY <1>1, <1>2 DEF Numbered
    <3>3. v \in R(t)
      BY <2>1, <3>1, <3>2, HeadTailProperties
    <3> QED
      BY <3>3, <1>7, <1>9 DEF Lands
  <2>2. CASE acc.ids[t] = <<>>
    <3>1. v = Growth!Anywhere(t)
      BY <1>11, <2>2 DEF Growth!Land
    <3>2. plan.canon[t] \in Seq(C(t))
      BY <1>1 DEF Planned
    <3>3. CASE plan.canon[t] = <<>>
      BY <3>1, <3>3, <2>2, <1>9 DEF Growth!Anywhere, Bare
    <3>4. CASE plan.canon[t] # <<>>
      <4>1. Head(plan.canon[t]) \in C(t)
        BY <3>2, <3>4, HeadTailProperties
      <4>2. v \in C(t)
        BY <3>1, <3>4, <4>1 DEF Growth!Anywhere
      <4> QED
        BY <4>2, <1>7, <1>9 DEF Lands
    <3> QED
      BY <3>3, <3>4
  <2> QED
    BY <2>1, <2>2
<1> QED
  BY <1>10, <1>11, <1>9

Hits(acc, s, means)  == {t \in Growth!Fields(s) : means[t] \in Growth!Valid(acc, t)}
Blank(s, item)       == {t \in Growth!Fields(s) : item.ref[t] = Growth!None}
Dangles(s, hits, blank) == Growth!Fields(s) \ (hits \cup blank)

\* Each field of an item is in one column of the ledger.
LEMMA ColumnsAdd ==
    ASSUME NEW s \in Growth!Sections, NEW hits \in SUBSET Growth!Fields(s), NEW blank \in SUBSET Growth!Fields(s),
           hits \cap blank = {}
    PROVE  LET rest == Dangles(s, hits, blank)
           IN  /\ Cardinality(hits) \in Nat /\ Cardinality(blank) \in Nat /\ Cardinality(rest) \in Nat
               /\ Cardinality(hits) + Cardinality(rest) + Cardinality(blank) = Cardinality(Growth!Fields(s))
<1> DEFINE F == Growth!Fields(s)  rest == Dangles(s, hits, blank)
<1>1. IsFiniteSet(F)
  <2>1. IsFiniteSet({}) /\ IsFiniteSet({"factions"}) /\ IsFiniteSet({"factions", "locations"}) /\ IsFiniteSet({"locations", "npcs"})
    <3>1. IsFiniteSet({}) /\ IsFiniteSet({"factions"}) /\ IsFiniteSet({"locations"})
      BY FS_EmptySet, FS_Singleton
    <3>2. IsFiniteSet({"factions"} \cup {"locations"}) /\ IsFiniteSet({"locations"} \cup {"npcs"})
      BY <3>1, FS_AddElement
    <3>3. {"factions", "locations"} = {"factions"} \cup {"locations"} /\ {"locations", "npcs"} = {"locations"} \cup {"npcs"}
      OBVIOUS
    <3> QED
      BY <3>1, <3>2, <3>3
  <2> QED
    BY <2>1, SectionsAre
<1>2. rest \in SUBSET F /\ (hits \cup blank) \cap rest = {} /\ F = (hits \cup blank) \cup rest
  BY DEF Dangles
<1> HIDE DEF F, rest
<1>3. IsFiniteSet(hits) /\ IsFiniteSet(blank) /\ IsFiniteSet(rest)
  BY <1>1, <1>2, FS_Subset DEF F
<1>4. Cardinality(hits) \in Nat /\ Cardinality(blank) \in Nat /\ Cardinality(rest) \in Nat /\ Cardinality({}) = 0
  BY <1>3, FS_CardinalityType, FS_EmptySet
<1>5. IsFiniteSet(hits \cup blank) /\ Cardinality(hits \cup blank) = Cardinality(hits) + Cardinality(blank) - 0
  BY <1>3, <1>4, FS_Union
<1>6. Cardinality(F) = Cardinality(hits \cup blank) + Cardinality(rest)
  <2> DEFINE x == hits \cup blank
  <2>1. x \cap rest = {} /\ F = x \cup rest /\ IsFiniteSet(x) /\ Cardinality(x) \in Nat
    BY <1>2, <1>5, FS_CardinalityType
  <2> HIDE DEF x
  <2>2. Cardinality(x \cup rest) = Cardinality(x) + Cardinality(rest) - Cardinality(x \cap rest)
    BY <1>3, <2>1, FS_Union
  <2>3. Cardinality(F) = Cardinality(x) + Cardinality(rest) - 0
    BY <1>4, <2>1, <2>2
  <2> QED
    BY <1>4, <2>1, <2>3 DEF x
<1> QED
  BY <1>4, <1>5, <1>6 DEF F, rest

LEMMA FieldsCount ==
    /\ Cardinality(Growth!Fields("locations")) = 1
    /\ Cardinality(Growth!Fields("npcs")) = 2 /\ Cardinality(Growth!Fields("quests")) = 2
<1>1. Cardinality({"factions"}) = 1
  BY FS_Singleton
<1>2. \A a, b : a # b => Cardinality({a, b}) = 2
  <2> SUFFICES ASSUME NEW a, NEW b, a # b PROVE Cardinality({a, b}) = 2
    OBVIOUS
  <2>1. IsFiniteSet({a}) /\ Cardinality({a}) = 1
    BY FS_Singleton
  <2>2. {a, b} = {a} \cup {b} /\ b \notin {a}
    OBVIOUS
  <2> QED
    BY <2>1, <2>2, FS_AddElement
<1>3. Cardinality({"factions", "locations"}) = 2 /\ Cardinality({"locations", "npcs"}) = 2
  BY <1>2
<1> QED
  BY <1>1, <1>3, SectionsAre

\* One item of a batch, as one of a new world, and its columns.
LEMMA PlaceOnCanonIs ==
    ASSUME Planned, plan.mode = "expand", Replied, NEW acc, Shaped(acc), Sane(acc), Noted(acc),
           NEW s \in Growth!Sections, NEW item, IsItem(item, s)
    PROVE  LET b     == Growth!PlaceOnCanon(acc, item)
               means == [t \in Growth!Fields(s) |-> Growth!Resolve(item.ref[t], b.idMap)]
               to    == [t \in Growth!Fields(s) |-> Growth!Land(acc, t, means[t])]
               hits  == Hits(acc, s, means)
               blank == Blank(s, item)
           IN  /\ Shaped(b) /\ PlacedAs(acc, item, s, to, b) /\ Landing(acc, s, to)
               /\ hits \cap blank = {}
               /\ acc.grounded \in Nat => b.grounded = acc.grounded + Cardinality(hits)
               /\ acc.unspecified \in Nat => b.unspecified = acc.unspecified + Cardinality(blank)
               /\ acc.dangling \in Nat => b.dangling = acc.dangling + Cardinality(Dangles(s, hits, blank))
<1> DEFINE id == Growth!UniqueId(item.id, acc.ids)
           idMap == Growth!Remember(acc.idMap, item, id)
           means == [t \in Growth!Fields(s) |-> Growth!Resolve(item.ref[t], idMap)]
           to == [t \in Growth!Fields(s) |-> Growth!Land(acc, t, means[t])]
           hits == Hits(acc, s, means)
           blank == Blank(s, item)
           rest == Dangles(s, hits, blank)
           p == Growth!Placed(acc, item, id, to)
           b == Growth!PlaceOnCanon(acc, item)
<1>1. Numbered(acc.ids)
  BY DEF Sane
<1>2. id[1] = s
  <2>1. IsFiniteSet(Growth!Range(plan.canon[s])) /\ IsFiniteSet(Growth!Range(acc.ids[s]))
    BY <1>1, ListRange DEF Planned, Numbered
  <2> QED
    BY <2>1, UniqueIdIs DEF IsItem
<1>3. b = [p EXCEPT !.grounded = p.grounded + Growth!Cardinality(hits),
                    !.unspecified = p.unspecified + Growth!Cardinality(blank),
                    !.dangling = p.dangling + Growth!Cardinality(rest)]
  BY <1>2 DEF Growth!PlaceOnCanon, Hits, Blank, Dangles
<1>4. /\ Shaped(p) /\ p.ids = WithId(acc.ids, id) /\ p.idMap = idMap /\ p.ties = acc.ties \cup NewTies(id, to)
      /\ p.grounded = acc.grounded /\ p.dangling = acc.dangling /\ p.unspecified = acc.unspecified
  <2> HIDE DEF id, to
  <2> QED
    BY PlacedShape
<1>5. \A t \in Growth!Fields(s) : /\ IF to[t] = Growth!None THEN Bare(acc.ids, t) ELSE Lands(acc.ids, t, to[t])
                                  /\ item.ref[t] = Growth!None => means[t] \notin Growth!Valid(acc, t)
  <2> SUFFICES ASSUME NEW t \in Growth!Fields(s)
               PROVE  /\ IF to[t] = Growth!None THEN Bare(acc.ids, t) ELSE Lands(acc.ids, t, to[t])
                      /\ item.ref[t] = Growth!None => means[t] \notin Growth!Valid(acc, t)
    OBVIOUS
  <2>1. means[t] = Growth!Resolve(item.ref[t], idMap) /\ to[t] = Growth!Land(acc, t, means[t])
    OBVIOUS
  <2> HIDE DEF means, to
  <2> QED
    BY <2>1, LandIs
<1>6. Landing(acc, s, to)
  BY <1>5 DEF Landing
<1>7. hits \cap blank = {}
  BY <1>5 DEF Hits, Blank
<1> HIDE DEF id, idMap, means, to, hits, blank, rest, p, b
<1>8. /\ Shaped(b) /\ b.ids = p.ids /\ b.idMap = p.idMap /\ b.ties = p.ties
      /\ b.grounded = p.grounded + Growth!Cardinality(hits)
      /\ b.unspecified = p.unspecified + Growth!Cardinality(blank)
      /\ b.dangling = p.dangling + Growth!Cardinality(rest)
  BY <1>3, <1>4 DEF Shaped
<1>9. PlacedAs(acc, item, s, to, b)
  BY <1>2, <1>4, <1>8 DEF PlacedAs, id, idMap, WithId
<1>10. /\ b.grounded = acc.grounded + Cardinality(hits)
       /\ b.unspecified = acc.unspecified + Cardinality(blank)
       /\ b.dangling = acc.dangling + Cardinality(rest)
  BY <1>4, <1>8, GrowthCounts
<1>11. b.idMap = idMap
  BY <1>4, <1>8
<1> QED
  BY <1>6, <1>7, <1>8, <1>9, <1>10, <1>11 DEF means, to, hits, blank, rest, b

\* What a batch keeps from item to item.
OnCanon(d) == Shaped(d) /\ Sane(d) /\ Noted(d) /\ Ledger(d) /\ d.ids["factions"] = <<>>

LEMMA OnCanonStep ==
    ASSUME Planned, plan.mode = "expand", Replied, NEW acc, OnCanon(acc), NEW s \in Batch, Before(acc, s),
           NEW k \in DOMAIN payload[s], k = Len(acc.ids[s]) + 1
    PROVE  LET b == Growth!PlaceOnCanon(acc, payload[s][k])
           IN  /\ OnCanon(b) /\ Len(b.ids[s]) = k
               /\ \A u \in Growth!Sections \ {s} : b.ids[u] = acc.ids[u]
<1> DEFINE item == payload[s][k]
           b == Growth!PlaceOnCanon(acc, item)
           means == [t \in Growth!Fields(s) |-> Growth!Resolve(item.ref[t], b.idMap)]
           to    == [t \in Growth!Fields(s) |-> Growth!Land(acc, t, means[t])]
           hits  == Hits(acc, s, means)
           blank == Blank(s, item)
           rest == Dangles(s, hits, blank)
<1>1. s \in Growth!Sections /\ IsItem(item, s) /\ s # "factions"
  BY DEF Batch, Replied, ItemsOf, Growth!Sections
<1>2. Shaped(acc) /\ Sane(acc) /\ Noted(acc) /\ Ledger(acc)
  BY DEF OnCanon
<1>3. hits \in SUBSET Growth!Fields(s) /\ blank \in SUBSET Growth!Fields(s)
  BY DEF Hits, Blank
<1> HIDE DEF item
<1>4. /\ Shaped(b) /\ PlacedAs(acc, item, s, to, b) /\ Landing(acc, s, to) /\ hits \cap blank = {}
      /\ b.grounded = acc.grounded + Cardinality(hits)
      /\ b.unspecified = acc.unspecified + Cardinality(blank)
      /\ b.dangling = acc.dangling + Cardinality(rest)
  BY <1>1, <1>2, PlaceOnCanonIs DEF Ledger
<1> HIDE DEF means, to, hits, blank, rest, b
<1>5. /\ Sane(b) /\ Len(b.ids[s]) = Len(acc.ids[s]) + 1 /\ Len(acc.ids[s]) \in Nat
      /\ \A u \in Growth!Sections \ {s} : b.ids[u] = acc.ids[u]
  BY <1>1, <1>2, <1>4, PlacedKeeps
<1>6. b.idMap = Growth!Remember(acc.idMap, item, Growth!UniqueId(item.id, acc.ids))
  BY <1>4 DEF PlacedAs
<1>7. DOMAIN acc.idMap \subseteq DOMAIN b.idMap /\ item.id \in DOMAIN b.idMap /\ item.name \in DOMAIN b.idMap
  BY <1>6 DEF Growth!Remember
<1>8. Noted(b)
  <2> SUFFICES ASSUME NEW t \in Growth!Sections, NEW j \in DOMAIN payload[t] \cap 1..Len(b.ids[t])
               PROVE  payload[t][j].id \in DOMAIN b.idMap /\ payload[t][j].name \in DOMAIN b.idMap
    BY DEF Noted
  <2>1. CASE t # s \/ j # k
    <3>1. j \in 1..Len(acc.ids[t])
      BY <2>1, <1>5
    <3> QED
      BY <3>1, <1>2, <1>7 DEF Noted
  <2>2. CASE t = s /\ j = k
    BY <2>2, <1>7 DEF item
  <2> QED
    BY <2>1, <2>2
<1>9. Ledger(b)
  <2>1. /\ Cardinality(hits) \in Nat /\ Cardinality(blank) \in Nat /\ Cardinality(rest) \in Nat
        /\ Cardinality(hits) + Cardinality(rest) + Cardinality(blank) = Cardinality(Growth!Fields(s))
    BY <1>1, <1>3, <1>4, ColumnsAdd DEF rest
  <2>2. \A u \in Batch : Len(acc.ids[u]) \in Nat
    BY <1>2, LenProperties DEF Sane, Numbered, Batch, Growth!Sections
  <2>3. \A u \in Batch : Len(b.ids[u]) = IF u = s THEN Len(acc.ids[u]) + 1 ELSE Len(acc.ids[u])
    BY <1>5 DEF Batch, Growth!Sections
  <2> DEFINE l == Len(acc.ids["locations"])  m == Len(acc.ids["npcs"])  q == Len(acc.ids["quests"])
             x == Len(b.ids["locations"])  y == Len(b.ids["npcs"])  z == Len(b.ids["quests"])
             h == Cardinality(hits)  e == Cardinality(blank)  o == Cardinality(rest)
  <2>4. /\ l \in Nat /\ m \in Nat /\ q \in Nat /\ h \in Nat /\ e \in Nat /\ o \in Nat
        /\ h + o + e = (x - l) + 2 * (y - m) + 2 * (z - q)
        /\ x \in Nat /\ y \in Nat /\ z \in Nat
    <3>1. CASE s = "locations"
      <4>1. x = l + 1 /\ y = m /\ z = q /\ h + o + e = 1
        BY <3>1, <2>1, <2>3, FieldsCount DEF Batch
      <4> QED
        BY <4>1, <2>1, <2>2 DEF Batch
    <3>2. CASE s = "npcs"
      <4>1. x = l /\ y = m + 1 /\ z = q /\ h + o + e = 2
        BY <3>2, <2>1, <2>3, FieldsCount DEF Batch
      <4> QED
        BY <4>1, <2>1, <2>2 DEF Batch
    <3>3. CASE s = "quests"
      <4>1. x = l /\ y = m /\ z = q + 1 /\ h + o + e = 2
        BY <3>3, <2>1, <2>3, FieldsCount DEF Batch
      <4> QED
        BY <4>1, <2>1, <2>2 DEF Batch
    <3> QED
      BY <3>1, <3>2, <3>3 DEF Batch
  <2>5. /\ acc.grounded \in Nat /\ acc.dangling \in Nat /\ acc.unspecified \in Nat
        /\ acc.grounded + acc.dangling + acc.unspecified = l + 2 * m + 2 * q
        /\ b.grounded = acc.grounded + h /\ b.unspecified = acc.unspecified + e /\ b.dangling = acc.dangling + o
    BY <1>2, <1>4 DEF Ledger
  <2> HIDE DEF l, m, q, x, y, z, h, e, o
  <2>6. /\ b.grounded \in Nat /\ b.dangling \in Nat /\ b.unspecified \in Nat
        /\ b.grounded + b.dangling + b.unspecified = x + 2 * y + 2 * z
    <3> DEFINE g == acc.grounded  d == acc.dangling  u == acc.unspecified
    <3>1. /\ g \in Nat /\ d \in Nat /\ u \in Nat /\ g + d + u = l + 2 * m + 2 * q
          /\ b.grounded = g + h /\ b.unspecified = u + e /\ b.dangling = d + o
      BY <2>5
    <3> HIDE DEF g, d, u
    <3>2. (g + h) + (d + o) + (u + e) = x + 2 * y + 2 * z
      <4>1. (g + h) + (d + o) + (u + e) = (g + d + u) + (h + o + e)
        BY <2>4, <3>1
      <4>2. (l + 2 * m + 2 * q) + ((x - l) + 2 * (y - m) + 2 * (z - q)) = x + 2 * y + 2 * z
        BY <2>4
      <4> QED
        BY <2>4, <3>1, <4>1, <4>2
    <3>3. g + h \in Nat /\ d + o \in Nat /\ u + e \in Nat
      <4>1. g \in Nat /\ d \in Nat /\ u \in Nat
        BY <3>1
      <4>2. h \in Nat /\ o \in Nat /\ e \in Nat
        BY <2>4
      <4> QED
        BY <4>1, <4>2
    <3> QED
      BY <3>1, <3>2, <3>3
  <2> QED
    BY <2>6 DEF Ledger, x, y, z
<1>10. b.ids["factions"] = <<>>
  BY <1>1, <1>5 DEF OnCanon, Growth!Sections
<1>11. OnCanon(b)
  BY <1>4, <1>5, <1>8, <1>9, <1>10 DEF OnCanon
<1> QED
  BY <1>5, <1>11 DEF b, item

\* A section of a batch, on the sections it refers to.
LEMMA BatchSectionIs ==
    ASSUME Planned, plan.mode = "expand", Replied, NEW acc, OnCanon(acc), NEW s \in Batch, Before(acc, s),
           acc.ids[s] = <<>>
    PROVE  LET b == Growth!PlaceSectionOnCanon(acc, payload, s)
           IN  OnCanon(b) /\ \A u \in Growth!Sections \ {s} : b.ids[u] = acc.ids[u]
<1> DEFINE kept == Growth!EnsureCount(payload[s], s)
           n == Len(kept)
           Is(k, d) == OnCanon(d) /\ Len(d.ids[s]) = k /\ \A u \in Growth!Sections \ {s} : d.ids[u] = acc.ids[u]
<1>1. s \in Growth!Sections /\ ItemsOf(payload[s], s)
  BY DEF Batch, Growth!Sections, Replied
<1>2. n \in Nat /\ \A k \in 1..n : k \in DOMAIN payload[s] /\ kept[k] = payload[s][k]
  BY <1>1, KeptIs
<1>3. PICK done : /\ done[0] = acc
                  /\ \A k \in 1..n : done[k] = Growth!PlaceOnCanon(done[k - 1], kept[k])
                  /\ Growth!PlaceSectionOnCanon(acc, payload, s) = done[n]
  BY <1>2, BatchLoop
<1> HIDE DEF kept, n
<1> DEFINE S == {k \in 0..n : Is(k, done[k])}
<1>4. 0 \in S
  <2>1. Len(<<>>) = 0
    OBVIOUS
  <2> QED
    BY <2>1, <1>2, <1>3
<1>5. ASSUME NEW k \in 0..(n - 1), k \in S PROVE k + 1 \in S
  <2> DEFINE m == k + 1
  <2>1. m \in 1..n /\ m - 1 = k /\ m \in 0..n
    BY <1>2
  <2>2. Is(k, done[k])
    BY <1>5
  <2> HIDE DEF m
  <2>3. done[m] = Growth!PlaceOnCanon(done[k], payload[s][m]) /\ m \in DOMAIN payload[s]
    BY <1>2, <1>3, <2>1
  <2> DEFINE d == done[k]  e == done[m]
  <2>4. OnCanon(d) /\ m = Len(d.ids[s]) + 1 /\ \A u \in Growth!Sections \ {s} : d.ids[u] = acc.ids[u]
    BY <2>2 DEF m
  <2>5. e = Growth!PlaceOnCanon(d, payload[s][m])
    BY <2>3
  <2> HIDE DEF d, e
  <2>6. Before(d, s)
    BY <2>4, FieldsAre DEF Before
  <2>7. OnCanon(e) /\ Len(e.ids[s]) = m /\ \A u \in Growth!Sections \ {s} : e.ids[u] = d.ids[u]
    BY <2>3, <2>4, <2>5, <2>6, OnCanonStep
  <2>8. Is(m, e)
    BY <2>4, <2>7
  <2>9. m \in S
    BY <2>1, <2>8 DEF e
  <2> QED
    BY <2>9 DEF m
<1>6. n \in S
  <2> HIDE DEF S
  <2>1. 0..n \subseteq S
    BY <1>2, <1>4, <1>5, CountingUpTo
  <2> QED
    BY <2>1, <1>2
<1>7. Is(n, done[n])
  BY <1>6
<1> QED
  BY <1>3, <1>7

\* A batch closes on the world, and its ledger accounts for it.
LEMMA BatchBundleIs ==
    ASSUME Planned, plan.mode = "expand", Replied
    PROVE  OnCanon(Growth!ExpandBundleFromPayload(payload))
<1> DEFINE z == Growth!Nothing
           b == Growth!PlaceSectionOnCanon(z, payload, "locations")
           c == Growth!PlaceSectionOnCanon(b, payload, "npcs")
           d == Growth!PlaceSectionOnCanon(c, payload, "quests")
<1>1. Shaped(z) /\ Sane(z) /\ \A s \in Growth!Sections : z.ids[s] = <<>>
  BY NothingIs
<1>2. z.grounded = 0 /\ z.dangling = 0 /\ z.unspecified = 0
  BY DEF Growth!Nothing
<1> HIDE DEF z
<1>3. OnCanon(z)
  <2>1. Len(<<>>) = 0
    OBVIOUS
  <2>2. Noted(z)
    BY <1>1, <2>1 DEF Noted
  <2>3. Len(z.ids["locations"]) = 0 /\ Len(z.ids["npcs"]) = 0 /\ Len(z.ids["quests"]) = 0
    BY <1>1, <2>1, SectionsAre
  <2>4. Ledger(z)
    BY <1>2, <2>3 DEF Ledger
  <2> QED
    BY <1>1, <2>2, <2>4 DEF OnCanon, Growth!Sections
<1>4. OnCanon(b) /\ \A u \in Growth!Sections \ {"locations"} : b.ids[u] = <<>>
  <2>1. Before(z, "locations") /\ "locations" \in Batch /\ z.ids["locations"] = <<>>
    BY <1>1 DEF Before, Batch, Growth!Sections
  <2> QED
    BY <1>1, <1>3, <2>1, BatchSectionIs
<1> HIDE DEF b
<1>5. OnCanon(c) /\ c.ids["quests"] = <<>>
  <2>1. Before(b, "npcs") /\ "npcs" \in Batch /\ b.ids["npcs"] = <<>>
    BY <1>4, SectionsAre DEF Before, Batch
  <2>2. OnCanon(c) /\ c.ids["quests"] = b.ids["quests"]
    BY <1>4, <2>1, SectionsAre, BatchSectionIs
  <2> QED
    BY <1>4, <2>2, SectionsAre
<1> HIDE DEF c
<1>6. OnCanon(d)
  <2>1. Before(c, "quests") /\ "quests" \in Batch
    BY <1>5, SectionsAre DEF Before, Batch
  <2> QED
    BY <1>5, <2>1, BatchSectionIs
<1> QED
  BY <1>6 DEF Growth!ExpandBundleFromPayload, z, b, c

-----------------------------------------------------------------------------
(* The chain of stages, and the draft it files. *)

DraftFields == {"ids", "ties", "left", "grounded", "dangling", "unspecified", "revised", "before"}
Telling == {"premise", "focus", "factions", "locations", "npcs", "quests"}

\* A new world on file.
SeedDraft ==
    /\ Numbered(draft.ids) /\ Tied(draft.ids, draft.ties) /\ Closed(draft.ids, draft.ties)
    /\ draft.revised = Growth!NoSection => Single(draft.ties)
    /\ \A s \in Growth!Sections : Len(draft.ids[s]) = plan.count[s]

GrowthInv ==
    /\ Planned /\ Replied
    /\ \A s \in Growth!Sections : Len(payload[s]) <= MaxOf[s]
    /\ stage \in Telling \cup {"critique", "assemble", "filed", "raised"}
    /\ round \in 0..Chances
    /\ stage \in Telling => round = 0
    /\ stage = "critique" => round < Chances
    /\ DOMAIN draft = DraftFields
    /\ stage # "filed" => draft = Growth!NoDraft
    /\ stage = "filed" /\ plan.mode = "seed" => SeedDraft
    /\ Growth!DraftCloses

LEMMA ReplyIs ==
    ASSUME Growth!WellFormed, NEW s \in Growth!Sections, NEW reply \in Growth!Replies(s)
    PROVE  ItemsOf(reply, s) /\ Len(reply) <= MaxOf[s]
<1>0. MaxOf[s] \in Nat
  BY DEF Growth!WellFormed
<1>1. PICK n \in 0..MaxOf[s] : reply \in [1..n -> Growth!Items(s)]
  BY DEF Growth!Replies
<1>2. n \in Nat
  BY <1>0
<1>3. reply \in Seq(Growth!Items(s)) /\ Len(reply) = n /\ DOMAIN reply = 1..n
  BY <1>1, <1>2, SeqDef, LenProperties
<1>4. reply \in Seq(Growth!Range(reply))
  BY <1>3, ListRange
<1>5. ASSUME NEW item \in Growth!Items(s) PROVE IsItem(item, s)
  <2> DEFINE refs == {r \in [Growth!Fields(s) -> UNION {Growth!Written(t) : t \in Growth!Fields(s)}] :
                        \A t \in Growth!Fields(s) : r[t] \in Growth!Written(t)}
  <2>1. PICK x \in NamesOf[s], r \in refs : item = [id |-> Growth!Id(s, x, 1), name |-> Growth!Name(x), ref |-> r]
    BY DEF Growth!Items
  <2>2. item.id = Growth!Id(s, x, 1) /\ item.name = Growth!Name(x) /\ DOMAIN item.ref = Growth!Fields(s)
    BY <2>1
  <2> QED
    BY <2>2 DEF IsItem, Growth!IsId, Growth!Id, Growth!Name
<1> QED
  BY <1>0, <1>1, <1>3, <1>4, <1>5 DEF ItemsOf

LEMMA NoItemsIs ==
    /\ DOMAIN Growth!NoItems = Growth!Sections
    /\ \A s \in Growth!Sections : ItemsOf(Growth!NoItems[s], s) /\ Len(Growth!NoItems[s]) = 0
<1>1. DOMAIN Growth!NoItems = Growth!Sections /\ \A s \in Growth!Sections : Growth!NoItems[s] = <<>>
  BY DEF Growth!NoItems
<1>2. ASSUME NEW s, NEW e, e = <<>> PROVE ItemsOf(e, s) /\ Len(e) = 0
  <2>1. DOMAIN e = {} /\ Len(e) = 0 /\ e \in Seq({})
    BY <1>2
  <2>2. e \in Seq(Growth!Range(e))
    BY <2>1, ListRange
  <2> QED
    BY <2>1, <2>2 DEF ItemsOf
<1> QED
  BY <1>1, <1>2

\* A bundle that says these things of itself has what a reviewer is promised of it.
Closing(ids, ties) ==
    /\ \A s \in Growth!Sections :
          /\ Growth!Range(ids[s]) \cap Growth!Range(plan.canon[s]) = {}
          /\ Growth!Cardinality(Growth!Range(ids[s])) = Len(ids[s])
    /\ \A tie \in ties :
          /\ \/ tie[3] \in Growth!Range(ids[tie[2]]) \cup Growth!Range(plan.canon[tie[2]])
             \/ plan.mode = "expand" /\ tie[3] \in Growth!LeftOut(tie[2], ids[tie[2]])
          /\ tie[2] \in Growth!Sections
    /\ \A s \in Growth!Sections : \A id \in Growth!Range(ids[s]), t \in Growth!Fields(s) :
          \/ \E tie \in ties : tie[1] = id /\ tie[2] = t
          \/ Growth!Range(ids[t]) = {} /\ plan.canon[t] = <<>>

LEMMA BundleCloses ==
    ASSUME NEW ids, NEW ties, Numbered(ids), Tied(ids, ties), Closed(ids, ties)
    PROVE  Closing(ids, ties)
<1>1. ASSUME NEW s \in Growth!Sections
      PROVE  /\ Growth!Range(ids[s]) \cap Growth!Range(plan.canon[s]) = {}
             /\ Growth!Cardinality(Growth!Range(ids[s])) = Len(ids[s])
  <2> DEFINE x == ids[s]  n == Len(x)  R == Growth!Range(x)  f == [k \in 1..n |-> x[k]]
  <2>1. x \in Seq(R) /\ \A j, k \in DOMAIN x : x[j] = x[k] => j = k
    BY DEF Numbered
  <2>2. n \in Nat /\ DOMAIN x = 1..n
    BY <2>1, LenProperties
  <2>3. f \in Bijection(1..n, R)
    <3>1. f \in [1..n -> R]
      BY <2>2 DEF Growth!Range
    <3>2. \A j, k \in 1..n : f[j] = f[k] => j = k
      BY <2>1, <2>2
    <3>3. \A y \in R : \E k \in 1..n : f[k] = y
      BY <2>2 DEF Growth!Range
    <3> HIDE DEF f, R
    <3>4. f \in Injection(1..n, R)
      BY <3>1, <3>2 DEF Injection, IsInjective
    <3>5. f \in Surjection(1..n, R)
      BY <3>1, <3>3 DEF Surjection
    <3> QED
      BY <3>4, <3>5 DEF Bijection
  <2> HIDE DEF f, R, n, x
  <2>4. Cardinality(R) = n
    BY <2>2, <2>3, FS_CountingElements DEF ExistsBijection
  <2>5. Growth!Cardinality(R) = n
    BY <2>4, GrowthCounts
  <2>6. R \cap Growth!Range(plan.canon[s]) = {}
    BY DEF Numbered, R, x
  <2> QED
    BY <2>5, <2>6 DEF R, n, x
<1>2. \A tie \in ties :
          /\ \/ tie[3] \in Growth!Range(ids[tie[2]]) \cup Growth!Range(plan.canon[tie[2]])
             \/ plan.mode = "expand" /\ tie[3] \in Growth!LeftOut(tie[2], ids[tie[2]])
          /\ tie[2] \in Growth!Sections
  <2> SUFFICES ASSUME NEW tie \in ties
               PROVE  /\ \/ tie[3] \in Growth!Range(ids[tie[2]]) \cup Growth!Range(plan.canon[tie[2]])
                         \/ plan.mode = "expand" /\ tie[3] \in Growth!LeftOut(tie[2], ids[tie[2]])
                      /\ tie[2] \in Growth!Sections
    OBVIOUS
  <2>1. tie[1][1] \in Growth!Sections /\ tie[2] \in Growth!Fields(tie[1][1]) /\ Lands(ids, tie[2], tie[3])
    BY DEF Tied
  <2> QED
    BY <2>1, FieldsAre DEF Lands
<1>3. \A t : Bare(ids, t) => Growth!Range(ids[t]) = {} /\ plan.canon[t] = <<>>
  BY DEF Bare, Growth!Range
<1>4. \A s \in Growth!Sections : \A id \in Growth!Range(ids[s]), t \in Growth!Fields(s) :
          \/ \E tie \in ties : tie[1] = id /\ tie[2] = t
          \/ Growth!Range(ids[t]) = {} /\ plan.canon[t] = <<>>
  BY <1>3 DEF Closed
<1> QED
  BY <1>1, <1>2, <1>4 DEF Closing

\* On file, it has what a reviewer is promised.
LEMMA OnFile ==
    ASSUME NEW ids, NEW ties, Closing(ids, ties), UNCHANGED plan, draft'.ids = ids, draft'.ties = ties,
           plan.mode = "seed" => \A s \in Growth!Sections : Len(ids[s]) = plan.count[s],
           plan.mode = "expand" =>
               /\ \A s \in Growth!Sections : draft'.left[s] = Growth!LeftOut(s, ids[s])
               /\ draft'.grounded + draft'.dangling + draft'.unspecified =
                     Len(ids["locations"]) + 2 * Len(ids["npcs"]) + 2 * Len(ids["quests"]),
           draft'.revised # Growth!NoSection =>
               /\ \A s \in Growth!Sections \ {draft'.revised} : ids[s] = draft'.before.ids[s]
               /\ \A tie \in draft'.before.ties :
                     tie[1][1] # draft'.revised /\ tie[2] # draft'.revised /\ tie[3] \in Growth!Range(ids[tie[2]])
                         => tie \in ties
    PROVE  Growth!DraftCloses'
<1>1. \A s \in Growth!Sections :
          /\ Growth!New(s)' \cap Growth!Range(plan'.canon[s]) = {}
          /\ Growth!Cardinality(Growth!New(s)') = Len(draft'.ids[s])
          /\ plan'.mode = "seed" => Len(draft'.ids[s]) = plan'.count[s]
  BY DEF Closing, Growth!New
<1>2. \A tie \in draft'.ties :
          \/ tie[3] \in Growth!New(tie[2])' \cup Growth!Range(plan'.canon[tie[2]])
          \/ plan'.mode = "expand" /\ tie[3] \in draft'.left[tie[2]]
  BY DEF Closing, Growth!New
<1>3. \A s \in Growth!Sections : \A id \in Growth!New(s)', t \in Growth!Fields(s) :
          (\E tie \in draft'.ties : tie[1] = id /\ tie[2] = t) \/ (Growth!New(t)' = {} /\ plan'.canon[t] = <<>>)
  <2>1. \A u : Growth!New(u)' = Growth!Range(ids[u])
    BY DEF Growth!New
  <2>2. \A s \in Growth!Sections : \A id \in Growth!Range(ids[s]), t \in Growth!Fields(s) :
           \/ \E tie \in ties : tie[1] = id /\ tie[2] = t
           \/ Growth!Range(ids[t]) = {} /\ plan.canon[t] = <<>>
    BY DEF Closing
  <2> SUFFICES ASSUME NEW s \in Growth!Sections, NEW id \in Growth!Range(ids[s]), NEW t \in Growth!Fields(s)
               PROVE  (\E tie \in ties : tie[1] = id /\ tie[2] = t) \/ (Growth!Range(ids[t]) = {} /\ plan.canon[t] = <<>>)
    BY <2>1
  <2> QED
    BY <2>2
<1>4. plan'.mode = "expand" =>
          draft'.grounded + draft'.dangling + draft'.unspecified =
              Len(draft'.ids["locations"]) + 2 * Len(draft'.ids["npcs"]) + 2 * Len(draft'.ids["quests"])
  OBVIOUS
<1>5. draft'.revised # Growth!NoSection =>
          /\ \A s \in Growth!Sections \ {draft'.revised} : draft'.ids[s] = draft'.before.ids[s]
          /\ \A tie \in draft'.before.ties :
                tie[1][1] # draft'.revised /\ tie[2] # draft'.revised /\ tie[3] \in Growth!New(tie[2])'
                    => tie \in draft'.ties
  BY DEF Growth!New
<1> QED
  BY <1>1, <1>2, <1>3, <1>4, <1>5 DEF Growth!DraftCloses

\* As long as nothing is on file, an invariant of the chain only has to look at the chain.
LEMMA NothingFiled ==
    ASSUME Planned, UNCHANGED plan, Replied', \A s \in Growth!Sections : Len(payload'[s]) <= MaxOf[s],
           stage' \in Telling \cup {"critique", "assemble", "raised"}, round' \in 0..Chances,
           stage' \in Telling => round' = 0, stage' = "critique" => round' < Chances,
           draft' = Growth!NoDraft
    PROVE  GrowthInv'
<1>1. Planned'
  BY DEF Planned
<1>2. DOMAIN draft' = DraftFields
  BY DEF Growth!NoDraft, DraftFields
<1>3. stage' # "filed"
  BY DEF Telling
<1>4. Growth!DraftCloses'
  BY <1>3 DEF Growth!DraftCloses
<1> QED
  BY <1>1, <1>2, <1>3, <1>4 DEF GrowthInv

LEMMA GrowthStart ==
    ASSUME Growth!WellFormed, Growth!Init
    PROVE  GrowthInv
<1>1. plan.mode \in {"seed", "expand"} /\ plan.canon \in Canons /\ plan.count \in Amounts
  BY DEF Growth!Init
<1>2. Planned
  BY <1>1 DEF Planned, Growth!WellFormed
<1>3. payload = Growth!NoItems /\ draft = Growth!NoDraft /\ round = 0 /\ stage \in {"premise", "focus"}
  BY DEF Growth!Init
<1>4. Replied /\ \A s \in Growth!Sections : Len(payload[s]) <= MaxOf[s]
  BY <1>3, NoItemsIs DEF Replied, Growth!WellFormed
<1>5. DOMAIN draft = DraftFields
  BY <1>3 DEF Growth!NoDraft, DraftFields
<1>6. stage \in Telling /\ stage # "filed" /\ stage # "critique"
  BY <1>3 DEF Telling
<1>7. Growth!DraftCloses
  BY <1>6 DEF Growth!DraftCloses
<1>8. round \in 0..Chances
  BY <1>3 DEF Growth!WellFormed
<1> QED
  BY <1>2, <1>3, <1>4, <1>5, <1>6, <1>7, <1>8 DEF GrowthInv

LEMMA AfterIs ==
    /\ \A s \in {"premise", "focus", "factions", "locations", "npcs"} : Growth!After[s] \in Telling
BY DEF Growth!After, Telling

\* A stage of the chain, and the rounds of the critic.
LEMMA SectionKeeps ==
    ASSUME Growth!WellFormed, GrowthInv, NEW s \in {"factions", "locations", "npcs"}, Growth!Section(s)
    PROVE  GrowthInv'
<1>1. s \in Growth!Sections /\ stage = s /\ stage \in Telling /\ stage # "filed"
  BY DEF Growth!Section, Growth!Sections, Telling
<1>2. PICK reply \in IF plan.count[s] = 0 THEN {<<>>} ELSE Growth!Replies(s) : payload' = [payload EXCEPT ![s] = reply]
  BY DEF Growth!Section
<1>3. ItemsOf(reply, s) /\ Len(reply) <= MaxOf[s]
  <2>1. CASE reply \in Growth!Replies(s)
    BY <2>1, <1>1, ReplyIs
  <2>2. CASE reply = <<>>
    <3>1. ItemsOf(Growth!NoItems[s], s) /\ Len(Growth!NoItems[s]) = 0 /\ Growth!NoItems[s] = <<>>
      BY <1>1, NoItemsIs DEF Growth!NoItems
    <3>2. MaxOf[s] \in Nat
      BY <1>1 DEF Growth!WellFormed
    <3> QED
      BY <2>2, <3>1, <3>2
  <2> QED
    BY <1>2, <2>1, <2>2
<1>4. Replied' /\ \A u \in Growth!Sections : Len(payload'[u]) <= MaxOf[u]
  BY <1>1, <1>2, <1>3 DEF GrowthInv, Replied
<1>5. stage' \in Telling /\ round' = 0 /\ round' \in 0..Chances /\ draft' = Growth!NoDraft /\ UNCHANGED plan /\ Planned
  BY <1>1, AfterIs DEF Growth!Section, GrowthInv
<1>6. stage' # "critique"
  BY <1>5 DEF Telling
<1> QED
  BY <1>4, <1>5, <1>6, NothingFiled

LEMMA QuestsKeeps ==
    ASSUME Growth!WellFormed, GrowthInv, Growth!Quests
    PROVE  GrowthInv'
<1>1. "quests" \in Growth!Sections /\ stage = "quests" /\ stage \in Telling /\ stage # "filed"
  BY DEF Growth!Quests, Growth!Sections, Telling
<1>2. PICK reply \in Growth!Replies("quests") : payload' = [payload EXCEPT !["quests"] = reply]
  BY DEF Growth!Quests
<1>3. ItemsOf(reply, "quests") /\ Len(reply) <= MaxOf["quests"]
  BY <1>1, ReplyIs
<1>4. Replied' /\ \A u \in Growth!Sections : Len(payload'[u]) <= MaxOf[u]
  BY <1>1, <1>2, <1>3 DEF GrowthInv, Replied
<1>5. round' = 0 /\ round' \in 0..Chances /\ draft' = Growth!NoDraft /\ UNCHANGED plan /\ Planned
  BY <1>1 DEF Growth!Quests, GrowthInv
<1>6. stage' = (IF Chances = 0 THEN "assemble" ELSE "critique") /\ Chances \in Nat
  BY DEF Growth!Quests, Growth!WellFormed
<1>7. stage' \in {"assemble", "critique"} /\ stage' \notin Telling /\ (stage' = "critique" => round' < Chances)
  BY <1>5, <1>6 DEF Telling
<1> QED
  BY <1>4, <1>5, <1>7, NothingFiled

LEMMA CritiqueKeeps ==
    ASSUME Growth!WellFormed, GrowthInv, Growth!Critique
    PROVE  GrowthInv'
<1>1. stage = "critique" /\ round' = round + 1 /\ UNCHANGED <<plan, draft>> /\ stage # "filed"
  BY DEF Growth!Critique
<1>2. Chances \in Nat /\ round \in Nat /\ round < Chances /\ Planned /\ draft' = Growth!NoDraft
  BY <1>1 DEF Growth!WellFormed, GrowthInv
<1>3. round' \in 0..Chances
  BY <1>1, <1>2
<1>4. /\ stage' \in {"assemble", "critique"} /\ (stage' = "critique" => round' # Chances)
      /\ UNCHANGED payload \/ \E reply \in Growth!Replies("quests") : payload' = [payload EXCEPT !["quests"] = reply]
  BY DEF Growth!Critique
<1>5. stage' \notin Telling /\ (stage' = "critique" => round' < Chances)
  BY <1>2, <1>3, <1>4 DEF Telling
<1>6. Replied' /\ \A u \in Growth!Sections : Len(payload'[u]) <= MaxOf[u]
  <2>1. CASE UNCHANGED payload
    BY <2>1 DEF GrowthInv, Replied
  <2>2. CASE \E reply \in Growth!Replies("quests") : payload' = [payload EXCEPT !["quests"] = reply]
    <3>1. PICK reply \in Growth!Replies("quests") : payload' = [payload EXCEPT !["quests"] = reply]
      BY <2>2
    <3>2. "quests" \in Growth!Sections
      BY DEF Growth!Sections
    <3>3. ItemsOf(reply, "quests") /\ Len(reply) <= MaxOf["quests"]
      BY <3>2, ReplyIs
    <3> QED
      BY <3>1, <3>2, <3>3 DEF GrowthInv, Replied
  <2> QED
    BY <1>4, <2>1, <2>2
<1> QED
  BY <1>1, <1>2, <1>3, <1>4, <1>5, <1>6, NothingFiled

\* What File leaves of a bundle.
LEMMA FileIs ==
    ASSUME GrowthInv, stage = "assemble", NEW b, Growth!File(b)
    PROVE  /\ draft'.ids = b.ids /\ draft'.ties = b.ties
           /\ \A s \in Growth!Sections : draft'.left[s] = Growth!LeftOut(s, b.ids[s])
           /\ draft'.grounded = b.grounded /\ draft'.dangling = b.dangling /\ draft'.unspecified = b.unspecified
           /\ draft'.revised = Growth!NoSection /\ DOMAIN draft' = DraftFields
           /\ stage' = "filed" /\ payload' = Growth!NoItems /\ UNCHANGED <<plan, round>>
<1>1. draft = Growth!NoDraft /\ DOMAIN draft = DraftFields
  BY DEF GrowthInv
<1>2. draft.revised = Growth!NoSection
  BY <1>1 DEF Growth!NoDraft
<1>3. draft' = [draft EXCEPT !.ids = b.ids, !.ties = b.ties,
                             !.left = [s \in Growth!Sections |-> Growth!LeftOut(s, b.ids[s])],
                             !.grounded = b.grounded, !.dangling = b.dangling, !.unspecified = b.unspecified]
  BY DEF Growth!File
<1> DEFINE left == [s \in Growth!Sections |-> Growth!LeftOut(s, b.ids[s])]
<1>4. \A s \in Growth!Sections : left[s] = Growth!LeftOut(s, b.ids[s])
  OBVIOUS
<1> HIDE DEF left
<1>5. draft'.left = left
  BY <1>1, <1>3 DEF left, DraftFields
<1> QED
  BY <1>1, <1>2, <1>3, <1>4, <1>5 DEF Growth!File, DraftFields

LEMMA FiledShape ==
    ASSUME Growth!WellFormed, Planned, UNCHANGED plan, stage' = "filed", payload' = Growth!NoItems \/ UNCHANGED payload,
           Replied, \A s \in Growth!Sections : Len(payload[s]) <= MaxOf[s], UNCHANGED round, round \in 0..Chances
    PROVE  /\ Planned' /\ Replied' /\ \A s \in Growth!Sections : Len(payload'[s]) <= MaxOf[s]
           /\ stage' \in Telling \cup {"critique", "assemble", "filed", "raised"} /\ round' \in 0..Chances
           /\ stage' \notin Telling /\ stage' # "critique"
<1>1. Planned'
  BY DEF Planned
<1>2. Replied' /\ \A s \in Growth!Sections : Len(payload'[s]) <= MaxOf[s]
  <2>1. CASE payload' = Growth!NoItems
    BY <2>1, NoItemsIs DEF Replied, Growth!WellFormed
  <2>2. CASE UNCHANGED payload
    BY <2>2 DEF Replied
  <2> QED
    BY <2>1, <2>2
<1> QED
  BY <1>1, <1>2 DEF Telling

\* What holds of a new world's bundle holds of it on file.
LEMMA SeedFiled ==
    ASSUME plan.mode = "seed", UNCHANGED plan, NEW ids, NEW ties, draft'.ids = ids, draft'.ties = ties,
           Numbered(ids), Tied(ids, ties), Closed(ids, ties),
           \A s \in Growth!Sections : Len(ids[s]) = plan.count[s],
           draft'.revised = Growth!NoSection => Single(ties)
    PROVE  SeedDraft'
<1>1. Numbered(draft.ids)'
  BY DEF Numbered
<1>2. Tied(draft.ids, draft.ties)'
  <2>1. \A t, to : Lands(ids, t, to) => to \in Growth!Range(ids[t]) \cup Growth!Range(plan.canon[t])
    BY DEF Lands
  <2>2. \A t, to : to \in Growth!Range(ids[t]) \cup Growth!Range(plan.canon[t]) => Lands(draft.ids, t, to)'
    BY DEF Lands
  <2> QED
    BY <2>1, <2>2 DEF Tied
<1>3. Closed(draft.ids, draft.ties)'
  BY DEF Closed, Bare
<1>4. Single(draft.ties)' <=> Single(ties)
  BY DEF Single
<1> QED
  BY <1>1, <1>2, <1>3, <1>4 DEF SeedDraft

LEMMA FileSeedKeeps ==
    ASSUME Growth!WellFormed, GrowthInv, Growth!FileSeed
    PROVE  GrowthInv'
<1> DEFINE b == Growth!BundleFromPayload(payload)
<1>1. stage = "assemble" /\ plan.mode = "seed" /\ Growth!File(b)
  BY DEF Growth!FileSeed
<1>2. Planned /\ Replied /\ \A s \in Growth!Sections : ItemsOf(payload[s], s)
  BY DEF GrowthInv, Replied
<1>3. Sane(b) /\ \A s \in Growth!Sections : Len(b.ids[s]) = plan.count[s]
  BY <1>1, <1>2, SeedBundleIs
<1> HIDE DEF b
<1>4. /\ draft'.ids = b.ids /\ draft'.ties = b.ties /\ draft'.revised = Growth!NoSection /\ DOMAIN draft' = DraftFields
      /\ stage' = "filed" /\ payload' = Growth!NoItems /\ UNCHANGED plan /\ UNCHANGED round
  BY <1>1, FileIs
<1>5. Numbered(b.ids) /\ Tied(b.ids, b.ties) /\ Closed(b.ids, b.ties) /\ Single(b.ties)
  BY <1>3 DEF Sane
<1>6. SeedDraft'
  BY <1>1, <1>3, <1>4, <1>5, SeedFiled
<1>7. Growth!DraftCloses'
  <2>1. Closing(b.ids, b.ties)
    BY <1>5, BundleCloses
  <2> QED
    BY <1>1, <1>3, <1>4, <2>1, OnFile
<1>8. stage # "filed"
  BY <1>1
<1>9. /\ Planned' /\ Replied' /\ \A s \in Growth!Sections : Len(payload'[s]) <= MaxOf[s]
      /\ stage' \in Telling \cup {"critique", "assemble", "filed", "raised"} /\ round' \in 0..Chances
      /\ stage' \notin Telling /\ stage' # "critique"
  BY <1>2, <1>4, FiledShape DEF GrowthInv
<1> QED
  BY <1>4, <1>6, <1>7, <1>9 DEF GrowthInv

LEMMA FileExpandKeeps ==
    ASSUME Growth!WellFormed, GrowthInv, Growth!FileExpand
    PROVE  GrowthInv'
<1> DEFINE b == Growth!ExpandBundleFromPayload(payload)
<1>1. stage = "assemble" /\ plan.mode = "expand" /\ Growth!File(b)
  BY DEF Growth!FileExpand
<1>2. Planned /\ Replied
  BY DEF GrowthInv
<1>3. OnCanon(b)
  BY <1>1, <1>2, BatchBundleIs
<1> HIDE DEF b
<1>4. /\ draft'.ids = b.ids /\ draft'.ties = b.ties /\ draft'.revised = Growth!NoSection /\ DOMAIN draft' = DraftFields
      /\ \A s \in Growth!Sections : draft'.left[s] = Growth!LeftOut(s, b.ids[s])
      /\ draft'.grounded = b.grounded /\ draft'.dangling = b.dangling /\ draft'.unspecified = b.unspecified
      /\ stage' = "filed" /\ payload' = Growth!NoItems /\ UNCHANGED plan /\ UNCHANGED round
  BY <1>1, FileIs
<1>5. Numbered(b.ids) /\ Tied(b.ids, b.ties) /\ Closed(b.ids, b.ties)
  BY <1>3 DEF OnCanon, Sane
<1>6. b.grounded + b.dangling + b.unspecified =
         Len(b.ids["locations"]) + 2 * Len(b.ids["npcs"]) + 2 * Len(b.ids["quests"])
  BY <1>3 DEF OnCanon, Ledger
<1>7. Growth!DraftCloses'
  <2>1. Closing(b.ids, b.ties)
    BY <1>5, BundleCloses
  <2> QED
    BY <1>1, <1>4, <1>6, <2>1, OnFile
<1>8. /\ Planned' /\ Replied' /\ \A s \in Growth!Sections : Len(payload'[s]) <= MaxOf[s]
      /\ stage' \in Telling \cup {"critique", "assemble", "filed", "raised"} /\ round' \in 0..Chances
      /\ stage' \notin Telling /\ stage' # "critique"
  BY <1>2, <1>4, FiledShape DEF GrowthInv
<1>9. plan'.mode # "seed"
  BY <1>1, <1>4
<1> QED
  BY <1>4, <1>7, <1>8, <1>9 DEF GrowthInv

LEMMA ReviseKeeps ==
    ASSUME Growth!WellFormed, GrowthInv, Growth!Revise
    PROVE  GrowthInv'
<1>1. stage = "filed" /\ plan.mode = "seed" /\ draft.revised = Growth!NoSection /\ UNCHANGED <<plan, stage, payload, round>>
  BY DEF Growth!Revise
<1>2. PICK r \in Growth!Sections : \E reply \in {x \in Growth!Replies(r) : Len(x) <= MaxRevised} :
         LET b == Growth!BundleFromPayload([Growth!PayloadFromBundle EXCEPT ![r] = reply])
         IN  draft' = [draft EXCEPT !.ids = b.ids, !.ties = b.ties \cup Growth!Kept(b), !.revised = r,
                                    !.before = [ids |-> draft.ids, ties |-> draft.ties]]
  BY DEF Growth!Revise
<1>3. PICK reply \in Growth!Replies(r) :
         LET b == Growth!BundleFromPayload([Growth!PayloadFromBundle EXCEPT ![r] = reply])
         IN  draft' = [draft EXCEPT !.ids = b.ids, !.ties = b.ties \cup Growth!Kept(b), !.revised = r,
                                    !.before = [ids |-> draft.ids, ties |-> draft.ties]]
  BY <1>2
<1> DEFINE items == [Again EXCEPT ![r] = reply]
           b == Growth!BundleFromPayload(items)
           ties == b.ties \cup Growth!Kept(b)
<1>4. draft' = [draft EXCEPT !.ids = b.ids, !.ties = ties, !.revised = r,
                             !.before = [ids |-> draft.ids, ties |-> draft.ties]]
  BY <1>3 DEF Again
<1>5. items[r] = reply /\ \A s \in Growth!Sections \ {r} : items[s] = Again[s]
  BY DEF Again, Growth!PayloadFromBundle
<1>6. ItemsOf(items[r], r)
  BY <1>5, ReplyIs
<1>7. Planned /\ Revisable
  BY <1>1 DEF GrowthInv, SeedDraft, Revisable
<1> HIDE DEF items
<1>8. \A s \in Growth!Sections : ItemsOf(items[s], s)
  BY <1>1, <1>5, <1>6, <1>7, RevisionKeepsIds
<1>9. \A s \in Growth!Sections \ {r} : b.ids[s] = draft.ids[s]
  BY <1>1, <1>5, <1>6, <1>7, RevisionKeepsIds DEF Unmoved
<1>10. Sane(b) /\ \A s \in Growth!Sections : Len(b.ids[s]) = plan.count[s]
  BY <1>1, <1>7, <1>8, SeedBundleIs
<1>11. \A tie \in draft.ties :
          tie[1][1] # r /\ tie[2] # r /\ tie[3] \in Growth!Range(b.ids[tie[2]]) => tie \in ties
  BY <1>1, <1>5, <1>6, <1>7, RevisionKeepsTies
<1>12. Tied(b.ids, Growth!Kept(b))
  BY <1>1, <1>7, <1>10, KeptAreTied
<1>13. Numbered(b.ids) /\ Tied(b.ids, ties) /\ Closed(b.ids, ties)
  BY <1>10, <1>12 DEF Sane, Tied, Closed
<1> HIDE DEF b, ties
<1>14. /\ draft'.ids = b.ids /\ draft'.ties = ties /\ draft'.revised = r /\ DOMAIN draft' = DraftFields
       /\ draft'.before.ids = draft.ids /\ draft'.before.ties = draft.ties
  BY <1>4 DEF GrowthInv, DraftFields
<1>15. r # Growth!NoSection
  BY DEF Growth!NoSection, Growth!Sections
<1>16. SeedDraft'
  BY <1>1, <1>10, <1>13, <1>14, <1>15, SeedFiled
<1>17. Growth!DraftCloses'
  <2>1. Closing(b.ids, ties)
    BY <1>13, BundleCloses
  <2> QED
    BY <1>1, <1>9, <1>10, <1>11, <1>14, <2>1, OnFile
<1>18. /\ Planned' /\ Replied' /\ \A s \in Growth!Sections : Len(payload'[s]) <= MaxOf[s]
       /\ stage' \in Telling \cup {"critique", "assemble", "filed", "raised"} /\ round' \in 0..Chances
       /\ stage' \notin Telling /\ stage' # "critique"
  BY <1>1, <1>7, FiledShape DEF GrowthInv
<1> QED
  BY <1>1, <1>14, <1>16, <1>17, <1>18 DEF GrowthInv

LEMMA GrowthStep ==
    ASSUME Growth!WellFormed, GrowthInv, [Growth!Next]_(Growth!vars)
    PROVE  GrowthInv'
<1>1. ASSUME stage # "filed", UNCHANGED <<plan, payload, draft, round>>, stage' \in Telling, stage \in Telling
      PROVE  GrowthInv'
  <2>1. stage' # "critique"
    BY <1>1 DEF Telling
  <2>2. Replied' /\ \A s \in Growth!Sections : Len(payload'[s]) <= MaxOf[s]
    BY <1>1 DEF GrowthInv, Replied
  <2> QED
    BY <1>1, <2>1, <2>2, NothingFiled DEF GrowthInv
<1>2. CASE Growth!Premise
  <2>1. stage = "premise" /\ stage' = Growth!After["premise"] /\ UNCHANGED <<plan, payload, draft, round>>
    BY <1>2 DEF Growth!Premise
  <2>2. stage \in Telling /\ stage # "filed" /\ stage' \in Telling
    BY <2>1, AfterIs DEF Telling
  <2> QED
    BY <1>1, <2>1, <2>2
<1>3. CASE Growth!Focus
  <2>1. stage = "focus" /\ stage' = Growth!After["focus"] /\ UNCHANGED <<plan, payload, draft, round>>
    BY <1>3 DEF Growth!Focus
  <2>2. stage \in Telling /\ stage # "filed" /\ stage' \in Telling
    BY <2>1, AfterIs DEF Telling
  <2> QED
    BY <1>1, <2>1, <2>2
<1>4. CASE Growth!Factions
  BY <1>4, SectionKeeps DEF Growth!Factions
<1>5. CASE Growth!Places
  BY <1>5, SectionKeeps DEF Growth!Places
<1>6. CASE Growth!Cast
  BY <1>6, SectionKeeps DEF Growth!Cast
<1>7. CASE Growth!Raise
  <2>1. stage # "filed" /\ stage' = "raised" /\ UNCHANGED <<plan, payload, draft, round>>
    BY <1>7 DEF Growth!Raise
  <2>2. stage' \notin Telling /\ stage' # "critique"
    BY <2>1 DEF Telling
  <2>3. Replied' /\ \A s \in Growth!Sections : Len(payload'[s]) <= MaxOf[s]
    BY <2>1 DEF GrowthInv, Replied
  <2> QED
    BY <2>1, <2>2, <2>3, NothingFiled DEF GrowthInv
<1>8. CASE Growth!Regrow
  <2>1. stage' = "focus" /\ draft' = Growth!NoDraft /\ round' = 0 /\ UNCHANGED <<plan, payload>>
    BY <1>8 DEF Growth!Regrow
  <2>2. stage' \in Telling /\ stage' # "critique" /\ round' \in 0..Chances
    BY <2>1 DEF Telling, Growth!WellFormed
  <2>3. Replied' /\ \A s \in Growth!Sections : Len(payload'[s]) <= MaxOf[s]
    BY <2>1 DEF GrowthInv, Replied
  <2> QED
    BY <2>1, <2>2, <2>3, NothingFiled DEF GrowthInv
<1>9. CASE UNCHANGED Growth!vars
  <2>1. UNCHANGED plan /\ UNCHANGED stage /\ UNCHANGED payload /\ UNCHANGED draft /\ UNCHANGED round
    BY <1>9 DEF Growth!vars
  <2>2. Planned' /\ Replied'
    BY <2>1 DEF GrowthInv, Planned, Replied
  <2>3. stage = "filed" /\ plan.mode = "seed" => SeedDraft'
    BY <2>1, SeedFiled DEF GrowthInv, SeedDraft
  <2>4. Growth!DraftCloses'
    <3>1. Growth!DraftCloses
      BY DEF GrowthInv
    <3>2. \A s : Growth!New(s)' = Growth!New(s)
      BY <2>1 DEF Growth!New
    <3> SUFFICES ASSUME stage' = "filed" PROVE Growth!DraftCloses'
      BY DEF Growth!DraftCloses
    <3> USE <2>1, <3>2
    <3>3. stage = "filed"
      OBVIOUS
    <3>4. (\A s \in Growth!Sections :
             /\ Growth!New(s) \cap Growth!Range(plan.canon[s]) = {}
             /\ Growth!Cardinality(Growth!New(s)) = Len(draft.ids[s])
             /\ plan.mode = "seed" => Len(draft.ids[s]) = plan.count[s])'
      BY <3>1, <3>3 DEF Growth!DraftCloses
    <3>5. (\A tie \in draft.ties :
             \/ tie[3] \in Growth!New(tie[2]) \cup Growth!Range(plan.canon[tie[2]])
             \/ plan.mode = "expand" /\ tie[3] \in draft.left[tie[2]])'
      BY <3>1, <3>3 DEF Growth!DraftCloses
    <3>6. (\A s \in Growth!Sections : \A id \in Growth!New(s), t \in Growth!Fields(s) :
             (\E tie \in draft.ties : tie[1] = id /\ tie[2] = t)
                 \/ (Growth!New(t) = {} /\ plan.canon[t] = <<>>))'
      BY <3>1, <3>3 DEF Growth!DraftCloses
    <3>7. (plan.mode = "expand" =>
             draft.grounded + draft.dangling + draft.unspecified =
                 Len(draft.ids.locations) + 2 * Len(draft.ids.npcs) + 2 * Len(draft.ids.quests))'
      BY <3>1, <3>3 DEF Growth!DraftCloses
    <3>8. (draft.revised # Growth!NoSection =>
             /\ \A s \in Growth!Sections \ {draft.revised} : draft.ids[s] = draft.before.ids[s]
             /\ \A tie \in draft.before.ties :
                  tie[1][1] # draft.revised /\ tie[2] # draft.revised /\ tie[3] \in Growth!New(tie[2])
                      => tie \in draft.ties)'
      BY <3>1, <3>3 DEF Growth!DraftCloses
    <3> QED
      BY ONLY <3>4, <3>5, <3>6, <3>7, <3>8 DEF Growth!DraftCloses
  <2> QED
    BY <2>1, <2>2, <2>3, <2>4 DEF GrowthInv
<1> QED
  BY <1>2, <1>3, <1>4, <1>5, <1>6, <1>7, <1>8, <1>9, QuestsKeeps, CritiqueKeeps, FileSeedKeeps, FileExpandKeeps,
     ReviseKeeps DEF Growth!Next

LEMMA GrowthAlways == Growth!WellFormed /\ Growth!Spec => []GrowthInv
<1> SUFFICES ASSUME Growth!WellFormed PROVE Growth!Spec => []GrowthInv
  OBVIOUS
<1>1. Growth!Init => GrowthInv
  BY GrowthStart
<1>2. GrowthInv /\ [Growth!Next]_(Growth!vars) => GrowthInv'
  BY GrowthStep
<1> QED
  BY <1>1, <1>2, PTL DEF Growth!Spec

\* A filed draft has as many items as a new world was asked for and takes no id of the world; every
\* tie ends at something that exists and is of the right kind, or at what a batch was told of and
\* left out; a field is open only if there was nothing to refer to; the ledger of a batch has every
\* field once; and a revision keeps the ids of the other sections and the ties among them.
THEOREM DraftsClose == Growth!WellFormed /\ Growth!Spec => []Growth!DraftCloses
<1>1. GrowthInv => Growth!DraftCloses
  BY DEF GrowthInv
<1> QED
  BY <1>1, GrowthAlways, PTL

\* A draft grows stage by stage, no section of a reply is longer than it may be, and the critic has
\* no more rounds than it was given.
THEOREM GrowthKeepsTypes == Growth!WellFormed /\ Growth!Spec => []Growth!TypeOK
<1>1. GrowthInv => Growth!TypeOK
  BY DEF GrowthInv, Growth!TypeOK, Telling, Growth!Sections
<1> QED
  BY <1>1, GrowthAlways, PTL
=============================================================================
