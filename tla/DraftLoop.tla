----------------------------- MODULE DraftLoop -----------------------------
(***************************************************************************)
(* How a draft is written, judged and rewritten before a human sees it     *)
(* (assist/drafts.py, refine.py, critic.py and the services built on       *)
(* them), and what is learned from the human's decisions (calibration.py,  *)
(* lessons.py).  One request at a time writes drafts; humans decide about  *)
(* the filed ones, or have them revised, meanwhile.                        *)
(***************************************************************************)
EXTENDS Naturals, Sequences, FiniteSets

CONSTANTS
    Kinds,          \* the kinds of draft asked for
    Rounds,         \* the values of refine_rounds
    MinFalsePass,   \* false passes before a lesson is written
    MaxItems, MaxRevisions, MaxReports

VARIABLES
    loop,       \* the request in progress
    queue,      \* the review items, oldest first
    revising,   \* the revision that waits for the model, or NoItem
    lessons,    \* how often each lesson was written, by kind and dimension
    reports     \* reports read so far

vars == <<loop, queue, revising, lessons, reports>>

AllKinds == {"quest", "character", "dialogue", "bark", "flavor"}
Dims     == {"general", "craft"}
NoItem   == 0

\* A draft: its version, what the deterministic check finds missing or wrong in it (readiness,
\* sections, structure, lint), and whether it adds audit errors.
Draft   == [v : 1..9, gaps : BOOLEAN, errs : BOOLEAN]
Drafts(kind, v) ==
    {d \in Draft : d.v = v /\ (d.errs => kind = "quest")}

\* A reply of the critic: whether a verdict can be read from it, its worst finding, and whether
\* some finding says what to do.
Reply == {r \in [json : BOOLEAN, verdict : {"pass", "revise", "other"}, worst : {"ok", "minor", "blocker"},
                 worded : BOOLEAN] :
             /\ r.worded => r.worst # "ok"
             /\ ~ r.json => r.verdict = "revise" /\ r.worst = "ok"}

\* (wrong: a pass is a pass)
ParsePlain(r) ==
    [ok |-> r.json, fixes |-> r.worded, dim |-> IF r.worst = "ok" THEN "general" ELSE "craft",
     blocker |-> r.worst = "blocker", verdict |-> IF r.verdict = "other" THEN "pass" ELSE r.verdict]

\* An unreadable reply is never a pass; a blocker overrules the word "pass" and every other word.
ParseCritique(r) ==
    [ok |-> r.json, fixes |-> r.worded, dim |-> IF r.worst = "ok" THEN "general" ELSE "craft",
     blocker |-> r.worst = "blocker",
     verdict |-> IF r.verdict = "revise" \/ r.worst = "blocker" THEN "revise" ELSE "pass"]

\* One retry when the first reply cannot be read, so the result is any reply.
CritiqueWithRetry == {ParseCritique(r) : r \in Reply}

\* No judgment yet, and so none that could not be read.
Unjudged == [v |-> 0, ok |-> TRUE, verdict |-> "none", dim |-> "general", blocker |-> FALSE, sound |-> FALSE]

Idle == [kind |-> "none", stage |-> "idle", rounds |-> 0, draft |-> [v |-> 1, gaps |-> FALSE, errs |-> FALSE],
         round |-> 0, last |-> Unjudged, speakers |-> 0]

Init ==
    /\ loop = Idle
    /\ queue = <<>>
    /\ revising = NoItem
    /\ lessons = [e \in AllKinds \X Dims |-> 0]
    /\ reports = 0

-----------------------------------------------------------------------------
(* The request. *)

Other == UNCHANGED <<revising, lessons, reports>>

\* The first draft.  A reply that cannot be parsed, retried once for a quest or a dialogue, ends
\* the request before it has written anything.
Begin(kind, speakers) ==
    /\ loop.stage = "idle"
    /\ kind \in Kinds
    /\ Len(queue) < MaxItems
    /\ \E n \in Rounds : \E d \in Drafts(kind, 1) :
         loop' = [kind |-> kind, stage |-> IF n = 0 THEN "file" ELSE "assess", rounds |-> n,
                  draft |-> d, round |-> 0, last |-> Unjudged, speakers |-> speakers]
    /\ UNCHANGED queue /\ Other

DraftQuest       == Begin("quest", 1)
DraftCharacter   == Begin("character", 1)
DraftDialogue    == Begin("dialogue", 1)
DraftFlavor      == Begin("flavor", 1)
DraftBarks       == \E speakers \in 1..2 : Begin("bark", speakers)

\* A quest may go on with gaps; the other kinds may not.
Accepted(c) ==
    /\ c.ok /\ c.verdict = "pass"
    /\ IF loop.kind = "quest" THEN ~ loop.draft.errs ELSE ~ loop.draft.gaps
Fixes(c) == c.fixes \/ loop.draft.gaps \/ loop.draft.errs

\* The critique of the draft: it is good enough, or nobody can say what to change, or it is
\* written again.
Assess ==
    /\ loop.stage = "assess"
    /\ \E c \in CritiqueWithRetry :
         loop' = [loop EXCEPT
             !.round = @ + 1,
             !.last = [v |-> loop.draft.v, ok |-> c.ok, verdict |-> c.verdict,
                       dim |-> IF c.ok /\ loop.kind # "quest" THEN c.dim ELSE "general",
                       blocker |-> c.blocker, sound |-> Accepted(c)],
             !.stage = IF Accepted(c) \/ ~ Fixes(c) THEN "file" ELSE "regenerate"]
    /\ UNCHANGED queue /\ Other

\* A bark batch that cannot be parsed leaves the batch as it was; a flavour batch becomes empty
\* entries, which are gaps.
Regenerate ==
    /\ loop.stage = "regenerate"
    /\ \E d \in Drafts(loop.kind, loop.draft.v + 1)
                \cup (IF loop.kind = "bark" THEN {loop.draft} ELSE {}) :
         loop' = [loop EXCEPT !.draft = d,
                              !.stage = IF loop.round = loop.rounds THEN "file" ELSE "assess"]
    /\ UNCHANGED queue /\ Other

\* The critic or the writer raises: the drafts of the request are lost, not what it has filed.
Raise ==
    /\ loop.stage \in {"assess", "regenerate"}
    /\ loop' = Idle
    /\ UNCHANGED queue /\ Other

\* The verdict recorded with a draft: the last round's, none if that could not be read
\* (critic_from_trail).
Recorded(last) == IF last.ok THEN last.verdict ELSE "none"

Item(verdict) ==
    [kind |-> loop.kind, v |-> loop.draft.v, status |-> "pending_review", verdict |-> verdict,
     dim |-> loop.last.dim, incomplete |-> ~ loop.last.ok,
     \* history: what the verdict is about, whether a human bounced it with a pass, how often it
     \* was revised
     judged |-> [v |-> loop.last.v, sound |-> loop.last.sound, blocker |-> loop.last.blocker],
     bounced |-> FALSE, revisions |-> 0]

FileAs(kind, verdict) ==
    /\ loop.stage = "file" /\ loop.kind = kind
    /\ queue' = Append(queue, Item(verdict))
    /\ loop' = Idle
    /\ Other

\* A quest whose id is taken gets another and is audited again.
FileQuest     == FileAs("quest", Recorded(loop.last))
FileCharacter == FileAs("character", Recorded(loop.last))
FileDialogue  == FileAs("dialogue", Recorded(loop.last))

\* Texts with lint issues are dropped; a batch without texts is not filed.
FileFlavor ==
    \/ FileAs("flavor", "none")
    \/ /\ loop.stage = "file" /\ loop.kind = "flavor" /\ loop.draft.gaps
       /\ loop' = Idle
       /\ UNCHANGED queue /\ Other

\* The same of the texts of one speaker; a speaker whose first reply cannot be parsed is skipped.
FileBarks ==
    /\ loop.stage = "file" /\ loop.kind = "bark"
    /\ \/ queue' = Append(queue, Item("none"))
       \/ loop.draft.gaps /\ UNCHANGED queue
    /\ \/ loop' = Idle
       \/ /\ loop.speakers > 1 /\ Len(queue') < MaxItems
          /\ \E d \in Drafts("bark", 1) :
                loop' = [loop EXCEPT !.stage = IF loop.rounds = 0 THEN "file" ELSE "assess",
                                     !.draft = d, !.round = 0, !.last = Unjudged, !.speakers = @ - 1]
    /\ Other

-----------------------------------------------------------------------------
(* The humans. *)

Decide ==
    /\ \E i \in DOMAIN queue, status \in {"accepted", "rejected"} :
         /\ queue[i].status = "pending_review"
         /\ queue' = [queue EXCEPT ![i].status = status,
                                   ![i].bounced = @ \/ (status = "rejected" /\ queue[i].verdict = "pass")]
    /\ UNCHANGED <<loop, revising, lessons, reports>>

\* revise_draft_action looks at the item, asks the model, and then writes over the item, which
\* may have been decided about in between; the recorded verdict stays.
BeginRevision ==
    /\ revising = NoItem
    /\ \E i \in DOMAIN queue :
         /\ queue[i].status = "pending_review"
         /\ queue[i].kind \in {"quest", "character", "dialogue"}
         /\ queue[i].revisions < MaxRevisions
         /\ revising' = i
    /\ UNCHANGED <<loop, queue, lessons, reports>>

EndRevision ==
    /\ revising # NoItem
    /\ \/ queue' = [queue EXCEPT ![revising].status = "pending_review", ![revising].v = @ + 1,
                                 ![revising].revisions = @ + 1]
       \/ UNCHANGED queue   \* the model's reply cannot be parsed
    /\ revising' = NoItem
    /\ UNCHANGED <<loop, lessons, reports>>

\* A draft the critic passed and the human rejected.
FalsePasses(kind, dim) ==
    {i \in DOMAIN queue : /\ queue[i].status = "rejected" /\ queue[i].verdict = "pass"
                          /\ queue[i].kind = kind /\ queue[i].dim = dim}

\* Reading the calibration report writes the lessons; each reading counts them again.
Calibrate ==
    /\ reports < MaxReports
    /\ reports' = reports + 1
    /\ lessons' = [e \in AllKinds \X Dims |->
                      lessons[e] + (IF Cardinality(FalsePasses(e[1], e[2])) >= MinFalsePass THEN 1 ELSE 0)]
    /\ UNCHANGED <<loop, queue, revising>>

Next ==
    \/ DraftQuest \/ DraftCharacter \/ DraftDialogue \/ DraftFlavor \/ DraftBarks
    \/ Assess \/ Regenerate \/ Raise
    \/ FileQuest \/ FileCharacter \/ FileDialogue \/ FileFlavor \/ FileBarks
    \/ Decide \/ BeginRevision \/ EndRevision \/ Calibrate

Spec == Init /\ [][Next]_vars

-----------------------------------------------------------------------------
\* What the proofs need of the constants: known kinds of draft, and numbers.
WellFormed ==
    /\ Kinds \subseteq AllKinds
    /\ Rounds \subseteq Nat
    /\ MinFalsePass \in Nat

\* A judgment, a request, and a draft as it was filed.
Verdicts  == {"none", "pass", "revise"}
Judgment  == [v : Nat, ok : BOOLEAN, verdict : Verdicts, dim : Dims, blocker : BOOLEAN, sound : BOOLEAN]
Request   == [kind : Kinds \cup {"none"}, stage : {"idle", "assess", "regenerate", "file"}, rounds : Nat,
              draft : Draft, round : Nat, last : Judgment, speakers : 0..2]
FiledItem == [kind : Kinds \cup {"none"}, v : Nat, status : {"pending_review", "accepted", "rejected"},
              verdict : Verdicts, dim : Dims, incomplete : BOOLEAN,
              judged : [v : Nat, sound : BOOLEAN, blocker : BOOLEAN], bounced : BOOLEAN, revisions : Nat]

TypeOK ==
    /\ loop \in Request
    /\ loop.round <= loop.rounds
    /\ queue \in Seq(FiledItem)
    /\ revising \in {NoItem} \cup DOMAIN queue
    /\ lessons \in [AllKinds \X Dims -> Nat]
    /\ reports \in Nat

\* assist/refine.py, calibration.py and lessons.py: a recorded "pass" was read from a reply
\* without a blocker, and is of the version that was filed unless the rounds ran out with a check
\* still failing, when that version is the next one; a filed draft whose last judgment could not
\* be read records none; and there is a lesson only where that many different drafts were passed
\* by the critic and bounced by a human.
Earned(x) ==
    x.verdict = "pass" => /\ ~ x.judged.blocker
                          /\ ~ x.incomplete
                          /\ x.v - x.revisions = x.judged.v + (IF x.judged.sound THEN 0 ELSE 1)
Bounced(k, d) == {i \in DOMAIN queue : queue[i].bounced /\ queue[i].kind = k /\ queue[i].dim = d}
PassIsEarned ==
    /\ \A i \in DOMAIN queue : Earned(queue[i])
    /\ \A k \in AllKinds, d \in Dims : lessons[<<k, d>>] > 0 => Cardinality(Bounced(k, d)) >= MinFalsePass

\* What that rests on: the version that is about to be filed is the one the last judgment passed, or the
\* next one when the checks failed what the critic passed; and every rejection of a pass is remembered.
LoopInv ==
    /\ loop.stage = "assess" => loop.round < loop.rounds
    /\ loop.last.verdict = "pass" => ~ loop.last.blocker
    /\ loop.stage = "regenerate" => loop.last.v = loop.draft.v /\ ~ loop.last.sound
    /\ loop.stage = "file" /\ loop.kind # "bark" /\ loop.last.ok /\ loop.last.verdict = "pass" =>
           loop.draft.v = loop.last.v + (IF loop.last.sound THEN 0 ELSE 1)
RejectedPassBounced ==
    \A i \in DOMAIN queue : queue[i].status = "rejected" /\ queue[i].verdict = "pass" => queue[i].bounced

DraftInv == TypeOK /\ LoopInv /\ RejectedPassBounced /\ PassIsEarned
=============================================================================
