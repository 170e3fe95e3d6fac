----------------------------- MODULE MCWorkflow -----------------------------
(***************************************************************************)
(* The parts of OWC beside the review queue, the patches, the jobs and the *)
(* gateway: ledgers and files kept beside the world, the agents and the    *)
(* generators that fill the queue, the analyses of quests, the audit and   *)
(* the release, answers, imports and extraction.  They share no variable,  *)
(* so a behaviour is a behaviour of one of them, chosen by focus, and no   *)
(* property needs their interleaving.                                      *)
(***************************************************************************)
EXTENDS Naturals, Sequences, FiniteSets

LOCAL INSTANCE TLC

CONSTANTS
    Focuses,        \* the parts explored
    o1, o2, r1, r2, other, NoCase, Nobody, npc, place, q1, q2, spare,
    Worlds

VARIABLES
    focus,
    text, cases, clerk, touched, rewrites,
    collab, seat, promised, lost,
    files, torn, snaps, writer, overwritten, ops, crashes,
    s1, s2, s3, s4, s5, s6, s7      \* the state of the part in focus, for the parts below

\* The two that overlap, requests, clerks, users or authors, are treated alike and in every part both appear.
MCSymmetry == Permutations({r1, r2})

SerialCases  == INSTANCE ComplianceCases WITH
    Objects <- {o1}, Clerks <- {other}, MaxActive <- 1, MaxTrail <- 5, MaxRewrites <- 2
OverlapCases == INSTANCE ComplianceCases WITH
    Objects <- {o1}, Clerks <- {r1, r2}, MaxActive <- 2, MaxTrail <- 5, MaxRewrites <- 0
Collab       == INSTANCE CollabLedger WITH
    Users <- {r1, r2}, Refs <- {o1}, MaxServed <- 2, MaxComments <- 1
Refactor     == INSTANCE CanonRefactor WITH
    Ids <- {npc, place, q1, q2, spare}, MaxOps <- 3, MaxSnaps <- 1, MaxCrashes <- 1

Ref(site, owner, to) == [site |-> site, owner |-> owner, to |-> to]

\* A clean world with a reference at every site.
PlainWorld ==
    [entities |-> {npc, place}, quests |-> {q1, q2},
     refs |-> {Ref("relation", npc, place), Ref("quest.entity", q1, npc), Ref("stage.location", q1, place),
               Ref("quest.prerequisite", q1, q2), Ref("event_ref", q2, npc)}]

\* A clean world where an entity and a quest have the same id.
SharedIdWorld ==
    [entities |-> {npc}, quests |-> {npc, q1},
     refs |-> {Ref("quest.entity", q1, npc), Ref("quest.prerequisite", q1, npc)}]

AllWorlds   == {PlainWorld, SharedIdWorld}
PlainWorlds == {PlainWorld}

\* A new world or a batch, with two places of which one may be one too many.
MostGrown  == [factions |-> 1, locations |-> 2, npcs |-> 1, quests |-> 1]
GrownNames == [factions |-> {"a"}, locations |-> {"a", "b"}, npcs |-> {"b"}, quests |-> {"a"}]
\* The world is blank or has something of each section; one of each is asked for, or a quest only.
SmallCanons == {[s \in DOMAIN MostGrown |-> <<>>],
                [s \in DOMAIN MostGrown |-> IF s = "quests" THEN <<>> ELSE <<<<s, "a", 1>>>>]}
SmallCounts == {[s \in DOMAIN MostGrown |-> 1], [s \in DOMAIN MostGrown |-> IF s = "quests" THEN 1 ELSE 0]}

Agent == INSTANCE ReactAgent WITH
    mode <- s1, transcript <- s2, cache <- s3, prompt <- s4, planned <- s5, stop <- s6,
    Registered <- {"audit_project", "apply_patch"}, CanonWriting <- {"apply_patch"},
    Scope <- {"audit_project", "apply_patch"},
    MaxSteps <- 5, MaxCalls <- 3, KeepRecent <- 1, Budget <- 4, Trigger <- 2, Sizes <- {1, 2}
Session == INSTANCE MultiAgent WITH
    board <- s1, tasks <- s2, next <- s3, diag <- s4, results <- s5, degraded <- s6, stage <- s7,
    Strangers <- {"diagnosis_01"}, Errors <- 1, Counts <- {0, 1}, MaxTasks <- 3
DraftRequests == INSTANCE DraftLoop WITH
    loop <- s1, queue <- s2, revising <- s3, lessons <- s4, reports <- s5,
    Kinds <- {"quest", "character", "dialogue", "bark", "flavor"}, Rounds <- {0, 1}, MinFalsePass <- 2,
    MaxItems <- 2, MaxRevisions <- 1, MaxReports <- 1
Growth == INSTANCE WorldGen WITH
    plan <- s1, stage <- s2, payload <- s3, draft <- s4, round <- s5,
    Canons <- SmallCanons, Counts <- SmallCounts,
    NamesOf <- GrownNames, MaxOf <- MostGrown, MaxRevised <- 1, Rounds <- 1
Texts == INSTANCE LogicText WITH
    text <- s1, stage <- s2, tree <- s3, errors <- s4, value <- s5,
    MaxDepth <- 3
Played == INSTANCE MCQuests WITH MaxDepth <- 3
QuestPlay == INSTANCE QuestLogic WITH
    world <- s1, reported <- s2, done <- s3, values <- s4, run <- s5,
    MaxDepth <- 3, Quests <- Played!Versions, Defaults <- Played!Defaults
Shipped == INSTANCE MCWorlds WITH MaxChars <- 4, LongEnough <- 2
Release == INSTANCE ReleaseGate WITH
    world <- s1, table <- s2, baseline <- s3, at <- s4, disk <- s5, last <- s6, spent <- s7,
    MaxChars <- 4, LongEnough <- 2, Requests <- {r1, r2}, Worlds <- Shipped!AllWorlds, Edits <- Shipped!Fixes,
    MaxEdits <- 1, MaxRequests <- 2
Inputs == INSTANCE MCInputs WITH
    q3 <- spare, Ghost <- npc, Swapped <- place, Stuck <- other, Unset <- Nobody, Intact <- o1, Broken <- o2
Lore == INSTANCE LoreAnswers WITH
    world <- s1, library <- s2, index <- s3, vectors <- s4, reports <- s5, reqs <- s6, spent <- s7,
    RefOrder <- Inputs!RefOrder, Requests <- {r1, r2}, Worlds <- Inputs!LoreWorlds,
    FirstWorld <- Inputs!FirstLore, Questions <- {"a"}, Sources <- {"novel"}, Models <- {"st"},
    MaxEdits <- 1, MaxServed <- 2
Arrivals == INSTANCE Intake WITH
    world <- s1, uploaded <- s2, queue <- s3, at <- s4, past <- s5, spent <- s6,
    Stem <- Inputs!StemOf, Split <- Inputs!SplitCell, Spans <- Inputs!Quotes, IllFormed <- Inputs!BadIds,
    Locales <- Inputs!Languages, Requests <- {r1, r2}, Files <- Inputs!TheFiles, Mappings <- Inputs!TheMappings,
    Uploads <- {"cast", "new cast"}, Sources <- Inputs!TheSources, Proposals <- Inputs!TheAnswers,
    FirstWorld <- Inputs!Before, Edited <- Inputs!Touched, MaxRequests <- 2, MaxEdits <- 1
Distilled == INSTANCE Manuscript WITH
    plan <- s1, at <- s2, merged <- s3, heard <- s4, failed <- s5, draft <- s6, filed <- s7,
    Base <- 3, Most <- 6, Budget <- 2, Overlap <- 1, Grow <- 1,
    NameOrder <- Inputs!Names, Slugs <- Inputs!SlugOf, Where <- Inputs!Positions, Near <- 2,
    Existing <- Inputs!InWorld, TextsPlanned <- Inputs!AllTexts, TextsRead <- Inputs!ReadTexts,
    Replies <- Inputs!Payloads, GleanRounds <- 1, MaxVerdicts <- 1
Edits == INSTANCE QuestEdits WITH
    quests <- s1, req <- s2, shown <- s3, edits <- s4,
    Authors <- {r1, r2}, Quests <- {q1, q2}, MaxEdits <- 3
Repairs == INSTANCE RepairSearch WITH
    root <- s1, tree <- s2, popped <- s3, walk <- s4, best <- s5, iterations <- s6,
    Fields <- {q1, q2, spare}, Vals <- {npc, place, other}, None <- Nobody, Triples <- {o1, o2}, MaxRels <- 3,
    Failed <- NoCase, Dangling <- {o2}, BadVals <- {npc}, Flawed <- {place, other},
    Proposed <- Inputs!Competing, Roots <- Inputs!Repairables, MaxDepth <- 2, MaxIterations <- 9

\* The small instances are among those that the theorems are about.
ASSUME WellFormedInstances ==
    /\ SerialCases!WellFormed /\ OverlapCases!WellFormed
    /\ Refactor!WellFormed
    /\ DraftRequests!WellFormed
    /\ Agent!WellFormed
    /\ Growth!WellFormed
    /\ Repairs!WellFormed
    /\ Lore!WellFormed
    /\ Arrivals!WellFormed
    /\ Distilled!WellFormed
    /\ Release!WellFormed

CasesVars    == <<text, cases, clerk, touched, rewrites>>
CollabVars   == <<collab, seat, promised, lost>>
RefactorVars == <<files, torn, snaps, writer, overwritten, ops, crashes>>
SlotVars     == <<s1, s2, s3, s4, s5, s6, s7>>
NamedVars    == <<CasesVars, CollabVars, RefactorVars>>

\* The parts whose state is in the slots.
SlotInit ==
    CASE focus = "agent"   -> Agent!Init /\ s7 = 0
      [] focus = "session" -> Session!Init
      [] focus = "drafts" -> DraftRequests!Init /\ s6 = 0 /\ s7 = 0
      [] focus = "worldgen" -> Growth!Init /\ s6 = 0 /\ s7 = 0
      [] focus = "expressions" -> Texts!Init /\ s6 = 0 /\ s7 = 0
      [] focus = "quests" -> QuestPlay!Init /\ s6 = 0 /\ s7 = 0
      [] focus = "release" -> Release!Init
      [] focus = "lore" -> Lore!Init
      [] focus = "intake" -> Arrivals!Init /\ s7 = 0
      [] focus = "extraction" -> Distilled!Init
      [] focus = "edits" -> Edits!Init /\ s5 = 0 /\ s6 = 0 /\ s7 = 0
      [] focus = "repair" -> Repairs!Init /\ s7 = 0
      [] OTHER -> s1 = 0 /\ s2 = 0 /\ s3 = 0 /\ s4 = 0 /\ s5 = 0 /\ s6 = 0 /\ s7 = 0

\* Only one of the two instances of the cases runs; without two clerks the second has no state.
Init ==
    /\ focus \in Focuses
    /\ IF focus = "overlapping cases" THEN OverlapCases!Init ELSE SerialCases!Init
    /\ focus \in {"cases", "overlapping cases"} \/ text = [o \in {o1} |-> "clean"]
    /\ Collab!Init
    /\ Refactor!Init
    /\ focus = "refactor" \/ files = PlainWorld
    /\ SlotInit

Next ==
    /\ UNCHANGED focus
    /\ \/ focus = "cases" /\ SerialCases!Next /\ UNCHANGED <<CollabVars, RefactorVars, SlotVars>>
       \/ focus = "overlapping cases" /\ OverlapCases!Next /\ UNCHANGED <<CollabVars, RefactorVars, SlotVars>>
       \/ focus = "collab" /\ Collab!Next /\ UNCHANGED <<CasesVars, RefactorVars, SlotVars>>
       \/ focus = "refactor" /\ Refactor!Next /\ UNCHANGED <<CasesVars, CollabVars, SlotVars>>
       \/ focus = "agent" /\ Agent!Next /\ UNCHANGED <<NamedVars, s7>>
       \/ focus = "session" /\ Session!Next /\ UNCHANGED NamedVars
       \/ focus = "drafts" /\ DraftRequests!Next /\ UNCHANGED <<NamedVars, s6, s7>>
       \/ focus = "worldgen" /\ Growth!Next /\ UNCHANGED <<NamedVars, s6, s7>>
       \/ focus = "expressions" /\ Texts!Next /\ UNCHANGED <<NamedVars, s6, s7>>
       \/ focus = "quests" /\ QuestPlay!Next /\ UNCHANGED <<NamedVars, s6, s7>>
       \/ focus = "release" /\ Release!Next /\ UNCHANGED NamedVars
       \/ focus = "lore" /\ Lore!Next /\ UNCHANGED NamedVars
       \/ focus = "intake" /\ Arrivals!Next /\ UNCHANGED <<NamedVars, s7>>
       \/ focus = "extraction" /\ Distilled!Next /\ UNCHANGED NamedVars
       \/ focus = "edits" /\ Edits!Next /\ UNCHANGED <<NamedVars, s5, s6, s7>>
       \/ focus = "repair" /\ Repairs!Next /\ UNCHANGED <<NamedVars, s7>>

vars == <<focus, NamedVars, SlotVars>>

Spec == Init /\ [][Next]_vars

-----------------------------------------------------------------------------
\* The types of the parts' variables.
TypeOK ==
    /\ IF focus = "overlapping cases" THEN OverlapCases!TypeOK ELSE SerialCases!TypeOK
    /\ Collab!TypeOK
    /\ Refactor!TypeOK
    /\ focus = "agent" => Agent!TypeOK
    /\ focus = "session" => Session!TypeOK
    /\ focus = "drafts" => DraftRequests!TypeOK
    /\ focus = "worldgen" => Growth!TypeOK
    /\ focus = "expressions" => Texts!TypeOK
    /\ focus = "quests" => QuestPlay!TypeOK
    /\ focus = "release" => Release!TypeOK
    /\ focus = "lore" => Lore!TypeOK
    /\ focus = "intake" => Arrivals!TypeOK
    /\ focus = "extraction" => Distilled!TypeOK
    /\ focus = "edits" => Edits!TypeOK
    /\ focus = "repair" => Repairs!TypeOK

\* ComplianceCases: the trail of a case is an unbroken legal path to its status, also when
\* requests overwrite each other's ledgers.
TrailExplainsStatus == OverlapCases!TrailExplainsStatus

\* ComplianceCases, served one at a time: nothing is ever taken out of a trail, and a listed word in
\* a case signed off came after the rescan that passed it.
CasesKeepTheirWord == [][focus = "cases" => SerialCases!TrailKept /\ SerialCases!WordCameLater]_cases

\* ComplianceCases: a violation that is not gone is never signed off.
SignedOffIsGone == SerialCases!SignedOffIsGone

\* CollabLedger: a lock or a comment that was acknowledged is there, unless a request that had not
\* seen its entry change has written over it.
LedgerKeepsItsWord == Collab!LedgerKeepsItsWord

\* CanonRefactor: a restore that ends has put back exactly its snapshot.
RestoreIsExact == Refactor!RestoreIsExact

\* CanonRefactor: what a rename has begun to write over is in a snapshot, and it breaks none of the
\* references it follows while ids are not shared.
RenameIsSafe == Refactor!UndoPoint /\ Refactor!FollowedResolve

\* ReactAgent: what a planning call is shown accounts for every turn of the transcript.
PromptTellsAll == focus = "agent" => Agent!PromptTellsAll

\* MultiAgent: the report accounts for every task, and every claim was measured once.
ReportAccounts == focus = "session" => Session!ReportAccounts

\* DraftLoop: a recorded pass was earned, and a lesson needs enough false passes.
PassIsEarned == focus = "drafts" => DraftRequests!PassIsEarned

\* WorldGen: every reference of a filed draft lands, and a revision keeps the rest.
DraftCloses == focus = "worldgen" => Growth!DraftCloses

\* LogicText: an expression that was saved without a type error never fails when it is played,
\* unless it reads a reputation, which is typed an integer and seeded a boolean; and what is
\* rendered from a saved tree is parsed to that tree again, within the nesting allowed and unless
\* a comparison is compared, just when no string in it holds a double quote.
TextIsKept == focus = "expressions" => Texts!TextIsKept

\* QuestLogic: a quest reported as unreachable is never played, if all names are known; a playtest
\* stays on the stages that the audit of the quest finds reachable; and one that completes refutes
\* a reported deadlock, unless it ended in a branch without a target and without an outcome.
ReportsAreTrue == focus = "quests" => QuestPlay!ReportsAreTrue

\* ReleaseGate: once no audit is being saved, the open rows are what the last one found open, if
\* it was saved with no other beside it; a release whose bundle has the checksum of its manifest is
\* free of errors and of AI content that nobody reviewed, can be played in some order, and keeps
\* its conversations inside their trees; and what the harness calls past review, the gate lets out.
ReleaseIsSound == focus = "release" => Release!ReleaseIsSound

\* LoreAnswers: a grounded answer cites the world as it was loaded, a search shows the library as it is
\* filed, a vector is stored under the model that computed it, a finished overview tells of the
\* communities as they are but for the kinds of their members, and the impact of an object names whoever refers to it.
AnswersHold == focus = "lore" => Lore!AnswersHold

\* Intake: what was written last stays and what is filed is new, unless overlapping requests or
\* ids that are given twice come between; and a file that is in the world comes again quietly.
IntakeHolds == focus = "intake" => Arrivals!IntakeHolds

\* Manuscript: a plan of chunks is within its budget and says no more than it reads; whatever was told
\* of a manuscript is in the draft, or left open, under a name that it answers to; and chunks that were
\* lost and descriptions that are missing are reported.
DraftTellsAll == focus = "extraction" => Distilled!DraftTellsAll

\* QuestEdits: an edit with an etag that no other save overtook replaces the very quest its author was shown and
\* nothing else, and the etag of an answer is that of the files.
EditsAreSeen == [][focus = "edits" => Edits!EditsAreSeen]_<<s1, s2, s3, s4>>

\* RepairSearch: a plan replays to the count of errors it claims, makes nothing worse on the way, is better than
\* none, and is as good as any when everything was tried.
PlanHolds == focus = "repair" => Repairs!PlanHolds

\* CanonRefactor: a rename adds no audit error to a clean world.
RenameStaysClean == Refactor!RenameStaysClean
=============================================================================
