# OWC (Open-World Copilot) in TLA+

OWC keeps the canonical lore of a game (entities, relations, quests, regions,
dialogue trees, ...) in JSON files, audits it with deterministic rules, lets a
language model draft additions and repairs, and puts a person between every
draft and the files. This directory holds TLA+ models of the parts of OWC that
decide what ends up in those files and what the operator is told about it, the
TLC runs that check them, and machine-checked proofs of their central
invariants. Paths below are relative to `src/src/owcopilot/`.

## 1. Inventory

There is no global lock and no thread pool of OWC's own. Concurrency comes
from FastAPI (every synchronous endpoint runs on a worker thread), from the
background job threads of `service/jobs.py`, and from other processes (CLI, MCP
server) that open the same project directory. Every request opens its own
`ProjectContext`: a snapshot of the files plus a handle on the SQLite store.

| component | state | operations | hard behaviour | what makes it correct |
|---|---|---|---|---|
| review queue and decisions (`pipeline/review.py`, `assist/review_queue.py`) | `review_items` rows: status, payload, decided_by | add, decide (accept / reject), revise | status read, files written and status written in separate steps; crash between them; two tabs | only accepted drafts reach the files, in the version shown; decisions are final; gates hold when the files are written |
| patch repair loop (`patches/`, `pipeline/patches.py`) | `patches` rows: status, operations, rollback operations | suggest, apply, rollback, search | operations address list positions; a crash between the file and the row; same id suggested again | applied once, adds no error, can be undone |
| content store, snapshots (`content/store.py`, `content/models.py`, `content/snapshot.py`) | one JSON file per object plus list files; snapshots | load, save, hash; snapshot, restore, diff | a save writes the whole bundle that was loaded, a file at a time | a save changes only what its request is about; what it destroys can be restored |
| refactoring (`content/refactor.py`) | none of its own | plan and apply a rename | an id is used at many kinds of places | no reference is left behind; there is an undo point |
| direct edits (`app/actions.py`) | none of their own | create, delete, update_quest (etag), relations | read, check and write are separate | no lost update; stale editors are refused |
| audit and issues (`audit/`, `pipeline/audit.py`) | `issues` rows | run, baseline, mark resolved | the issue table follows the snapshot that was audited | the open errors are those of the files |
| background jobs and streams (`service/jobs.py`, `service/api.py`) | table of jobs, event lists, one Condition | submit, emit, finish, prune, tail | wake-ups, pruning under a reader, final event and status in two critical sections | complete and ordered streams that end |
| LLM gateway (`llm/`) | process-wide layered cache, breaker state | complete, retry, fail over, cache | shared cache, retries against a breaker | an answer belongs to its request; a dead provider is spared |
| collaboration (`collab/`) | a JSON ledger of assignments, comments, locks | assign, comment, lock, unlock | the ledger is loaded, changed and saved without a lock | one holder per lock; nothing forgotten |
| compliance (`compliance/`) | a JSON ledger of cases | sweep, transition, rescan, sign off | cases follow a text that changes under them | nothing is signed off that is still violated |
| localization, assets (`localization/`, `assets/`) | JSON ledgers | assign, transition; attach, detach | same ledger pattern as collaboration | the status graph |
| ReAct agent (`agent/`) | transcript, cached summary | plan, call tools, compress | which turns a prompt still shows | the model is shown, or told that it is not shown, every turn |
| multi-agent session (`multi_agent/`) | blackboard of messages | assign, claim, run, verify, sum up | workers and models that fail; claims by position | every task and claim is accounted for |
| drafting (`assist/`) | drafts on the way to the queue, lessons | draft, judge, regenerate, revise, calibrate | the verdict and the version it is about | a recorded pass was earned |
| world generation (`worldgen/`) | the replies of the stages | premise to quests, critique, revise | references between independent replies | every reference of a draft lands |
| quest logic (`logic/`) | none | parse, type, render, audit, simulate | static analyses against what is played | issues are real; texts survive an edit |
| extraction (`extraction/`) | chunks, merged facts | plan, extract, glean, merge, judge, file | replies that fail; names that meet | nothing told is lost in silence |
| import and recognition (`content/importers/`, `content/ingest.py`, `recognize/`) | uploads, plans | read, normalise, compare, import, file | overlapping imports; the same file twice | nothing written is lost; what is filed is new |
| retrieval, answers, overview, library (`retrieval/`, `qa/`, `inspiration/`, `graph/`, `impact/`) | index rows, vectors, community reports | index, embed, recall, verify, summarise | one index for all requests; a model that may not load | an answer cites the world it is about |
| release (`pipeline/export_gate.py`, `exporters/`, `readiness/`) | files of a release, manifest, baseline | gate, write, sum | a world that changes between gate and write | what the manifest vouches for passed the gate |
| platform, workspaces, API, CLI, MCP | users, tokens, directories | adapters over the actions | rate limiting | |
| views, telemetry, evaluation | none another component reads back | format | | |

How they interact: the generation services call the gateway and file drafts in
the review queue; `decide_review_item` and the patch workflow load the bundle
from the content store, run the audit as a gate, save the bundle and update
their SQLite row; jobs wrap any of these in a thread and stream its progress;
compliance, collaboration and localization keep JSON ledgers about object ids
of the same bundle. Opening a project rebuilds the rows of the search index in
the SQLite store, which every other request may be reading; audits replace the
issue rows there; imports and edits save the bundle that they loaded; a release
is written from the bundle that passed the gate.

## 2. Modules

| module | models | built on |
|---|---|---|
| `Canon` | the bundle as the write paths see it: objects (absent, human, or a version of a draft), relation counts, audit errors, direct edits | |
| `Drafts` | what accepting each type of review item does to a bundle, and the conflict, logic and audit gates | `Canon` |
| `ReviewLedger` | the abstract promise: propose, revise, accept, reject and edit in single steps | `Drafts` |
| `ReviewDecision` | requests that decide, revise or edit, each a sequence of separate reads and writes, any number at a time, that may die anywhere | `Drafts`, refines `ReviewLedger` |
| `ReviewDecision_proofs` | theorems about `ReviewDecision` | TLAPS |
| `PatchOps` | the JSON-Patch dialect: apply and invert | |
| `PatchFixers` | the repairs that need no model, and the gate that every repair passes | `PatchOps` |
| `PatchLifecycle` | suggest, apply, roll back, edit, crash | `PatchFixers` |
| `PatchLifecycle_proofs` | theorems about `PatchLifecycle`, `PatchOps` and `RepairSearch` | TLAPS |
| `RepairSearch` | the tree search for a sequence of repairs | `PatchFixers` |
| `JobManager` | workers, the job table, SSE streams | |
| `JobManager_proofs` | theorems about `JobManager` | TLAPS |
| `LLMGateway` | gateways over a shared two-layer cache, retries, breaker, failover | |
| `LLMGateway_proofs` | theorems about `LLMGateway` | TLAPS |
| `ComplianceCases` | the remediation cases: scans, rescans, transitions, over a text that changes | |
| `ComplianceCases_proofs` | theorems about `ComplianceCases` and `ReleaseGate` | TLAPS |
| `CollabLedger` | assignments, comments and locks | |
| `CanonRefactor` | renames, snapshots and restores over the files of the store, written one after the other | |
| `CanonRefactor_proofs` | theorems about `CanonRefactor`, `Intake` and `Manuscript` | TLAPS |
| `QuestEdits` | authors who edit quests in place, with etags | |
| `SharedFiles_proofs` | theorems about `QuestEdits`, `CollabLedger` and `LoreAnswers` | TLAPS |
| `ReactAgent` | one run of the ReAct loop and the compression of its prompts | |
| `MultiAgent` | one session over its blackboard | |
| `DraftLoop` | drafting, judging, regenerating, revising; lessons | |
| `Agents_proofs` | theorems about `DraftLoop`, `MultiAgent`, `ReactAgent` and `WorldGen` | TLAPS |
| `WorldGen` | the stages of a new world or a batch, assembly, revision | |
| `LogicExpr` | expressions: parse, type, evaluate, render | |
| `LogicText` | one expression from text to value | `LogicExpr` |
| `QuestLogic` | the analyses of quests, and playtests | `LogicExpr` |
| `AuditRules` | the rules that count as errors and the checklists | |
| `ReleaseGate` | audits and their rows, the baseline, exports | `AuditRules` |
| `LoreGraph` | neighbourhoods, impact, communities | |
| `LoreAnswers` | the index, vectors, questions, overviews, the library | `LoreGraph` |
| `Imports`, `Ingest` | files to rows, rows to objects, comparison with the world | |
| `Recognition` | foreign files to plans, plans against the world | |
| `Intake` | uploads, imports, recognised plans, accepts, overlapping | `Imports`, `Ingest`, `Recognition` |
| `Extraction` | plans of chunks, merging, the draft of a manuscript | |
| `Manuscript` | one extraction from the text to the filed draft | `Extraction` |
| `MCWorkflow` | every part from `ComplianceCases` on, and `RepairSearch`, one at a time: a behaviour is of one of them, chosen by `focus` | instances of them |
| `MCInputs`, `MCQuests`, `MCWorlds` | the small worlds, files and texts those parts are run on | |
| other `MC...` | values for the constants, for TLC | |

### ReviewDecision

State and code: `status`, `payload` are the columns of `review_items`; `canon` is the directory of
content files; `req[r]` holds the local variables of one request: the snapshot `project.bundle`
(`snap`), the payload it read (`seen`), the bundle it loaded and changed (`bundle`). `orphans`,
`reported` and `missed` are history variables; `missed[r]` is what others saved since `r` loaded. An
action is one read or write of shared state with the computation that follows it:

| action | code |
|---|---|
| `Generate` | `ReviewQueue.add` |
| `Open` | `ProjectContext.open` |
| `Get` | `queue.get` and the guard on the status |
| `Load` | conflict check, `content_store.load`, merge, logic check, audit gate |
| `Save` | `content_store.save`, `project.reload` |
| `Mark` | `queue.mark` |
| `UpdatePayload` | the model call of `revise_draft_action`, `queue.update_payload` |
| `EditLoad`, `EditSave` | `create_entity_action`, `delete_object_action` |
| `Crash` | the process dies or the disk fails, between two of these steps |
| `CrashInSave` | it dies in `content_store.save`, with some files written and the rest as before |

The conflict check looks at the snapshot and the other gates at the bundle
just loaded, as in the code. A save replaces the whole bundle, and so takes back what
was saved since the load: the code loses updates, and `OnlyOvertakenIsLost` says which,
for any overlap: the parts of the world in `missed`, and nothing saved before the load.
`FileOrder` is the order in which a save writes the files (`content/store.py:133-162`): entities,
relations, quests; the files of one kind come in no particular order here, and
those of objects that are gone are removed before the others of their kind are written. A
death between two files leaves a `PartlySaved` world. What is not modelled here: a file cut
short by the death, after which the store does not open (that is in `CanonRefactor`), and another
request that reads while a save is between two files.

### PatchLifecycle

A patch id is a hash of the issue and the operations, so the operations
themselves stand for the patch. `doc` is the bundle: optional fields of objects
and the relations list, the two shapes that the operations distinguish.
Requests are served one at a time (`MayStart`); what overlapping requests do to
a read-check-write sequence is the subject of `ReviewDecision`. The checks on a
row and the snapshot of the request are one step (`ApplyOpen`), because with
serial requests nothing comes in between. `trail` is history: the world before and
after the last apply, the writes of a proposal and the deaths between a write and its mark.

### RepairSearch

A node of the tree is the path of moves that leads to it (`tree`), a move the
operations of one repair that applies and adds no error; `Moves` keeps one for each
world that results, as the code does by content hash. `_applicable_moves` returns
the cached list itself: `untried` of every node with the same world, and what
a rollout draws from, are one list, from which `_expand` pops. `popped` is what
was taken from these lists. An iteration is `Expand` or `Revisit` (selection and
expansion), then `RollOut` move by move, then `Record`. Rewards, UCB1 and the seed
decide which child and which move; all choices are allowed. `Proposed` is a
provider beside the fixers, as `plan_repairs` accepts one.

### JobManager

One action is one critical section of the manager's Condition. A job object
outlives its entry in the table: the worker keeps its reference, while
`_set_status` and `_append` look the entry up again and do nothing without one.
`Finish` (setting `result` or `error`) is outside the lock, `Announce` (final
event) and `Close` (final status) are two critical sections.

### LLMGateway

`gw[g]` is a gateway with its provider chain: every request builds its own
(`_gateway` in `app/actions.py`), while the cache is one per process. A
completion is a sequence of separately locked steps: `Lookup` (L1), `Similar`
(L2), `Promote` (L2 hit into L1), `Attempt` and `Failover` (provider calls behind
the breaker), `Store` and `Index` (the write through both layers). An answer is
the key it was computed for and the model that wrote it. `Cooldown` is the
passing of `reset_timeout_seconds`.

### ComplianceCases

`cases` is `cases.json`, `text` what the objects of the world say, abstracted to
what a sweep tells apart: nothing bad, a listed word (the term layer), or the
same sense in other words (only the judge sees it, and only in the batches whose
answer it could read: `judged`, empty when no model is used). A case belongs to an
object and the layer that hit it. A request opens the project (`Open`, the bundle
in `view`), reads the whole ledger and computes the new one (`Load`), and writes
it (`Save`); a transition does not look at the bundle. The rule pack is the same
for all requests: a rescan asked for with other words would answer another
question. The semantic and graph layers only suggest a review and open no case.
`touched` is history: the cases whose object was rewritten since the bundle of
their last saved rescan.

### CollabLedger

`collab` is `collab.json`. A request reads it and computes what to write in one
step (`Load`) and writes it in another (`Save`); `promised[u]` is history, what the
answers have told user `u`. Requests overlap: a save takes back the entries that others wrote
since its load (`missed`), which are then in `lost`, and `LedgerKeepsItsWord` holds every
other entry to what was answered. Refused requests change nothing and are no step. A
lock is advisory: nothing in the code that edits an object asks for it.

### CanonRefactor

`files` is what `ContentStore.load` would return, `torn` that it would raise. A
bundle is two collections, entities and quests, and the references between ids,
by the place that holds them; the places are those that the rename and the audit
treat differently. `Rename` computes the new bundle as `apply_rename` does,
`WriteSnapshot` stores the undo point, and the save is a sequence in the order of
`ContentStore.save`. A file is emptied before it is filled: a process that dies
in between leaves a JSON file that no longer loads, and every request then fails
at `open`, a restore included; an emptied `.jsonl` file loads as no lines. Saves
do not overlap here (overlap is the subject of `ReviewDecision`). A death while
the snapshot itself is written is taken as one before it: nothing refers to the
snapshot then.

### QuestEdits

A request loads the world, changes one quest and saves the world (`Save`).
`shown[u]` is the quest and the etag that author `u` was last answered with:
`EditQuest` without or with an etag, `ShowQuest` is the empty `PATCH` that the
editor uses to get one (`GET` returns none). `EditLogic`, `MoveNode` and
`DeleteQuest` carry no etag. The etag is compared when the world is loaded and
not again when it is saved, so an edit that another save overtook is written
anyway; `EditsAreSeen` speaks of all others. The keys of the metadata are sorted
on disk and not in memory, which is why an etag is an image of a quest and not the
quest.

### ReactAgent

A turn is [ok, checkpoint, size]; `Plan` builds the prompt as the compressor does:
the newest turns and all errors and checkpoints verbatim, the rest in a summary
(an extension of the cached one where its turns are a prefix), then the oldest
entries trimmed until it fits the budget. `cache` is the compressor's. `Finish`, `Nudge` and `Call`
are the outcomes of a text reply, `NativeCalls` those of native tool calls,
which `max_steps` does not bound.

### MultiAgent

A message is its position on the blackboard. `PostTaskAssignments` is the split
by the model, or by the static template when the reply cannot be used; `RunTask`
claims the oldest pending task of the worker, which need not be the one being
dispatched; after a diagnosis the repair task is replaced by one that was told
its result. `VerifyByAudit` and `VerifyByAgent` measure one result each. `GatewayDown`,
`Unrouted`, `NothingToClaim` and `VerifierDown` are the failures the code handles.

### DraftLoop

`loop` is the refine loop: a version, the verdict on it, the rounds left. The
four kinds of draft share `Assess` and `Regenerate` and differ in which checks
they run, what a failed reply means and what they file (`FileQuest`, ...,
`FileBarks`). Decisions and revisions of filed drafts run beside it; `Calibrate`
reads the decisions and writes lessons. A version is a number: what differs
between versions is only what the checks say of them.

### WorldGen

`payload` is what the model replied for each section, as names and as what each
item refers to; `draft` the assembled bundle with the ids it was given (`ids`,
unique against canon and against each other), its ties, its open fields and, for
a batch, the ledger of grounded and dangling references. `Critique` may send the
chain back for another round. `Revise` has one section of a filed world done
again and keeps the rest, `Regrow` a whole filed batch. A bundle is assembled section
by section by recursive functions (`PlaceSection`, `PlaceSectionOnCanon`), which, unlike a
fold, the provers can reason about. A reference of a batch that says nothing falls on
the focus anchor or on the first id of a set; which id of the world that is stays open
(`Anywhere`).

### LogicExpr, LogicText, QuestLogic

A text is a sequence of tokens, the two quotes among them: a string literal is whatever
stands between two quotes of one kind, the other kind included. The parser is the recursive descent of
`logic/expr.py`, one operator for its levels (`ParseLevel`), with its nesting
limit. `TypeErrors`, `Evaluate` and `Render` follow `semantics.py` and `expr.py`.
`QuestLogic` puts the three analyses next to each other: the fixed point of
`QuestGlobalReachabilityRule`, the reachable stages and deadlocks of
`logic/audit.py`, and the walk of `logic/simulate.py`, which starts from the state
other playtests left. `MCQuests` makes a few hundred versions of two quests that
read each other's state.

### AuditRules, ReleaseGate

A rule is an operator from a world to issues; an issue is its fingerprint, so
findings that differ in their message only are one. `ReleaseGate` has the rows
(`SaveIssue` one at a time, then `MarkResolved`), the baseline, and an export as the
writes of its files with the checksums taken from what is on disk, the manifest
last. The gate is evaluated on the bundle that the request loaded.

### LoreGraph, LoreAnswers

A request opens the project (`Open`, `IndexContent`, `SyncReferences`, `Embed`), each a separate
transaction over `index` and `vectors`, which all requests share, and then asks, searches the
library, adds to it or builds the overview. The semantic embedder is loaded when it is first needed
and may turn out to be missing; the key of a vector is then another than the one the lookup was made
with. Scores are left open: every pack that a ranking and a budget could make is allowed. The reply
may cite anything and mention anyone; `Valid` is `verify_qa_answer`. A report carries what it `told`
beside its fingerprint, so that a stale one can be recognised: what is told has the kinds of the
members (`community_index.py:186`), the fingerprint does not (`:164-170`, `:244-246`). `impact` and
the communities are pure operators over a bundle.

### Imports, Ingest, Recognition, Intake

`Imports` turns files into rows, `Ingest` rows into objects and relations (ids,
redirected references, batches that are refused) and compares them with the
world; `Recognition` turns tables, exports of engines and scripts into plans.
`Intake` runs them: `Upload` and `ParseUpload` share the directory for uploads,
`LoadBatch` reads the world after the file was parsed, `SaveBatch` writes the whole
of it, `Read`, `FinishPlan` and `ApplyPlan` file a plan for review (a model may add
relations within the guards, a person may cut the plan), `Accept` merges it. `past` is
history.

### Extraction, Manuscript

`plan` is computed once from the lengths of the paragraphs: `Packed` is one turn of
the loop of `chunk_text`, `Pieces` what it cuts a paragraph into. `Told`, `Unreadable`, ...
are the replies for a chunk; `Add` merges a payload into slots of kind and name;
`ResolveAliases` makes one of the slots that aliases tie (`Group`) and gives every
name the one it has now (`Now`); the draft gives slots ids, resolves relations by names
and aliases (`NameToId`) and leaves open what it cannot resolve; the faithfulness checks
flag names, neighbours and, with a model, relations. `heard` is history: the payloads
that were read. Loops are recursive functions over how far they have come, so that they
can be reasoned about; relations are a set: a draft has each once, and how often an open
one is listed is left out.

## 3. Runs

| run | instance | shows |
|---|---|---|
| `review_serial` | giver, quest, five items of different types, one request at a time, no crash | the detailed requests implement `ReviewLedger` (`LedgerSpec`); what was accepted is in the world as shown |
| `review_crash` | three writing items, one request at a time, two deaths, in a save or between two steps | a rejected draft is in the world only as an orphan |
| `review_concurrent` | two objects, a draft of a world and a logic draft, two versions, two requests at a time, one death | the human gate, finality, the audit gate, and what a save may take back, all under overlap |
| `review_two_tabs` | one item, two requests | expected violation: both decisions on one item |
| `patch` | one field, two relations, two patch rows, two deaths | rollback of simple patches, a proposal is written as often as its row tells, clean application |
| `patch_rollback_list` | the like, dangling relation | expected violation: the removal of a relation is not undone |
| `patch_positions` | three relations, two dangling | expected violation: a stored position takes a sound relation |
| `jobs` | three jobs, a table for one, one stream, one progress event | order, completeness, wake-ups, pruning, liveness |
| `llm` | two gateways, two projects, two models, three prompts in a chain of similarity | cache identity, breaker bound, no empty text memoized |
| `workflow` | sixteen foci, each one part of the system (next table) | the property of each part |
| `compliance_signoff` | one object, one request at a time | expected violation: a case is signed off with its text unchanged |
| `rename_audit` | one clean world | expected violation: a rename adds an audit error |

The foci of `workflow`:

| focus | instance | shows |
|---|---|---|
| `cases`, `overlapping cases` | one object, one request with two rewrites; two requests | trails explain statuses, also under overlap; a sign-off follows a passing rescan |
| `collab` | two users, one object, two requests at a time | locks and comments are kept, but for those that an overlapping request overwrote unseen |
| `refactor` | two small worlds, one snapshot, one death, three saves | a rename has an undo point at every moment, a restore is exact, what a rename follows resolves |
| `repair` | three worlds of `MCInputs` with at most three errors, depth two, nine iterations | a plan replays to the count it claims and never adds an error; the best of all when nothing is left to try |
| `edits` | two authors, two quests, three requests | an edit with an etag that nobody overtook replaces the quest its author saw, and the etag of an answer is that of the file |
| `agent` | five steps, up to three calls in a step, turns of two sizes, a budget of four | a prompt accounts for every turn of the transcript |
| `session` | up to three tasks, an unknown worker, zero or one error | one result a task, one verdict a result, every task settled |
| `drafts` | five kinds, up to one round, two items, one revision, lessons from two false passes | a recorded pass was earned by the version it is of; lessons need different drafts |
| `worldgen` | one or two places, one item of each other section, colliding names, one round and one revision | every reference of a filed draft lands; a revision keeps the rest |
| `expressions` | what some thousand trees render to, and every text of up to four of eight tokens, both quotes among them; nesting three | no saved expression fails when played; rendering is undone by parsing just when no string holds a double quote |
| `quests` | some hundred pairs of quests that read each other | reported quests are never played, playtests stay on reachable stages, completion refutes a reported deadlock |
| `release` | a clean world and its variants in `MCWorlds`, two requests, one edit | open rows are the last findings; a release that its manifest vouches for is clean and playable |
| `lore` | three versions of a small world, in which names, kinds and relations change, two requests, one edit, one library text | answers cite their world, vectors are honest, overviews current but for the kinds of members, impact names referrers |
| `intake` | files and sources of `MCInputs`, two requests, one edit | what was written last stays, what is filed is new, the same file again is quiet |
| `extraction` | texts of up to three calls' length with a budget of two, payloads with aliases that tie two kinds | what was told is in the draft or reported; plans are honest |

Bounds. `MaxActive` = 2 lets every pair of handlers interleave; the properties
concern one item and at most two requests that hold it, and the theorems of
section 5 remove the bound. `Revs` = {1, 2} tells an old payload from a new one; in
`review_concurrent` the two versions are exchangeable (`MCSymmetry`, with the request slots:
nothing in the module tells them apart, and no liveness is checked there).
`MaxMerges` = 2 tells a relation merged twice from one merged once; under overlap, where
no property counts merges, it is 1. `MaxRels` =
2 or 3 gives a position before, at and after a removed one. `MaxJobs` = 1 with
three jobs prunes twice, once with a choice. The chain of three prompts is the
shortest on which similarity is not transitive. `Threshold` = `Attempts` = 2 and
`MaxCalls` = 2 open the circuit in the middle of a completion and re-open it
after a cooldown.

A trail of `MaxTrail` = 5 is a case's way to `signed_off` and one event more, its
re-opening; two rewrites change a text and change it back. One case ledger object
suffices since cases of different objects meet only in `Save`, which overlapping
requests do with the two layers of one object too. With overlapping requests
the text does not change (`MaxRewrites` = 0 there): `TrailExplainsStatus` does not
look at it. The five ids of the rename are
two entities, two quests and a fresh id; the second world has an entity and a
quest of the same id.

The other foci are kept small for a reason each. `repair`: fixes that foreclose one
another and a value that is exchanged for another one and back, so that the
same world is reached by several paths and their lists run out for one another;
nine iterations use up every list of the two smaller worlds and go a move deeper than
`MaxDepth` in the larger one. `agent`: five steps and one recent
turn let a summary be extended twice and a trim follow it. `session`: three tasks
are the shortest split that names a worker twice beside another. `drafts`: two items are
the fewest that make a lesson, one round the fewest in which the version filed is
not the one judged. `worldgen`: two places, one of them one too many, and names that
are equal within a section and across sections. `lore`: two requests and one edit put two versions of the
world into the shared index. `intake`: two requests meet in one upload name and in
one save. `release`: one edit falls between any two writes of an export. `edits`: three
requests are a read, an overtaking save and the edit. Communities are
components of at most three objects, where the code's label propagation ends
in components whatever its order.

`workflow` is reduced by the exchange of `r1` and `r2`, which only name the two overlapping
requests, users or authors of a part (`other` is for what must not be exchanged with them).

`CHECK_DEADLOCK FALSE` is set for `jobs`, `llm` and the runs of `MCWorkflow`, where
a state in which all work is done, or the bounds are reached, is final.

Fairness, in `JobManager` only: `WF` of each job's worker (a started thread is
scheduled and its runner returns: the runners bound their model calls by
timeouts and their loops by budgets) and `WF` of `Look` (a woken stream runs).
Submission, connection, progress events and the keep-alive time-out get none:
the liveness results hold even if no wait ever times out.

## 4. Disagreements found

The five `violation` runs are listed as findings. Further behaviour that the
models exhibit and that has no run of its own:

- a revision that read an item before it was decided writes `pending_review`
  over the decision (`ReviewQueue.update_payload` sets the status);
- an accept or edit saves the whole bundle that it loaded: what another request saved in
  between is gone (`OnlyOvertakenIsLost`), and an accept may overwrite an object made after
  its conflict check (`AcceptIsClean`);
- an accept that dies in its save, or between it and its mark, leaves the draft in the
  world and the item pending, and a later reject then marks it rejected: the
  invariant `RejectedNotInCanon` exempts exactly these `orphans`;
- suggesting a repair that is already applied resets its row to `proposed` and
  erases its rollback operations (`INSERT OR REPLACE`), hence `trail` counts
  applications since the last proposal;
- an apply that dies between its save and its mark leaves the row `proposed`, so that the patch may be
  written once more, with a rollback that then leads to the world already patched
  (`AppliedOnce` counts exactly these, in `lost`);
- a stream whose job is pruned between two of its turns ends without the final
  event, hence `StreamComplete` speaks of jobs still in the table;
- a text of the fallback model is cached under the model of the primary, since the
  key is computed before the call, and is served later to requests for the
  primary (`llm/cache.py`: "a different model must miss, not reuse"), hence
  `AnswersTheRequest` allows the fallback as the author of an answer;
- overlapping requests over `collab.json` or `cases.json` lose updates: two users
  may both be told that they hold a lock, a trail may lose its last events. Hence
  `LedgerKeepsItsWord` leaves out the entries that a request overwrote without having seen
  them change (`lost`), and `CasesKeepTheirWord` is about requests served one at a time, while
  `TrailExplainsStatus` is not;
- an id that an entity shares with a quest is renamed for both
  (`_apply_id_change` does not look at the kind of what a reference names), hence
  the condition on distinct ids in `FollowedResolve`, a part of `RenameIsSafe`;
- a save that dies while it writes a JSON file leaves a store that does not open,
  so the snapshot is there but cannot be restored through the application;
- an author gets the etag of a quest only from the answer to a `PATCH` (an empty
  one saves nothing), never from `GET`; new logic layers, dragged nodes and
  deletions are not asked for one. The etag is compared before the save, so an
  overlapping save is still overwritten (`EditsAreSeen` leaves such edits out).
  Metadata keys are sorted on disk and not in memory: an update of metadata
  would be answered with an etag that is refused next time;
- `RepairSearch`: a node expands when it is as deep as allowed, so that a plan may have one move
  more than `max_depth`; a move that a rollout or another path needs may have been
  popped, so that the search, with too few iterations, ends worse than the greedy baseline that
  `evaluation/repair_bench.py` says it never regresses below, and the best plan
  may hold a move that resolves nothing. Two copies of a dangling relation go in
  one move, although "you can never resolve N errors in fewer than N moves";
- `ReactAgent`: the trim drops the summary and checkpoints first, which the
  compressor promises to preserve verbatim; "[n earlier turns omitted]" counts entries
  of the view, not turns; native tool calls are not bounded by `max_steps`;
- `MultiAgent`: if the split names `repair_01` twice after a diagnosis, a generic task
  is claimed in place of the one that was told the diagnosis, which stays pending for
  ever (`NoWorkerTwice`);
- `DraftLoop`: when the rounds run out, the draft that is filed is the one after the one
  that was judged, with the verdict on the judged one: a quest whose critic passed it
  while the audit complained is recorded as "pass" in a version nobody looked at.
  A revision keeps the old verdict;
- `WorldGen`: an item of a batch that is one too many is left out, but references
  to it count as grounded (`left`);
- `LogicText`: the parser accepts `'a"b'` (`logic/expr.py:71`, `:156-157`), and `render_expr` puts
  any string between double quotes as it is (`:193-194`), so that the text of such an expression
  does not parse, or is another expression; hence `TextIsKept` says that a text is kept just when no
  string holds a double quote. (In `QuestLogic` no value is a string.) `render_expr` omits the
  parentheses of a comparison or a negation inside a comparison (`Plain`); `rep:` names are typed as
  integers and seeded as booleans;
- `QuestLogic`: the rule on unreachable quests reports quests that can be played when an
  expression reads a `rep:` name or one that nobody declares (`AllKnown`), although it
  promises no false report; a branch with neither target nor outcome completes a
  playtest and is a deadlock to the audit; the simulator applies no `effects` of
  branches and ignores the precondition of the quest;
- `AuditRules`, `ReleaseGate`: findings with the same rule, object and evidence share one row and
  one suppression; an audit without the baseline re-opens what was suppressed;
  audits that overlap leave a mixture of rows (`last.alone`); exports that overlap may leave a
  manifest whose checksum is of another bundle, which is why the property
  looks at the checksum first; a cycle of prerequisites hides timeline errors on it;
- `LoreAnswers`: requests that load different versions of the world replace each other's rows, so an
  answer may cite the other version (`crossed`); reports name members that do not exist when a
  relation dangles; a member whose kind changes keeps the report that tells of the old kind, since
  the fingerprint is of names, texts and relations (`qa/community_index.py:164-170`, `:244-246`,
  against `:186`), and so does the report on the whole: `OverviewIsCurrent` says that this is all
  that may be stale; the report on the whole asks the model before it looks at the cache;
- `Intake`: two uploads of the same name share a file, so one may import the other's content,
  or find its file gone (`past.mixed`); an import saves the world that it
  loaded (`past.lost`); a file imported twice has its relations twice; `ChangeType.UPDATE` is
  never reached; the acceptance of a plan refuses every object that exists, so what recognition calls
  "changed" can never be accepted, and blocks the item it is in; the fingerprint
  that should ignore where an entity was found includes `import_locator`, so a moved
  row reads as changed;
- `Manuscript`: an object of a reply that has a `canonical` and no `name` counts as seen
  (`extraction/service.py:395`) and is not merged (`:471`), so that a gleaning pass which names it
  again brings, by that count, nothing new; in the model every object has a name. A relation of
  somebody whose name two kinds share may land on the other (`Shared`); a gleaning pass that brings
  no new name is dropped with its relations; a verdict on a relation in an unexpected form ends the
  run with an exception.

## 5. Theorems

Every theorem is about a component's own `Spec`, for every value of its
constants within the assumptions named below; the runs check the same formula on
one small instance (for the parts in `MCWorkflow`, under the guard on `focus`).
Each follows from an invariant that is inductive, which TLC checked first. In
what follows "needs" says why the property is not inductive by itself.

`ReviewDecision_proofs`, for every finite set of requests, with any number of
them overlapping and any number of deaths within `MaxActive` and `MaxCrashes`:

- `TypeCorrect`: `Spec => []TypeOK`. Inductive as it stands.
- `DecisionsFinalOnceQuiet`: `Spec => FinalOnceQuiet`. A step argument: `Get` is
  the only way to hold an item and is guarded by the status, and only a holder
  writes it.
- `HumanGate`: `Spec => []EveryDraftHasAnAccept`. Needs `HumanGateInv`: a request
  may carry a loaded bundle that contains a draft and write it, or some files of it, later.
- `NothingIsUndone`: `Spec => OnlyOvertakenIsLost`; `AcceptsAreClean`: `Spec => AcceptIsClean`.
  Both from `BundleInv`: what a request is about to save differs from the world as it is now
  only in what the request is about and in what it missed, which every save of another
  keeps true by adding to `missed`; and what an accept carries passed its gates.

and for requests served one at a time (`MaxActive = 1`):

- `SerialRejection`: `[]RejectedNotInCanon`. `SerialInv` adds that only one
  request is active, that the item it holds is pending, and where the drafts in
  its bundle come from.
- `AcceptedIsShown`: `[]CanonShowsPayload`. Needs `AloneInv`, which adds to
  `SerialInv` that what a request has read is still what is there and what it is about
  to save is exactly its change (`Fresh`), and that a draft in the world is at its
  own objects and, once accepted, in the version of the queue (`Shown`).
- `ImplementsLedger`: `LedgerSpec`, without deaths (`MaxCrashes = 0`). The
  refinement mapping is `LedgerStatus`: an accept decides when its request reaches
  `saved`, not when its row is marked. That step is the ledger's accept, the `Mark`
  after it a stutter, the `Mark` of a rejection the ledger's reject.

`PatchLifecycle_proofs`, for every set of fields, values and relations, every
length of the relations list, every set of operations that a model may suggest
and patches of every length:

- `TypeCorrect`, `WrittenOnce` (`[]AppliedOnce`), `RollbackRestores`
  (`[]UndoableSimple`), `AppliesAreClean` (`ApplyIsClean`).

All from `PatchInv`: requests are served one at a time, `RequestInv` says what a
request has established at each of its steps (the patch survives the gate
on the document it will be applied to, the rollback operations are those computed
from that document; a row that is being rolled back is `applied`), `HistoryInv` what `trail`
remembers of a patch. That the computed inverse of simple operations undoes them is the lemma
`InverseUndoes`, for lists of every length; the two folds involved are recursive
functions, and the induction is carried out by hand, through the least length
for which the claim would fail (`Induction`, `InductionUpTo`), since the library's
induction theorems cannot be instantiated.

- `PlansHold` (`[]PlanHolds`) and `SearchesKeepTypes`, for `RepairSearch` with every provider
  of moves, depth and number of iterations, whatever rewards and seed choose
  (`WellFormed`: finitely many fields, a move is a patch of operations, the
  documents are documents).

From `SearchInv`. A path that a node keeps is a legal sequence of moves from the
root (`After` is a recursive function; `ThroughIs` unfolds it). Nodes with
the same document share their list of untried moves, so that one can take a move from
another: what stays true is that the document which a taken move leads to has a node
(`PoppedLead`), and that no node is better than `best` or the rollout below it (`BestBelow`).
Once the lists are exhausted, the documents of the tree are therefore closed under
moves and contain everything reachable.

`LLMGateway_proofs`, for every number of gateways, keys and models and
every `Threshold` and `MaxAttempts`:

- `TypeCorrect`, `RightAnswer` (`[]AnswersTheRequest`), `SparedProvider`
  (`[]ProviderSpared`).

All from `GatewayInv`. Its part `CacheInv` says what an answer in
the cache may be for: an exact entry may hold the answer to a similar prompt,
because a similarity hit is promoted, but a similarity entry only the answer to
its own key, or promotions would drift away from the prompt one hit at a time.
`RequestInv` carries that to what a request is about to write. `BreakerInv`
relates the count of failures, the circuit and the cooldowns seen so far.

`JobManager_proofs`, for every set of jobs and streams, every size of the table
and every number of progress events:

- `TypeCorrect`, `NeverPrunedAlive` (`[]WorkerHasEntry`: only finished jobs are
  pruned), `InOrder` (`[]StreamIsPrefix`), `NoWakeupIsLost` (`[]NoLostWakeup`),
  `OutcomeIsThere` (`[]OutcomeBeforeEvent`), `EndsComplete` (`[]StreamComplete`).

All from `JobInv`: what each stage of a worker says of its job's status, events
and outcome (`WorkerInv`; in particular a live worker has an entry, so that
`_append` never drops its final event), and what a stream has read (`ReaderInv`: a
prefix; and it waits only when there is nothing to read yet).

`ComplianceCases_proofs`, for every set of objects and length of trails
(`WellFormed`: finitely many requests, `NoCase` is no case):

- `TypeCorrect`; `TrailsExplain` (`[]TrailExplainsStatus`), with any number of
  overlapping requests. `TrailInv` says the same of the ledgers that requests
  are about to write.
- with requests served one at a time, `TrailsOnlyGrow` (`TrailOnlyGrows`) and
  `WordsCameLater` (`SignedOffWordCameLater`), from `SerialInv`: the ledger a
  request will save only appends to the file (`AppendsOnly`), a bundle that
  has become stale since it was opened is so by rewrites that are remembered
  (`ReadsAreTracked`), and a case that passed its rescan holds a listed word only
  if its object was rewritten since (`PassedIsTracked`).
- `ReleasesAreSound` (`[]ReleaseIsSound`) and `ReleasesKeepTypes`, for `ReleaseGate` with every
  set of worlds of finitely many quests (`WellFormed`) and any number of audits,
  edits, exports and deaths that overlap. `ReleaseInv` adds that an audit which met
  no other is the only one, and the rows it saved so far are in the table
  (`Auditing`), and that what an export carries, and the bundle on disk from its
  first file on, passed the gate (`Exporting`). That what passed can be played is
  an argument about graphs: if no prerequisite is missing and no quest is before
  itself, the number of quests before each one ranks them (`CleanIsPlayable`), and if no
  link is broken a conversation stays in its tree (`CleanIsSpoken`). `AuditRules` states
  what the rules walk through as the least closed set (`Reached`), which has the
  facts those proofs need by definition.

`CanonRefactor_proofs`, for every finite set of ids, every world in which a
quest's references are in its file (`WellFormed`) and any number of saves,
snapshots and deaths:

- `TypeCorrect`, `RenamesCanBeUndone` (`[]UndoPoint`), `RenamesResolve`
  (`[]FollowedResolve`), `RestoresAreExact` (`RestoreIsExact`).

From `RefactorInv`: the snapshot is there before the first write (`UndoInv`), what a
save has written so far is as in the world it writes (`SavedSoFar`), a rename
writes what `apply_rename` made of the world it loaded (`RenamesOnly`), and no
reference of a quest is outside its file (`AllOwned`), without which a save that
writes quest by quest would leave references behind. `RenamesResolve` is the
lemma that the references of the new world that do not resolve are images of
some that did not resolve before.

- `ImportsAreKept` and `ImportsKeepTypes`, for `Intake` with every set of files and requests
  and whatever recognition reads from a file (`WellFormed`: the objects of the
  first world have a status, uploads have a name). `ImportsAreKept` states three
  of the parts of `IntakeHolds`: `WordIsKept`, `OwnUpload` and `ReimportIsQuiet`. From `IntakeInv`: whatever
  has a key has been written (`EverWritten`), and a request that has met nobody
  under the name of its upload is alone with it (`NamesApart`). A merge keeps the
  world that was read, so what another wrote since is either the same in the
  merged world or counted as undone (`SaveBatchKeeps`).
- `DraftsTellAll` (`[]DraftTellsAll`) and `DraftsKeepTypes`, for `Manuscript` with every
  set of texts, sizes of chunks, budget, set of replies, world and number of passes
  (`WellFormed`: a chunk is longer than the overlap and no longer than the most it may be,
  it grows, as the constants of `service.py` have it; paragraphs are not blank, facts are
  of the five kinds and their names are in `NameOrder`). Three arguments. (a) The plan
  (`CoverageIs`): what the chunks have of their own adds up to what the paragraphs
  are long, but for a separator where a paragraph begins a chunk (`Held`, kept by each
  paragraph in `PackedIs`), each chunk after the first has at most the overlap in common
  with the one before, and the size grows until there are few enough or it is the most
  (`GrownEnds`); so what a partial plan says it read is no more than it did. (b) The
  draft (`DraftTells`): a fact that is merged has a slot of its kind and name with a
  description as long (`AddIs`); ties make disjoint groups (`GroupIs`), each with one
  survivor that answers to the names of all (`SurvivorIs`, `JoinedIs`), and what a name
  is replaced by is a name of the same slot (`NowIs`, `ResolvedIs`); ids are new and apart
  (`NumberedIs`, by counting: of one more number than there are ids one is free);
  and a name leads to an object that answers to it, if no name is of two kinds (`MetIs`).
  (c) The run (`DraftingInv`): the chunks done with are those before the one that is
  asked for (`PlaceInv`), every name that was read, and every name that a pass has seen, is
  that of a slot (`HeardInv`, `SeenInv`), without which a pass that brings nothing new could
  lose one; and what is filed of a draft has its objects, with no gap closed but by an
  answer (`DraftInv`, `SubmittedIs`).

`SharedFiles_proofs`:

- `EditsKnowWhatTheyReplace` (`EditsAreSeen`) and `EditsKeepTypes`, for every number of
  authors, quests and edits, overlapping. `EditInv` adds what a guarded request
  that nobody overtook still knows of the file.
- `CollabKeepsItsWord`: `[]LedgerKeepsItsWord`, for any set of users (`Nobody` is none) and any
  number of them served at a time. `CollabInv` says of the ledger that each request is about to write
  that it keeps everybody's word at every entry that is neither in `lost` nor in what that request
  missed (`SeatInv`).
- `AnswersAreTrue` (`[]AnswersHold`) and `AnswersKeepTypes`, for `LoreAnswers` with any number of
  requests and every library (`WellFormed`: worlds are finite, the types of
  objects are none of the index's own `relation`, `community` and `reference_chunk`,
  communities of different members have different ids). `LoreInv` says of each
  request that it is sound for the shared tables as they are now: its rows are of
  its own world unless it was crossed, its reports are those of its world unless it
  met somebody; and that who has met nobody is alone, so that only its own
  steps touch the reports. A report tells of its community as it was in some world with the same
  fingerprint (`ReportOf`), so that names, texts and ties are those of the world at hand and only the
  kinds may be older (`TellsOfItsGroup`); the library only grows, and no vector is under the key of a model
  that did not compute it.

`Agents_proofs`:

- `PassesAreEarned` (`[]PassIsEarned`) and `DraftsKeepTypes`, for `DraftLoop` with every
  number of items, rounds, revisions and reports (`WellFormed`: the kinds are
  those the code has, the bounds are numbers). `LoopInv` relates the version in
  the loop to the one the last verdict is about, `RejectedPassBounced` makes a
  lesson's witnesses stay although `Decide` and `EndRevision` change the rows it
  was counted from.
- `ReportsAccount` (`[]ReportAccounts`), for `MultiAgent` with every number of tasks,
  workers and counts. `SessionInv` has one part per conjunct (`OneResultEach`,
  `OneVerdictEach`, `SettledInTurn`) and `Known` and `Reported`, which say what the
  positions in `tasks` and `results` name.
- `WorkersFindTasks`: a worker to which a task is dispatched always finds a
  pending one, so `NothingToClaim`, which the code handles, never happens. The
  reason is a count (`Claimable`): a worker has at least as many pending tasks as
  there are tasks still to be dispatched to it, since a task that is superseded
  is replaced and a claim serves one dispatch, even if it is not the task
  that was dispatched.
- `PromptsTellAll` (`[]PromptTellsAll`) and `AgentsKeepTypes`, for `ReactAgent` with every
  `max_steps` from 1 (`ReActAgent` refuses less), every `keep_recent`, budget and
  trigger. `AgentInv` adds what the view rests on: the cached summary stands for
  exactly the turns it is kept under (`CacheInv`), so that what is reused and
  what is folded in are together the turns to sum up; what went wrong is a
  checkpoint (`ErrorsChecked`); steps are left when a planning call is due
  (`StepsLeft`). A view before the trim has every turn once, the trim leaves an
  end of it. The fold `Tokens` stays opaque in the proof: which sizes it adds up
  matters to no step.
- `DraftsClose` (`[]DraftCloses`) and `GrowthKeepsTypes`, for `WorldGen` with every set of
  names, worlds, counts, lengths of replies and number of chances (`WellFormed`: a world has a
  sequence of ids of that section for each section, counts and bounds are numbers).
  `GrowthInv` speaks of what is filed and of what
  the stage before it left in `payload`; the rest is about one assembly. What is true of
  a bundle from its first item on and kept by each item added (`Sane`): every id has the
  section and the name it was made of and no id of the world (`Numbered`), every tie is
  one that some item may have (`Meant`), starts at an item that is there (`Tied`), one for
  each field (`Single`), and ends at something (`Closed`). For a batch also what was left
  out (`Noted`) and the counts of the ledger (`Ledger`, `OnCanon`). Loops over a section are
  an induction over how far the function has come (`CountingUpTo`), stated in `Nat` without
  the library's rule, which takes an operator. A revision assembles anew, and its
  lemmas compare the two assemblies: ids of the untouched sections are the same
  (`RevisionKeepsIds`), so are the ties among them (`RevisionKeepsTies`, `KeptAreTied`).

Hypotheses. The assumptions of `Canon`, `Drafts`, `ReviewDecision`, `PatchLifecycle`, `JobManager`
and `LLMGateway` are evaluated by TLC in every run of these modules. The parts that `MCWorkflow`
instantiates carry their conditions as an operator (`WellFormed`), which is an antecedent of their
theorems and which `WellFormedInstances` in `MCWorkflow` has TLC evaluate for the instances of the
runs. `MaxActive = 1` (of `SerialRejection`, `AcceptedIsShown`, `ImplementsLedger`, and of
`TrailsOnlyGrow` and `WordsCameLater`) and `MaxCrashes = 0` (of `ImplementsLedger`) are antecedents
where the property is false without them, as section 4 says.

Model-checked only:

- `EveryJobEnds` and `EveryStreamEnds`: liveness under fairness is out of the
  prover's reach.
- `TextIsKept`, `ReportsAreTrue`: `LogicExpr`, `LogicText` and `QuestLogic` recurse over syntax trees
  (`RECURSIVE`), which takes tlapm its SMT backend and for which it has no induction.
- `StagedIsNew` and `RereadIsQuiet`, the other parts of `IntakeHolds`: what
  `Recognition` computes is made of `SelectSeq`, `FlattenSeq` and `FoldLeft`, which
  tlapm cannot expand, and the claims are about the results of these.
- `MCWorkflow` states each component's property under the guard on `focus`, so its
  own names (`TrailExplainsStatus`, `AnswersHold`, ...) are not those of the theorems:
  the theorems prove the formulas behind them, of the components, without the guard.

## 6. Plan

1. (done) review, patches, jobs, gateway.
2. (done) the ledgers, the rename, the edit with an etag, the issue rows.
3. (done) the ReAct loop, the session, the refine loop, world generation.
4. (done) expressions and quest analyses, audit rules and release, graph and answers,
   import and recognition, extraction.
5. (done) repair search, with the fixers in a module of their own.
6. Localization and assets as ledgers beside `CollabLedger`.
7. (done) Proofs: reviews with the refinement, patches, jobs, compliance, the rename,
   edits and the collaboration ledger, the refine loop, the session, the ReAct run,
   world generation, repair search, answers, imports, releases and extraction (section 5).
8. Proofs left: what recognition files is new (`StagedIsNew`, `RereadIsQuiet`), for which the
   folds of `Recognition` are first to be written as recursive functions, as those of
   `PatchOps`, `WorldGen` and `Extraction` are.

## 7. Not modelled, and why

- Views, templates, telemetry export and the offline evaluation read state and
  format it; nothing reads their results back.
- Scores and embeddings are arithmetic on floats: where they order something,
  every order is allowed (`Packs` in `LoreAnswers`). The tree search of `worldgen/tot.py`
  only chooses among replies that `WorldGen` allows anyway.
- Localization and asset ledgers repeat the pattern of `CollabLedger`.
- Text that is only guessed at: the format sniffer, lenient readers of model
  output, style warnings, offline stand-ins for models.
- Who may call (API key, rate limit, roles, tenants), since it decides whether a
  handler runs and not what it does.
- Recursion over syntax trees (`LogicExpr`, `LogicText`, `QuestLogic`) is checked over bounded
  texts and not proved: tlapm has no induction over such data.

`PROJECT.json` lists every component with what is left out of it.
