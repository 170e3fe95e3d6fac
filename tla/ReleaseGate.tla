---------------------------- MODULE ReleaseGate ----------------------------
(***************************************************************************)
(* From the audit to the release (pipeline/audit.py, pipeline/harness.py,  *)
(* pipeline/export_gate.py, exporters/json_bundle.py): requests audit the  *)
(* world, save what they find row by row and then mark what they no longer *)
(* find as fixed; the command line keeps a baseline of accepted issues; a  *)
(* release is exported file by file behind a gate, with the manifest last. *)
(* Requests overlap, and each may end between any two of its writes.       *)
(***************************************************************************)
EXTENDS AuditRules, TLC

CONSTANTS
    Requests,       \* the requests that may be under way at once
    Worlds, Edits,  \* the worlds at first, and those that an edit may leave
    MaxEdits, MaxRequests

VARIABLES
    world,      \* the files of the world
    table,      \* the issues table: fingerprint -> status
    baseline,   \* the file of accepted fingerprints
    at,         \* where each request is
    disk,       \* the files of the release
    last,       \* the last audit that was saved to the end
    spent       \* edits and requests so far

vars == <<world, table, baseline, at, disk, last, spent>>

Idle    == [step |-> "idle"]
NoFile  == [step |-> "none"]
NoAudit == [step |-> "none"]

\* What the runner makes of an issue: suppressed if the baseline has it.
Audit(w, accepted) == [i \in AllIssues(w) |-> IF i \in accepted THEN "suppressed" ELSE "open"]
Open(found) == {i \in DOMAIN found : found[i] = "open"}

\* The gate takes no baseline.
Blockers(w) == {i \in Open(Audit(w, {})) : IsError(i) \/ i[1] = "UNREVIEWED_AI_CONTENT"}

Phase(w, found) ==
    IF \E i \in Open(found) : IsError(i) THEN "repair"
    ELSE IF Blockers(w) # {} THEN "review"
    ELSE IF ~ AllReady(w) THEN "complete_design" ELSE "ready_to_export"

Init ==
    /\ world \in Worlds
    /\ table = <<>> /\ baseline = {}
    /\ at = [r \in Requests |-> Idle]
    /\ disk = [bundle |-> NoFile, texts |-> NoFile, manifest |-> NoFile]
    /\ last = NoAudit
    /\ spent = [edits |-> 0, requests |-> 0]

Take(r) == at[r] = Idle /\ spent.requests < MaxRequests /\ spent' = [spent EXCEPT !.requests = @ + 1]

\* An edit, or a draft accepted, in one save.
Edit ==
    /\ spent.edits < MaxEdits
    /\ spent' = [spent EXCEPT !.edits = @ + 1]
    /\ world' \in Edits \ {world}
    /\ UNCHANGED <<table, baseline, at, disk, last>>

Running == {r \in Requests : at[r].step \in {"saving", "marking"}}

\* An audit that is saved has a request of its own; "alone" is for the properties.
Begin(r, kind, w, accepted) ==
    at' = [x \in Requests |->
              IF x = r THEN [step |-> "saving", kind |-> kind, on |-> w, found |-> Audit(w, accepted),
                             left |-> AllIssues(w), alone |-> Running = {}]
              ELSE IF x \in Running THEN [at[x] EXCEPT !.alone = FALSE] ELSE at[x]]

\* A request of the editor or of an agent has no baseline.
RequestAudit(r) ==
    /\ Take(r)
    /\ Begin(r, "request", world, {})
    /\ UNCHANGED <<world, table, baseline, disk, last>>

\* The command line's has.
CommandAudit(r) ==
    /\ Take(r)
    /\ Begin(r, "command", world, baseline)
    /\ UNCHANGED <<world, table, baseline, disk, last>>

Without(f, id) == [x \in DOMAIN f \ {id} |-> f[x]]

\* An object is deleted, with an entity's relations if that is asked for, and the rest audited.
Deleted ==
    {[world EXCEPT !.entities = Without(@, "npc")],
     [world EXCEPT !.entities = Without(@, "npc"),
                   !.relations = SelectSeq(@, LAMBDA x : "npc" \notin {x.source, x.target})],
     [world EXCEPT !.quests = Without(@, "q1")],
     [world EXCEPT !.trees = Without(@, "talk")]}
DeleteObject(r) ==
    /\ at[r] = Idle /\ spent.requests < MaxRequests /\ spent.edits < MaxEdits
    /\ spent' = [edits |-> spent.edits + 1, requests |-> spent.requests + 1]
    /\ world' \in Deleted \ {world}
    /\ Begin(r, "request", world', {})
    /\ UNCHANGED <<table, baseline, disk, last>>

\* Row by row, in the order of the rules; each is committed and replaces an earlier one.
SaveIssue(r) ==
    /\ at[r].step = "saving"
    /\ IF at[r].left = {} THEN at' = [at EXCEPT ![r].step = "marking"] /\ UNCHANGED table
       ELSE LET i == CHOOSE i \in at[r].left : TRUE
            IN  /\ at' = [at EXCEPT ![r].left = @ \ {i}]
                /\ table' = [x \in DOMAIN table \cup {i} |-> IF x = i THEN at[r].found[i] ELSE table[x]]
    /\ UNCHANGED <<world, baseline, disk, last, spent>>

\* Only open rows become fixed.
Marked(rows, found) ==
    [i \in DOMAIN rows |-> IF rows[i] = "open" /\ i \notin DOMAIN found THEN "fixed" ELSE rows[i]]

MarkResolved(r) ==
    /\ at[r].step = "marking"
    /\ table' = Marked(table, at[r].found)
    /\ last' = [step |-> "saved", found |-> at[r].found, on |-> at[r].on, alone |-> at[r].alone,
                phase |-> IF at[r].kind = "command" THEN "none" ELSE Phase(at[r].on, at[r].found)]
    /\ at' = [at EXCEPT ![r] = IF at[r].kind = "command" THEN [step |-> "accepting", open |-> Open(at[r].found)]
                               ELSE Idle]
    /\ UNCHANGED <<world, baseline, disk, spent>>

\* The command line may add what is open to the baseline that it read.
UpdateBaseline(r) ==
    /\ at[r].step = "accepting"
    /\ baseline' \in {baseline, baseline \cup at[r].open}
    /\ at' = [at EXCEPT ![r] = Idle]
    /\ UNCHANGED <<world, table, disk, last, spent>>

-----------------------------------------------------------------------------
(* The export: of the world that was read and passed the gate, also if it has changed since. *)

\* Texts without a locale are not handed to translators.
Localized(w) == {l \in Elems(w.lines) : l.kind = "localized_text" \/ l.locale # ""}

\* (wrong: the gate believes the table)
GateTable(r) ==
    /\ Take(r)
    /\ IF \A i \in DOMAIN table : table[i] # "open" THEN at' = [at EXCEPT ![r] = [step |-> "bundle", on |-> world, files |-> <<>>]]
       ELSE UNCHANGED at
    /\ UNCHANGED <<world, table, baseline, disk, last>>

Gate(r) ==
    /\ Take(r)
    /\ IF Blockers(world) = {} THEN at' = [at EXCEPT ![r] = [step |-> "bundle", on |-> world, files |-> <<>>]]
       ELSE UNCHANGED at
    /\ UNCHANGED <<world, table, baseline, disk, last>>

\* A file is written, and then read again for its checksum; the manifest is written last.
Write(r, step, file, content, next) ==
    /\ at[r].step = step
    /\ disk' = [disk EXCEPT ![file] = content]
    /\ at' = [at EXCEPT ![r] = next]
    /\ UNCHANGED <<world, table, baseline, last, spent>>
Checksum(r, step, file, next) ==
    /\ at[r].step = step
    /\ at' = [at EXCEPT ![r].step = next, ![r].files = (file :> disk[file]) @@ @]
    /\ UNCHANGED <<world, table, baseline, disk, last, spent>>

WriteBundle(r) == Write(r, "bundle", "bundle", at[r].on, [at[r] EXCEPT !.step = "sum"])
SumBundle(r)   == Checksum(r, "sum", "bundle", IF Localized(at[r].on) = {} THEN "manifest" ELSE "texts")
WriteTexts(r)  == Write(r, "texts", "texts", Localized(at[r].on), [at[r] EXCEPT !.step = "sum texts"])
SumTexts(r)    == Checksum(r, "sum texts", "texts", "manifest")
WriteManifest(r) == Write(r, "manifest", "manifest", [of |-> at[r].on, files |-> at[r].files], Idle)

Crash(r) ==
    /\ at[r] # Idle
    /\ at' = [at EXCEPT ![r] = Idle]
    /\ last' = IF r \in Running THEN NoAudit ELSE last
    /\ UNCHANGED <<world, table, baseline, disk, spent>>

Next ==
    \/ Edit
    \/ \E r \in Requests :
          \/ RequestAudit(r) \/ CommandAudit(r) \/ DeleteObject(r) \/ SaveIssue(r) \/ MarkResolved(r) \/ UpdateBaseline(r)
          \/ Gate(r) \/ WriteBundle(r) \/ SumBundle(r) \/ WriteTexts(r) \/ SumTexts(r) \/ WriteManifest(r)
          \/ Crash(r)

Spec == Init /\ [][Next]_vars

-----------------------------------------------------------------------------
\* What the proofs need of the constants: a world has finitely many quests.
Sized(w) == "quests" \in DOMAIN w /\ IsFiniteSet(DOMAIN w.quests)
WellFormed == \A w \in Worlds \cup Edits : Sized(w)

TypeOK ==
    /\ \A i \in DOMAIN table : table[i] \in {"open", "suppressed", "fixed"}
    /\ \A r \in Requests : at[r].step \in {"idle", "saving", "marking", "accepting", "bundle", "sum", "texts",
                                          "sum texts", "manifest"}
    /\ DOMAIN disk = {"bundle", "texts", "manifest"}

\* The quests can be played one after the other, each after those it needs.
Playable(w) ==
    \E rank \in [DOMAIN w.quests -> 1..Cardinality(DOMAIN w.quests)] :
        \A q \in DOMAIN w.quests : \A p \in w.quests[q].prereqs : p \in DOMAIN w.quests /\ rank[p] < rank[q]

\* Every conversation stays in its tree, whatever is chosen.
Spoken(w) ==
    \A t \in DOMAIN w.trees : /\ w.trees[t].root \in DOMAIN w.trees[t].nodes
                             /\ \A l \in Links(w.trees[t]) : l[2] \in DOMAIN w.trees[t].nodes

\* pipeline/audit.py: once no audit is being saved, the open rows are what the last one found open,
\* if it was saved with no other beside it.  pipeline/export_gate.py, exporters/json_bundle.py: a
\* release whose bundle has the checksum of its manifest is free of errors and of AI content that
\* nobody reviewed, also if the world, the table or another export changed meanwhile, or an export
\* did not end; its quests can be played in some order and its conversations end.
\* pipeline/harness.py: a world that it calls past review is one that the gate lets through.
ReleaseIsSound ==
    /\ Running = {} /\ last # NoAudit /\ last.alone =>
           {i \in DOMAIN table : table[i] = "open"} = Open(last.found)
    /\ last # NoAudit /\ last.phase \in {"complete_design", "ready_to_export"} => Blockers(last.on) = {}
    /\ disk.manifest # NoFile /\ disk.manifest.files.bundle = disk.bundle =>
           Blockers(disk.bundle) = {} /\ Playable(disk.bundle) /\ Spoken(disk.bundle)
=============================================================================
