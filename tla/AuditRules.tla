----------------------------- MODULE AuditRules -----------------------------
(***************************************************************************)
(* The deterministic rules over a world (audit/rules) and the checklists   *)
(* of readiness/service.py.  An issue is its fingerprint: the rule, what   *)
(* it is about, and the evidence; the message is not part of it, so that   *)
(* two findings which differ only there are one issue.  The rule that no   *)
(* play can reach a quest is in QuestLogic.                                *)
(*                                                                         *)
(* A text is [words, holes, length]: the words it uses, its placeholders   *)
(* and its length.  An object has texts by path in "says", a name that     *)
(* logic reads or writes is <<"var" | "done" | "rep", id>>, "" is no id,   *)
(* and NoOrder no place on the timeline.                                   *)
(***************************************************************************)
EXTENDS Integers, Sequences, FiniteSets

CONSTANTS MaxChars, LongEnough     \* the default limit of a line, the least of an objective

NoOrder == -1
Elems(s) == {s[i] : i \in DOMAIN s}

HasObject(w, id) ==
    id \in DOMAIN w.entities \cup DOMAIN w.pois \cup DOMAIN w.regions \cup DOMAIN w.quests \cup DOMAIN w.terms
Factions(w) == {e \in DOMAIN w.entities : w.entities[e].kind = "faction"}
Dialogues(w) == {l \in Elems(w.lines) : l.kind = "dialogue"}

-----------------------------------------------------------------------------
(* References. *)

\* <<what refers, <<stage or 0, field>>, to what>>; the place of a required entity is the same for all of a stage.
EntityReferences(w) ==
    {r \in UNION {LET q == w.quests[id] IN
                    {<<<<"quest", id>>, <<0, "giver_npc">>, q.giver>>, <<<<"quest", id>>, <<0, "location">>, q.location>>}
                    \cup {<<<<"quest", id>>, <<i, "location">>, q.stages[i].location>> : i \in DOMAIN q.stages}
                    \cup UNION {{<<<<"quest", id>>, <<i, "required_entities">>, e>> : e \in q.stages[i].needs}
                                : i \in DOMAIN q.stages}
                  : id \in DOMAIN w.quests}
          \cup {<<<<"poi", p>>, <<0, "controlling_faction">>, w.pois[p].faction>> : p \in DOMAIN w.pois}
          \cup {<<<<"dialogue", l.id>>, <<0, "speaker_id">>, l.speaker>> : l \in Dialogues(w)}
          \cup {<<<<"quest_event_ref", v>>, <<0, "event_id">>, w.events[v].event>> : v \in DOMAIN w.events}
     : r[3] # ""}

UnknownEntityRef(w) ==
    {<<"UNKNOWN_ENTITY_REF", r[1], r[2]>> : r \in {r \in EntityReferences(w) : ~ HasObject(w, r[3])}}
DeprecatedEntityRef(w) ==
    {<<"DEPRECATED_ENTITY_REF", r[1], r[2]>> :
        r \in {r \in EntityReferences(w) : r[3] \in DOMAIN w.entities /\ w.entities[r[3]].status = "deprecated"}}
MissingPrerequisite(w) ==
    UNION {{<<"PREREQ_MISSING", <<"quest", q>>, p>> : p \in w.quests[q].prereqs \ DOMAIN w.quests}
           : q \in DOMAIN w.quests}
MissingDialogueRef(w) ==
    UNION {{<<"MISSING_DIALOGUE_REF", <<"quest", q>>, d>> :
               d \in w.quests[q].dialogues \ {l.id : l \in Dialogues(w)}} : q \in DOMAIN w.quests}

-----------------------------------------------------------------------------
(* Relations and prerequisites. *)

Triple(r) == <<r.source, r.kind, r.target>>
Related(w, kind) == {r \in Elems(w.relations) : r.kind = kind}
Pairs(w, kind)   == {{r.source, r.target} : r \in Related(w, kind)}

MissingRelationEndpoint(w) ==
    UNION {{<<"MISSING_RELATION_ENDPOINT", Triple(r), side>> :
               side \in {s \in {"source", "target"} : ~ HasObject(w, r[s])}} : r \in Elems(w.relations)}
\* Twice in one file; the same relation in two files is meant.
DuplicateRelation(w) ==
    {<<"DUPLICATE_RELATION", Triple(w.relations[i]), "twice">> :
        i \in {i \in DOMAIN w.relations : \E j \in 1..(i - 1) : w.relations[j] = w.relations[i]}}
RelationConflict(w) ==
    {<<"RELATION_CONFLICT", <<"relation">>, pair>> : pair \in Pairs(w, "allied_with") \cap Pairs(w, "enemy_of")}

\* The first relation of a kind is the one that counts.
FirstTarget(w, kind, id) ==
    LET mine == SelectSeq(w.relations, LAMBDA r : r.kind = kind /\ r.source = id)
    IN  IF mine = <<>> THEN "" ELSE mine[1].target
FactionConflict(w) ==
    {<<"FACTION_CONFLICT", <<"quest", id>>, w.quests[id].giver>> :
        id \in {id \in DOMAIN w.quests :
            LET q    == w.quests[id]
                giver == FirstTarget(w, "member_of", q.giver)
                land == FirstTarget(w, "controlled_by", q.location)
            IN  ~ q.main /\ q.giver # "" /\ q.location # "" /\ giver # "" /\ land # ""
                /\ {giver, land} \in Pairs(w, "enemy_of")}}

\* The least part of "all" that has the first ones and whatever follows one that it has.
Reached(first, next(_), all) ==
    {x \in all : \A S \in SUBSET all : first \subseteq S /\ (\A y \in S : next(y) \subseteq S) => x \in S}
Prereqs(w, q) == IF q \in DOMAIN w.quests THEN w.quests[q].prereqs ELSE {}
Before(w, seen) ==
    Reached(seen, LAMBDA q : Prereqs(w, q), seen \cup UNION {w.quests[q].prereqs : q \in DOMAIN w.quests})
Cyclic(w) == {q \in DOMAIN w.quests : q \in Before(w, w.quests[q].prereqs)}

\* Only the cycle that is found first is reported.
PrerequisiteCycle(w) ==
    IF Cyclic(w) = {} THEN {}
    ELSE LET first == CHOOSE q \in Cyclic(w) : TRUE
         IN  {<<"PREREQ_CYCLE", <<"quest_prerequisites">>,
                {q \in Cyclic(w) : first \in Before(w, {q}) /\ q \in Before(w, {first})}>>}

-----------------------------------------------------------------------------
(* Time and state. *)

\* Quests on a cycle are left to that report.
TimelineViolation(w) ==
    UNION {{<<"TIMELINE_VIOLATION", <<"quest", id>>, <<w.quests[id].order, w.quests[p].order>>>> :
               p \in {p \in w.quests[id].prereqs \cap DOMAIN w.quests :
                         /\ {id, p} \cap Cyclic(w) = {}
                         /\ w.quests[p].order # NoOrder /\ w.quests[p].order >= w.quests[id].order}}
           : id \in {id \in DOMAIN w.quests : w.quests[id].order # NoOrder}}

EventOrder(w, e) == IF e \in DOMAIN w.entities THEN w.entities[e].order ELSE NoOrder
TooEarly(w, q, e) ==
    q \in DOMAIN w.quests /\ w.quests[q].order # NoOrder /\ EventOrder(w, e) # NoOrder
    /\ w.quests[q].order < EventOrder(w, e)
EventTooEarly(w) ==
    LET refs == {v \in DOMAIN w.events : w.events[v].result /\ TooEarly(w, w.events[v].quest, w.events[v].event)}
    IN  {<<"EVENT_RESULT_REFERENCED_TOO_EARLY", <<"quest", w.events[v].quest>>, v>> : v \in refs}
        \cup {<<"EVENT_RESULT_REFERENCED_TOO_EARLY", <<"quest", q>>, "metadata">> :
                 q \in {q \in DOMAIN w.quests : \E e \in w.quests[q].results :
                           TooEarly(w, q, e) /\ \A v \in refs : <<w.events[v].quest, w.events[v].event>> # <<q, e>>}}
CharacterState(w) ==
    {<<"CHARACTER_STATE_CONTRADICTION", <<"entity", e>>, w.entities[e].status>> :
        e \in {e \in DOMAIN w.entities : w.entities[e].status \in {"dead", "destroyed"} /\ w.entities[e].active}}

-----------------------------------------------------------------------------
(* Regions and places; a level is -1 where there is none. *)

Bounded(r) == r.min # -1 /\ r.max # -1
RegionBounds(w) ==
    {<<"REGION_LEVEL_BOUNDS_INVALID", <<"region", r>>, "level">> :
        r \in {r \in DOMAIN w.regions : ~ Bounded(w.regions[r]) \/ w.regions[r].min > w.regions[r].max}}
PoiOutOfBounds(w) ==
    UNION {LET p == w.pois[id]
               r == w.regions[p.region]
           IN  {<<"POI_LEVEL_OUT_OF_BOUNDS", <<"poi", id>>, side>> :
                   side \in {s \in {"min", "max"} : /\ Bounded(r) /\ r.min <= r.max /\ p[s] # -1
                                                    /\ IF s = "min" THEN p.min < r.min ELSE p.max > r.max}}
           : id \in {id \in DOMAIN w.pois : w.pois[id].region \in DOMAIN w.regions}}
PoiWithoutPurpose(w) ==
    {<<"POI_WITHOUT_NARRATIVE_PURPOSE", <<"poi", p>>, "purpose">> : p \in {p \in DOMAIN w.pois : ~ w.pois[p].purpose}}
BannedContent(w) ==
    {<<"REGION_BANNED_CONTENT_USED", <<"poi", p>>, w.pois[p].tags \cap w.regions[w.pois[p].region].banned>> :
        p \in {p \in DOMAIN w.pois : w.pois[p].region \in DOMAIN w.regions
                                     /\ w.pois[p].tags \cap w.regions[w.pois[p].region].banned # {}}}

-----------------------------------------------------------------------------
(* Texts: lines of dialogue first, then localized texts; "lines" is in load order. *)

MissingLocalizationKey(w) ==
    {<<"MISSING_LOCALIZATION_KEY", <<"quest", q>>, "">> : q \in {q \in DOMAIN w.quests : ~ w.quests[q].keyed}}
MissingObjective(w) ==
    {<<"QUEST_MISSING_OBJECTIVE", <<"quest", q>>, "">> :
        q \in {q \in DOMAIN w.quests : w.quests[q].says.objective.length = 0}}

Limit(l) == IF l.limit # 0 THEN l.limit ELSE IF l.kind = "dialogue" THEN MaxChars ELSE l.text.length
TextTooLong(w) ==
    {<<"TEXT_TOO_LONG_FOR_UI", <<l.kind, l.id>>, "">> : l \in {l \in Elems(w.lines) : l.text.length > Limit(l)}}

\* The first locale of a key sets what the others are held to; a later line of a locale replaces it.
PlaceholderMismatch(w) ==
    LET of(key)       == SelectSeq(w.lines, LAMBDA l : l.key = key /\ l.locale # "")
        holes(key, x) == LET mine == SelectSeq(of(key), LAMBDA l : l.locale = x) IN mine[Len(mine)].text.holes
    IN  UNION {LET locales == {l.locale : l \in Elems(of(key))}
                   want    == holes(key, of(key)[1].locale)
               IN  {<<"PLACEHOLDER_MISMATCH", <<"dialogue_key", key>>, <<x, want, holes(key, x)>>>> :
                       x \in {x \in locales : holes(key, x) # want}}
               : key \in {l.key : l \in {l \in Elems(w.lines) : l.locale # ""}}}

LineTexts(w)  == {<<<<l.kind, l.id>>, "text", l.text>> : l \in Elems(w.lines)}
Said(kind, objects, paths) ==
    UNION {{<<<<kind, id>>, p, objects[id].says[p]>> : p \in paths \cap DOMAIN objects[id].says} : id \in DOMAIN objects}

Forbidden(w) == UNION {w.terms[t].forbidden : t \in DOMAIN w.terms}
TermInconsistent(w) ==
    UNION {{<<"TERM_INCONSISTENT", t[1], <<t[2], x>>>> : x \in t[3].words \cap Forbidden(w)}
           : t \in LineTexts(w) \cup Said("quest", w.quests, {"title", "objective"})}

\* Every text that may reach a prompt: more of them than have terms checked.
PromptTexts(w) ==
    LineTexts(w) \cup Said("quest", w.quests, {"title", "objective", "summary"})
    \cup Said("entity", w.entities, {"description"}) \cup Said("term", w.terms, {"description", "forbidden", "aliases"})
    \cup Said("style_guide", w.styles, {"body"}) \cup Said("poi", w.pois, {"purpose"}) \cup Said("dialogue_tree", w.trees, {"line"})
PromptInjection(w) ==
    {<<"PROMPT_INJECTION", t[1], t[2]>> : t \in {t \in PromptTexts(w) : "instruction" \in t[3].words}}

UnreviewedAiContent(w) == {<<"UNREVIEWED_AI_CONTENT", ref, "">> : ref \in w.unreviewed}

-----------------------------------------------------------------------------
(* Dialogue trees.  An option without a next node ends the conversation; a tree needs a root. *)

\* <<<<node, option>>, target>>: option 0 is the node's own next one, and no node is the root's.
Links(t) ==
    {<<<<"", 0>>, t.root>>}
    \cup {<<<<n, 0>>, t.nodes[n].next>> : n \in {n \in DOMAIN t.nodes : t.nodes[n].next # "none"}}
    \cup UNION {{<<<<n, i>>, t.nodes[n].choices[i].to>> :
                    i \in {i \in DOMAIN t.nodes[n].choices : t.nodes[n].choices[i].to # "none"}} : n \in DOMAIN t.nodes}
BrokenLink(w) ==
    UNION {{<<"DIALOGUE_TREE_BROKEN_LINK", <<"dialogue_tree", id>>, l[1]>> :
               l \in {l \in Links(w.trees[id]) : l[2] \notin DOMAIN w.trees[id].nodes}} : id \in DOMAIN w.trees}
UnknownSpeaker(w) ==
    UNION {LET t == w.trees[id]
           IN  {<<"DIALOGUE_TREE_UNKNOWN_SPEAKER", <<"dialogue_tree", id>>, s>> :
                   s \in ({t.nodes[n].speaker : n \in DOMAIN t.nodes} \cup t.participants) \ (DOMAIN w.entities \cup {""})}
           : id \in DOMAIN w.trees}

Talk(t) == Reached({t.root}, LAMBDA n : {l[2] : l \in {l \in Links(t) : l[1][1] = n}} \cap DOMAIN t.nodes, DOMAIN t.nodes)
UnreachableNode(w) ==
    UNION {LET t == w.trees[id]
           IN  {<<"DIALOGUE_TREE_UNREACHABLE_NODE", <<"dialogue_tree", id>>, n>> : n \in DOMAIN t.nodes \ Talk(t)}
           : id \in {id \in DOMAIN w.trees : w.trees[id].root \in DOMAIN w.trees[id].nodes}}

\* Only the conditions of a tree whose quest has logic have a scope to be checked against.
Undeclared(w, logic, reads) ==
    {x \in reads : /\ ~ (x[1] = "var" /\ x[2] \in logic.declared)
                   /\ x[1] # "done"
                   /\ ~ (x[1] = "rep" /\ x[2] \in Factions(w))}
ChoiceCondition(w) ==
    UNION {LET t == w.trees[id]
           IN  {<<"DIALOGUE_CONDITION_UNDEFINED_VAR", <<"dialogue_tree", id>>, <<n[1], n[2]>>>> :
                   n \in {n \in UNION {{<<m, i, t.nodes[m].choices[i]>> : i \in DOMAIN t.nodes[m].choices}
                                       : m \in DOMAIN t.nodes} :
                             ~ n[3].parses \/ Undeclared(w, w.quests[t.quest].logic, n[3].reads) # {}}}
           : id \in {id \in DOMAIN w.trees : w.trees[id].quest \in DOMAIN w.quests
                                             /\ w.quests[w.trees[id].quest].logic.declared # {"no logic"}}}

\* "faults" are the codes of the quest's own audit; every dangling name has the same evidence.
QuestLogicIssues(w) ==
    UNION {LET q == w.quests[id]
               l == q.logic
               dangling == \/ ~ l.mentions \subseteq {s.id : s \in Elems(q.stages)}
                           \/ ~ l.unlocks \subseteq DOMAIN w.quests
                           \/ \E x \in l.reads : x[1] = "done" /\ x[2] \notin DOMAIN w.quests
                           \/ \E x \in l.reads \cup l.writes : x[1] = "rep" /\ x[2] \notin Factions(w)
           IN  {<<"QUEST_LOGIC", <<"quest", id>>, code>> :
                   code \in l.faults \cup (IF dangling THEN {"LOGIC_DANGLING_STATE_REF"} ELSE {})}
           : id \in {id \in DOMAIN w.quests : w.quests[id].logic.declared # {"no logic"}}}

-----------------------------------------------------------------------------
Warnings == {"DEPRECATED_ENTITY_REF", "DUPLICATE_RELATION", "POI_WITHOUT_NARRATIVE_PURPOSE", "TEXT_TOO_LONG_FOR_UI",
             "TERM_INCONSISTENT", "DIALOGUE_CONDITION_UNDEFINED_VAR", "DIALOGUE_TREE_UNREACHABLE_NODE",
             "UNREVIEWED_AI_CONTENT"}
IsError(issue) == issue[1] \notin Warnings

AllIssues(w) ==
    UNION {UnknownEntityRef(w), DeprecatedEntityRef(w), MissingPrerequisite(w), MissingDialogueRef(w),
           MissingRelationEndpoint(w), DuplicateRelation(w), RelationConflict(w), FactionConflict(w),
           PrerequisiteCycle(w), TimelineViolation(w), EventTooEarly(w), CharacterState(w), RegionBounds(w),
           PoiOutOfBounds(w), PoiWithoutPurpose(w), BannedContent(w), MissingLocalizationKey(w),
           MissingObjective(w), TextTooLong(w), PlaceholderMismatch(w), TermInconsistent(w), PromptInjection(w),
           UnreviewedAiContent(w), BrokenLink(w), UnknownSpeaker(w), UnreachableNode(w), ChoiceCondition(w),
           QuestLogicIssues(w)}

-----------------------------------------------------------------------------
(* Readiness: is an object finished, which says nothing of whether it is correct. *)

Connected(w) == UNION {{r.source, r.target} : r \in Elems(w.relations)}
Described(o) == "description" \in DOMAIN o.says /\ o.says.description.length > 0
ReadyQuest(q) ==
    q.says.objective.length >= LongEnough /\ q.stages # <<>> /\ q.rewarded /\ q.giver # "" /\ q.location # ""
ReadyCharacter(w, e) == Described(w.entities[e]) /\ w.entities[e].profile = "full" /\ e \in Connected(w)
ReadyFaction(w, e)   == Described(w.entities[e]) /\ e \in Connected(w)
ReadyRegion(r)       == Bounded(r) /\ r.themed
ReadyPoi(p)          == p.region # "" /\ p.purpose /\ p.faction # ""
ReadyTree(t) ==
    t.root \in DOMAIN t.nodes /\ (\E n \in DOMAIN t.nodes : Len(t.nodes[n].choices) >= 2) /\ t.participants # {}
AllReady(w) ==
    /\ \A q \in DOMAIN w.quests : ReadyQuest(w.quests[q])
    /\ \A e \in DOMAIN w.entities : /\ w.entities[e].kind = "npc" => ReadyCharacter(w, e)
                                    /\ w.entities[e].kind = "faction" => ReadyFaction(w, e)
    /\ \A r \in DOMAIN w.regions : ReadyRegion(w.regions[r])
    /\ \A p \in DOMAIN w.pois : ReadyPoi(w.pois[p])
    /\ \A t \in DOMAIN w.terms : Described(w.terms[t])
    /\ \A t \in DOMAIN w.trees : ReadyTree(w.trees[t])
=============================================================================
