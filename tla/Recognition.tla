----------------------------- MODULE Recognition -----------------------------
(***************************************************************************)
(* Foreign files read into an editable plan (recognize/): a table whose    *)
(* columns are not known, exports of articy, Unreal and Unity, and scripts *)
(* of ink and Yarn.  A plan proposes entities and relations, each with how *)
(* it was found; a model may propose more relations, within guards.        *)
(* Scripts are sequences of lines that say what the readers look for.      *)
(***************************************************************************)
EXTENDS Ingest

CONSTANTS
    Split(_),       \* the values in a cell
    Spans(_)        \* the passages of a text that can be quoted from it

Entity(id, name, type, fields, locator) ==
    [id |-> id, name |-> name, type |-> type, fields |-> fields, locator |-> locator]
Relation(source, kind, target) == Related(source, kind, target, "deterministic")
Plan(entities, relations) == [entities |-> entities, relations |-> relations]

\* Without those whose id came before.
FirstOfEach(entities) ==
    LET Step(kept, e) == IF \E i \in DOMAIN kept : kept[i].id = e.id THEN kept ELSE Append(kept, e)
    IN  FoldLeft(Step, <<>>, entities)
Ids(entities) == {entities[i].id : i \in DOMAIN entities}
Flat(seqs) == FlattenSeq(seqs)

-----------------------------------------------------------------------------
(* Tables: [columns, rows], the rows from columns to texts. *)

IdNames   == {"id", "key"}
NameNames == {"name", "title"}
TypeNames == {"type", "category"}
DescNames == {"description", "note"}
Pick(columns, names) == LET named == SelectSeq(columns, LAMBDA c : c \in names)
                        IN  IF named = <<>> THEN "" ELSE named[1]

Values(table, column) == Flat([i \in DOMAIN table.rows |-> Split(Cell(table.rows[i], column))])

\* A column refers to objects if at least 60 % of its values are ids of rows or of the world.
IsForeignKey(values, ids) ==
    LET hits == Len(SelectSeq(values, LAMBDA v : v \in ids))
    IN  hits > 0 /\ 10 * hits >= 6 * Len(values)

InferMapping(table, canonIds) ==
    LET idColumn   == Or(Pick(table.columns, IdNames), Or(Pick(table.columns, NameNames), table.columns[1]))
        nameColumn == Or(Pick(table.columns, NameNames), idColumn)
        named      == {idColumn, nameColumn, Pick(table.columns, TypeNames), Pick(table.columns, DescNames)}
        ids        == canonIds \cup {Cell(table.rows[i], idColumn) : i \in DOMAIN table.rows}
    IN  [id |-> idColumn, name |-> nameColumn, type |-> Pick(table.columns, TypeNames),
         note |-> Pick(table.columns, DescNames),
         keys |-> {c \in {table.columns[i] : i \in DOMAIN table.columns} \ named :
                      IsForeignKey(Values(table, c), ids)}]

\* The first row with an id is kept; the relations of the others are kept, too.
RecognizeTable(table, mapping) ==
    LET id(i)  == Cell(table.rows[i], mapping.id)
        fields == {table.columns[i] : i \in DOMAIN table.columns}
                  \ ({mapping.id, mapping.name, mapping.type, mapping.note} \cup mapping.keys)
        entity(i) == LET row == table.rows[i]
                     IN  Entity(id(i), Or(Cell(row, mapping.name), id(i)), Or(Cell(row, mapping.type), "concept"),
                                {<<f, row[f]>> : f \in {f \in fields : Cell(row, f) # ""}}
                                \cup {<<"description", Cell(row, mapping.note)>>},
                                "row:" \o ToString(i))
        rows   == SelectSeq([i \in DOMAIN table.rows |-> i], LAMBDA i : id(i) # "")
        keys   == SetToSeq(mapping.keys)
        related(i) == Flat([k \in DOMAIN keys |->
                         LET targets == Split(Cell(table.rows[i], keys[k]))
                         IN  [t \in DOMAIN targets |-> Relation(id(i), keys[k], targets[t])]])
    IN  Plan(FirstOfEach([k \in DOMAIN rows |-> entity(rows[k])]), Flat([k \in DOMAIN rows |-> related(rows[k])]))

-----------------------------------------------------------------------------
(* Exports of engines: rows [id, type, name, fields], a field with a shape and the texts in it. *)

IdOfRow(export, i) == Or(export[i].id, "row_" \o ToString(i))
Resolving(texts, ids) == SelectSeq(texts, LAMBDA t : t \in ids)

\* A row handle always refers; a text or a list of texts only if it is a known id; a reference
\* to an asset and a structure are kept as they are.
Targets(value, ids) ==
    CASE value.shape = "handle" -> value.texts
      [] value.shape \in {"list", "text"} -> Resolving(value.texts, ids)
      [] OTHER -> <<>>
RecognizeEngineData(export, canonIds) ==
    LET ids  == canonIds \cup {IdOfRow(export, i) : i \in DOMAIN export}
        to(i, f) == Targets(export[i].fields[f], ids)
        kept(i)  == {f \in DOMAIN export[i].fields : to(i, f) = <<>>}
        names(i) == SetToSeq(DOMAIN export[i].fields)
    IN  Plan([i \in DOMAIN export |->
                 Entity(IdOfRow(export, i), Or(export[i].name, IdOfRow(export, i)), Or(export[i].type, "concept"),
                        UNION {{<<f, export[i].fields[f].texts[t]>> : t \in DOMAIN export[i].fields[f].texts} :
                                  f \in kept(i)},
                        "row:" \o IdOfRow(export, i))],
             Flat([i \in DOMAIN export |->
                 Flat([k \in DOMAIN names(i) |->
                     [t \in DOMAIN to(i, names(i)[k]) |->
                         Relation(IdOfRow(export, i), names(i)[k], to(i, names(i)[k])[t])]])]))

-----------------------------------------------------------------------------
(* articy: models [type, id, name, source, target, speaker]. *)

FlowTypes == {"Dialogue", "DialogueFragment", "FlowFragment", "Hub", "Jump"}
ArticyType(t) == IF t \in FlowTypes THEN "event" ELSE IF t = "Location" THEN "location" ELSE "concept"

\* Connections and speakers count between known objects.
RecognizeArticy(models) ==
    LET objects   == SelectSeq(models, LAMBDA m : m.type # "Connection" /\ m.id # "")
        known     == {objects[i].id : i \in DOMAIN objects}
        links     == SelectSeq(models, LAMBDA m : m.type = "Connection" /\ {m.source, m.target} \subseteq known)
        speaking  == SelectSeq(objects, LAMBDA m : m.speaker \in known)
    IN  Plan([i \in DOMAIN objects |->
                 LET m == objects[i]
                 IN  Entity(m.id, Or(m.name, m.id), ArticyType(m.type), {<<"articy_type", m.type>>},
                            "articy:" \o m.id)],
             [i \in DOMAIN links |-> Relation(links[i].source, "leads_to", links[i].target)]
             \o [i \in DOMAIN speaking |-> Relation(speaking[i].speaker, "speaks_in", speaking[i].id)])

-----------------------------------------------------------------------------
(* Scripts: lines [says, of, mark], where a mark opens, closes or holds a comment. *)

Node(name, i, type) == Entity(name, name, type, {}, name \o "@L" \o ToString(i))
Noted(nodes, node) ==
    IF \E i \in DOMAIN nodes : nodes[i].id = node.id /\ nodes[i].type = node.type THEN nodes ELSE Append(nodes, node)
NoNode == "(root)"

\* What is left of a line of ink that a comment begins or ends in is what the line says.
InkStep(s, line) ==
    LET hidden == s.comment /\ line.mark # "closes"
        t == IF hidden THEN [s EXCEPT !.n = @ + 1]
             ELSE [s EXCEPT !.n = @ + 1, !.comment = line.mark = "opens"]
        enter(knot, node) == [t EXCEPT !.knot = knot, !.at = node,
                                       !.nodes = Noted(@, Node(node, t.n, "event"))]
    IN  CASE hidden -> t
          [] ~ hidden /\ line.says = "knot" -> enter(line.of, line.of)
          [] ~ hidden /\ line.says = "stitch" /\ s.knot # "" -> enter(s.knot, s.knot \o "." \o line.of)
          [] ~ hidden /\ line.says = "divert" /\ line.of \notin {"END", "DONE"} ->
                [t EXCEPT !.diverts = Append(@, [from |-> s.at, knot |-> s.knot, to |-> line.of])]
          [] OTHER -> t

\* A target is a node, or a stitch of the knot that it is named in.
RecognizeInk(lines) ==
    LET s == FoldLeft(InkStep, [n |-> 0, comment |-> FALSE, knot |-> "", at |-> NoNode, nodes |-> <<>>,
                                diverts |-> <<>>], lines)
        known == Ids(s.nodes)
        end(d) == IF d.to \in known THEN d.to ELSE d.knot \o "." \o d.to
        landed == SelectSeq(s.diverts, LAMBDA d : d.from \in known /\ end(d) \in known)
    IN  Plan(s.nodes, [i \in DOMAIN landed |-> Relation(landed[i].from, "leads_to", end(landed[i]))])

\* In Yarn, a title names the node whose lines follow a rule; whoever speaks is a character.
YarnStep(s, line) ==
    LET t == [s EXCEPT !.n = @ + 1]
        speaks == Relation(line.of, "speaks_in", s.at)
    IN  CASE line.says = "rule" /\ s.title # "" ->
                [t EXCEPT !.body = TRUE, !.at = s.title, !.title = "",
                          !.nodes = Noted(@, Node(s.title, t.n, "event"))]
          [] line.says = "rule" /\ s.title = "" -> [t EXCEPT !.body = TRUE]
          [] line.says = "end" -> [t EXCEPT !.body = FALSE, !.at = NoNode]
          [] line.says = "title" /\ ~ s.body -> [t EXCEPT !.title = line.of]
          [] line.says = "jump" /\ s.body /\ s.at # NoNode -> [t EXCEPT !.jumps = Append(@, <<s.at, line.of>>)]
          [] line.says = "speaker" /\ s.body /\ s.at # NoNode ->
                [t EXCEPT !.said = Append(@, speaks),
                          !.nodes = Noted(@, Node(line.of, t.n, "npc"))]
          [] OTHER -> t
RecognizeYarn(lines) ==
    LET s == FoldLeft(YarnStep, [n |-> 0, body |-> FALSE, at |-> NoNode, title |-> "", nodes |-> <<>>,
                                 said |-> <<>>, jumps |-> <<>>], lines)
        landed == SelectSeq(s.jumps, LAMBDA j : j[2] \in Ids(SelectSeq(s.nodes, LAMBDA e : e.type = "event")))
    IN  Plan(s.nodes,
             s.said \o [i \in DOMAIN landed |-> Relation(landed[i][1], "leads_to", landed[i][2])])

Recognize(source, canonIds) ==
    CASE source.format = "table" -> RecognizeTable(source.content, InferMapping(source.content, canonIds))
      [] source.format = "engine" -> RecognizeEngineData(source.content, canonIds)
      [] source.format = "articy" -> RecognizeArticy(source.content)
      [] source.format = "ink" -> RecognizeInk(source.content)
      [] source.format = "yarn" -> RecognizeYarn(source.content)

-----------------------------------------------------------------------------
\* What a model is asked about: the script, or else what the plan says of its entities.
Passages(source, plan) ==
    IF source.format \in {"ink", "yarn"} THEN Spans(source.name)
    ELSE UNION {UNION {Spans(f[2]) : f \in {f \in plan.entities[i].fields : f[1] = "description"}} :
                   i \in DOMAIN plan.entities}

(* What a model proposes: relations with the passage that proves them, and a confidence. *)

\* Between entities of the plan, of a passage that is there, and once.
Passes(plan, passages, kept, p) ==
    /\ {p.source, p.target} \subseteq Ids(plan.entities)
    /\ p.source # p.target
    /\ p.evidence \in passages
    /\ p.sure
    /\ ~ \E i \in DOMAIN kept : kept[i] = Related(p.source, p.kind, p.target, "llm")
ProposeGuarded(plan, passages, proposals) ==
    LET Step(kept, p) == IF Passes(plan, passages, kept, p)
                         THEN Append(kept, Related(p.source, p.kind, p.target, "llm")) ELSE kept
    IN  IF plan.entities = <<>> \/ passages = {} THEN plan
        ELSE [plan EXCEPT !.relations = @ \o FoldLeft(Step, <<>>, proposals)]

-----------------------------------------------------------------------------
(* From the plan to the world. *)

\* A type that is not known becomes a field.
CoerceType(type) == IF type \in EntityTypes THEN type ELSE "concept"
ToEntity(e, file) ==
    Object(e.name, CoerceType(e.type),
           e.fields \cup (IF e.type \in EntityTypes THEN {} ELSE {<<"source_type", e.type>>})
                    \cup {<<"import_locator", e.locator>>},
           file, "human", "pending_review")

\* What tells two versions of an entity apart: not where they come from, but where in it.
Fingerprint(o) == [name |-> o.name, type |-> o.type, fields |-> o.fields \ {<<"description", "">>}]

\* Of two proposals with one id, each is compared; here an id is unchanged if all of them are.
DiffAgainstCanon(plan, file, world) ==
    [e \in Ids(plan.entities) |->
        LET key  == <<"entity", e>>
            mine == {i \in DOMAIN plan.entities : plan.entities[i].id = e}
        IN  IF key \notin DOMAIN world.objects THEN "new"
            ELSE IF \A i \in mine : Fingerprint(ToEntity(plan.entities[i], file)) = Fingerprint(world.objects[key])
                 THEN "unchanged" ELSE "changed"]

\* The later of two proposals with one id is taken, and the relations that begin at a taken one.
PlanToBundle(plan, file, ids) ==
    [objects |-> [key \in {<<"entity", e>> : e \in ids} |->
                     LET mine == {i \in DOMAIN plan.entities : plan.entities[i].id = key[2]}
                     IN  ToEntity(plan.entities[CHOOSE i \in mine : \A j \in mine : j <= i], file)],
     relations |-> SelectSeq(plan.relations, LAMBDA r : r.source \in ids)]
=============================================================================
