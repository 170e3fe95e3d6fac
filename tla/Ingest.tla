------------------------------- MODULE Ingest -------------------------------
(***************************************************************************)
(* From rows to objects (content/normalize.py), and the comparison of a    *)
(* batch with the world (content/ingest.py, audit/rules/import_rules.py).  *)
(* A world is [objects, relations]: objects under <<kind, id>>, each with  *)
(* what it says as a set of fields and texts, and where it comes from.     *)
(***************************************************************************)
EXTENDS Imports

EntityTypes == {"npc", "location", "faction", "item", "event", "region", "organization", "concept", "term"}

\* The kinds, under the names that rows give them.
KindNames ==
    ("entity" :> "entity") @@ ("quest" :> "quest") @@ ("quest_event_ref" :> "quest_event_ref")
    @@ ("quest_event" :> "quest_event_ref") @@ ("region" :> "region") @@ ("poi" :> "poi")
    @@ ("dialogue" :> "dialogue") @@ ("localized_text" :> "localized_text") @@ ("localization" :> "localized_text")
    @@ ("text" :> "localized_text") @@ ("term" :> "term") @@ ("style_guide" :> "style_guide")

\* Whatever has a name and a type is an entity, and a row of an unknown kind is passed over.
ObjectKind(row) ==
    IF row.kind = "entity" \/ {"name", "type"} \subseteq DOMAIN row.data THEN "entity"
    ELSE IF row.kind \in DOMAIN KindNames THEN KindNames[row.kind] ELSE "none"

\* The name of an object, from which an id is made if there is none.
GivenName(kind, data) ==
    CASE kind = "quest" -> OneOf(data, <<"title", "name">>)
      [] kind = "dialogue" -> OneOf(data, <<"text_key", "key">>)
      [] kind = "term" -> OneOf(data, <<"canonical", "preferred", "name">>)
      [] OTHER -> Cell(data, "name")

RefKind(data) ==
    IF {Cell(data, "ref_kind"), Cell(data, "kind")} \cap {"result", "references_event_result"} # {}
    THEN "references_result" ELSE "mentions_event"

FallbackId(kind, data) ==
    LET name == GivenName(kind, data)
    IN  CASE kind = "style_guide" -> "style_guide"
          [] kind = "quest_event_ref" ->
                Cell(data, "quest_id") \o ":" \o OneOf(data, <<"event_id", "event">>) \o ":" \o RefKind(data)
          [] name = "" -> ""
          [] kind = "entity" -> Or(Cell(data, "type"), "concept") \o "_" \o Stem(name)
          [] OTHER -> kind \o "_" \o Stem(name)
ResolveId(kind, data) == IF "id" \in DOMAIN data THEN data["id"] ELSE FallbackId(kind, data)

\* A row of texts in languages gives a text per language, from its columns and its own locale.
TextLocales(data) ==
    {l \in Locales : Cell(data, l) # ""}
    \cup (IF Cell(data, "locale") # "" /\ Cell(data, "text") # "" THEN {data["locale"]} ELSE {})
TextId(data, locale) ==
    "loc_" \o (IF Cardinality(TextLocales(data)) = 1 /\ Cell(data, "id") # "" THEN Stem(data["id"])
               ELSE Stem(OneOf(data, <<"text_key", "key", "id">>)) \o "_" \o locale)

Structural == {"kind", "object_type", "id", "name", "type"}
Says(data, without) == {<<f, data[f]>> : f \in {f \in DOMAIN data \ without : data[f] # ""}}
Object(name, type, fields, place, origin, status) ==
    [name |-> name, type |-> type, fields |-> fields, place |-> place, origin |-> origin, status |-> status]
Imported(name, type, fields, place) == Object(name, type, fields, place, "human", "approved")

\* What a row makes: a set of [key, object].  A type that is not given is guessed from the id.
Made(row) ==
    LET kind == ObjectKind(row)
        id   == ResolveId(kind, row.data)
    IN  CASE kind = "none" -> {}
          [] kind = "localized_text" ->
                {[key |-> <<kind, TextId(row.data, l)>>,
                  object |-> Imported(l, "", Says(row.data, Structural \cup Locales) \cup
                                     {<<"text", IF Cell(row.data, l) # "" THEN row.data[l] ELSE row.data["text"]>>},
                                     row.place)] : l \in TextLocales(row.data)}
          [] OTHER ->
                {[key |-> <<kind, id>>,
                  object |-> Imported(Or(GivenName(kind, row.data), id), Cell(row.data, "type"),
                                     Says(row.data, Structural), row.place)]}

\* A row that cannot be read refuses the whole batch.
Refused(row) ==
    LET kind == ObjectKind(row)
    IN  \/ kind \notin {"none", "localized_text"} /\ ResolveId(kind, row.data) \in IllFormed \cup {""}
        \/ kind = "entity" /\ Cell(row.data, "type") \notin EntityTypes \cup {""}

Related(source, kind, target, how) == [source |-> source, kind |-> kind, target |-> target, how |-> how]

\* A relation may name its ends; of two entities with one name the later counts.
IdOf(rows, text) ==
    LET named == {i \in DOMAIN rows : ObjectKind(rows[i]) = "entity"
                     /\ text = Or(GivenName("entity", rows[i].data), ResolveId("entity", rows[i].data))}
    IN  IF named = {} THEN text
        ELSE LET i == CHOOSE i \in named : \A j \in named : j <= i IN ResolveId("entity", rows[i].data)
RowRelations(rows) ==
    LET mine == SelectSeq(rows, LAMBDA r : r.kind = "relation")
    IN  [i \in DOMAIN mine |->
            Related(IdOf(rows, Cell(mine[i].data, "source")), Cell(mine[i].data, "kind"),
                    IdOf(rows, Cell(mine[i].data, "target")), "human")]

\* A faction that an entity or a place names becomes a relation, unless the batch has it.
Derived(objects, given) ==
    LET tie(k) == CASE k[1] = "entity" -> <<"member_of", "faction">>
                    [] k[1] = "poi" -> <<"controlled_by", "controlling_faction">>
                    [] OTHER -> <<"", "">>
        made == UNION {{Related(k[2], tie(k)[1], f[2], "human") :
                           f \in {f \in objects[k].fields : f[1] = tie(k)[2]}} : k \in DOMAIN objects}
    IN  SetToSeq({r \in made : ~ \E i \in DOMAIN given : given[i] = r})

NormalizeRawObjects(rows) ==
    LET all    == UNION {{[key |-> m.key, object |-> m.object, row |-> i] : m \in Made(rows[i])} : i \in DOMAIN rows}
        twice  == \E m, n \in all : m.key = n.key /\ m # n
        object == [k \in {m.key : m \in all} |-> (CHOOSE m \in all : m.key = k).object]
        given  == RowRelations(rows)
    IN  IF (\E i \in DOMAIN rows : Refused(rows[i])) \/ twice THEN [ok |-> FALSE]
        ELSE [ok |-> TRUE, objects |-> object, relations |-> given \o Derived(object, given)]

-----------------------------------------------------------------------------
\* An object conflicts with the world's if they differ in anything, also in where they come from.
Conflicts(world, batch) ==
    {k \in DOMAIN world.objects \cap DOMAIN batch.objects : world.objects[k] # batch.objects[k]}

\* A dictionary over another: of two values under one key, the first's.
Over(f, g) == [k \in DOMAIN f \cup DOMAIN g |-> IF k \in DOMAIN f THEN f[k] ELSE g[k]]

\* (wrong: the batch's objects replace the world's)
MergedOver(world, batch) ==
    [objects |-> Over(batch.objects, world.objects), relations |-> world.relations \o batch.relations]

\* The relations of a batch are added whatever the world has.
MergeBundles(world, batch) ==
    [objects |-> Over(world.objects, batch.objects), relations |-> world.relations \o batch.relations]

DiffBundles(world, batch) ==
    [k \in DOMAIN batch.objects |->
        IF k \in Conflicts(world, batch) THEN "conflict"
        ELSE IF k \in DOMAIN world.objects THEN "unchanged" ELSE "add"]
=============================================================================
