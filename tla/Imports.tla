------------------------------ MODULE Imports ------------------------------
(***************************************************************************)
(* The strict imports (content/importers, content/normalize.py,            *)
(* content/ingest.py): a file is read into rows, the rows of a batch       *)
(* become objects and relations, and these are compared and merged with    *)
(* the world.  Texts are whole values; a row is a function from its fields *)
(* to texts.  A batch that the code refuses is [ok |-> FALSE].             *)
(***************************************************************************)
EXTENDS Naturals, Sequences, FiniteSets, SequencesExt, TLC

CONSTANTS
    Stem(_),        \* what a text is reduced to in an id
    IllFormed,      \* ids with a separator, a control character, or that are not texts
    Locales         \* the columns that are language codes

Row(kind, data, place) == [kind |-> kind, data |-> data, place |-> place]
Cell(data, field)  == IF field \in DOMAIN data THEN data[field] ELSE ""
OneOf(data, fields) ==
    LET given == SelectSeq(fields, LAMBDA f : Cell(data, f) # "")
    IN  IF given = <<>> THEN "" ELSE data[given[1]]
Or(text, other) == IF text = "" THEN other ELSE text

-----------------------------------------------------------------------------
(* Files: [format, name, sheet] with sheet a sequence of rows of cells, or of records of fields. *)

Place(file, i) == file.name \o ":" \o ToString(i)

\* A table of Luban has its fields in a row that is marked, shifted by the mark, and may
\* have comments below it and a line that repeats the fields.
Marked(cells) == cells # <<>> /\ cells[1] \in {"##", "##var", "##type"}
Luban(sheet)  == sheet # <<>> /\ sheet[1] # <<>> /\ sheet[1][1] = "##var"
Headers(sheet) == IF Luban(sheet) THEN SelectSeq(Tail(sheet[1]), LAMBDA h : h # "") ELSE sheet[1]
Data(headers, cells, blanks) ==
    LET used == {i \in DOMAIN headers : headers[i] # ""
                    /\ (blanks \/ (i \in DOMAIN cells /\ cells[i] # ""))}
        last(h) == CHOOSE i \in used : headers[i] = h /\ \A j \in used : headers[j] = h => j <= i
    IN  [h \in {headers[i] : i \in used} |->
            IF last(h) \in DOMAIN cells THEN cells[last(h)] ELSE ""]
DefaultKind(data) == Or(OneOf(data, <<"kind", "object_type">>), "entity")

\* A field that is blank stays in a row of a CSV, and is left out of a row of a workbook.
CsvRows(file) ==
    [i \in 1 .. Len(file.sheet) - 1 |->
        LET data == Data(file.sheet[1], file.sheet[i + 1], TRUE)
        IN  Row(DefaultKind(data), data, Place(file, i + 1))]
XlsxRows(file) ==
    LET headers == Headers(file.sheet)
        kept    == {i \in 2 .. Len(file.sheet) :
                       /\ ~ Marked(file.sheet[i])
                       /\ ~ (Luban(file.sheet) /\ file.sheet[i] = headers)
                       /\ DOMAIN Data(headers, file.sheet[i], FALSE) # {}}
    IN  [k \in 1 .. Cardinality(kept) |->
            LET i    == SetToSortSeq(kept, <)[k]
                data == Data(headers, file.sheet[i], FALSE)
            IN  Row(DefaultKind(data), data, Place(file, i))]

\* In a JSON file the fields tell the kind.
KindFor(data) ==
    CASE {"source", "target", "kind"} \subseteq DOMAIN data -> "relation"
      [] {"quest_id", "event_id"} \subseteq DOMAIN data \/ {"quest_id", "event"} \subseteq DOMAIN data
            -> "quest_event_ref"
      [] "text_key" \in DOMAIN data /\ {"locale", "text"} \cap DOMAIN data # {} -> "localized_text"
      [] OTHER -> Or(OneOf(data, <<"kind", "object_type", "type">>), "entity")
JsonRows(file) == [i \in DOMAIN file.sheet |-> Row(KindFor(file.sheet[i]), file.sheet[i], file.name)]

\* In a text, a heading [section |-> ...] tells the type of the entities listed below it; the
\* text itself is the style guide.
SectionTypes ==
    [npcs |-> "npc", locations |-> "location", factions |-> "faction", items |-> "item", events |-> "event",
     regions |-> "region", organizations |-> "organization", concepts |-> "concept", terms |-> "term"]
MarkdownRows(file) ==
    LET StyleRow == Row("style_guide", [id |-> "style_guide", body |-> file.name], Place(file, 1))
        Step(s, i) ==
            LET line == file.sheet[i]
            IN  IF "section" \in DOMAIN line THEN [s EXCEPT !.section = line.section]
                ELSE IF s.section \in DOMAIN SectionTypes
                     THEN [s EXCEPT !.rows = Append(@, Row("entity", line @@ [type |-> SectionTypes[s.section]],
                                                           Place(file, i)))]
                ELSE IF s.section = "relations" /\ {"source", "target", "kind"} \subseteq DOMAIN line
                     THEN [s EXCEPT !.rows = Append(@, Row("relation", line, Place(file, i)))]
                ELSE s
    IN  FoldLeft(Step, [section |-> "", rows |-> <<StyleRow>>], [i \in DOMAIN file.sheet |-> i]).rows

ParsePath(file) ==
    CASE file.format = "csv" -> CsvRows(file)
      [] file.format = "xlsx" -> XlsxRows(file)
      [] file.format = "json" -> JsonRows(file)
      [] file.format = "markdown" -> MarkdownRows(file)

\* A mapping of columns [columns, kind] may rename fields and fix the kind.  Of two columns
\* with one name the later counts; here renamed fields do not meet.
Mapped(row, mapping) ==
    LET renamed(f) == IF f \in DOMAIN mapping.columns THEN mapping.columns[f] ELSE f
        data == [g \in {renamed(f) : f \in DOMAIN row.data} |->
                    row.data[CHOOSE f \in DOMAIN row.data : renamed(f) = g]]
        kind == Or(mapping.kind, Or(OneOf(data, <<"object_type", "kind">>), row.kind))
    IN  Row(kind, data @@ [f \in {"kind"} |-> kind], row.place)

\* Of the mappings of a document: the one for the file, or else the one that shares most
\* columns with its first row.
MappingFor(mappings, file, rows) ==
    LET byPath    == {m \in DOMAIN mappings : mappings[m].file = file.name}
        shared(m) == Cardinality(DOMAIN mappings[m].columns \cap DOMAIN rows[1].data)
        some      == IF rows = <<>> THEN {} ELSE {m \in DOMAIN mappings : shared(m) > 0}
        best      == IF byPath # {} THEN byPath ELSE {m \in some : \A n \in some : shared(n) <= shared(m)}
    IN  IF best = {} THEN 0 ELSE CHOOSE m \in best : \A n \in best : m <= n
ParseWithMapping(file, mappings) ==
    LET rows == ParsePath(file)
        m    == MappingFor(mappings, file, rows)
    IN  IF m = 0 THEN rows ELSE [i \in DOMAIN rows |-> Mapped(rows[i], mappings[m])]
=============================================================================
