------------------------------ MODULE MCInputs -------------------------------
(***************************************************************************)
(* The small worlds, files and texts that intake, extraction, answers and  *)
(* the search for repairs are run on.                                      *)
(***************************************************************************)
EXTENDS Naturals, Sequences, TLC

CONSTANTS q1, q2, q3, Ghost, Swapped, Stuck, Unset, Intact, Broken     \* of the worlds to repair

(* Files to import and to recognise, and the world that they come into. *)

StemOf(text)   == CASE text = "Ada L." -> "ada_l" [] text = "Ada L" -> "ada_l" [] OTHER -> text
SplitCell(text) == CASE text = "" -> <<>> [] text = "ada;town" -> <<"ada", "town">> [] OTHER -> <<text>>
Quotes(text) == CASE text = "ada meets bea" -> {"ada meets"} [] text = "scene.ink" -> {"-> market"} [] OTHER -> {}
BadIds == {"a:b", "#5"}
Languages == {"en", "de"}

F(format, name, sheet) == [format |-> format, name |-> name, sheet |-> sheet]
TheFiles ==
       "cast" :> F("csv", "cast.csv", <<<<"id", "name", "type", "faction", "">>,
                                       <<"ada", "Ada", "npc", "guild", "?">>, <<"guild", "Guild", "faction">>>>)
    @@ "new cast" :> F("csv", "cast.csv", <<<<"id", "name", "type">>, <<"ada", "Ada the Elder", "npc">>,
                                           <<"bea", "Bea", "npc">>>>)
    @@ "ties" :> F("json", "ties.json", <<[source |-> "Ada", target |-> "guild", kind |-> "knows"],
                                         [id |-> "ada", name |-> "Ada", type |-> "npc"],
                                         [kind |-> "faction", name |-> "Guild", type |-> "faction", id |-> "guild"],
                                         [quest_id |-> "q", event |-> "war"], [title |-> "Find", kind |-> "quest"],
                                         [text_key |-> "hi", locale |-> "fr", text |-> "salut", en |-> "hi"],
                                         [kind |-> "rumour", id |-> "r"]>>)
    @@ "book" :> F("xlsx", "book.xlsx", <<<<"##var", "id", "name", "kind">>, <<"##type", "", "">>, <<"id", "name", "kind">>,
                                         <<"inn", "Inn", "poi">>, <<"", "Guild", "term">>>>)
    @@ "lore" :> F("markdown", "lore.md", <<[section |-> "npcs"], [name |-> "Cid", description |-> "a smith"],
                                           [section |-> "relations"],
                                           [source |-> "Cid", kind |-> "lives in", target |-> "town"]>>)
    @@ "twice" :> F("csv", "twice.csv", <<<<"name", "type">>, <<"Ada L.", "npc">>, <<"Ada L", "npc">>>>)
    @@ "bad id" :> F("csv", "bad.csv", <<<<"id", "name", "type">>, <<"a:b", "Bob", "npc">>>>)
TheMappings == <<[file |-> "book.xlsx", columns |-> [name |-> "canonical"], kind |-> "term"],
                 [file |-> "", columns |-> [faction |-> "house", type |-> "type"], kind |-> ""]>>

S(format, name, names, content) == [format |-> format, name |-> name, names |-> names, content |-> content]
Field(shape, texts) == [shape |-> shape, texts |-> texts]
Line(says, of)  == [says |-> says, of |-> of, mark |-> ""]
Model(type, id, source, target, speaker) ==
    [type |-> type, id |-> id, name |-> "", source |-> source, target |-> target, speaker |-> speaker]
TheSources ==
       "roster" :> S("table", "roster.xlsx", {"ada", "town", "Bea"},
                     [columns |-> <<"id", "name", "type", "note", "ally", "home">>,
                      rows |-> <<[id |-> "bea", name |-> "Bea", type |-> "npc", note |-> "ada meets bea", ally |-> "ada"],
                                 [id |-> "dan", name |-> "", type |-> "hero", ally |-> "bea", home |-> "town"],
                                 [id |-> "", name |-> "Nobody"], [id |-> "bea", name |-> "Bea", ally |-> "dan"]>>])
    @@ "assets" :> S("engine", "assets.json", {"ada", "town"},
                     <<[id |-> "sword", type |-> "item", name |-> "Sword",
                        fields |-> ("owner" :> Field("text", <<"ada">>)) @@ ("icon" :> Field("asset", <<"guid">>))
                                   @@ ("parts" :> Field("list", <<"hilt", "town">>))],
                       [id |-> "", type |-> "", name |-> "", fields |-> "made of" :> Field("handle", <<"sword">>)]>>)
    @@ "flow" :> S("articy", "flow.json", {},
                   <<Model("Dialogue", "d", "", "", "h"), Model("Hero", "h", "", "", ""),
                     Model("Connection", "c", "d", "h", ""), Model("Connection", "c", "d", "gone", ""),
                     Model("Hub", "d", "", "", "")>>)
    @@ "scene" :> S("ink", "scene.ink", {},
                    <<Line("divert", "market"), Line("knot", "market"), Line("stitch", "stall"), Line("divert", "market"),
                      [says |-> "text", of |-> "", mark |-> "opens"], Line("knot", "hidden"),
                      [says |-> "divert", of |-> "stall", mark |-> "closes"], Line("function", "count"),
                      Line("divert", "END"), Line("divert", "hidden")>>)
    @@ "talk" :> S("yarn", "talk.yarn", {},
                   <<Line("title", "start"), Line("rule", ""), Line("speaker", "ada"), Line("jump", "next"),
                     Line("end", ""), Line("title", "next"), Line("rule", ""), Line("jump", "nowhere"), Line("end", "")>>)

Claim(source, target, evidence, sure) ==
    [source |-> source, kind |-> "knows", target |-> target, evidence |-> evidence, sure |-> sure]
TheAnswers == {
    <<Claim("bea", "dan", "ada meets", TRUE), Claim("bea", "dan", "ada meets", TRUE), Claim("bea", "bea", "ada meets", TRUE),
      Claim("bea", "eve", "ada meets", TRUE), Claim("dan", "bea", "bea meets", TRUE)>>,
    <<Claim("market", "market.stall", "-> market", TRUE), Claim("market.stall", "market", "-> market", FALSE)>>}

Here(name, type) ==
    [name |-> name, type |-> type, fields |-> {}, place |-> "start", origin |-> "human", status |-> "approved"]
Before ==
    [objects |-> (<<"entity", "town">> :> Here("Town", "location")) @@ (<<"poi", "gate">> :> Here("Gate", "")),
     relations |-> <<>>]
Touched == {<<"entity", "ada">>, <<"entity", "bea">>}

-----------------------------------------------------------------------------
(* Manuscripts and what a model may tell of them: aliases that tie slots of one kind, or of two. *)

Names == <<"li", "li.", "bai", "raven", "taibai">>
SlugOf == [x \in {"li", "li.", "bai", "raven", "taibai", "meet"} |-> IF x = "li." THEN "li" ELSE x]
Positions ==
    ("li" :> {1}) @@ ("li." :> {}) @@ ("bai" :> {2}) @@ ("raven" :> {9}) @@ ("taibai" :> {3})
InWorld == {<<"npc", "li", 1>>}

Fact(kind, name, aliases, size) == [kind |-> kind, name |-> name, aliases |-> aliases, size |-> size]
Tie(source, kind, target) == [source |-> source, kind |-> kind, target |-> target]
Payload(facts, relations, beats) == [facts |-> facts, relations |-> relations, beats |-> beats]
Beat(title, place, who) == [title |-> title, place |-> place, who |-> who]

Payloads == {
    Payload(<<Fact("npc", "li", {"bai"}, 0), Fact("faction", "raven", {}, 2)>>,
            <<Tie("li", "serves", "raven"), Tie("li", "is", "li")>>, <<Beat("meet", "raven", {"li", "bai"})>>),
    Payload(<<Fact("npc", "bai", {"taibai"}, 1), Fact("npc", "li.", {}, 0), Fact("term", "li", {}, 1)>>,
            <<Tie("bai", "knows", "li."), Tie("bai", "owns", "sword")>>, <<Beat("meet", "", {})>>),
    Payload(<<Fact("npc", "taibai", {}, 2), Fact("location", "raven", {"bai"}, 1)>>,
            <<Tie("taibai", "is", "li"), Tie("taibai", "lives in", "raven")>>, <<>>),
    Payload(<<Fact("npc", "li", {}, 1), Fact("location", "taibai", {}, 1)>>, <<Tie("li", "knows", "taibai")>>, <<>>),
    Payload(<<>>, <<>>, <<>>)}

AllTexts == UNION {[1 .. n -> 1 .. 8] : n \in 1 .. 4}
ReadTexts == {<<2>>, <<8, 1>>}

-----------------------------------------------------------------------------
(* Worlds for LoreAnswers: components of at most three objects, an event that only an event ref connects, an
   id that an object and a term share, an object that is removed while it is still named. *)

A == <<"entity", "a">>
B == <<"entity", "b">>
Q == <<"quest", "q">>
T == <<"term", "a">>
X == <<"quest_event_ref", "x">>

RefOrder == <<A, B, Q>>

Related(f, k, t) == [from |-> f, kind |-> k, to |-> t]
Use(owner, kind, id) == [owner |-> owner, kind |-> kind, id |-> id]

\* The kind of a thing is its type, but for entities.
Kinds(objects, b) == [o \in objects |-> IF o = A THEN "npc" ELSE IF o = B THEN b ELSE o[1]]

\* A character guards a quest, and is an event of it by the event ref; another is by itself.
FirstLore ==
    [text |-> A :> "old" @@ B :> "old" @@ Q :> "old" @@ T :> "old" @@ X :> "old",
     kind |-> Kinds({A, B, Q, T, X}, "npc"),
     rels |-> <<Related("b", "guards", "q")>>,
     uses |-> {Use(X, "quest_event_ref", "q"), Use(X, "event_ref", "b")}]

\* The term and the event are gone, a text is new, and the guard is of another kind.
LaterLore ==
    [text |-> A :> "new" @@ B :> "old" @@ Q :> "old",
     kind |-> Kinds({A, B, Q}, "place"),
     rels |-> <<Related("b", "guards", "q")>>,
     uses |-> {}]

\* The guard was removed, and is still named by a relation and by the quest.
DanglingLore ==
    [text |-> A :> "old" @@ Q :> "old",
     kind |-> Kinds({A, Q}, "npc"),
     rels |-> <<Related("a", "allied_with", "b")>>,
     uses |-> {Use(Q, "giver_npc", "b")}]

LoreWorlds == {FirstLore, LaterLore, DanglingLore}

-----------------------------------------------------------------------------
(* Worlds to repair: two whose fixes compete, and one with a value that is only exchanged for another. *)

Remove(f)     == [op |-> "remove", kind |-> "field", at |-> f, val |-> Unset]
Replace(f, v) == [op |-> "replace", kind |-> "field", at |-> f, val |-> v]

\* A move that repairs two fields forecloses a third, which is repaired only while the second is open;
\* once the first is repaired, a value may be exchanged for one that is no better, and back.
Competing(d) ==
    (IF d.fields[q1] = Ghost /\ d.fields[q2] = Ghost THEN {<<Remove(q1), Remove(q2)>>} ELSE {})
    \cup (IF d.fields[q3] = Swapped /\ d.fields[q2] = Ghost THEN {<<Remove(q3)>>} ELSE {})
    \cup (IF d.fields[q3] = Swapped /\ d.fields[q1] = Unset THEN {<<Replace(q3, Stuck)>>} ELSE {})
    \cup (IF d.fields[q3] = Stuck /\ d.fields[q1] = Unset THEN {<<Replace(q3, Swapped)>>} ELSE {})

World(a, b, c, rels) == [fields |-> (q1 :> a @@ q2 :> b @@ q3 :> c), rels |-> rels]
Repairables == {World(Ghost, Ghost, Swapped, <<>>), World(Unset, Ghost, Swapped, <<>>),
                World(Unset, Unset, Stuck, <<Broken, Intact, Broken>>)}
=============================================================================
