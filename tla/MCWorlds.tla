------------------------------ MODULE MCWorlds ------------------------------
(* A clean and complete world, and worlds that differ from it in one or two places. *)
EXTENDS AuditRules

Text(words) == [words |-> words, holes |-> {}, length |-> 2]
Plain == Text({})
NoLogic == [declared |-> {"no logic"}, faults |-> {}, mentions |-> {}, unlocks |-> {}, reads |-> {}, writes |-> {}]
Logic   == [NoLogic EXCEPT !.declared = {"seen"}]
Entity(kind, order) ==
    [kind |-> kind, status |-> "active", active |-> TRUE, order |-> order, profile |-> "full",
     says |-> [description |-> Plain]]
Quest(prereqs, order) ==
    [giver |-> "npc", location |-> "town", stages |-> <<[id |-> "s", location |-> "town", needs |-> {"npc"}]>>,
     prereqs |-> prereqs, order |-> order, dialogues |-> {"hello"}, keyed |-> TRUE, main |-> FALSE,
     rewarded |-> TRUE, results |-> {}, logic |-> Logic, says |-> [title |-> Plain, objective |-> Plain, summary |-> Plain]]
Line(kind, id, locale) ==
    [kind |-> kind, id |-> id, key |-> "k", locale |-> locale, speaker |-> "npc", text |-> Plain, limit |-> 0]
Option(to) == [to |-> to, parses |-> TRUE, reads |-> {<<"var", "seen">>}]
Relation(source, kind, target) == [source |-> source, kind |-> kind, target |-> target, file |-> "f"]

Clean == [
    entities |-> [x \in {"npc", "ours", "theirs", "war"} |->
        CASE x = "npc" -> Entity("npc", NoOrder) [] x = "war" -> Entity("event", 2) [] OTHER -> Entity("faction", NoOrder)],
    relations |-> <<Relation("npc", "member_of", "ours"), Relation("town", "controlled_by", "theirs")>>,
    events |-> [v \in {"v"} |-> [quest |-> "q2", event |-> "war", result |-> TRUE]],
    quests |-> [q \in {"q1", "q2"} |-> IF q = "q1" THEN Quest({}, 1) ELSE Quest({"q1"}, 3)],
    regions |-> [x \in {"land"} |-> [min |-> 1, max |-> 3, banned |-> {"gore"}, themed |-> TRUE]],
    pois |-> [x \in {"town"} |-> [region |-> "land", faction |-> "theirs", purpose |-> TRUE, min |-> 1, max |-> 3,
                                  tags |-> {}, says |-> [purpose |-> Plain]]],
    lines |-> <<Line("dialogue", "hello", "en"), Line("localized_text", "hallo", "de")>>,
    terms |-> [x \in {"t"} |-> [forbidden |-> {"slur"}, says |-> [description |-> Plain]]],
    styles |-> [x \in {"style_guide"} |-> [says |-> [body |-> Plain]]],
    trees |-> [x \in {"talk"} |->
        [root |-> "n", quest |-> "q1", participants |-> {"npc"},
         nodes |-> [n \in {"n", "m"} |-> [speaker |-> "npc", next |-> "none",
                                         choices |-> IF n = "n" THEN <<Option("m"), Option("none")>> ELSE <<>>]],
         says |-> [line |-> Plain]]],
    unreviewed |-> {}]

\* One for every rule and checklist, by what went wrong.
Broken == {
    [Clean EXCEPT !.quests["q1"].stages[1].needs = {"gone", "lost"}],
    [Clean EXCEPT !.entities["npc"].status = "deprecated"],
    [Clean EXCEPT !.quests["q1"].prereqs = {"gone"}],
    [Clean EXCEPT !.quests["q1"].dialogues = {"gone"}],
    [Clean EXCEPT !.relations = Append(@, Relation("npc", "knows", "gone"))],
    [Clean EXCEPT !.relations = Append(@, Relation("npc", "member_of", "ours"))],
    [Clean EXCEPT !.relations = @ \o <<Relation("ours", "enemy_of", "theirs"), Relation("theirs", "allied_with", "ours")>>],
    [Clean EXCEPT !.relations = <<Relation("ours", "enemy_of", "theirs")>> \o @],
    [Clean EXCEPT !.quests["q1"].prereqs = {"q2"}],
    [Clean EXCEPT !.quests["q1"].order = 3],
    [Clean EXCEPT !.entities["war"].order = 4],
    [Clean EXCEPT !.entities["war"].order = 4, !.events = <<>>, !.quests["q2"].results = {"war"}],
    [Clean EXCEPT !.entities["npc"].status = "dead"],
    [Clean EXCEPT !.regions["land"].min = -1],
    [Clean EXCEPT !.pois["town"].max = 4],
    [Clean EXCEPT !.pois["town"].purpose = FALSE],
    [Clean EXCEPT !.pois["town"].tags = {"gore"}],
    [Clean EXCEPT !.quests["q2"].keyed = FALSE],
    [Clean EXCEPT !.quests["q2"].says.objective.length = 0],
    [Clean EXCEPT !.lines[1].text.length = 9],
    [Clean EXCEPT !.lines[2].text.holes = {"name"}],
    [Clean EXCEPT !.quests["q1"].says.title.words = {"slur"}],
    [Clean EXCEPT !.entities["npc"].says.description.words = {"instruction"}],
    [Clean EXCEPT !.unreviewed = {<<"quest", "q1">>}],
    [Clean EXCEPT !.trees["talk"].nodes["n"].choices[1].to = "gone"],
    [Clean EXCEPT !.trees["talk"].nodes["n"].choices[1].to = "none"],
    [Clean EXCEPT !.trees["talk"].participants = {"nobody"}],
    [Clean EXCEPT !.trees["talk"].nodes["n"].choices[1].reads = {<<"var", "unseen">>, <<"rep", "ours">>}],
    [Clean EXCEPT !.quests["q1"].logic.unlocks = {"gone"}],
    [Clean EXCEPT !.quests["q1"].rewarded = FALSE]}

AllWorlds == {Clean} \cup Broken
Fixes == {Clean, [Clean EXCEPT !.quests["q1"].stages[1].needs = {"gone"}],
          [Clean EXCEPT !.unreviewed = {<<"quest", "q1">>}]}
=============================================================================
