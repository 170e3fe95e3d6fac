----------------------------- MODULE Extraction -----------------------------
(***************************************************************************)
(* What a manuscript is distilled into (extraction/): how it is cut into   *)
(* chunks within a budget of calls, how the facts told of its chunks are   *)
(* merged, and the draft made of them with its gaps and its flags.         *)
(* A paragraph is its length; a description counts by its length, 0 to 2.  *)
(* A payload is [facts, relations, beats]: facts [kind, name, aliases,     *)
(* size], a term being a fact of the last kind.                            *)
(***************************************************************************)
EXTENDS Naturals, Integers, Sequences, FiniteSets, SequencesExt, FiniteSetsExt, TLC

CONSTANTS
    Base, Most, Budget, Overlap, Grow,    \* sizes of chunks, and how many there may be
    NameOrder,                              \* the names, shorter ones first
    Slugs,                                  \* what a name is reduced to in an id
    Where, Near,                            \* where names are in the manuscript, and what counts as near
    Existing                                \* the ids of the world

EntityKinds == <<"npc", "location", "faction", "item">>
Kinds       == Append(EntityKinds, "term")

-----------------------------------------------------------------------------
(* Chunks [size, own], where own is what no earlier chunk has. *)

Separator == 1
Chunk(size, own) == [size |-> size, own |-> own]

\* A paragraph that is too long is cut, and what follows a cut begins with the end of what was cut off.
Pieces(paragraph, max) ==
    LET rest(n) == paragraph - n * (max - Overlap)
        cuts    == CHOOSE n \in 0 .. paragraph : rest(n) <= max /\ \A m \in 0 .. n - 1 : rest(m) > max
        size(n) == IF n < cuts THEN max ELSE rest(n)
    IN  [k \in 1 .. cuts + 1 |-> Chunk(size(k - 1), IF k = 1 THEN size(0) ELSE size(k - 1) - Overlap)]

\* The last piece of a paragraph may be joined by the next.
Packed(s, paragraph, max) ==
    LET gap    == IF s.current.size = 0 THEN 0 ELSE Separator
        pieces == Pieces(paragraph, max)
    IN  IF s.current.size + paragraph + Separator <= max
        THEN [s EXCEPT !.current = Chunk(@.size + gap + paragraph, @.own + gap + paragraph)]
        ELSE [chunks  |-> s.chunks \o (IF s.current.size = 0 THEN <<>> ELSE <<s.current>>) \o Front(pieces),
              current |-> Last(pieces)]
ChunkText(text, max) ==
    LET upTo[k \in 0 .. Len(text)] ==
            IF k = 0 THEN [chunks |-> <<>>, current |-> Chunk(0, 0)] ELSE Packed(upTo[k - 1], text[k], max)
        end == upTo[Len(text)]
    IN  IF end.current.size = 0 THEN end.chunks ELSE Append(end.chunks, end.current)

Sum(numbers) ==
    LET upTo[k \in 0 .. Len(numbers)] == IF k = 0 THEN 0 ELSE upTo[k - 1] + numbers[k] IN upTo[Len(numbers)]
Total(text) == Sum(text) + Separator * (Len(text) - 1)
Sizes(chunks) == [k \in DOMAIN chunks |-> chunks[k].size]
Ceil(a, b) == (a + b - 1) \div b

\* Never more than was read: each of two neighbours is taken to overlap.
Covered(text, kept) == Max({0, Min({Total(text), Sum(Sizes(kept)) - Overlap * (Len(kept) - 1)})})

\* The chunks grow until there are few enough of them; what is still too much is cut off.
PlanCoverage(text) ==
    LET grown[k \in 0 .. Most] ==
            IF k = 0 THEN Base
            ELSE LET max == grown[k - 1]
                     n   == Len(ChunkText(text, max))
                 IN  IF n <= Budget \/ max >= Most THEN max
                     ELSE Min({Most, Max({max + Grow, Ceil(max * n, Budget)})})
        size   == grown[Most]
        chunks == ChunkText(text, size)
        kept   == SubSeq(chunks, 1, Min({Budget, Len(chunks)}))
    IN  [granularity |-> IF Len(chunks) > Budget THEN "partial" ELSE IF size > Base THEN "coarsened" ELSE "full",
         text |-> text, total |-> Total(text), chunks |-> kept, size |-> size,
         covered |-> IF Len(chunks) > Budget THEN Covered(text, kept) ELSE Total(text)]

-----------------------------------------------------------------------------
(* Facts, merged as they are told: [slots, relations, beats], slots in the order in which they came. *)

NoFacts == [slots |-> <<>>, relations |-> {}, beats |-> <<>>]
\* A model that keeps to the form that it was given names an object under "name", a term under "canonical" at
\* most; an object under "canonical" alone would be counted here, and not be merged.
Names(payload) == {payload.facts[i].name : i \in DOMAIN payload.facts}

Larger(m, n) == IF m > n THEN m ELSE n
Put(slots, fact) ==
    LET same == {i \in DOMAIN slots : slots[i].kind = fact.kind /\ slots[i].name = fact.name}
    IN  IF same = {} THEN Append(slots, fact)
        ELSE LET i == CHOOSE i \in same : TRUE
             IN  [slots EXCEPT ![i].size = Larger(@, fact.size), ![i].aliases = @ \cup fact.aliases]
Add(merged, payload) ==
    LET upTo[k \in 0 .. Len(payload.facts)] ==
            IF k = 0 THEN merged.slots ELSE Put(upTo[k - 1], payload.facts[k])
    IN  [slots     |-> upTo[Len(payload.facts)],
         relations |-> merged.relations \cup {r \in Range(payload.relations) : r.source # r.target},
         beats     |-> merged.beats \o payload.beats]

\* (wrong: the names that are merged away are forgotten)
JoinedByText(slots, members, survivor) ==
    [slots[survivor] EXCEPT !.size = Max({slots[i].size : i \in members})]

\* The slot that is left answers to the names of all.
Joined(slots, members, survivor) ==
    [slots[survivor] EXCEPT
        !.size    = Max({slots[i].size : i \in members}),
        !.aliases = (UNION {slots[i].aliases \cup {slots[i].name} : i \in members}) \ {slots[survivor].name}]

\* Slots of one kind are one if an alias of one is the name of another.
Tie(slots, i, j) ==
    /\ slots[i].kind = slots[j].kind /\ slots[i].kind # "term"
    /\ slots[j].name \in slots[i].aliases

\* A slot with those that ties lead to, in either direction.
Group(slots, i) ==
    LET alike  == {j \in DOMAIN slots : slots[j].kind = slots[i].kind}
        closed == {g \in SUBSET alike : \A a, b \in alike : Tie(slots, a, b) => (a \in g <=> b \in g)}
    IN  {j \in alike : \A g \in closed : i \in g => j \in g}

\* The slot with the longest description is left, or the one with the shortest name.
Order(name) == CHOOSE i \in DOMAIN NameOrder : NameOrder[i] = name
Survivor(slots, members) ==
    CHOOSE i \in members : \A j \in members \ {i} :
        \/ slots[i].size > slots[j].size
        \/ slots[i].size = slots[j].size /\ Order(slots[i].name) < Order(slots[j].name)

\* The elements at some places, in their order.
Only(seq, places) ==
    LET upTo[k \in 0 .. Len(seq)] ==
            IF k = 0 THEN <<>> ELSE IF k \in places THEN Append(upTo[k - 1], seq[k]) ELSE upTo[k - 1]
    IN  upTo[Len(seq)]

Best(slots, i) == Survivor(slots, Group(slots, i))
Left(slots)    == {i \in DOMAIN slots : Best(slots, i) = i}
Places(slots)  == [i \in DOMAIN slots |-> i]
KindAt(slots, i) == CHOOSE k \in DOMAIN Kinds : Kinds[k] = slots[i].kind

\* What a name that is merged away is replaced by; of two kinds the later counts.
Now(slots, x) ==
    LET away == {i \in DOMAIN slots \ Left(slots) : slots[i].name = x}
    IN  IF away = {} THEN x
        ELSE slots[Best(slots, CHOOSE i \in away : \A j \in away : KindAt(slots, j) <= KindAt(slots, i))].name

ResolveAliases(merged) ==
    LET slots  == merged.slots
        left   == Only(Places(slots), Left(slots))
        now(x) == Now(slots, x)
    IN  [slots     |-> [k \in DOMAIN left |-> Joined(slots, Group(slots, left[k]), left[k])],
         relations |-> {r \in {[r EXCEPT !.source = now(@), !.target = now(@)] : r \in merged.relations} :
                           r.source # r.target},
         beats     |-> [k \in DOMAIN merged.beats |->
                           [merged.beats[k] EXCEPT !.place = now(@), !.who = {now(x) : x \in @}]]]

-----------------------------------------------------------------------------
(* The draft. *)

UniqueId(kind, name, used) ==
    LET id(n) == <<kind, Slugs[name], n>>
    IN  id(CHOOSE n \in 1 .. Cardinality(used) + 1 :
               id(n) \notin used /\ \A m \in 1 .. n - 1 : id(m) \in used)

\* Each of what is named gets an id that neither was used nor an earlier one got.
Numbered(named, used) ==
    LET id[k \in 1 .. Len(named)] ==
            UniqueId(named[k].kind, named[k].name, used \cup {id[j] : j \in 1 .. k - 1})
    IN  id

OfKind(slots, kind) == Only(slots, {i \in DOMAIN slots : slots[i].kind = kind})
KindByKind(slots) ==
    OfKind(slots, "npc") \o OfKind(slots, "location") \o OfKind(slots, "faction") \o OfKind(slots, "item")
    \o OfKind(slots, "term")
Objects(slots) ==
    LET ordered == KindByKind(slots)
        id      == Numbered(ordered, Existing)
    IN  [k \in DOMAIN ordered |->
            LET s == ordered[k]
            IN  [kind |-> s.kind, name |-> s.name, aliases |-> s.aliases, size |-> s.size, id |-> id[k]]]

TooShort(o) == IF o.kind = "term" THEN o.size < 1 ELSE o.size < 2
Answers(o)  == o.aliases \cup {o.name}
IsNear(a, b) == \E i \in Where[a], j \in Where[b] : i - j <= Near /\ j - i <= Near

\* A name leads to the last of the objects that have it, and what is an alias only to the first.
Answering(objects, x) == {i \in DOMAIN objects : objects[i].kind # "term" /\ x \in Answers(objects[i])}
NameToId(objects, x) ==
    LET named == {i \in Answering(objects, x) : objects[i].name = x}
        met   == IF named = {} THEN CHOOSE i \in Answering(objects, x) : \A j \in Answering(objects, x) : i <= j
                 ELSE CHOOSE i \in named : \A j \in named : j <= i
    IN  objects[met].id

\* What the manuscript does not bear out: names that are not in it, and relations between names
\* that are, but never near each other.
NotNamed(objects) == {objects[i].id : i \in {i \in DOMAIN objects : \A x \in Answers(objects[i]) : Where[x] = {}}}
NeverNear(objects, relations) ==
    {r \in relations :
        \E i, j \in DOMAIN objects :
            /\ objects[i].id = r.source /\ objects[j].id = r.target
            /\ Where[objects[i].name] # {} /\ Where[objects[j].name] # {}
            /\ ~ IsNear(objects[i].name, objects[j].name)}

DraftFromMerged(merged) ==
    LET objects  == Objects(merged.slots)
        known(x) == Answering(objects, x) # {}
        told     == merged.relations
        wired    == {[r EXCEPT !.source = NameToId(objects, @), !.target = NameToId(objects, @)] :
                        r \in {r \in told : known(r.source) /\ known(r.target)}}
        beat(b)  == [b EXCEPT !.place = IF known(@) THEN NameToId(objects, @) ELSE "",
                              !.who = {NameToId(objects, x) : x \in {x \in @ : known(x)}}]
    IN  [objects    |-> objects,
         relations  |-> wired,
         unresolved |-> {r \in told : ~ (known(r.source) /\ known(r.target))},
         beats      |-> [k \in DOMAIN merged.beats |-> beat(merged.beats[k])],
         gaps       |-> {objects[i].id : i \in {i \in DOMAIN objects : TooShort(objects[i])}},
         suggested  |-> {},
         notNamed   |-> NotNamed(objects),
         doubted    |-> NeverNear(objects, wired),
         answered   |-> {}, quests |-> <<>>]

\* An answer that is not blank is the description from now on.
ApplyGapAnswers(draft, answered) ==
    [draft EXCEPT
        !.objects = [i \in DOMAIN @ |-> IF @[i].id \in answered THEN [@[i] EXCEPT !.size = 1] ELSE @[i]],
        !.gaps    = @ \ answered,
        !.answered = answered]

QuestsFromBeats(draft) ==
    LET id == Numbered([k \in DOMAIN draft.beats |-> [kind |-> "quest", name |-> draft.beats[k].title]], {})
    IN  [k \in DOMAIN draft.beats |-> [id |-> id[k], place |-> draft.beats[k].place]]
=============================================================================
