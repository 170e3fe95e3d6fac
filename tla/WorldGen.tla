------------------------------ MODULE WorldGen ------------------------------
(***************************************************************************)
(* Growing content with a chain of grounded model calls (worldgen/): a new *)
(* world (service.py) or a batch on an existing one (expand.py), stage by  *)
(* stage, then put together into a bundle in which every reference lands   *)
(* somewhere, and revised one stage at a time.  Regions, terms and the     *)
(* explicit relations of a reply are left out; a region is referred to     *)
(* like a faction.                                                         *)
(***************************************************************************)
EXTENDS Naturals, Sequences, FiniteSets, Functions

CONSTANTS
    Canons,     \* the ids of each section that the world may have
    Counts,     \* how many items of each section may be asked for
    NamesOf,    \* NamesOf[s]: the names that a reply gives items of section s
    MaxOf,      \* MaxOf[s]: the most items of section s in a reply
    MaxRevised, \* the most items in the reply of a revision
    Rounds      \* rounds of the critic on the quests

VARIABLES
    plan,       \* what is asked for: the mode, the counts, the world it is for
    stage,
    payload,    \* the items of each section, as replied
    draft,      \* the bundle put together
    round       \* rounds of the critic so far

vars == <<plan, stage, payload, draft, round>>

Sections  == {"factions", "locations", "npcs", "quests"}
NoSection == "none"
None      == <<"none", "none", 0>>

\* The fields of an item that refer to another section.
Fields(s) == IF s = "factions" THEN {} ELSE IF s = "locations" THEN {"factions"}
             ELSE IF s = "npcs" THEN {"factions", "locations"} ELSE {"locations", "npcs"}

\* An id has the prefix of its section, a stem, and a number from 2 on a collision; a name has
\* the same shape here, so that a field may hold either.
Id(s, text, n) == <<s, text, n>>
Name(text) == <<"name", text, 0>>

\* What a reply writes in a field: nothing, a name, or an id that exists already.
Written(t) == {None} \cup {Name(x) : x \in NamesOf[t]} \cup Range(plan.canon[t])
Items(s) ==
    LET refs == {r \in [Fields(s) -> UNION {Written(t) : t \in Fields(s)}] :
                    \A t \in Fields(s) : r[t] \in Written(t)}
    IN  {[id |-> Id(s, x, 1), name |-> Name(x), ref |-> r] : x \in NamesOf[s], r \in refs}
Replies(s) == UNION {[1..n -> Items(s)] : n \in 0..MaxOf[s]}

NoItems  == [s \in Sections |-> <<>>]
NoDraft  == [ids |-> NoItems, ties |-> {}, left |-> [s \in Sections |-> {}], grounded |-> 0, dangling |-> 0, unspecified |-> 0,
             revised |-> NoSection, before |-> [ids |-> NoItems, ties |-> {}]]

Init ==
    /\ plan \in [mode : {"seed", "expand"}, canon : Canons, count : Counts]
    /\ plan.mode = "expand" => plan.canon # NoItems      \* the focus must exist
    /\ stage = IF plan.mode = "seed" THEN "premise" ELSE "focus"
    /\ payload = NoItems
    /\ draft = NoDraft
    /\ round = 0

-----------------------------------------------------------------------------
(* The chain. *)

After == [premise |-> "factions", focus |-> "locations", factions |-> "locations",
          locations |-> "npcs", npcs |-> "quests"]

\* The best of the candidates, asked for once more if it has no central conflict.
Premise ==
    /\ stage = "premise"
    /\ stage' = After[stage]
    /\ UNCHANGED <<plan, payload, draft, round>>

\* The angle of a batch, at a focus that the world has.
Focus ==
    /\ stage = "focus"
    /\ stage' = After[stage]
    /\ UNCHANGED <<plan, payload, draft, round>>

\* A section nobody asked for is skipped.
Section(s) ==
    /\ stage = s
    /\ \E reply \in IF plan.count[s] = 0 THEN {<<>>} ELSE Replies(s) : payload' = [payload EXCEPT ![s] = reply]
    /\ stage' = After[s]
    /\ UNCHANGED <<plan, draft, round>>

Factions == Section("factions")
Places   == Section("locations")
Cast     == Section("npcs")

Quests ==
    /\ stage = "quests"
    /\ \E reply \in Replies("quests") : payload' = [payload EXCEPT !.quests = reply]
    /\ stage' = IF Rounds = 0 THEN "assemble" ELSE "critique"
    /\ UNCHANGED <<plan, draft, round>>

\* Both the ids and the names that the earlier stages gave.
Refs(t) == UNION {{payload[t][k].id, payload[t][k].name} : k \in DOMAIN payload[t]}
Canon(t) == IF plan.mode = "expand" THEN Range(plan.canon[t]) ELSE {}

\* A quest whose giver or location is none that the writer was told of.
GroundingGaps ==
    {k \in DOMAIN payload.quests : \E t \in Fields("quests") :
        LET known == Canon(t) \cup Refs(t)
            value == payload.quests[k].ref[t]
        IN  value = None \/ (known # {} /\ value \notin known)}

\* Accepted when the critic passed it and there are no gaps, or when nobody can say what to
\* change; otherwise written again, and after the last round not looked at again.
Critique ==
    /\ stage = "critique"
    /\ round' = round + 1
    /\ \/ /\ GroundingGaps = {}
          /\ stage' = "assemble"
          /\ UNCHANGED payload
       \/ /\ \E reply \in Replies("quests") : payload' = [payload EXCEPT !.quests = reply]
          /\ stage' = IF round' = Rounds THEN "assemble" ELSE "critique"
    /\ UNCHANGED <<plan, draft>>

\* A stage whose reply cannot be parsed, even when asked again, loses the whole draft.
Raise ==
    /\ stage \notin {"filed", "raised", "assemble"}
    /\ stage' = "raised"
    /\ UNCHANGED <<plan, payload, draft, round>>

-----------------------------------------------------------------------------
(* Putting the bundle together. *)

\* (wrong: only ids of this bundle are taken)
OwnId(id, ids) ==
    LET used == Range(ids[id[1]])
        n == CHOOSE n \in id[3]..(id[3] + Cardinality(used)) :
                 /\ Id(id[1], id[2], n) \notin used
                 /\ \A m \in id[3]..(n - 1) : Id(id[1], id[2], m) \in used
    IN  Id(id[1], id[2], n)

\* An id that neither the world nor this bundle has.
UniqueId(id, ids) ==
    LET used == Range(plan.canon[id[1]]) \cup Range(ids[id[1]])
        n == CHOOSE n \in id[3]..(id[3] + Cardinality(used)) :
                 /\ Id(id[1], id[2], n) \notin used
                 /\ \A m \in id[3]..(n - 1) : Id(id[1], id[2], m) \in used
    IN  Id(id[1], id[2], n)

\* A new world has exactly the number asked for, made up if need be; a batch at most.
Placeholder(s) == [id |-> Id(s, "placeholder", 1), name |-> Name("placeholder"), ref |-> [t \in Fields(s) |-> None]]
Least(m, n) == IF m < n THEN m ELSE n
EnsureCount(items, s) ==
    LET n == plan.count[s]
    IN  [k \in 1..(IF plan.mode = "seed" THEN n ELSE Least(n, Len(items))) |->
            IF k <= Len(items) THEN items[k] ELSE Placeholder(s)]

\* One map for all sections: what was remembered last wins.
Remember(idMap, item, id) ==
    LET said == {item.id, item.name, id}
    IN  [x \in DOMAIN idMap \cup said |-> IF x \in said THEN id ELSE idMap[x]]
Resolve(value, idMap) == IF value \in DOMAIN idMap THEN idMap[value] ELSE value

RoundRobin(values, index) == IF values = <<>> THEN None ELSE values[(index % Len(values)) + 1]

\* Where a field of a new world lands: the ids of the bundle, or of the world when the bundle
\* has none.
KnownOr(acc, t, resolved, index) ==
    LET known == IF acc.ids[t] # <<>> THEN acc.ids[t] ELSE plan.canon[t]
    IN  IF resolved \in Range(known) THEN resolved ELSE RoundRobin(known, index)

\* Whichever of the world the focus, or the order of a set, comes up with.
Anywhere(t) == IF plan.canon[t] = <<>> THEN None ELSE CHOOSE id \in Range(plan.canon[t]) : TRUE

\* Where a field of an expansion lands: a real id, or else the batch's first, or else anywhere.
Valid(acc, t) == Range(plan.canon[t]) \cup Range(acc.ids[t]) \cup (IF t = "factions" THEN {} ELSE Refs(t))
Land(acc, t, resolved) ==
    IF resolved \in Valid(acc, t) THEN resolved
    ELSE IF acc.ids[t] # <<>> THEN Head(acc.ids[t])
    ELSE Anywhere(t)

\* An item gets its id, and each of its fields lands at "to".
Placed(acc, item, id, to) ==
    [acc EXCEPT !.ids = [acc.ids EXCEPT ![id[1]] = Append(acc.ids[id[1]], id)],
                !.idMap = Remember(acc.idMap, item, id),
                !.ties = @ \cup {<<id, t, to[t]>> : t \in {t \in DOMAIN to : to[t] # None}}]

\* One item of a new world.
Place(acc, item, index) ==
    LET id    == UniqueId(item.id, acc.ids)
        idMap == Remember(acc.idMap, item, id)
    IN  Placed(acc, item, id, [t \in Fields(id[1]) |-> KnownOr(acc, t, Resolve(item.ref[t], idMap), index)])

\* One item of a batch, and the ledger of what the reply had written in its fields.
PlaceOnCanon(acc, item) ==
    LET id    == UniqueId(item.id, acc.ids)
        means == [t \in Fields(id[1]) |-> Resolve(item.ref[t], Remember(acc.idMap, item, id))]
        hits  == {t \in Fields(id[1]) : means[t] \in Valid(acc, t)}
        blank == {t \in Fields(id[1]) : item.ref[t] = None}
    IN  [Placed(acc, item, id, [t \in Fields(id[1]) |-> Land(acc, t, means[t])]) EXCEPT
            !.grounded = @ + Cardinality(hits), !.unspecified = @ + Cardinality(blank),
            !.dangling = @ + Cardinality(Fields(id[1]) \ (hits \cup blank))]

Nothing == [ids |-> NoItems, idMap |-> [x \in {None} |-> None], ties |-> {},
            grounded |-> 0, dangling |-> 0, unspecified |-> 0]

\* The items of a section one after the other, on what the sections before it became.
PlaceSection(acc, items, s) ==
    LET kept == EnsureCount(items[s], s)
        done[k \in 0..Len(kept)] == IF k = 0 THEN acc ELSE Place(done[k - 1], kept[k], k - 1)
    IN  done[Len(kept)]
BundleFromPayload(items) ==
    PlaceSection(PlaceSection(PlaceSection(PlaceSection(Nothing,
        items, "factions"), items, "locations"), items, "npcs"), items, "quests")

PlaceSectionOnCanon(acc, items, s) ==
    LET kept == EnsureCount(items[s], s)
        done[k \in 0..Len(kept)] == IF k = 0 THEN acc ELSE PlaceOnCanon(done[k - 1], kept[k])
    IN  done[Len(kept)]
ExpandBundleFromPayload(items) ==
    PlaceSectionOnCanon(PlaceSectionOnCanon(PlaceSectionOnCanon(Nothing,
        items, "locations"), items, "npcs"), items, "quests")

\* What the stages were told of and the bundle then left out as one too many.
LeftOut(t, ids) ==
    Refs(t) \ UNION {{payload[t][k].id, payload[t][k].name} : k \in DOMAIN payload[t] \cap 1..Len(ids)}

File(b) ==
    /\ draft' = [draft EXCEPT !.ids = b.ids, !.ties = b.ties, !.left = [s \in Sections |-> LeftOut(s, b.ids[s])],
                              !.grounded = b.grounded, !.dangling = b.dangling, !.unspecified = b.unspecified]
    /\ stage' = "filed"
    /\ payload' = NoItems
    /\ UNCHANGED <<plan, round>>

FileSeed   == stage = "assemble" /\ plan.mode = "seed" /\ File(BundleFromPayload(payload))
FileExpand == stage = "assemble" /\ plan.mode = "expand" /\ File(ExpandBundleFromPayload(payload))

\* The bundle as a payload again: the fields of a person are not in it.
Target(id, t) ==
    IF \E tie \in draft.ties : tie[1] = id /\ tie[2] = t
    THEN (CHOOSE tie \in draft.ties : tie[1] = id /\ tie[2] = t)[3] ELSE None
PayloadFromBundle ==
    [s \in Sections |-> [k \in DOMAIN draft.ids[s] |->
        [id |-> draft.ids[s][k], name |-> Name(draft.ids[s][k][2]),
         ref |-> [t \in Fields(s) |-> IF s = "npcs" THEN None ELSE Target(draft.ids[s][k], t)]]]]

\* The ties of people and places, which the revised bundle keeps when both ends are in it.
Kept(b) ==
    LET new  == UNION {Range(b.ids[s]) : s \in Sections}
        ties == {<<Resolve(tie[1], b.idMap), tie[2], Resolve(tie[3], b.idMap)>> :
                    tie \in {tie \in draft.ties : tie[1][1] # "quests"}}
    IN  {tie \in ties : tie[1] \in new /\ tie[3] \in new}

\* A reviewer's note has one stage done again, among the rest as it is.
Revise ==
    /\ stage = "filed" /\ plan.mode = "seed" /\ draft.revised = NoSection
    /\ \E s \in Sections : \E reply \in {r \in Replies(s) : Len(r) <= MaxRevised} :
         LET b == BundleFromPayload([PayloadFromBundle EXCEPT ![s] = reply])
         IN  draft' = [draft EXCEPT !.ids = b.ids, !.ties = b.ties \cup Kept(b), !.revised = s,
                                    !.before = [ids |-> draft.ids, ties |-> draft.ties]]
    /\ UNCHANGED <<plan, stage, payload, round>>

\* A reviewer's note has a whole batch grown again, at the same focus.
Regrow ==
    /\ stage = "filed" /\ plan.mode = "expand"
    /\ stage' = "focus" /\ draft' = NoDraft /\ round' = 0
    /\ UNCHANGED <<plan, payload>>

Next ==
    \/ Premise \/ Focus \/ Factions \/ Places \/ Cast \/ Quests \/ Critique \/ Raise
    \/ FileSeed \/ FileExpand \/ Revise \/ Regrow

Spec == Init /\ [][Next]_vars

-----------------------------------------------------------------------------
\* What the proofs need of the constants.
IsId(id, s) == id = Id(s, id[2], id[3]) /\ id[3] \in Nat
WellFormed ==
    /\ \A c \in Canons : \A s \in Sections :
          /\ c[s] \in Seq(Range(c[s]))
          /\ \A id \in Range(c[s]) : IsId(id, s)
    /\ \A n \in Counts : n \in [Sections -> Nat]
    /\ MaxOf \in [Sections -> Nat] /\ Rounds \in Nat

TypeOK ==
    /\ stage \in {"premise", "focus", "critique", "assemble", "filed", "raised"} \cup Sections
    /\ \A s \in Sections : Len(payload[s]) <= MaxOf[s]
    /\ round \in 0..Rounds

New(s) == Range(draft.ids[s])

\* worldgen/service.py and expand.py, what a filed draft promises its reviewer: it has as many
\* items as a new world was asked for and takes no id of the world; every tie ends at something
\* that exists and is of the right kind, save that a batch may count as grounded what names an
\* item it left out; a field is open only if there was nothing at all to refer to; the ledger of
\* a batch accounts for every field; and a revision of one section keeps the ids of the others
\* and every tie among them.
DraftCloses ==
    stage = "filed" =>
        /\ \A s \in Sections :
             /\ New(s) \cap Range(plan.canon[s]) = {}
             /\ Cardinality(New(s)) = Len(draft.ids[s])
             /\ plan.mode = "seed" => Len(draft.ids[s]) = plan.count[s]
        /\ \A tie \in draft.ties :
             \/ tie[3] \in New(tie[2]) \cup Range(plan.canon[tie[2]])
             \/ plan.mode = "expand" /\ tie[3] \in draft.left[tie[2]]
        /\ \A s \in Sections : \A id \in New(s), t \in Fields(s) :
             (\E tie \in draft.ties : tie[1] = id /\ tie[2] = t)
                 \/ (New(t) = {} /\ plan.canon[t] = <<>>)
        /\ plan.mode = "expand" =>
             draft.grounded + draft.dangling + draft.unspecified =
                 Len(draft.ids.locations) + 2 * Len(draft.ids.npcs) + 2 * Len(draft.ids.quests)
        /\ draft.revised # NoSection =>
             /\ \A s \in Sections \ {draft.revised} : draft.ids[s] = draft.before.ids[s]
             /\ \A tie \in draft.before.ties :
                  tie[1][1] # draft.revised /\ tie[2] # draft.revised /\ tie[3] \in New(tie[2]) => tie \in draft.ties
=============================================================================
