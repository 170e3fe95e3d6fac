----------------------------- MODULE LoreGraph -----------------------------
(***************************************************************************)
(* The graph of a world and what is computed from it: what a change        *)
(* reaches (impact/analyzer.py) and the communities that the overview      *)
(* summarises (graph/community.py).  A ref is a tuple, its type first; a   *)
(* bundle is [text, kind, rels, uses]: the text and the kind of each       *)
(* object, the relations in order, and the other places that name an       *)
(* object, as [owner, kind, id].                                           *)
(***************************************************************************)
EXTENDS Naturals, Sequences, FiniteSets, SequencesExt

CONSTANT RefOrder      \* the refs of objects, named or dangling, in sorted order

Objects(b) == DOMAIN b.text

\* The type an id is looked up in, by the kind of place that names it; "any" looks everywhere.
TargetType ==
    [giver_npc |-> "any", quest_location |-> "any", stage_location |-> "any", stage_entity |-> "any",
     event_ref |-> "any", controlled_by |-> "any", speaker |-> "any", requires |-> "quest",
     quest_event_ref |-> "quest", quest_dialogue |-> "quest", dialogue_ref |-> "dialogue",
     poi_region |-> "region", localization_key |-> "localization", localized_text_key |-> "localization"]

LookUpOrder == <<"entity", "poi", "region", "quest", "dialogue", "localized_text">>

\* The first type that has the id; a missing one counts as an entity.
ObjectRef(b, id) ==
    LET has == {k \in DOMAIN LookUpOrder : <<LookUpOrder[k], id>> \in Objects(b)}
    IN  IF has = {} THEN <<"entity", id>>
                    ELSE <<LookUpOrder[CHOOSE k \in has : \A j \in has : k <= j], id>>

Target(b, u) == IF TargetType[u.kind] = "any" THEN ObjectRef(b, u.id) ELSE <<TargetType[u.kind], u.id>>

RelationRef(b, i) == <<"relation", b.rels[i].from, b.rels[i].kind, b.rels[i].to, ToString(i - 1)>>
RelationRefs(b)   == {RelationRef(b, i) : i \in DOMAIN b.rels}

Ends(b, i) == {ObjectRef(b, b.rels[i].from), ObjectRef(b, b.rels[i].to)}

\* The edges, without direction, other than those of a relation's own node.
Edges(b) == {Ends(b, i) : i \in DOMAIN b.rels} \cup {{u.owner, Target(b, u)} : u \in b.uses}

\* An id that is nowhere has a node too.
Nodes(b) == Objects(b) \cup RelationRefs(b) \cup UNION Edges(b)

Beside(edges, nodes) == nodes \cup UNION {e \in edges : e \cap nodes # {}}

\* The nodes at most radius edges away.
Neighbors(b, node, radius) ==
    LET near[d \in 0..radius] == IF d = 0 THEN {node} \cap Nodes(b) ELSE Beside(Edges(b), near[d - 1])
    IN  near[radius]

-----------------------------------------------------------------------------
(* What a set of changed refs reaches. *)

Distance(b, from, to, max) ==
    CHOOSE d \in 0..max : to \in Neighbors(b, from, d) /\ \A e \in 0..(d - 1) : to \notin Neighbors(b, from, e)

\* What each object must be checked for: the nearest of the changes that reach it.
Impact(b, changes, max) ==
    LET reached == {p \in changes \X Nodes(b) : p[1] # p[2] /\ p[2] \in Neighbors(b, p[1], max)}
    IN  [n \in {p[2] : p \in reached} |->
            LET ds == {Distance(b, p[1], n, max) : p \in {p \in reached : p[2] = n}}
            IN  IF 1 \in ds THEN "must_change" ELSE "suggest_check"]

-----------------------------------------------------------------------------
(* Communities. *)

Substantive == {"entity", "poi", "region", "quest"}
IsSubstantive(n) == n[1] \in Substantive

\* What only a dialogue, a key or an event ref connects is tied directly.
Ties(b) ==
    LET direct  == {e \in Edges(b) : \A n \in e : IsSubstantive(n)}
        beside(relay) == {n \in Beside(Edges(b), {relay}) : IsSubstantive(n)}
    IN  direct \cup UNION {{{m, n} : m, n \in beside(relay)} : relay \in {n \in Nodes(b) : ~IsSubstantive(n)}}

\* networkx: where no component has more than three nodes, maximal modularity is the components.
Groups(b) ==
    LET nodes == {n \in Nodes(b) : IsSubstantive(n)}
        grown(n) == LET near[d \in 0..Cardinality(nodes)] ==
                            IF d = 0 THEN {n} ELSE Beside(Ties(b), near[d - 1])
                    IN  near[Cardinality(nodes)]
    IN  {grown(n) : n \in nodes}

Rank(n)   == CHOOSE k \in DOMAIN RefOrder : RefOrder[k] = n
Lowest(g) == CHOOSE n \in g : \A m \in g : Rank(n) <= Rank(m)

\* Largest first, then by the lowest member ...
Ahead(g, h) ==
    \/ Cardinality(g) > Cardinality(h)
    \/ Cardinality(g) = Cardinality(h) /\ Rank(Lowest(g)) < Rank(Lowest(h))

\* ... and a community is known by its place in this order.
DetectCommunities(b) ==
    LET groups == Groups(b)
    IN  [k \in 1..Cardinality(groups) |->
            CHOOSE g \in groups : Cardinality({h \in groups : Ahead(h, g)}) = k - 1]

RelationEdges(b) ==
    {[source |-> ObjectRef(b, r.from), kind |-> r.kind, target |-> ObjectRef(b, r.to)] : r \in Range(b.rels)}

IntraRelations(b, g)  == {e \in RelationEdges(b) : {e.source, e.target} \subseteq g}

\* What is in no community ties none to another.
CrossRelations(b, gs) ==
    {e \in RelationEdges(b) : \E j, k \in DOMAIN gs : j # k /\ e.source \in gs[j] /\ e.target \in gs[k]}
=============================================================================
