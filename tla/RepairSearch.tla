---------------------------- MODULE RepairSearch ----------------------------
(***************************************************************************)
(* The planner of repairs (patches/search.py): a Monte Carlo tree search   *)
(* over sequences of moves, each a repair that applies and adds no error.  *)
(* A node is the path of moves that leads to it.  Which child is walked to *)
(* and which move is tried are left open: the code goes by rewards and by  *)
(* a seed.  The list of the moves of a world is computed once and shared:  *)
(* a node that pops a move takes it from every other node with the same    *)
(* world, and from the rollouts.                                           *)
(***************************************************************************)
EXTENDS PatchFixers

CONSTANTS
    Proposed(_),    \* the moves that a provider beside the fixers offers for a world with errors
    Flawed,         \* values of a field that are errors no fixer repairs
    Roots,          \* the worlds to repair
    MaxDepth,
    MaxIterations

VARIABLES
    root,           \* the world
    tree,           \* the nodes
    popped,         \* the moves taken from the lists, with the world they are for
    walk,           \* the rollout in progress
    best,           \* the best plan so far
    iterations

vars == <<root, tree, popped, walk, best, iterations>>

\* len(open_errors): every relation and every field counts.
OpenErrors(d) ==
    Cardinality({k \in DOMAIN d.rels : d.rels[k] \in Dangling})
    + Cardinality({f \in Fields : d.fields[f] \in BadVals \cup Flawed})

\* The candidates for the errors that apply and make nothing worse ...
Sound(d) ==
    {ops \in DanglingFix(d) \cup FieldFix(d) \cup Proposed(d) :
        LET child == ApplyOps(d, ops) IN child # Failed /\ OpenErrors(child) <= OpenErrors(d)}

\* ... one for each world that they lead to.
Moves(d) ==
    {CHOOSE ops \in Sound(d) : ApplyOps(d, ops) = child : child \in {ApplyOps(d, ops) : ops \in Sound(d)}}

\* What is left of the shared list.
Untried(d) == {ops \in Moves(d) : <<d, ops>> \notin popped}

\* The worlds that a sequence of moves leads through (a recursive function, as Shadow is).
Through(moves) ==
    LET world[k \in 0..Len(moves)] == IF k = 0 THEN root ELSE ApplyOps(world[k - 1], moves[k]) IN world
After(moves) == Through(moves)[Len(moves)]

NoWalk    == [on |-> FALSE, moves |-> <<>>]
Walk(moves) == [on |-> TRUE, moves |-> moves]

Init ==
    /\ root \in Roots
    /\ tree = {<<>>}
    /\ popped = {}
    /\ walk = NoWalk
    /\ best = [errors |-> OpenErrors(root), moves |-> <<>>]
    /\ iterations = 0

Terminal(node) == OpenErrors(After(node)) = 0 \/ Len(node) >= MaxDepth

\* _select goes on from a node whose moves are all tried, to one of its children.
Passed(node) ==
    /\ ~Terminal(node)
    /\ Untried(After(node)) = {}
    /\ \E ops \in Moves(After(node)) : Append(node, ops) \in tree

Selected == {node \in tree : /\ ~Passed(node)
                             /\ \A k \in 1..Len(node) : Passed(SubSeq(node, 1, k - 1))}

Searching == ~walk.on /\ iterations < MaxIterations /\ OpenErrors(root) > 0

\* _expand looks at nothing but the list, also at a node that is as deep as it may be.
Expand ==
    /\ Searching
    /\ \E node \in Selected : \E ops \in Untried(After(node)) :
         /\ tree' = tree \cup {Append(node, ops)}
         /\ popped' = popped \cup {<<After(node), ops>>}
         /\ walk' = Walk(Append(node, ops))
    /\ UNCHANGED <<root, best, iterations>>

\* Nothing to expand: the rollout starts from the node itself.
Revisit ==
    /\ Searching
    /\ \E node \in Selected : Untried(After(node)) = {} /\ walk' = Walk(node)
    /\ UNCHANGED <<root, tree, popped, best, iterations>>

\* _simulate: any move that is left.
RollOut ==
    /\ walk.on /\ ~Terminal(walk.moves)
    /\ \E ops \in Untried(After(walk.moves)) : walk' = Walk(Append(walk.moves, ops))
    /\ UNCHANGED <<root, tree, popped, best, iterations>>

\* (wrong: the plan with fewer moves)
BetterIfShorter(errors, moves) == Len(moves) < Len(best.moves)

\* Fewer errors, then fewer moves.
Better(errors, moves) ==
    \/ errors < best.errors
    \/ errors = best.errors /\ Len(moves) < Len(best.moves)

Record ==
    /\ walk.on
    /\ Terminal(walk.moves) \/ Untried(After(walk.moves)) = {}
    /\ LET errors == OpenErrors(After(walk.moves))
       IN  best' = IF Better(errors, walk.moves) THEN [errors |-> errors, moves |-> walk.moves] ELSE best
    /\ walk' = NoWalk
    /\ iterations' = iterations + 1
    /\ UNCHANGED <<root, tree, popped>>

Next == Expand \/ Revisit \/ RollOut \/ Record

Spec == Init /\ [][Next]_vars

-----------------------------------------------------------------------------
\* What the proofs need of the constants: patches are made of operations, and objects have finitely
\* many fields.
WellFormed ==
    /\ Dangling \subseteq Triples /\ BadVals \subseteq Vals
    /\ Failed \notin Documents /\ MaxRels \in Nat /\ IsFiniteSet(Fields)
    /\ Roots \subseteq Documents
    /\ \A d \in Documents : Proposed(d) \subseteq Seq(Operations)
    /\ MaxDepth \in Nat /\ MaxIterations \in Nat

TypeOK ==
    /\ root \in Documents
    /\ \A node \in tree : Len(node) <= MaxDepth + 1
    /\ \A pair \in popped : pair[2] \in Moves(pair[1])
    /\ iterations \in 0..MaxIterations

\* A plan can be carried out, move by move, without a step that adds an error, and ends with as many
\* errors as it says.
Replays(plan) ==
    LET world == Through(plan.moves)
    IN  /\ \A k \in 0..Len(plan.moves) : world[k] # Failed
        /\ \A k \in 1..Len(plan.moves) : OpenErrors(world[k]) <= OpenErrors(world[k - 1])
        /\ OpenErrors(world[Len(plan.moves)]) = plan.errors

\* The worlds that at most n moves lead to.
Onward(worlds) == worlds \cup UNION {{ApplyOps(d, ops) : ops \in Moves(d)} : d \in worlds}
Reachable(n) ==
    LET within[k \in 0..n] == IF k = 0 THEN {root} ELSE Onward(within[k - 1]) IN within[n]

\* Every list of a node is used up.
Exhausted == \A node \in tree : Untried(After(node)) = {}

\* patches/search.py: the plan that is returned replays to the count of errors it claims and never makes
\* things worse on the way; it is empty or better than doing nothing, and at most one move longer than the
\* depth allowed; and when the search has tried everything, no world that moves lead to is better.
PlanHolds ==
    ~walk.on =>
        /\ Replays(best)
        /\ best.moves = <<>> \/ best.errors < OpenErrors(root)
        /\ Len(best.moves) <= MaxDepth + 1
        /\ Exhausted => \A d \in Reachable(MaxIterations) : best.errors <= OpenErrors(d)

\* What that rests on: every sequence of moves that is kept is one of moves of the worlds it goes through; the
\* world that a taken move leads to has a node, whoever took it; and no node is better than the best plan,
\* or than the rollout that started below it.
Legal(moves) ==
    /\ moves \in Seq(Seq(Operations)) /\ Len(moves) <= MaxDepth + 1
    /\ \A k \in 1..Len(moves) : moves[k] \in Moves(Through(moves)[k - 1])

NodesLegal   == <<>> \in tree /\ \A node \in tree : Legal(node)
WalkLegal    == walk.on => Legal(walk.moves) /\ iterations < MaxIterations
BestLegal    == /\ Legal(best.moves) /\ best.errors = OpenErrors(After(best.moves))
                /\ best.moves = <<>> \/ best.errors < OpenErrors(root)
PoppedLead   == \A pair \in popped : \E node \in tree : After(node) = ApplyOps(pair[1], pair[2])
BestBelow    == \A node \in tree : \/ best.errors <= OpenErrors(After(node))
                                   \/ walk.on /\ OpenErrors(After(walk.moves)) <= OpenErrors(After(node))

SearchInv == TypeOK /\ NodesLegal /\ WalkLegal /\ BestLegal /\ PoppedLead /\ BestBelow
=============================================================================
