----------------------------- MODULE QuestLogic -----------------------------
(***************************************************************************)
(* What is said of quests before they are played, and what then happens:   *)
(* the audit of one quest's stages (logic/audit.py), the rule that no play *)
(* can ever reach a quest (audit/rules/quest_reachability.py), and the     *)
(* playtest that walks a quest from the state the others left              *)
(* (logic/simulate.py).                                                    *)
(***************************************************************************)
EXTENDS LogicExpr, Integers

CONSTANTS
    Quests,     \* Quests[q]: the versions of quest q that are explored
    Defaults    \* the declared variables, the same in every quest, with their defaults

VARIABLES
    world,      \* the version of each quest
    reported,   \* the quests that the audit says cannot be reached
    done,       \* the quests that were played to an end
    values,     \* the values that the plays so far left
    run         \* the last playtest

vars == <<world, reported, done, values, run>>

None   == [node |-> "none"]     \* no expression
Broken == [node |-> "broken"]   \* a text that cannot be parsed
DoneOf == [q1 |-> "done:q1", q2 |-> "done:q2", ghost |-> "done:ghost"]
NoRun  == [quest |-> "none", status |-> "none", path |-> <<>>]

-----------------------------------------------------------------------------
(* The audit of one quest's stages. *)

Stages(q)   == {q.stages[i] : i \in DOMAIN q.stages}
Position(q, s) == CHOOSE i \in DOMAIN q.stages : q.stages[i] = s
From(q, s)  == SelectSeq(q.branches, LAMBDA b : b.from = s)

\* A stage with branches has no other way on.
Edges(q) ==
    {<<b.from, b.to>> : b \in {b \in {q.branches[i] : i \in DOMAIN q.branches} : b.to # ""}}
    \cup {<<q.stages[i], q.stages[i + 1]>> :
             i \in {i \in 1..(Len(q.stages) - 1) : From(q, q.stages[i]) = <<>>}}
Terminals(q) ==
    {b.from : b \in {b \in {q.branches[i] : i \in DOMAIN q.branches} : b.to = "" /\ b.outcome}}
    \cup {s \in {q.stages[Len(q.stages)]} : From(q, s) = <<>>}

RECURSIVE Bfs(_, _)
Bfs(seen, edges) ==
    LET next == {e[2] : e \in {e \in edges : e[1] \in seen}} \ seen
    IN  IF next = {} THEN seen ELSE Bfs(seen \cup next, edges)

StagesReached(q) == Bfs({q.stages[1]}, Edges(q))
Deadlock(q)      == StagesReached(q) \cap Terminals(q) = {}

-----------------------------------------------------------------------------
(* The rule about all quests: what each name may be in some play. *)

Effects(q) == UNION {{q.does[s][i] : i \in DOMAIN q.does[s]} : s \in DOMAIN q.does}
              \cup UNION {{q.branches[i].does[j] : j \in DOMAIN q.branches[i].does} : i \in DOMAIN q.branches}

\* One value for the declared, none for what nobody declares; a number that was moved is any.
Seeded(w) ==
    [x \in DOMAIN Defaults \cup {DoneOf[q] : q \in DOMAIN w} |->
        [any |-> FALSE, is |-> IF x \in DOMAIN Defaults THEN {Defaults[x].n} ELSE {0}]]

\* (wrong: only the first effect on a variable counts)
PropagateFirst(may, effects, ended) ==
    [x \in DOMAIN may \cup {e.var : e \in effects} |->
        IF x \in DOMAIN may /\ x \notin ended THEN may[x]
        ELSE [any |-> \E e \in effects : e.var = x /\ e.op # "set",
              is |-> {e.value.n : e \in {e \in effects : e.var = x /\ e.op = "set"}} \cup {0, 1}]]

Propagate(may, effects, ended) ==
    [x \in DOMAIN may \cup {e.var : e \in effects} |->
        LET mine == {e \in effects : e.var = x}
            old  == IF x \in DOMAIN may THEN may[x] ELSE [any |-> FALSE, is |-> {}]
        IN  [any |-> old.any \/ \E e \in mine : e.op # "set",
             is  |-> old.is \cup {e.value.n : e \in {e \in mine : e.op = "set"}}
                            \cup (IF x \in ended THEN {1} ELSE {})]]

MayBe(x, n, may) == x \in DOMAIN may /\ (may[x].any \/ n \in may[x].is)

\* An equality of a name and a literal, whichever side it is on.
Equality(e) == /\ e.node = "compare" /\ e.op = "=="
               /\ {e.left.node, e.right.node} = {"ref", "lit"}
MayEqual(e, may) == IF e.left.node = "ref" THEN MayBe(e.left.name, e.right.value.n, may)
                                           ELSE MayBe(e.right.name, e.left.value.n, may)

RECURSIVE CanBeTrue(_, _), CanBeFalse(_, _), FalseAtom(_, _), Reach(_, _, _)

\* Each side by itself, and anything that is not understood can be true.
CanBeTrue(e, may) ==
    CASE e.node = "lit" -> e.value.n = 1
      [] e.node = "ref" -> MayBe(e.name, 1, may)
      [] e.node = "not" -> CanBeFalse(e.of, may)
      [] e.node = "bool" /\ e.op = "and" -> CanBeTrue(e.left, may) /\ CanBeTrue(e.right, may)
      [] e.node = "bool" -> CanBeTrue(e.left, may) \/ CanBeTrue(e.right, may)
      [] OTHER -> Equality(e) => MayEqual(e, may)

CanBeFalse(e, may) ==
    CASE e.node = "lit" -> e.value.n = 0
      [] e.node = "ref" -> e.name \in DOMAIN may => MayBe(e.name, 0, may)
      [] e.node = "not" -> CanBeTrue(e.of, may)
      [] e.node = "bool" /\ e.op = "and" -> CanBeFalse(e.left, may) \/ CanBeFalse(e.right, may)
      [] e.node = "bool" -> CanBeFalse(e.left, may) /\ CanBeFalse(e.right, may)
      [] OTHER -> TRUE

\* Quests become reachable, and what they do becomes possible, until nothing changes.
Reach(w, reached, may) ==
    LET new == {q \in DOMAIN w \ reached : w[q].needs \subseteq reached /\ CanBeTrue(w[q].pre, may)}
    IN  IF new = {} THEN [quests |-> reached, may |-> may]
        ELSE Reach(w, reached \cup new,
                   Propagate(may, UNION {Effects(w[q]) : q \in new}, {DoneOf[q] : q \in new}))

\* The part of a precondition that can never be true, to name in the report.
FalseAtom(e, may) ==
    CASE e.node = "lit" -> e.value.n = 0
      [] e.node = "ref" -> ~ MayBe(e.name, 1, may)
      [] e.node = "not" -> ~ CanBeFalse(e.of, may)
      [] e.node = "bool" /\ e.op = "and" -> FalseAtom(e.left, may) \/ FalseAtom(e.right, may)
      [] e.node = "bool" -> FalseAtom(e.left, may) /\ FalseAtom(e.right, may)
      [] OTHER -> Equality(e) /\ ~ MayEqual(e, may)

\* Without something to name there is no report.
Unreachable(w) ==
    LET end == Reach(w, {}, Seeded(w))
    IN  {q \in DOMAIN w \ end.quests :
            w[q].needs \ end.quests # {} \/ FalseAtom(w[q].pre, end.may)}

-----------------------------------------------------------------------------
(* The playtest. *)

Truthy(e, state) ==
    \/ e = None
    \/ e # Broken /\ LET v == Evaluate(e, state) IN v # Failed /\ v.n # 0

Number(v) == IF v.type = "int" THEN v.n ELSE 0
Applied(effect, state) ==
    LET old == IF effect.var \in DOMAIN state THEN Number(state[effect.var]) ELSE 0
        new == CASE effect.op = "set" -> effect.value
                 [] effect.op = "inc" -> Num(old + effect.value.n)
                 [] OTHER -> Num(old - effect.value.n)
    IN  [x \in DOMAIN state \cup {effect.var} |-> IF x = effect.var THEN new ELSE state[x]]

RECURSIVE ApplyAll(_, _), Walk(_, _, _, _, _)
ApplyAll(effects, state) ==
    IF effects = <<>> THEN state ELSE ApplyAll(Tail(effects), Applied(Head(effects), state))

\* The branch that the player asked for, else the first that may be taken.
Chosen(q, s, state, choices) ==
    LET open   == SelectSeq(From(q, s), LAMBDA b : Truthy(b.cond, state))
        wanted == SelectSeq(open, LAMBDA b : b.id \in choices)
    IN  IF wanted # <<>> THEN Head(wanted) ELSE Head(open)

\* Stage by stage; what a branch does is not applied.
Walk(q, s, state, choices, path) ==
    LET to(status, p, st) == [status |-> status, path |-> p, state |-> st]
        after  == ApplyAll(q.does[s], state)
        open   == SelectSeq(From(q, s), LAMBDA b : Truthy(b.cond, after))
        branch == Chosen(q, s, after, choices)
        walked == Append(path, s)
    IN  CASE \E i \in DOMAIN path : path[i] = s -> to("cycle", path, state)
          [] ~ Truthy(q.gate[s], state) -> to("blocked", walked, state)
          [] From(q, s) # <<>> /\ open = <<>> -> to("deadlock", walked, after)
          [] From(q, s) # <<>> /\ branch.to = "" -> to("completed", walked, after)
          [] From(q, s) # <<>> /\ branch.to \notin Stages(q) -> to("blocked", walked, after)
          [] From(q, s) # <<>> -> Walk(q, branch.to, after, choices \ {branch.id}, walked)
          [] Position(q, s) = Len(q.stages) -> to("completed", walked, after)
          [] OTHER -> Walk(q, q.stages[Position(q, s) + 1], after, choices, walked)

Expressions(q) == {q.pre} \cup {q.gate[s] : s \in DOMAIN q.gate}
                  \cup {q.branches[i].cond : i \in DOMAIN q.branches}

\* The defaults, false for every other name that is read, and over them what the plays left.
SeedState(q) ==
    [x \in DOMAIN values \cup DOMAIN Defaults
             \cup UNION {RefsIn(e) : e \in Expressions(q) \ {None, Broken}} |->
        CASE x \in DOMAIN values -> values[x] [] x \in DOMAIN Defaults -> Defaults[x] [] OTHER -> Bool(0)]

Init ==
    /\ world \in [q1 : Quests["q1"], q2 : Quests["q2"]]
    /\ reported = Unreachable(world)
    /\ done = {}
    /\ values = [x \in {} |-> Bool(0)]
    /\ run = NoRun

\* A quest is played once what it needs is done and its precondition holds.
Play(id) ==
    LET q    == world[id]
        seed == SeedState(q)
    IN  /\ id \notin done /\ q.needs \subseteq done /\ Truthy(q.pre, seed)
        /\ \E choices \in SUBSET {q.branches[i].id : i \in DOMAIN q.branches} :
             LET r     == Walk(q, q.stages[1], seed, choices, <<>>)
                 ended == r.status = "completed"
             IN  /\ run' = [quest |-> id, status |-> r.status, path |-> r.path]
                 /\ done' = IF ended THEN done \cup {id} ELSE done
                 /\ values' = IF ended THEN [x \in DOMAIN r.state \cup {DoneOf[id]} |->
                                                IF x = DoneOf[id] THEN Bool(1) ELSE r.state[x]]
                              ELSE values
        /\ UNCHANGED <<world, reported>>

Next == \E id \in DOMAIN world : Play(id)
Spec == Init /\ [][Next]_vars

-----------------------------------------------------------------------------
TypeOK ==
    /\ done \cup reported \subseteq DOMAIN world
    /\ run.status \in {"none", "completed", "cycle", "blocked", "deadlock"}

\* Every name that is read is declared or the state of a quest of the world.
AllKnown ==
    \A q \in DOMAIN world : \A e \in Expressions(world[q]) \ {None, Broken} :
        RefsIn(e) \subseteq DOMAIN Defaults \cup {DoneOf[x] : x \in DOMAIN world}

\* audit/rules/quest_reachability.py promises no false report, and logic/audit.py is the static
\* side of logic/simulate.py: a quest that is reported is never played, if all names are known;
\* a playtest stays on the stages that the audit finds reachable; and one that completes refutes
\* a reported deadlock, unless it ended in a branch without a target and without an outcome.
ReportsAreTrue ==
    /\ AllKnown => done \cap reported = {}
    /\ run # NoRun =>
         LET q == world[run.quest]
         IN  /\ \A i \in DOMAIN run.path : run.path[i] \in StagesReached(q)
             /\ run.status = "completed" /\ Deadlock(q) =>
                    \E i \in DOMAIN q.branches : q.branches[i].to = "" /\ ~ q.branches[i].outcome
=============================================================================
