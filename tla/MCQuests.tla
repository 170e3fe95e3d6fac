------------------------------ MODULE MCQuests ------------------------------
(* The two quests, in a few hundred versions each, that QuestLogic is checked with. *)
EXTENDS LogicExpr

V == Ref("v")
N == Ref("n")
Always == Lit(Bool(1))
SetV   == [var |-> "v", op |-> "set", value |-> Bool(1)]
Change(op) == [var |-> "n", op |-> op, value |-> Num(1)]

Branch(id, from, cond, to, outcome) ==
    [id |-> id, from |-> from, cond |-> cond, to |-> to, outcome |-> outcome, does |-> <<>>]
Quest(needs, pre, gate, does, branches) ==
    [needs |-> needs, pre |-> pre, stages |-> <<"a", "b">>, gate |-> [a |-> Always, b |-> gate],
     does |-> [a |-> does, b |-> <<>>], branches |-> branches]

Flows == {
    <<>>,
    <<Branch("x", "a", V, "b", FALSE)>>,
    <<Branch("x", "a", [node |-> "none"], "", TRUE)>>,
    <<Branch("x", "a", [node |-> "none"], "", FALSE)>>,
    <<Branch("x", "a", [node |-> "none"], "ghost", FALSE)>>,
    <<Branch("x", "b", [node |-> "none"], "a", FALSE)>>,
    <<Branch("x", "a", V, "b", FALSE), Branch("y", "a", [node |-> "none"], "", TRUE)>>}

Preconditions == {
    Always, V, Not(V), BoolOp("and", V, Not(Ref("done:q1"))), BoolOp("or", V, Ref("done:q1")),
    Compare("==", N, Lit(Num(1))), Compare("<", N, Lit(Num(1))), Not(Compare("==", N, Lit(Num(0)))),
    [node |-> "broken"], Compare("==", Ref("ghost"), Lit(Bool(0))), Compare("==", Always, Ref("done:q1"))}

Versions == [
    q1 |-> {Quest(needs, pre, gate, does, flow) :
               needs \in {{}, {"q2"}}, pre \in {Always, Ref("done:q2")}, gate \in {[node |-> "none"], V},
               does \in {<<>>, <<SetV>>, <<Change("inc")>>, <<Change("set")>>}, flow \in Flows},
    q2 |-> {Quest(needs, pre, [node |-> "none"], does, <<>>) :
               needs \in {{}, {"q1"}, {"ghost"}}, pre \in Preconditions, does \in {<<>>, <<SetV>>}}]

Defaults == [v |-> Bool(0), n |-> Num(0)]
=============================================================================
