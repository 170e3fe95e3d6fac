----------------------------- MODULE LogicExpr -----------------------------
(***************************************************************************)
(* The expressions of a quest's logic (logic/expr.py, logic/semantics.py): *)
(* a text is cut into tokens, parsed by recursive descent into a tree,     *)
(* which is typed, evaluated against a state, and rendered back.  A text   *)
(* is a sequence of words, operators, parentheses and quotes; blanks,      *)
(* which only part words, are left out.                                    *)
(***************************************************************************)
EXTENDS Naturals, Sequences, FiniteSets

CONSTANT MaxDepth       \* the deepest nesting of parentheses that is parsed

\* Values.  In Python a boolean equals its number, so both have one.
Bool(n)    == [type |-> "bool", n |-> n]
Num(n)     == [type |-> "int", n |-> n]
Enum(said) == [type |-> "enum", text |-> said]

Lit(v)             == [node |-> "lit", value |-> v]
Ref(name)          == [node |-> "ref", name |-> name]
Not(e)             == [node |-> "not", of |-> e]
BoolOp(op, l, r)   == [node |-> "bool", op |-> op, left |-> l, right |-> r]
Compare(op, l, r)  == [node |-> "compare", op |-> op, left |-> l, right |-> r]

Orders   == {"<", "<="}
Compares == {"==", "!="} \cup Orders
Keywords == {"and", "or", "not"}

Literals == [true |-> Bool(1), false |-> Bool(0), one |-> Num(1)]
Quotes   == {"'", "\""}

-----------------------------------------------------------------------------
(* Tokens: a word by itself, or what a quote begins, up to the same quote and without it.  A quote *)
(* that nothing closes is a stray, of which no expression is made. *)

RECURSIVE Tokenize(_)
Tokenize(said) ==
    LET ends == {i \in 2..Len(said) : said[i] = Head(said)}
        end  == CHOOSE i \in ends : \A j \in ends : i <= j
    IN  CASE said = <<>> -> <<>>
          [] said # <<>> /\ Head(said) \notin Quotes -> <<<<Head(said)>>>> \o Tokenize(Tail(said))
          [] said # <<>> /\ Head(said) \in Quotes /\ ends = {} -> <<<<"stray">>>>
          [] OTHER -> <<SubSeq(said, 1, end - 1)>> \o Tokenize(SubSeq(said, end + 1, Len(said)))

(* Parsing: the tree and the tokens left, or a syntax error. *)

SyntaxError     == [ok |-> FALSE]
Got(tree, rest) == [ok |-> TRUE, tree |-> tree, rest |-> rest]
Peek(tokens)    == IF tokens = <<>> THEN "end" ELSE Head(Head(tokens))

\* What the operands of "or" and "and" are.
Operand == [or |-> "and", and |-> "not"]

RECURSIVE ParseLevel(_, _, _), Chain(_, _, _)

\* The tree so far is the left side of what follows.
Chain(op, l, depth) ==
    IF ~ l.ok \/ Peek(l.rest) # op THEN l
    ELSE LET r == ParseLevel(Operand[op], Tail(l.rest), depth)
         IN  IF r.ok THEN Chain(op, Got(BoolOp(op, l.tree, r.tree), r.rest), depth) ELSE SyntaxError

ParseLevel(level, tokens, depth) ==
    LET token == Peek(tokens)
        sub(next, rest, deeper) == ParseLevel(next, rest, deeper)
    IN  CASE level \in DOMAIN Operand -> Chain(level, sub(Operand[level], tokens, depth), depth)
          [] level = "not" /\ token = "not" ->
               LET e == sub("not", Tail(tokens), depth)
               IN  IF e.ok THEN Got(Not(e.tree), e.rest) ELSE SyntaxError
          [] level = "not" /\ token # "not" ->
               LET l == sub("atom", tokens, depth)
                   r == sub("atom", Tail(l.rest), depth)
               IN  IF ~ l.ok \/ Peek(l.rest) \notin Compares THEN l
                   ELSE IF r.ok THEN Got(Compare(Peek(l.rest), l.tree, r.tree), r.rest) ELSE SyntaxError
          [] level = "atom" /\ token = "(" ->
               LET e == sub("or", Tail(tokens), depth + 1)
               IN  IF depth < MaxDepth /\ e.ok /\ Peek(e.rest) = ")"
                   THEN Got(e.tree, Tail(e.rest)) ELSE SyntaxError
          [] level = "atom" /\ token \in DOMAIN Literals -> Got(Lit(Literals[token]), Tail(tokens))
          [] level = "atom" /\ token \in Quotes -> Got(Lit(Enum(Tail(Head(tokens)))), Tail(tokens))
          [] level = "atom" /\ token \in Keywords \cup Compares \cup {")", "end", "stray"} -> SyntaxError
          [] OTHER -> Got(Ref(token), Tail(tokens))

\* Nothing may trail.
Parse(said) ==
    LET e == ParseLevel("or", Tokenize(said), 0) IN IF e.ok /\ e.rest = <<>> THEN e ELSE SyntaxError

RECURSIVE RefsIn(_), Render(_), TypeOf(_, _), TypeErrors(_, _), Evaluate(_, _)

RefsIn(e) ==
    CASE e.node = "ref" -> {e.name}
      [] e.node = "not" -> RefsIn(e.of)
      [] e.node \in {"bool", "compare"} -> RefsIn(e.left) \cup RefsIn(e.right)
      [] OTHER -> {}

\* Only the operands of "not", "and" and "or" are put in parentheses; a text goes between double
\* quotes as it is, its own double quotes included.
Render(e) ==
    CASE e.node = "lit" /\ e.value.type = "enum" -> <<"\"">> \o e.value.text \o <<"\"">>
      [] e.node = "lit" /\ e.value.type # "enum" -> <<CHOOSE t \in DOMAIN Literals : Literals[t] = e.value>>
      [] e.node = "ref" -> <<e.name>>
      [] e.node = "not" -> <<"not", "(">> \o Render(e.of) \o <<")">>
      [] e.node = "bool" -> <<"(">> \o Render(e.left) \o <<e.op>> \o Render(e.right) \o <<")">>
      [] OTHER -> Render(e.left) \o <<e.op>> \o Render(e.right)

-----------------------------------------------------------------------------
(* Typing.  What has no type is reported once, where it is used. *)

\* The state of a quest is a boolean and the reputation with a faction an integer, undeclared.
RefType(name, symbols) ==
    CASE name \in DOMAIN symbols -> symbols[name]
      [] name \in {"done:q1", "done:q2", "done:q3"} -> "bool"
      [] name = "rep:f" -> "int"
      [] OTHER -> "none"

TypeOf(e, symbols) ==
    CASE e.node = "lit" -> e.value.type
      [] e.node = "ref" -> RefType(e.name, symbols)
      [] OTHER -> "bool"

TypeErrors(e, symbols) ==
    LET type(x) == TypeOf(x, symbols)
        sides   == TypeErrors(e.left, symbols) \cup TypeErrors(e.right, symbols)
        wrong(kind, when) == IF when THEN {kind} ELSE {}
    IN  CASE e.node = "ref" -> wrong("undefined", type(e) = "none")
          [] e.node = "not" -> TypeErrors(e.of, symbols) \cup wrong("mismatch", type(e.of) \notin {"none", "bool"})
          [] e.node = "bool" ->
               sides \cup wrong("mismatch", \E x \in {e.left, e.right} : type(x) \notin {"none", "bool"})
          [] e.node = "compare" ->
               sides \cup wrong("mismatch",
                   IF e.op \in Orders THEN \E x \in {e.left, e.right} : type(x) \notin {"none", "int"}
                   ELSE type(e.left) # type(e.right) /\ "none" \notin {type(e.left), type(e.right)})
          [] OTHER -> {}

-----------------------------------------------------------------------------
(* Evaluation: a value, or an error. *)

Failed     == [type |-> "error", n |-> 0]
Truth(b)   == Bool(IF b THEN 1 ELSE 0)
Same(l, r) == l = r \/ ({l.type, r.type} = {"bool", "int"} /\ l.n = r.n)

Ordered(op, l, r) ==
    IF l.type # "int" \/ r.type # "int" THEN Failed
    ELSE Truth(IF op = "<" THEN l.n < r.n ELSE l.n <= r.n)

\* "and" and "or" do not look at their right side when the left decides.
Evaluate(e, state) ==
    CASE e.node = "lit" -> e.value
      [] e.node = "ref" -> IF e.name \in DOMAIN state THEN state[e.name] ELSE Failed
      [] e.node = "not" ->
           LET v == Evaluate(e.of, state) IN IF v.type = "bool" THEN Bool(1 - v.n) ELSE Failed
      [] e.node = "bool" ->
           LET l == Evaluate(e.left, state)
               r == Evaluate(e.right, state)
           IN  IF l.type # "bool" THEN Failed
               ELSE IF l.n = (IF e.op = "and" THEN 0 ELSE 1) THEN l
               ELSE IF r.type = "bool" THEN r ELSE Failed
      [] OTHER ->
           LET l == Evaluate(e.left, state)
               r == Evaluate(e.right, state)
           IN  IF Failed \in {l, r} THEN Failed
               ELSE IF e.op \in Orders THEN Ordered(e.op, l, r)
               ELSE Truth(IF e.op = "==" THEN Same(l, r) ELSE ~ Same(l, r))
=============================================================================
