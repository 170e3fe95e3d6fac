----------------------------- MODULE LogicText -----------------------------
(***************************************************************************)
(* One expression from text to value (app/actions.py                       *)
(* update_quest_logic_action, then the audit and the playtest of the       *)
(* quest): it is rejected if it cannot be parsed, typed when it is saved,  *)
(* and evaluated when the quest is played.                                 *)
(***************************************************************************)
EXTENDS LogicExpr

VARIABLES text, stage, tree, errors, value
vars == <<text, stage, tree, errors, value>>

\* One variable of each type, one that nobody declares, and the two kinds of state.
Symbols == [b |-> "bool", n |-> "int", e |-> "enum"]
Names   == {"b", "n", "done:q1", "rep:f", "ghost"}

Atoms == {Lit(Bool(1)), Lit(Num(1)), Lit(Enum(<<"b", "'">>))} \cup {Ref(x) : x \in Names}
Over(xs, ys) ==
    {Not(x) : x \in xs} \cup UNION {{BoolOp(op, x, y), Compare(cmp, x, y)} :
                                       op \in {"and", "or"}, cmp \in {"==", "<"}, x \in xs, y \in ys}
Trees == LET flat == Over(Atoms, {Lit(Num(1)), Ref("b")})
         IN  Atoms \cup flat \cup Over(flat, {Lit(Bool(1)), Ref("n")}) \cup Over({Ref("b")}, flat)
                   \cup {Not(Not(Not(Ref("b"))))}

\* Texts that a tree renders to, short ones of any words, and strings that hold double quotes.
Words  == {"(", ")", "and", "not", "==", "b", "'", "\""}
Strings == {<<"'">> \o said \o <<"'">> : said \in UNION {[1..k -> {"\"", "==", "b"}] : k \in 0..4}}
Texts  == {Render(t) : t \in Trees} \cup UNION {[1..k -> Words] : k \in 1..4}
          \cup Strings \cup {<<"e", "==">> \o said : said \in Strings}
          \cup {<<"not">> \o said \o <<"==", "\"", "b", "\"">> : said \in Strings}

Init ==
    /\ text \in Texts
    /\ stage = "text" /\ tree = Lit(Bool(1)) /\ errors = {} /\ value = Failed

Save ==
    /\ stage = "text"
    /\ LET p == Parse(text)
       IN  IF p.ok THEN stage' = "saved" /\ tree' = p.tree /\ errors' = TypeErrors(p.tree, Symbols)
           ELSE stage' = "rejected" /\ UNCHANGED <<tree, errors>>
    /\ UNCHANGED <<text, value>>

\* (wrong: a variable is false until it is set)
SeedFalse(names) == [x \in names \cup DOMAIN Symbols |-> Bool(0)]

\* The declared variables have their defaults; every other name that is read is false.
SeedState(names) ==
    [x \in names \cup DOMAIN Symbols |->
        CASE x = "n" -> Num(0) [] x = "e" -> Enum(<<"b">>) [] OTHER -> Bool(0)]

Play ==
    /\ stage = "saved"
    /\ stage' = "played"
    /\ value' = Evaluate(tree, SeedState(RefsIn(tree)))
    /\ UNCHANGED <<text, tree, errors>>

Next == Save \/ Play
Spec == Init /\ [][Next]_vars

-----------------------------------------------------------------------------
TypeOK ==
    /\ stage \in {"text", "saved", "rejected", "played"}
    /\ errors \subseteq {"undefined", "mismatch"}
    /\ value.type \in {"bool", "int", "enum", "error"}

\* A comparison of comparisons or negations is rendered without the parentheses it needs.
RECURSIVE Plain(_), Nesting(_), HoldsQuote(_)
Plain(e) ==
    CASE e.node = "not" -> Plain(e.of)
      [] e.node = "bool" -> Plain(e.left) /\ Plain(e.right)
      [] e.node = "compare" -> \A x \in {e.left, e.right} : Plain(x) /\ x.node \notin {"not", "compare"}
      [] OTHER -> TRUE
Nesting(e) ==
    LET deeper(x, y) == IF x > y THEN x ELSE y
    IN  CASE e.node = "not" -> 1 + Nesting(e.of)
          [] e.node = "bool" -> 1 + deeper(Nesting(e.left), Nesting(e.right))
          [] e.node = "compare" -> deeper(Nesting(e.left), Nesting(e.right))
          [] OTHER -> 0

\* A string of the expression has a double quote in it: the text it came from had it in single ones.
HoldsQuote(e) ==
    CASE e.node = "lit" -> e.value.type = "enum" /\ \E i \in DOMAIN e.value.text : e.value.text[i] = "\""
      [] e.node = "not" -> HoldsQuote(e.of)
      [] e.node \in {"bool", "compare"} -> HoldsQuote(e.left) \/ HoldsQuote(e.right)
      [] OTHER -> FALSE

\* logic/expr.py and semantics.py: an expression that was saved without a type error never fails
\* when it is played, unless it reads a reputation, which is typed an integer and seeded a
\* boolean; and what is rendered from a saved tree is parsed to that tree again, within the
\* nesting allowed and unless a comparison is compared, just when no string in it holds a double
\* quote: a string that does is no expression afterwards, or another one.
TextIsKept ==
    /\ stage = "played" /\ errors = {} /\ "rep:f" \notin RefsIn(tree) => value # Failed
    /\ stage = "saved" /\ Plain(tree) /\ Nesting(tree) <= MaxDepth =>
           (Parse(Render(tree)) = Got(tree, <<>>) <=> ~ HoldsQuote(tree))
=============================================================================
