---------------------------- MODULE PatchFixers ----------------------------
(***************************************************************************)
(* The repairs that need no model (patches/fixers.py), and the gate that   *)
(* every repair passes (patches/validate.py): it is tried on a copy of the *)
(* world, which is then audited.                                           *)
(***************************************************************************)
EXTENDS PatchOps

CONSTANTS
    Dangling,    \* relations with an end point that does not exist
    BadVals      \* values of a field that refer to an object that does not exist

Positions(d, t) == {k \in 0..(Len(d.rels) - 1) : d.rels[k + 1] = t}

\* sorted(indices, reverse=True), as remove operations.
Removals(d, t, ks) ==
    [n \in 1..Cardinality(ks) |-> RelOp("remove", Nth(ks, Cardinality(ks) + 1 - n), t)]

\* patches/fixers.py: drop dangling relations, drop the copies of a relation after the
\* first, drop a dangling field.
DanglingFix(d) == {Removals(d, t, Positions(d, t)) : t \in Dangling \cap ToSet(d.rels)}
DuplicateFix(d) ==
    {Removals(d, t, Positions(d, t) \ {CHOOSE k \in Positions(d, t) :
                                          \A j \in Positions(d, t) : k <= j}) :
       t \in {u \in Triples : Cardinality(Positions(d, u)) > 1}}
FieldFix(d) == {<<FieldOp("remove", f, None)>> : f \in {g \in Fields : d.fields[g] \in BadVals}}

\* The open errors of the audit, by fingerprint (a duplicated relation is a warning).
Errors(d) ==
    {t \in Dangling : t \in ToSet(d.rels)} \cup {f \in Fields : d.fields[f] \in BadVals}

\* A bug: the shadow audit is run and its result ignored.
SurvivesUnaudited(d, ops) == ApplyOps(d, ops) # Failed

\* The gate of suggest and of apply: the operations apply and add no error.
Survives(d, ops) ==
    LET after == ApplyOps(d, ops) IN after # Failed /\ Errors(after) \subseteq Errors(d)
=============================================================================
