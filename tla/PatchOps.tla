------------------------------ MODULE PatchOps ------------------------------
(***************************************************************************)
(* The JSON-Patch dialect of patches/: applying operations to a shadow     *)
(* copy of the bundle (shadow.py) and inverting them (rollback.py).  Of    *)
(* the bundle document the operations tell two shapes apart: fields of an  *)
(* object (a dict, where a removed optional field reads as None) and the   *)
(* relations list, which is addressed by position from 0.                  *)
(***************************************************************************)
EXTENDS Integers, Sequences, SequencesExt, FiniteSets

CONSTANTS
    Fields,   \* optional fields of objects, e.g. the giver_npc of a quest
    Vals,     \* their values
    None,     \* a field that is not set
    Triples,  \* relations, as (source, kind, target)
    MaxRels,  \* bound: length of the relations list
    Failed    \* the exception that ends a shadow apply

Documents ==
    [fields : [Fields -> Vals \cup {None}], rels : UNION {[1..n -> Triples] : n \in 0..MaxRels}]

\* kind "field" addresses a field, "rel" the relation at a position, "append" the end "-".
FieldOp(op, f, v) == [op |-> op, kind |-> "field", at |-> f, val |-> v]
RelOp(op, k, t)   == [op |-> op, kind |-> "rel", at |-> k, val |-> t]
AppendOp(t)       == [op |-> "add", kind |-> "append", at |-> 0, val |-> t]

Operations ==
    [op : {"add", "replace", "remove"}, kind : {"field"}, at : Fields, val : Vals \cup {None}]
      \cup [op : {"add", "replace", "remove"}, kind : {"rel"}, at : Nat, val : Triples]
      \cup [op : {"add"}, kind : {"append"}, at : {0}, val : Triples]

\* A position of the list must exist, for "add" too: parent[int(key)] = value.  (The bound
\* on the length of the list counts as an exception as well.)
Applicable(d, op) ==
    /\ op.kind = "rel" => op.at < Len(d.rels)
    /\ op.kind = "append" => Len(d.rels) < MaxRels

\* _apply_op: "add" and "replace" both assign; on a list neither of them inserts.
ApplyOp(d, op) ==
    CASE op.kind = "field" /\ op.op = "remove" -> [d EXCEPT !.fields[op.at] = None]
      [] op.kind = "field" /\ op.op # "remove" -> [d EXCEPT !.fields[op.at] = op.val]
      [] op.kind = "append"                    -> [d EXCEPT !.rels = Append(@, op.val)]
      [] op.kind = "rel" /\ op.op = "remove"   -> [d EXCEPT !.rels = RemoveAt(@, op.at + 1)]
      [] op.kind = "rel" /\ op.op # "remove"   -> [d EXCEPT !.rels[op.at + 1] = op.val]

\* One more operation, on a document or after an exception.
ApplyNext(x, op) == IF x # Failed /\ Applicable(x, op) THEN ApplyOp(x, op) ELSE Failed

\* The shadow copy after each number of operations (a recursive function, and not a fold:
\* PatchLifecycle_proofs reasons about every one of its values).
Shadow(d, ops) ==
    LET copy[k \in 0..Len(ops)] == IF k = 0 THEN d ELSE ApplyNext(copy[k - 1], ops[k]) IN copy

\* apply_patch_shadow: every operation in turn, or an exception and no document.
ApplyOps(d, ops) == Shadow(d, ops)[Len(ops)]

\* What the operation finds in its place, _get_path.
OldValue(d, op) == IF op.kind = "field" THEN d.fields[op.at] ELSE d.rels[op.at + 1]

\* A bug: "replace" is undone by the value it put there.
InverseOpKeepsNew(d, op) ==
    CASE op.kind = "append"  -> RelOp("remove", Len(d.rels), op.val)
      [] op.kind # "append" /\ op.op = "add"     -> [op EXCEPT !.op = "remove"]
      [] op.kind # "append" /\ op.op = "replace" -> op
      [] op.kind # "append" /\ op.op = "remove"  -> [op EXCEPT !.op = "add", !.val = OldValue(d, op)]

\* One inverse: "add" is undone by "remove" (of the position an append gets), "replace" by
\* the old value, "remove" by an "add" of it.
InverseOp(d, op) ==
    CASE op.kind = "append"  -> RelOp("remove", Len(d.rels), op.val)
      [] op.kind # "append" /\ op.op = "add"     -> [op EXCEPT !.op = "remove"]
      [] op.kind # "append" /\ op.op = "replace" -> [op EXCEPT !.val = OldValue(d, op)]
      [] op.kind # "append" /\ op.op = "remove"  -> [op EXCEPT !.op = "add", !.val = OldValue(d, op)]

\* inverse_operations: each inverse is taken on the document before its operation, and the
\* list is reversed.
InverseOps(d, ops) ==
    Reverse([k \in 1..Len(ops) |-> InverseOp(Shadow(d, ops)[k - 1], ops[k])])

\* The n-th number of a set, from the least one up.
Nth(S, n) == CHOOSE k \in S : Cardinality({i \in S : i <= k}) = n
=============================================================================
