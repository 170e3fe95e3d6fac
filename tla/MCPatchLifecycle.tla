-------------------------- MODULE MCPatchLifecycle --------------------------
(***************************************************************************)
(* Instances of PatchLifecycle: one optional field that may hold a good or *)
(* a bad reference, and relations of which one dangles.                    *)
(***************************************************************************)
EXTENDS PatchLifecycle

CONSTANTS f, good, bad, t1, t2, t3

\* Operations that set a field, to a bad reference as well, or append a relation.
SetOps == {FieldOp("replace", f, good), FieldOp("replace", f, bad), AppendOp(t2)}
NoOps  == {}
=============================================================================
