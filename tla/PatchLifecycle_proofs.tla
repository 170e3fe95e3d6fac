----------------------- MODULE PatchLifecycle_proofs -----------------------
(***************************************************************************)
(* Theorems about PatchLifecycle, for every set of fields, values and      *)
(* relations, every length of the relations list, every set of operations  *)
(* the language model may suggest, and patches of every length; and about  *)
(* RepairSearch, for every finite set of fields, every set of moves that a *)
(* provider offers, every depth and every number of iterations.            *)
(***************************************************************************)
EXTENDS PatchLifecycle, FiniteSetTheorems, SequenceTheorems, TLAPS

\* Induction over the naturals, for a set (the library states it for an operator, which the provers
\* cannot instantiate): the least number outside of the set cannot exist.
LEMMA Induction ==
    ASSUME NEW S, 0 \in S, \A n \in Nat : n \in S => n + 1 \in S
    PROVE  Nat \subseteq S
<1> SUFFICES ASSUME Nat \ S # {} PROVE FALSE
  OBVIOUS
<1>1. IsWellFoundedOn(OpToRel(<, Nat), Nat)
  BY NatLessThanWellFounded
<1>2. PICK m \in Nat \ S : \A k \in Nat \ S : ~ (<<k, m>> \in OpToRel(<, Nat))
  <2> DEFINE R == OpToRel(<, Nat)
             T == Nat \ S
  <2>1. IsWellFoundedOn(R, Nat) /\ T \subseteq Nat /\ T # {}
    BY <1>1
  <2> HIDE DEF R, T
  <2>2. \E m \in T : \A k \in T : ~ (<<k, m>> \in R)
    BY <2>1, WFMin
  <2> QED
    BY <2>2 DEF R, T
<1>3. m # 0 /\ m - 1 \in Nat /\ m - 1 < m /\ m - 1 + 1 = m
  OBVIOUS
<1>4. m - 1 \notin S
  BY <1>3
<1>5. <<m - 1, m>> \in OpToRel(<, Nat)
  BY <1>3 DEF OpToRel
<1> QED
  BY <1>2, <1>3, <1>4, <1>5

\* The same below a bound.
LEMMA InductionUpTo ==
    ASSUME NEW m \in Nat, NEW S, 0 \in S, \A n \in 0..(m - 1) : n \in S => n + 1 \in S
    PROVE  0..m \subseteq S
<1> DEFINE T == {n \in Nat : n \in 0..m => n \in S}
<1>1. 0 \in T
  OBVIOUS
<1>2. ASSUME NEW n \in Nat, n \in T PROVE n + 1 \in T
  <2>1. CASE n + 1 \in 0..m
    <3>1. n \in 0..m /\ n \in 0..(m - 1)
      BY <2>1
    <3>2. n \in S
      BY <1>2, <3>1
    <3> QED
      BY <3>1, <3>2
  <2> QED
    BY <2>1
<1>3. Nat \subseteq T
  <2> HIDE DEF T
  <2> QED
    BY <1>1, <1>2, Induction
<1> QED
  BY <1>3
-----------------------------------------------------------------------------
\* A relations list is a sequence of bounded length.
Lists == UNION {[1..n -> Triples] : n \in 0..MaxRels}

LEMMA ListsAre ==
    ASSUME NEW s
    PROVE  s \in Lists <=> s \in Seq(Triples) /\ Len(s) \in Nat /\ Len(s) <= MaxRels
<1>1. ASSUME s \in Seq(Triples), Len(s) <= MaxRels PROVE s \in Lists
  <2>1. Len(s) \in 0..MaxRels /\ s \in [1..Len(s) -> Triples]
    BY <1>1, LenProperties, PatchAssumption
  <2> QED
    BY <2>1 DEF Lists
<1>2. ASSUME s \in Lists PROVE s \in Seq(Triples) /\ Len(s) \in Nat /\ Len(s) <= MaxRels
  <2>1. PICK k \in 0..MaxRels : s \in [1..k -> Triples]
    BY <1>2 DEF Lists
  <2> QED
    BY <2>1, PatchAssumption
<1> QED
  BY <1>1, <1>2

\* An element less.
LEMMA RemoveAtIs ==
    ASSUME NEW s \in Seq(Triples), NEW i \in 1..Len(s)
    PROVE  RemoveAt(s, i) \in Seq(Triples) /\ Len(RemoveAt(s, i)) = Len(s) - 1
<1>1. Len(s) \in Nat /\ i \in Nat /\ \A k \in 1..Len(s) : s[k] \in Triples
  BY LenProperties, ElementOfSeq
<1> DEFINE a == SubSeq(s, 1, i - 1)
           b == SubSeq(s, i + 1, Len(s))
<1>2. a \in Seq(Triples) /\ Len(a) = i - 1
  <2>1. \A k \in 1..(i - 1) : s[k] \in Triples
    BY <1>1
  <2>2. a \in Seq(Triples) /\ Len(a) = IF 1 <= i - 1 THEN i - 1 - 1 + 1 ELSE 0
    BY <1>1, <2>1, SubSeqProperties
  <2> HIDE DEF a
  <2> QED
    BY <1>1, <2>2
<1>3. b \in Seq(Triples) /\ Len(b) = Len(s) - i
  <2>1. \A k \in (i + 1)..Len(s) : s[k] \in Triples
    BY <1>1
  <2>2. b \in Seq(Triples) /\ Len(b) = IF i + 1 <= Len(s) THEN Len(s) - (i + 1) + 1 ELSE 0
    BY <1>1, <2>1, SubSeqProperties
  <2> HIDE DEF b
  <2> QED
    BY <1>1, <2>2
<1>4. RemoveAt(s, i) = a \o b
  BY DEF RemoveAt
<1> HIDE DEF a, b
<1>5. a \o b \in Seq(Triples) /\ Len(a \o b) = Len(a) + Len(b)
  BY <1>2, <1>3, ConcatProperties
<1> QED
  BY <1>1, <1>2, <1>3, <1>4, <1>5

\* An operation that applies gives a document.
LEMMA ApplyOpType ==
    ASSUME NEW d \in Documents, NEW op \in Operations, Applicable(d, op)
    PROVE  ApplyOp(d, op) \in Documents
<1> DEFINE rels == d.rels
<1>1. /\ d = [fields |-> d.fields, rels |-> rels]
      /\ d.fields \in [Fields -> Vals \cup {None}] /\ rels \in Lists
  BY DEF Documents, Lists
<1>2. rels \in Seq(Triples) /\ Len(rels) \in Nat /\ Len(rels) <= MaxRels
  BY <1>1, ListsAre
<1>3. ASSUME NEW new \in Lists PROVE [d EXCEPT !.rels = new] \in Documents
  BY <1>1 DEF Documents, Lists
<1>4. ASSUME NEW new \in [Fields -> Vals \cup {None}] PROVE [d EXCEPT !.fields = new] \in Documents
  BY <1>1 DEF Documents
<1>5. CASE op.kind = "field"
  <2>1. op.at \in Fields /\ op.val \in Vals \cup {None}
    BY <1>5 DEF Operations
  <2>2. ASSUME NEW v \in Vals \cup {None} PROVE [d EXCEPT !.fields[op.at] = v] \in Documents
    <3>1. [d.fields EXCEPT ![op.at] = v] \in [Fields -> Vals \cup {None}]
      BY <1>1, <2>1
    <3> QED
      BY <1>4, <3>1
  <2> QED
    BY <1>5, <2>1, <2>2 DEF ApplyOp
<1>6. CASE op.kind = "append"
  <2>1. op.val \in Triples /\ Len(rels) < MaxRels
    BY <1>6 DEF Operations, Applicable
  <2>2. Append(rels, op.val) \in Lists
    <3> HIDE DEF rels
    <3>1. Append(rels, op.val) \in Seq(Triples) /\ Len(Append(rels, op.val)) = Len(rels) + 1
      BY <1>2, <2>1, AppendProperties
    <3>2. Len(rels) + 1 \in Nat /\ Len(rels) + 1 <= MaxRels
      BY <1>2, <2>1, PatchAssumption
    <3> QED
      BY <3>1, <3>2, ListsAre
  <2> QED
    BY <1>3, <1>6, <2>2 DEF ApplyOp
<1>7. CASE op.kind = "rel"
  <2>1. op.at \in Nat /\ op.val \in Triples /\ op.at < Len(rels)
    BY <1>7 DEF Operations, Applicable
  <2>2. op.at + 1 \in 1..Len(rels)
    BY <1>2, <2>1
  <2>3. RemoveAt(rels, op.at + 1) \in Lists /\ [rels EXCEPT ![op.at + 1] = op.val] \in Lists
    <3> HIDE DEF rels
    <3>1. RemoveAt(rels, op.at + 1) \in Seq(Triples) /\ Len(RemoveAt(rels, op.at + 1)) = Len(rels) - 1
      BY <1>2, <2>2, RemoveAtIs
    <3>2. Len(rels) - 1 \in Nat /\ Len(rels) - 1 <= MaxRels
      BY <1>2, <2>1, PatchAssumption
    <3>3. [rels EXCEPT ![op.at + 1] = op.val] \in Seq(Triples)
          /\ Len([rels EXCEPT ![op.at + 1] = op.val]) = Len(rels)
      BY <1>2, <2>1, <2>2, ExceptSeq
    <3> QED
      BY <1>2, <3>1, <3>2, <3>3, ListsAre
  <2> QED
    BY <1>3, <1>7, <2>3 DEF ApplyOp
<1> QED
  BY <1>5, <1>6, <1>7 DEF Operations
-----------------------------------------------------------------------------
\* The recursive function of Shadow exists, for patches of every length.
LEMMA ShadowIs ==
    ASSUME NEW d, NEW ops \in Seq(Operations)
    PROVE  Shadow(d, ops) =
              [k \in 0..Len(ops) |-> IF k = 0 THEN d ELSE ApplyNext(Shadow(d, ops)[k - 1], ops[k])]
<1> DEFINE IsShadow(f, n) == f = [k \in 0..n |-> IF k = 0 THEN d ELSE ApplyNext(f[k - 1], ops[k])]
           N == {n \in Nat : \E f : IsShadow(f, n)}
<1>1. 0 \in N
  <2> DEFINE f == [k \in 0..0 |-> d]
  <2>1. f = [k \in 0..0 |-> IF k = 0 THEN d ELSE ApplyNext(f[k - 1], ops[k])]
    OBVIOUS
  <2> QED
    BY <2>1
<1>2. ASSUME NEW n \in Nat, n \in N PROVE n + 1 \in N
  <2>1. PICK f : IsShadow(f, n)
    BY <1>2
  <2> DEFINE g == [k \in 0..(n + 1) |-> IF k = n + 1 THEN ApplyNext(f[n], ops[n + 1]) ELSE f[k]]
  <2>2. ASSUME NEW k \in 0..(n + 1)
        PROVE  g[k] = IF k = 0 THEN d ELSE ApplyNext(g[k - 1], ops[k])
    <3>1. CASE k = n + 1
      BY <3>1
    <3>2. CASE k \in 0..n
      <4>1. f[k] = IF k = 0 THEN d ELSE ApplyNext(f[k - 1], ops[k])
        BY <2>1, <3>2
      <4>2. k # 0 => g[k - 1] = f[k - 1]
        BY <3>2
      <4>3. g[k] = f[k]
        BY <3>2
      <4> QED
        BY <4>1, <4>2, <4>3
    <3> QED
      BY <3>1, <3>2
  <2>3. IsShadow(g, n + 1)
    <3>1. g = [k \in 0..(n + 1) |-> g[k]]
      OBVIOUS
    <3> HIDE DEF g
    <3> QED
      BY ONLY <2>2, <3>1
  <2>4. \E h : IsShadow(h, n + 1)
    <3> HIDE DEF g
    <3> WITNESS g
    <3> QED
      BY <2>3
  <2> HIDE DEF IsShadow
  <2>5. n + 1 \in Nat
    OBVIOUS
  <2> QED
    BY ONLY <2>4, <2>5
<1>3. Nat \subseteq N
  <2> HIDE DEF N
  <2> QED
    BY <1>1, <1>2, Induction
<1>4. Len(ops) \in N
  BY <1>3, LenProperties
<1> QED
  BY <1>4 DEF Shadow

\* A shadow run that did not fail went through documents only, and every operation applied.
LEMMA ShadowRuns ==
    ASSUME NEW d \in Documents, NEW ops \in Seq(Operations), ApplyOps(d, ops) # Failed
    PROVE  /\ Shadow(d, ops)[0] = d
           /\ \A k \in 1..Len(ops) :
                 /\ Applicable(Shadow(d, ops)[k - 1], ops[k])
                 /\ Shadow(d, ops)[k] = ApplyOp(Shadow(d, ops)[k - 1], ops[k])
           /\ \A k \in 0..Len(ops) : Shadow(d, ops)[k] \in Documents
<1> DEFINE n == Len(ops)
           run == Shadow(d, ops)
<1>1. /\ n \in Nat
      /\ run[0] = d
      /\ \A k \in 1..n : run[k] = ApplyNext(run[k - 1], ops[k])
      /\ run[n] # Failed
  <2>1. n \in Nat
    BY LenProperties
  <2>2. run = [k \in 0..n |-> IF k = 0 THEN d ELSE ApplyNext(run[k - 1], ops[k])]
    BY ShadowIs
  <2>3. run[n] # Failed
    BY DEF ApplyOps
  <2> HIDE DEF run, n
  <2>4. 0 \in 0..n /\ \A k \in 1..n : k \in 0..n /\ k # 0
    BY <2>1
  <2> QED
    BY <2>1, <2>2, <2>3, <2>4
<1>2. \A k \in 1..n : ops[k] \in Operations
  BY <1>1, ElementOfSeq
<1> HIDE DEF run, n
<1>3. \A k \in 0..n : run[k] # Failed
  <2> DEFINE S == {i \in 0..n : run[n - i] # Failed}
  <2>1. 0 \in S
    BY <1>1
  <2>2. ASSUME NEW i \in 0..(n - 1), i \in S PROVE i + 1 \in S
    <3>1. n - i \in 1..n /\ i + 1 \in 0..n /\ n - (i + 1) = n - i - 1
      BY <1>1
    <3>2. run[n - i] = ApplyNext(run[n - i - 1], ops[n - i]) /\ run[n - i] # Failed
      BY <1>1, <2>2, <3>1
    <3>3. run[n - i - 1] # Failed
      BY <3>2 DEF ApplyNext
    <3> QED
      BY <3>1, <3>3
  <2>3. 0..n \subseteq S
    <3> HIDE DEF S
    <3> QED
      BY <1>1, <2>1, <2>2, InductionUpTo
  <2> QED
    <3> TAKE k \in 0..n
    <3>1. n - k \in 0..n /\ n - (n - k) = k
      BY <1>1
    <3>2. n - k \in S
      BY <2>3, <3>1
    <3> QED
      BY <3>1, <3>2
<1>4. \A k \in 1..n : Applicable(run[k - 1], ops[k]) /\ run[k] = ApplyOp(run[k - 1], ops[k])
  <2> TAKE k \in 1..n
  <2>1. k \in 0..n /\ k - 1 \in 0..n
    BY <1>1
  <2> QED
    BY <1>1, <1>3, <2>1 DEF ApplyNext
<1>5. \A k \in 0..n : run[k] \in Documents
  <2> DEFINE S == {k \in 0..n : run[k] \in Documents}
  <2>1. 0 \in S
    BY <1>1
  <2>2. ASSUME NEW k \in 0..(n - 1), k \in S PROVE k + 1 \in S
    <3>1. k + 1 \in 1..n /\ k + 1 \in 0..n /\ k + 1 - 1 = k
      BY <1>1
    <3>2. run[k] \in Documents /\ Applicable(run[k], ops[k + 1]) /\ run[k + 1] = ApplyOp(run[k], ops[k + 1])
      BY <1>4, <2>2, <3>1
    <3>3. run[k + 1] \in Documents
      BY <1>2, <3>1, <3>2, ApplyOpType
    <3> QED
      BY <3>1, <3>3
  <2>3. 0..n \subseteq S
    <3> HIDE DEF S
    <3> QED
      BY <1>1, <2>1, <2>2, InductionUpTo
  <2> QED
    BY <2>3
<1> QED
  BY <1>1, <1>4, <1>5 DEF run, n

-----------------------------------------------------------------------------
\* The inverse of an operation that applies is an operation.
LEMMA InverseOpType ==
    ASSUME NEW d \in Documents, NEW op \in Operations, Applicable(d, op)
    PROVE  InverseOp(d, op) \in Operations
<1>1. d.fields \in [Fields -> Vals \cup {None}] /\ d.rels \in Lists
  BY DEF Documents, Lists
<1>2. d.rels \in Seq(Triples) /\ Len(d.rels) \in Nat
  BY <1>1, ListsAre
<1>3. CASE op.kind = "append"
  BY <1>2, <1>3 DEF InverseOp, Operations, RelOp
<1>4. CASE op.kind = "field"
  <2>1. op.at \in Fields /\ d.fields[op.at] \in Vals \cup {None}
    BY <1>1, <1>4 DEF Operations
  <2>2. op \in [op : {"add", "replace", "remove"}, kind : {"field"}, at : Fields, val : Vals \cup {None}]
    BY <1>4 DEF Operations
  <2> QED
    BY <1>4, <2>1, <2>2 DEF InverseOp, Operations, OldValue
<1>5. CASE op.kind = "rel"
  <2>1. op \in [op : {"add", "replace", "remove"}, kind : {"rel"}, at : Nat, val : Triples]
    BY <1>5 DEF Operations
  <2>2. op.at < Len(d.rels)
    BY <1>5 DEF Applicable
  <2>3. op.at + 1 \in 1..Len(d.rels)
    BY <1>2, <2>1, <2>2
  <2>4. d.rels[op.at + 1] \in Triples
    BY <1>2, <2>3, ElementOfSeq
  <2> QED
    BY <1>5, <2>1, <2>4 DEF InverseOp, Operations, OldValue
<1> QED
  BY <1>3, <1>4, <1>5 DEF Operations

\* The inverse operations of a patch that applies: as many, in the opposite order.
LEMMA InverseOpsAre ==
    ASSUME NEW d \in Documents, NEW ops \in Seq(Operations), ApplyOps(d, ops) # Failed
    PROVE  /\ InverseOps(d, ops) \in Seq(Operations)
           /\ Len(InverseOps(d, ops)) = Len(ops)
           /\ \A i \in 1..Len(ops) :
                 InverseOps(d, ops)[i] = InverseOp(Shadow(d, ops)[Len(ops) - i], ops[Len(ops) - i + 1])
<1> DEFINE n == Len(ops)
           run == Shadow(d, ops)
           inv == [k \in 1..n |-> InverseOp(run[k - 1], ops[k])]
<1>1. n \in Nat
  BY LenProperties
<1>2. ASSUME NEW k \in 1..n PROVE inv[k] \in Operations
  <2>1. k - 1 \in 0..n
    BY <1>1
  <2>2. run[k - 1] \in Documents /\ Applicable(run[k - 1], ops[k])
    BY <2>1, ShadowRuns
  <2>3. ops[k] \in Operations
    BY ElementOfSeq
  <2> QED
    BY <2>2, <2>3, InverseOpType
<1>3. InverseOps(d, ops) = Reverse(inv)
  BY DEF InverseOps
<1>4. inv \in [1..n -> Operations] /\ \A k \in 1..n : inv[k] = InverseOp(run[k - 1], ops[k])
  BY <1>2
<1> HIDE DEF inv, n, run
<1>5. inv \in Seq(Operations) /\ Len(inv) = n
  BY <1>1, <1>4
<1>6. Reverse(inv) = [i \in 1..n |-> inv[n - i + 1]]
  BY <1>1, <1>5 DEF Reverse
<1>7. \A i \in 1..n : n - i + 1 \in 1..n /\ n - i + 1 - 1 = n - i
  BY <1>1
<1>8. Reverse(inv) \in [1..n -> Operations]
  BY <1>4, <1>6, <1>7
<1>9. Reverse(inv) \in Seq(Operations) /\ Len(Reverse(inv)) = n
  BY <1>1, <1>8
<1> QED
  BY <1>3, <1>4, <1>6, <1>7, <1>9 DEF n, run

\* Operations that can be undone: those that replace or drop a field, or append a relation.
Simple(op) == \/ op.kind = "append"
              \/ op.kind = "field" /\ op.op # "add"

\* Undoing one of them gives the document back.
LEMMA OneUndone ==
    ASSUME NEW d \in Documents, NEW op \in Operations, Applicable(d, op), Simple(op)
    PROVE  ApplyNext(ApplyOp(d, op), InverseOp(d, op)) = d
<1> DEFINE rels == d.rels
           fields == d.fields
           new == ApplyOp(d, op)
           inv == InverseOp(d, op)
<1>1. /\ d = [fields |-> fields, rels |-> rels]
      /\ fields \in [Fields -> Vals \cup {None}] /\ rels \in Lists
  BY DEF Documents, Lists
<1>2. rels \in Seq(Triples) /\ Len(rels) \in Nat /\ Len(rels) <= MaxRels
  BY <1>1, ListsAre
<1>3. new \in Documents /\ new # Failed
  BY ApplyOpType, PatchAssumption
<1>4. CASE op.kind = "field"
  <2>1. op \in [op : {"add", "replace", "remove"}, kind : {"field"}, at : Fields, val : Vals \cup {None}]
        /\ op.op # "add"
    BY <1>4 DEF Operations, Simple
  <2>2. PICK v \in Vals \cup {None} : new = [d EXCEPT !.fields[op.at] = v]
    BY <1>4, <2>1 DEF ApplyOp
  <2>3. inv.kind = "field" /\ inv.op # "remove" /\ inv.at = op.at /\ inv.val = fields[op.at]
    BY <1>4, <2>1 DEF InverseOp, OldValue
  <2>4. new = [fields |-> [fields EXCEPT ![op.at] = v], rels |-> rels]
    BY <1>1, <2>2
  <2> HIDE DEF new, inv
  <2>5. ApplyNext(new, inv) = [new EXCEPT !.fields[op.at] = fields[op.at]]
    BY <1>3, <2>3 DEF ApplyNext, Applicable, ApplyOp
  <2>6. [[fields EXCEPT ![op.at] = v] EXCEPT ![op.at] = fields[op.at]] = fields
    BY <1>1, <2>1
  <2> HIDE DEF rels, fields
  <2>7. ApplyNext(new, inv) = [fields |-> fields, rels |-> rels]
    BY <2>4, <2>5, <2>6
  <2> QED
    BY <1>1, <2>7 DEF new, inv
<1>5. CASE op.kind = "append"
  <2>1. op.val \in Triples /\ new = [d EXCEPT !.rels = Append(rels, op.val)]
    BY <1>5 DEF Operations, ApplyOp
  <2>2. inv.kind = "rel" /\ inv.op = "remove" /\ inv.at = Len(rels)
    BY <1>5 DEF InverseOp, RelOp
  <2> DEFINE more == Append(rels, op.val)
  <2>3. new = [fields |-> fields, rels |-> more]
    BY <1>1, <2>1
  <2> HIDE DEF new, inv, rels, fields
  <2>4. more \in Seq(Triples) /\ Len(more) = Len(rels) + 1 /\ \A i \in 1..Len(rels) : more[i] = rels[i]
    BY <1>2, <2>1, AppendProperties
  <2>5. RemoveAt(more, Len(rels) + 1) = rels
    <3> HIDE DEF more
    <3>r. \A k : RemoveAt(more, k) = SubSeq(more, 1, k - 1) \o SubSeq(more, k + 1, Len(more))
      BY DEF RemoveAt
    <3> DEFINE i == Len(rels) + 1
    <3>1. i \in Nat /\ i - 1 = Len(rels) /\ Len(more) < i + 1 /\ Len(more) \in Nat
      BY <1>2, <2>4
    <3>2. RemoveAt(more, i) = SubSeq(more, 1, i - 1) \o SubSeq(more, i + 1, Len(more))
      <4> HIDE DEF i
      <4> QED
        BY <3>r
    <3>3. SubSeq(more, i + 1, Len(more)) = <<>>
      <4> HIDE DEF i
      <4> QED
        BY <3>1, SubSeqEmpty
    <3>4. SubSeq(more, 1, Len(rels)) = rels
      <4>1. \A k \in 1..Len(rels) : more[k] \in Triples
        BY <1>2, <2>4, ElementOfSeq
      <4>2. /\ SubSeq(more, 1, Len(rels)) \in Seq(Triples)
            /\ Len(SubSeq(more, 1, Len(rels))) = IF 1 <= Len(rels) THEN Len(rels) - 1 + 1 ELSE 0
            /\ \A k \in 1..(Len(rels) - 1 + 1) : SubSeq(more, 1, Len(rels))[k] = more[1 + k - 1]
        BY <1>2, <4>1, SubSeqProperties
      <4>3. Len(SubSeq(more, 1, Len(rels))) = Len(rels)
        BY <1>2, <4>2
      <4>4. \A k \in 1..Len(rels) : SubSeq(more, 1, Len(rels))[k] = rels[k]
        BY <1>2, <2>4, <4>2
      <4> QED
        BY <1>2, <4>2, <4>3, <4>4, SeqEqual
    <3>5. SubSeq(more, 1, i - 1) = rels
      BY <3>1, <3>4
    <3>6. RemoveAt(more, i) = rels \o <<>>
      BY <3>2, <3>3, <3>5
    <3> QED
      BY <1>2, <3>6, ConcatEmptySeq
  <2> HIDE DEF more
  <2>6. inv.at < Len(new.rels)
    BY <1>2, <2>2, <2>3, <2>4
  <2>7. ApplyNext(new, inv) = [new EXCEPT !.rels = RemoveAt(@, inv.at + 1)]
    BY <1>3, <2>2, <2>6 DEF ApplyNext, Applicable, ApplyOp
  <2>8. ApplyNext(new, inv) = [fields |-> fields, rels |-> rels]
    BY <2>2, <2>3, <2>5, <2>7
  <2> QED
    BY <1>1, <2>8 DEF new, inv
<1> QED
  BY <1>4, <1>5 DEF Simple

\* Undoing a patch of such operations, of every length, gives the document back.
LEMMA InverseUndoes ==
    ASSUME NEW d \in Documents, NEW ops \in Seq(Operations), ApplyOps(d, ops) # Failed,
           \A k \in DOMAIN ops : Simple(ops[k])
    PROVE  ApplyOps(ApplyOps(d, ops), InverseOps(d, ops)) = d
<1> DEFINE n == Len(ops)
           run == Shadow(d, ops)
           inv == InverseOps(d, ops)
           back == Shadow(run[n], inv)
<1>1. n \in Nat /\ DOMAIN ops = 1..n /\ \A k \in 1..n : ops[k] \in Operations
  BY LenProperties, ElementOfSeq
<1>2. /\ run[0] = d
      /\ \A k \in 1..n : Applicable(run[k - 1], ops[k]) /\ run[k] = ApplyOp(run[k - 1], ops[k])
      /\ \A k \in 0..n : run[k] \in Documents
  BY ShadowRuns
<1>3. inv \in Seq(Operations) /\ Len(inv) = n
      /\ \A i \in 1..n : inv[i] = InverseOp(run[n - i], ops[n - i + 1])
  BY InverseOpsAre
<1>4. back = [k \in 0..n |-> IF k = 0 THEN run[n] ELSE ApplyNext(back[k - 1], inv[k])]
  <2> HIDE DEF n, run, inv
  <2>1. back = [k \in 0..Len(inv) |-> IF k = 0 THEN run[n] ELSE ApplyNext(back[k - 1], inv[k])]
    BY <1>3, ShadowIs
  <2> QED
    BY <1>3, <2>1
<1>5. ApplyOps(ApplyOps(d, ops), InverseOps(d, ops)) = back[n]
  BY <1>3 DEF ApplyOps
<1>s. \A k \in 1..n : Simple(ops[k])
  BY <1>1
<1> HIDE DEF n, run, inv, back
<1> DEFINE S == {i \in 0..n : back[i] = run[n - i]}
<1>6. 0 \in S
  BY <1>1, <1>4
<1>7. ASSUME NEW i \in 0..(n - 1), i \in S PROVE i + 1 \in S
  <2> DEFINE k == n - i
  <2>1. k \in 1..n /\ k - 1 \in 0..n /\ i + 1 \in 1..n /\ i + 1 \in 0..n /\ i + 1 # 0 /\ i + 1 - 1 = i
        /\ n - (i + 1) = k - 1 /\ n - (i + 1) + 1 = k
    BY <1>1
  <2>2. back[i + 1] = ApplyNext(run[k], inv[i + 1])
    BY <1>4, <1>7, <2>1
  <2>3. inv[i + 1] = InverseOp(run[k - 1], ops[k])
    BY <1>3, <2>1
  <2> HIDE DEF k
  <2>4. run[k] = ApplyOp(run[k - 1], ops[k]) /\ Applicable(run[k - 1], ops[k]) /\ run[k - 1] \in Documents
        /\ ops[k] \in Operations /\ Simple(ops[k])
    BY <1>1, <1>2, <1>s, <2>1
  <2>5. back[i + 1] = run[k - 1]
    BY <2>2, <2>3, <2>4, OneUndone
  <2> QED
    BY <2>1, <2>5
<1>8. 0..n \subseteq S
  <2> HIDE DEF S
  <2> QED
    BY <1>1, <1>6, <1>7, InductionUpTo
<1>9. n \in S /\ n - n = 0
  BY <1>1, <1>8
<1> QED
  BY <1>2, <1>5, <1>9
-----------------------------------------------------------------------------
\* A finite set of numbers has an n-th one, for every n up to its size.
LEMMA NthIs ==
    ASSUME NEW b \in Nat, NEW S \in SUBSET (0..b), NEW n \in 1..Cardinality(S)
    PROVE  Nth(S, n) \in S
<1> DEFINE Below(k) == {i \in S : i < k}
           T == {k \in 0..(b + 1) : Cardinality(Below(k)) < n}
<1>1. IsFiniteSet(S) /\ Cardinality(S) \in Nat
  <2>1. IsFiniteSet(0..b)
    BY FS_Interval
  <2> QED
    BY <2>1, FS_Subset, FS_CardinalityType
<1>2. \A k : IsFiniteSet(Below(k)) /\ Cardinality(Below(k)) \in Nat
  <2> TAKE k
  <2>1. Below(k) \in SUBSET S
    OBVIOUS
  <2> HIDE DEF Below
  <2> QED
    BY <1>1, <2>1, FS_Subset, FS_CardinalityType
<1>3. 0 \in T
  <2>1. Below(0) = {}
    <3>1. \A i \in S : ~ (i < 0)
      OBVIOUS
    <3> QED
      BY <3>1
  <2>2. Cardinality(Below(0)) = 0
    BY <2>1, FS_EmptySet
  <2> HIDE DEF Below
  <2> QED
    BY <1>1, <2>2
<1>4. b + 1 \notin T
  <2>1. Below(b + 1) = S
    <3>1. \A i \in S : i < b + 1
      OBVIOUS
    <3> QED
      BY <3>1
  <2> HIDE DEF Below
  <2> QED
    BY <1>1, <2>1
<1>5. PICK k \in 0..b : k \in T /\ k + 1 \notin T
  <2> HIDE DEF T
  <2>1. b + 1 \in Nat /\ b + 1 - 1 = b /\ b + 1 \in 0..(b + 1)
    OBVIOUS
  <2>2. ASSUME \A k \in 0..b : k \in T => k + 1 \in T PROVE FALSE
    <3>1. \A k \in 0..(b + 1 - 1) : k \in T => k + 1 \in T
      BY <2>1, <2>2
    <3>2. 0..(b + 1) \subseteq T
      BY <1>3, <2>1, <3>1, InductionUpTo
    <3> QED
      BY <1>4, <2>1, <3>2
  <2> QED
    BY <2>2
<1>6. Cardinality(Below(k)) < n /\ ~ (Cardinality(Below(k + 1)) < n)
  <2>1. k + 1 \in 0..(b + 1)
    OBVIOUS
  <2> HIDE DEF Below
  <2> QED
    BY <1>5, <2>1
<1>7. k \in S
  <2>1. ASSUME k \notin S PROVE Below(k + 1) = Below(k)
    <3>1. ASSUME NEW i \in S PROVE i < k + 1 <=> i < k
      BY <2>1
    <3> QED
      BY <3>1
  <2> HIDE DEF Below
  <2> QED
    BY <1>6, <2>1
<1>8. Cardinality({i \in S : i <= k}) = n
  <2>1. Below(k + 1) = Below(k) \cup {k} /\ k \notin Below(k) /\ {i \in S : i <= k} = Below(k + 1)
    <3>1. \A i \in S : (i < k + 1 <=> i <= k) /\ (i < k + 1 <=> i < k \/ i = k) /\ ~ (k < k)
      OBVIOUS
    <3>2. \A i \in S : i \in Below(k + 1) <=> i \in Below(k) \cup {k}
      BY <3>1
    <3>3. k \notin Below(k) /\ {i \in S : i <= k} = Below(k + 1)
      BY <3>1
    <3>4. Below(k + 1) \subseteq S /\ Below(k) \cup {k} \subseteq S
      BY <1>7
    <3> HIDE DEF Below
    <3>5. Below(k + 1) = Below(k) \cup {k}
      BY <3>2, <3>4
    <3> QED
      BY <3>3, <3>5
  <2> HIDE DEF Below
  <2>2. Cardinality(Below(k + 1)) = Cardinality(Below(k)) + 1
    BY <1>2, <2>1, FS_AddElement
  <2>3. Cardinality(Below(k + 1)) = n
    BY <1>1, <1>2, <1>6, <2>2
  <2> QED
    BY <2>1, <2>3
<1> QED
  BY <1>7, <1>8 DEF Nth

\* Dropping a relation leaves a list, no longer than before.
LEMMA WithoutIs ==
    ASSUME NEW rels \in Lists, NEW t
    PROVE  Without(rels, t) \in Lists
<1> DEFINE kept == {k \in 1..Len(rels) : rels[k] # t}
           new == [n \in 1..Cardinality(kept) |-> rels[Nth(kept, n)]]
<1>1. rels \in Seq(Triples) /\ Len(rels) \in Nat /\ Len(rels) <= MaxRels
  BY ListsAre
<1>2. kept \in SUBSET (1..Len(rels)) /\ kept \in SUBSET (0..Len(rels))
  BY <1>1
<1>3. Without(rels, t) = new
  BY DEF Without
<1> HIDE DEF kept
<1>4. Cardinality(kept) \in Nat /\ Cardinality(kept) <= Len(rels)
  <2>1. IsFiniteSet(1..Len(rels)) /\ Cardinality(1..Len(rels)) = Len(rels)
    BY <1>1, FS_Interval
  <2> QED
    BY <1>1, <1>2, <2>1, FS_Subset, FS_CardinalityType
<1>5. ASSUME NEW n \in 1..Cardinality(kept) PROVE rels[Nth(kept, n)] \in Triples
  <2>1. Nth(kept, n) \in 1..Len(rels)
    BY <1>1, <1>2, NthIs
  <2> QED
    BY <1>1, <2>1, ElementOfSeq
<1>6. new \in [1..Cardinality(kept) -> Triples]
  BY <1>5
<1> HIDE DEF new
<1>7. new \in Seq(Triples) /\ Len(new) = Cardinality(kept)
  BY <1>4, <1>6
<1> QED
  BY <1>1, <1>3, <1>4, <1>7, ListsAre, PatchAssumption

\* The fixers suggest patches: operations, at least one.
LEMMA RemovalsAre ==
    ASSUME NEW d \in Documents, NEW t \in Triples, NEW ks \in SUBSET Positions(d, t), ks # {}
    PROVE  Removals(d, t, ks) \in Plans
<1> DEFINE n == Cardinality(ks)
<1>1. d.rels \in Lists /\ Len(d.rels) \in Nat
  <2>1. d.rels \in Lists
    BY DEF Documents, Lists
  <2> QED
    BY <2>1, ListsAre
<1>2. ks \in SUBSET (0..Len(d.rels)) /\ ks \subseteq Nat
  BY <1>1 DEF Positions
<1>3. n \in Nat /\ n # 0
  <2>1. IsFiniteSet(0..Len(d.rels))
    BY <1>1, FS_Interval
  <2>2. IsFiniteSet(ks)
    BY <1>2, <2>1, FS_Subset
  <2> QED
    BY <2>2, FS_CardinalityType, FS_EmptySet
<1>4. ASSUME NEW i \in 1..n PROVE RelOp("remove", Nth(ks, n + 1 - i), t) \in Operations
  <2>1. n + 1 - i \in 1..n
    BY <1>3
  <2>2. Nth(ks, n + 1 - i) \in ks
    BY <1>1, <1>2, <2>1, NthIs
  <2> QED
    BY <1>2, <2>2 DEF RelOp, Operations
<1> DEFINE ops == [i \in 1..n |-> RelOp("remove", Nth(ks, n + 1 - i), t)]
<1>5. ops \in [1..n -> Operations]
  BY <1>4
<1>6. Removals(d, t, ks) = ops
  BY DEF Removals
<1> HIDE DEF ops, n
<1>7. ops \in Seq(Operations) /\ Len(ops) = n
  BY <1>3, <1>5
<1>8. ops # <<>>
  BY <1>3, <1>7, EmptySeq
<1> QED
  BY <1>6, <1>7, <1>8 DEF Plans

\* A patch of one operation.
LEMMA OnePlan == ASSUME NEW op \in Operations PROVE <<op>> \in Plans
BY DEF Plans

LEMMA CandidatesArePlans ==
    ASSUME NEW d \in Documents, NEW ops \in Candidates(d)
    PROVE  ops \in Plans
<1>0. d.rels \in Lists /\ d.rels \in Seq(Triples) /\ Len(d.rels) \in Nat
  <2>1. d.rels \in Lists
    BY DEF Documents, Lists
  <2> QED
    BY <2>1, ListsAre
<1>1. CASE ops \in DanglingFix(d)
  <2>1. PICK t \in Dangling \cap ToSet(d.rels) : ops = Removals(d, t, Positions(d, t))
    BY <1>1 DEF DanglingFix
  <2>2. t \in Triples
    BY <2>1, PatchAssumption
  <2>3. PICK i \in 1..Len(d.rels) : d.rels[i] = t
    BY <1>0, <2>1, LenProperties DEF ToSet
  <2>4. i - 1 \in Positions(d, t)
    BY <1>0, <2>3 DEF Positions
  <2> QED
    BY <2>1, <2>2, <2>4, RemovalsAre
<1>2. CASE ops \in DuplicateFix(d)
  <2> DEFINE First(u) == CHOOSE k \in Positions(d, u) : \A j \in Positions(d, u) : k <= j
  <2>1. PICK t \in Triples : Cardinality(Positions(d, t)) > 1
                            /\ ops = Removals(d, t, Positions(d, t) \ {First(t)})
    BY <1>2 DEF DuplicateFix
  <2> HIDE DEF First
  <2>2. Positions(d, t) \ {First(t)} # {}
    <3>1. ASSUME Positions(d, t) \ {First(t)} = {} PROVE FALSE
      <4>1. Positions(d, t) = {} \/ Positions(d, t) = {First(t)}
        BY <3>1
      <4>2. Cardinality(Positions(d, t)) \in {0, 1}
        BY <4>1, FS_EmptySet, FS_Singleton
      <4> QED
        BY <2>1, <4>2
    <3> QED
      BY <3>1
  <2> QED
    BY <2>1, <2>2, RemovalsAre
<1>3. CASE ops \in FieldFix(d)
  <2>1. PICK f \in Fields : ops = <<FieldOp("remove", f, None)>>
    BY <1>3 DEF FieldFix
  <2>2. FieldOp("remove", f, None) \in Operations
    BY DEF FieldOp, Operations
  <2> QED
    BY <2>1, <2>2, OnePlan
<1>4. CASE ops \in {<<op>> : op \in ModelOps}
  BY <1>4, OnePlan, PatchAssumption
<1> QED
  BY <1>1, <1>2, <1>3, <1>4 DEF Candidates
-----------------------------------------------------------------------------
\* What a request has read, by where it is.
LEMMA StoredIs ==
    ASSUME NEW q \in Stored
    PROVE  /\ q.pc = "idle" => q = Idle
           /\ q.pc \in {"suggested", "gated", "restored"} =>
                 q \in [pc : {"suggested", "gated", "restored"}, ops : Plans]
           /\ q.pc = "loaded" => q \in [pc : {"loaded"}, ops : Plans, after : Documents, before : Documents,
                                        rollback : Seq(Operations)]
           /\ q.pc \in {"saved", "undo"} => q \in [pc : {"saved", "undo"}, ops : Plans, rollback : Seq(Operations)]
           /\ q.pc = "undone" => q \in [pc : {"undone"}, ops : Plans, after : Documents]
           /\ q.pc \in {"idle", "suggested", "gated", "restored", "loaded", "saved", "undo", "undone"}
BY DEF Stored, Idle

\* A request that moves is the only one: the others are idle before and after.
LEMMA OnlyOne ==
    ASSUME PatchInv, NEW r \in Reqs, MayStart \/ ~ At(r, "idle"), NEW x \in Stored,
           req' = [req EXCEPT ![r] = x]
    PROVE  /\ req' \in [Reqs -> Stored] /\ req'[r] = x
           /\ \A q \in Reqs : q # r => req[q] = Idle /\ req'[q] = Idle
           /\ OneAtATime'
           /\ \A q \in Reqs : q # r => RequestInv(q)'
<1>1. req \in [Reqs -> Stored]
  BY DEF PatchInv, TypeOK
<1>2. req' \in [Reqs -> Stored] /\ req'[r] = x
  BY <1>1
<1>3. ASSUME NEW q \in Reqs, q # r PROVE req[q] = Idle /\ req'[q] = Idle
  <2>1. req[q].pc = "idle"
    BY <1>3 DEF PatchInv, OneAtATime, MayStart, At
  <2> QED
    BY <1>1, <1>3, <2>1, StoredIs
<1>4. OneAtATime'
  <2> SUFFICES ASSUME NEW p \in Reqs, NEW q \in Reqs, p # q PROVE At(p, "idle")' \/ At(q, "idle")'
    BY DEF OneAtATime
  <2>1. req'[p] = Idle \/ req'[q] = Idle
    BY <1>3
  <2> QED
    BY <2>1 DEF At, Idle
<1>5. \A q \in Reqs : q # r => RequestInv(q)'
  BY <1>3 DEF RequestInv, Idle
<1> QED
  BY <1>2, <1>3, <1>4, <1>5

\* A step of a request that touches neither the world nor a table, nor comes from or to a save.
LEMMA OnlyReads ==
    ASSUME PatchInv, NEW r \in Reqs, MayStart \/ ~ At(r, "idle"), NEW x \in Stored,
           req' = [req EXCEPT ![r] = x], UNCHANGED <<doc, patches, crashes, trail>>,
           ~ At(r, "saved"), x.pc # "saved", RequestInv(r)'
    PROVE  PatchInv'
<1>1. /\ req' \in [Reqs -> Stored] /\ req'[r] = x /\ OneAtATime'
      /\ \A q \in Reqs : q # r => req[q] = Idle /\ req'[q] = Idle
      /\ \A q \in Reqs : q # r => RequestInv(q)'
  BY OnlyOne
<1>2. TypeOK'
  BY <1>1 DEF PatchInv, TypeOK
<1>3. \A q \in Reqs : RequestInv(q)'
  BY <1>1
<1>4. \A q \in Reqs : ~ At(q, "saved")
  BY <1>1 DEF At, Idle
<1>5. \A ops \in DOMAIN patches' : HistoryInv(ops)'
  <2> TAKE ops \in DOMAIN patches'
  <2>1. HistoryInv(ops)
    BY DEF PatchInv
  <2>2. \A q \in Reqs : ~ At(q, "saved")'
    BY <1>1 DEF At, Idle
  <2>3. Written(ops)' <=> Written(ops)
    BY <1>4, <2>2 DEF Written
  <2> QED
    BY <2>1, <2>3 DEF HistoryInv
<1> QED
  BY <1>1, <1>2, <1>3, <1>5 DEF PatchInv
-----------------------------------------------------------------------------
LEMMA PatchInvInductive == PatchInv /\ [Next]_vars => PatchInv'
<1> SUFFICES ASSUME PatchInv, [Next]_vars PROVE PatchInv'
  OBVIOUS
<1>t. /\ doc \in Documents /\ req \in [Reqs -> Stored] /\ crashes \in Nat
      /\ DOMAIN patches \subseteq Plans /\ DOMAIN trail = DOMAIN patches
      /\ \A ops \in DOMAIN patches :
            /\ patches[ops] \in [status : PatchStatus, rollback : Seq(Operations)]
            /\ trail[ops] \in [before : Documents, after : Documents, writes : Nat, lost : Nat]
  BY DEF PatchInv, TypeOK
<1>p. \A ops : ops \in Plans => ops \in Seq(Operations) /\ ops # <<>>
  BY DEF Plans
<1>i. Idle \in Stored /\ Idle.pc = "idle"
  BY DEF Stored, Idle
<1>1. ASSUME NEW r \in Reqs, Suggest(r) PROVE PatchInv'
  <2>1. PICK ops \in Candidates(doc) : req' = [req EXCEPT ![r] = [pc |-> "suggested", ops |-> ops]]
    BY <1>1 DEF Suggest
  <2> DEFINE x == [pc |-> "suggested", ops |-> ops]
  <2>2. x \in Stored /\ x.pc = "suggested"
    BY <1>t, CandidatesArePlans DEF Stored
  <2>3. MayStart /\ ~ At(r, "saved") /\ UNCHANGED <<doc, patches, crashes, trail>> /\ req'[r] = x
    BY <1>1, <1>t, <2>1 DEF Suggest, At
  <2>4. RequestInv(r)'
    BY <2>2, <2>3 DEF RequestInv
  <2> QED
    BY <2>1, <2>2, <2>3, <2>4, OnlyReads
<1>2. ASSUME NEW r \in Reqs, NEW ops \in DOMAIN patches, ApplyOpen(r, ops) PROVE PatchInv'
  <2> DEFINE x == [pc |-> "gated", ops |-> ops]
  <2>1. x \in Stored /\ x.pc = "gated" /\ x.ops = ops
    BY <1>t DEF Stored
  <2>2. MayStart /\ ~ At(r, "saved") /\ UNCHANGED <<doc, patches, crashes, trail>>
        /\ req' = [req EXCEPT ![r] = x] /\ req'[r] = x
    BY <1>2, <1>t DEF ApplyOpen, At
  <2>3. patches[ops].status = "proposed" /\ Survives(doc, ops)
    BY <1>2 DEF ApplyOpen
  <2> HIDE DEF x
  <2>4. RequestInv(r)'
    BY <2>1, <2>2, <2>3 DEF RequestInv, Survives, Errors
  <2> QED
    BY <2>1, <2>2, <2>4, OnlyReads
<1>3. ASSUME NEW r \in Reqs, ApplyLoad(r) PROVE PatchInv'
  <2> DEFINE ops == req[r].ops
             after == ApplyOps(doc, ops)
  <2>1. At(r, "gated") /\ UNCHANGED <<doc, patches, crashes, trail>>
    BY <1>3 DEF ApplyLoad
  <2>2. ops \in Plans /\ ops \in DOMAIN patches /\ patches[ops].status = "proposed" /\ Survives(doc, ops)
    <3>1. RequestInv(r) /\ req[r] \in Stored
      BY <1>t DEF PatchInv
    <3> QED
      BY <2>1, <3>1, <1>t DEF RequestInv, At
  <2>3. after # Failed
    BY <2>2 DEF Survives
  <2>4. after \in Documents /\ InverseOps(doc, ops) \in Seq(Operations)
    <3>1. ops \in Seq(Operations) /\ Len(ops) \in 0..Len(ops)
      BY <1>p, <2>2, LenProperties
    <3>2. Shadow(doc, ops)[Len(ops)] \in Documents
      BY <1>t, <2>3, <3>1, ShadowRuns
    <3> QED
      BY <1>t, <2>3, <3>1, <3>2, InverseOpsAre DEF ApplyOps
  <2> DEFINE x == [pc |-> "loaded", ops |-> ops, after |-> after, before |-> doc, rollback |-> InverseOps(doc, ops)]
  <2>5. x \in Stored /\ x.pc = "loaded" /\ x.ops = ops /\ x.after = after /\ x.before = doc
        /\ x.rollback = InverseOps(doc, ops)
    BY <1>t, <2>2, <2>4 DEF Stored
  <2>6. req' = [req EXCEPT ![r] = x] /\ req'[r] = x
    BY <1>3, <1>t, <2>3 DEF ApplyLoad
  <2> HIDE DEF x
  <2>7. RequestInv(r)'
    BY <2>1, <2>2, <2>5, <2>6 DEF RequestInv, Survives, Errors, Computed
  <2>8. ~ At(r, "idle") /\ ~ At(r, "saved")
    BY <2>1 DEF At
  <2> QED
    BY <2>1, <2>5, <2>6, <2>7, <2>8, OnlyReads
<1>4. ASSUME NEW r \in Reqs, NEW ops \in DOMAIN patches, RollbackOpen(r, ops) PROVE PatchInv'
  <2> DEFINE x == [pc |-> "undo", ops |-> ops, rollback |-> patches[ops].rollback]
  <2>1. x \in Stored /\ x.pc = "undo" /\ x.ops = ops
    BY <1>t DEF Stored
  <2>2. MayStart /\ ~ At(r, "saved") /\ UNCHANGED <<doc, patches, crashes, trail>>
        /\ req' = [req EXCEPT ![r] = x] /\ req'[r] = x
    BY <1>4, <1>t DEF RollbackOpen, At
  <2> HIDE DEF x
  <2>3. patches[ops].status = "applied"
    BY <1>4 DEF RollbackOpen
  <2>4. RequestInv(r)'
    BY <2>1, <2>2, <2>3 DEF RequestInv
  <2> QED
    BY <2>1, <2>2, <2>4, OnlyReads
<1>5. ASSUME NEW r \in Reqs, RollbackLoad(r) PROVE PatchInv'
  <2> DEFINE q == req[r]
             after == ApplyOps(doc, q.rollback)
  <2>1. q.pc = "undo" /\ UNCHANGED <<doc, patches, crashes, trail>>
    BY <1>5 DEF RollbackLoad, At
  <2>2. q.ops \in Plans /\ q.rollback \in Seq(Operations) /\ q.ops \in DOMAIN patches
        /\ patches[q.ops].status = "applied"
    <3>1. RequestInv(r) /\ q \in Stored
      BY <1>t DEF PatchInv
    <3>2. q \in [pc : {"saved", "undo"}, ops : Plans, rollback : Seq(Operations)]
      BY <2>1, <3>1, StoredIs
    <3> QED
      BY <2>1, <3>1, <3>2 DEF RequestInv
  <2>3. ~ At(r, "idle") /\ ~ At(r, "saved")
    BY <2>1 DEF At
  <2>4. CASE after = Failed
    <3>1. req' = [req EXCEPT ![r] = Idle] /\ req'[r] = Idle
      BY <1>5, <1>t, <2>4 DEF RollbackLoad, Leave
    <3>2. RequestInv(r)'
      BY <1>i, <3>1 DEF RequestInv
    <3> QED
      BY <1>i, <2>1, <2>3, <3>1, <3>2, OnlyReads
  <2>5. CASE after # Failed
    <3> DEFINE x == [pc |-> "undone", ops |-> q.ops, after |-> after]
    <3>1. after \in Documents
      <4>1. Len(q.rollback) \in 0..Len(q.rollback)
        BY <2>2, LenProperties
      <4>2. Shadow(doc, q.rollback)[Len(q.rollback)] \in Documents
        BY <1>t, <2>2, <2>5, <4>1, ShadowRuns
      <4> QED
        BY <4>2 DEF ApplyOps
    <3>2. x \in Stored /\ x.pc = "undone" /\ x.ops = q.ops
      BY <2>2, <3>1 DEF Stored
    <3>3. req' = [req EXCEPT ![r] = x] /\ req'[r] = x
      BY <1>5, <1>t, <2>5 DEF RollbackLoad
    <3> HIDE DEF x
    <3>4. RequestInv(r)'
      BY <2>1, <2>2, <3>2, <3>3 DEF RequestInv
    <3> QED
      BY <2>1, <2>3, <3>2, <3>3, <3>4, OnlyReads
  <2> QED
    BY <2>4, <2>5
<1>6. ASSUME NEW r \in Reqs, Propose(r) PROVE PatchInv'
  <2> DEFINE ops == req[r].ops
             row == Row("proposed", <<>>)
             new == [before |-> doc, after |-> doc, writes |-> 0, lost |-> 0]
  <2>1. /\ req[r].pc = "suggested" /\ req' = [req EXCEPT ![r] = Idle] /\ doc' = doc /\ crashes' = crashes
        /\ patches' = Put(patches, ops, row) /\ trail' = Put(trail, ops, new)
    BY <1>6 DEF Propose, Leave, At
  <2>2. ops \in Plans
    <3>1. req[r] \in Stored
      BY <1>t
    <3> QED
      BY <2>1, <3>1, StoredIs
  <2>3. row \in [status : PatchStatus, rollback : Seq(Operations)] /\ row.status = "proposed"
    BY EmptySeq DEF Row, PatchStatus
  <2>4. new \in [before : Documents, after : Documents, writes : Nat, lost : Nat] /\ new.writes = 0 /\ new.lost = 0
    BY <1>t
  <2> HIDE DEF row, new, ops
  <2>5. /\ DOMAIN patches' = DOMAIN patches \cup {ops} /\ DOMAIN trail' = DOMAIN patches'
        /\ \A p \in DOMAIN patches' : patches'[p] = IF p = ops THEN row ELSE patches[p]
        /\ \A p \in DOMAIN patches' : trail'[p] = IF p = ops THEN new ELSE trail[p]
    BY <1>t, <2>1 DEF Put
  <2>6. /\ req' \in [Reqs -> Stored] /\ req'[r] = Idle /\ OneAtATime'
        /\ \A q \in Reqs : q # r => req[q] = Idle /\ req'[q] = Idle
        /\ \A q \in Reqs : q # r => RequestInv(q)'
    BY <1>i, <2>1, OnlyOne DEF At
  <2>7. TypeOK'
    BY <1>t, <2>1, <2>2, <2>3, <2>4, <2>5, <2>6 DEF TypeOK
  <2>8. \A q \in Reqs : RequestInv(q)'
    BY <1>i, <2>6 DEF RequestInv
  <2>9. ASSUME NEW p \in DOMAIN patches' PROVE HistoryInv(p)'
    <3>0. \A q \in Reqs : ~ At(q, "saved") /\ ~ At(q, "saved")'
      BY <2>1, <2>6 DEF At, Idle
    <3>1. CASE p = ops
      <4>1. patches'[p] = row /\ trail'[p] = new
        BY <2>5, <3>1
      <4>2. ~ Written(p)'
        BY <2>3, <3>0, <4>1 DEF Written
      <4> QED
        BY <2>3, <2>4, <4>1, <4>2 DEF HistoryInv
    <3>2. CASE p # ops
      <4>1. p \in DOMAIN patches /\ patches'[p] = patches[p] /\ trail'[p] = trail[p]
        BY <2>5, <3>2
      <4>2. HistoryInv(p)
        BY <4>1 DEF PatchInv
      <4>3. Written(p)' <=> Written(p)
        BY <3>0, <4>1 DEF Written
      <4> QED
        BY <4>1, <4>2, <4>3 DEF HistoryInv
    <3> QED
      BY <3>1, <3>2
  <2> QED
    BY <2>6, <2>7, <2>8, <2>9 DEF PatchInv
<1>7. ASSUME NEW r \in Reqs, ApplySave(r) PROVE PatchInv'
  <2> DEFINE q == req[r]
             ops == q.ops
             x == [pc |-> "saved", ops |-> ops, rollback |-> q.rollback]
             new == [before |-> q.before, after |-> q.after, writes |-> trail[ops].writes + 1,
                     lost |-> trail[ops].lost]
  <2>1. /\ q.pc = "loaded" /\ doc' = q.after /\ req' = [req EXCEPT ![r] = x]
        /\ trail' = [trail EXCEPT ![ops] = new] /\ patches' = patches /\ crashes' = crashes
    BY <1>7, <1>t DEF ApplySave, At
  <2>2. q \in [pc : {"loaded"}, ops : Plans, after : Documents, before : Documents, rollback : Seq(Operations)]
        /\ RequestInv(r)
    <3>1. q \in Stored /\ RequestInv(r)
      BY <1>t DEF PatchInv
    <3> QED
      BY <2>1, <3>1, StoredIs
  <2>3. /\ ops \in DOMAIN patches /\ patches[ops].status = "proposed"
        /\ q.before = doc /\ Computed(doc, ops, q.after, q.rollback)
    BY <2>1, <2>2 DEF RequestInv
  <2>4. x \in Stored /\ x.pc = "saved" /\ x.ops = ops /\ x.rollback = q.rollback
    BY <2>2 DEF Stored
  <2>5. new \in [before : Documents, after : Documents, writes : Nat, lost : Nat]
        /\ new.before = doc /\ new.after = q.after /\ new.writes = trail[ops].writes + 1
        /\ new.lost = trail[ops].lost
    BY <1>t, <2>2, <2>3
  <2> HIDE DEF x, new
  <2>6. /\ req' \in [Reqs -> Stored] /\ req'[r] = x /\ OneAtATime'
        /\ \A p \in Reqs : p # r => req[p] = Idle /\ req'[p] = Idle
        /\ \A p \in Reqs : p # r => RequestInv(p)'
    BY <2>1, <2>4, OnlyOne DEF At
  <2>7. /\ DOMAIN trail' = DOMAIN trail /\ trail'[ops] = new
        /\ \A p \in DOMAIN trail : p # ops => trail'[p] = trail[p]
    BY <1>t, <2>1, <2>3
  <2>8. TypeOK'
    BY <1>t, <2>1, <2>2, <2>5, <2>6, <2>7 DEF TypeOK
  <2>9. RequestInv(r)'
    BY <2>1, <2>3, <2>4, <2>5, <2>6, <2>7 DEF RequestInv, Computed
  <2>10. ASSUME NEW p \in DOMAIN patches' PROVE HistoryInv(p)'
    <3>1. HistoryInv(p) /\ p \in DOMAIN patches
      BY <2>1 DEF PatchInv
    <3>2. \A o \in Reqs : ~ At(o, "saved")
      BY <2>1, <2>6 DEF At, Idle
    <3>3. CASE p = ops
      <4>1. ~ Written(p)
        BY <2>3, <3>2, <3>3 DEF Written
      <4>2. At(r, "saved")' /\ req'[r].ops = p
        BY <2>4, <2>6, <3>3 DEF At
      <4>3. Written(p)'
        BY <4>2 DEF Written
      <4>4. trail[p].writes = trail[p].lost /\ trail[p].lost \in Nat
        BY <1>t, <3>1, <4>1 DEF HistoryInv
      <4>5. trail'[p].writes = trail'[p].lost + 1
        BY <2>5, <2>7, <3>3, <4>4
      <4> QED
        BY <2>1, <2>3, <3>3, <4>3, <4>5 DEF HistoryInv
    <3>4. CASE p # ops
      <4>1. trail'[p] = trail[p]
        BY <1>t, <2>7, <3>1, <3>4
      <4>2. \A o \in Reqs : At(o, "saved")' => req'[o].ops # p
        BY <2>4, <2>6, <3>4 DEF At, Idle
      <4>3. Written(p)' <=> Written(p)
        BY <2>1, <3>2, <4>2 DEF Written
      <4> QED
        BY <2>1, <3>1, <4>1, <4>3 DEF HistoryInv
    <3> QED
      BY <3>3, <3>4
  <2> QED
    BY <2>6, <2>8, <2>9, <2>10 DEF PatchInv
<1>8. ASSUME NEW r \in Reqs, ApplyUpdate(r) PROVE PatchInv'
  <2> DEFINE q == req[r]
             ops == q.ops
             row == Row("applied", q.rollback)
  <2>1. /\ q.pc = "saved" /\ req' = [req EXCEPT ![r] = Idle] /\ patches' = [patches EXCEPT ![ops] = row]
        /\ doc' = doc /\ crashes' = crashes /\ trail' = trail
    BY <1>8 DEF ApplyUpdate, Leave, At
  <2>2. q \in [pc : {"saved", "undo"}, ops : Plans, rollback : Seq(Operations)] /\ RequestInv(r)
    <3>1. q \in Stored /\ RequestInv(r)
      BY <1>t DEF PatchInv
    <3> QED
      BY <2>1, <3>1, StoredIs
  <2>3. ops \in DOMAIN patches /\ Computed(trail[ops].before, ops, trail[ops].after, q.rollback)
    BY <2>1, <2>2 DEF RequestInv
  <2>4. row \in [status : PatchStatus, rollback : Seq(Operations)]
        /\ row.status = "applied" /\ row.rollback = q.rollback
    BY <2>2 DEF Row, PatchStatus
  <2> HIDE DEF row
  <2>5. /\ req' \in [Reqs -> Stored] /\ req'[r] = Idle /\ OneAtATime'
        /\ \A p \in Reqs : p # r => req[p] = Idle /\ req'[p] = Idle
        /\ \A p \in Reqs : p # r => RequestInv(p)'
    BY <1>i, <2>1, OnlyOne DEF At
  <2>6. /\ DOMAIN patches' = DOMAIN patches /\ patches'[ops] = row
        /\ \A p \in DOMAIN patches : p # ops => patches'[p] = patches[p]
    BY <2>1, <2>3
  <2>7. TypeOK'
    BY <1>t, <2>1, <2>4, <2>5, <2>6 DEF TypeOK
  <2>8. RequestInv(r)'
    BY <1>i, <2>5 DEF RequestInv
  <2>9. ASSUME NEW p \in DOMAIN patches' PROVE HistoryInv(p)'
    <3>1. HistoryInv(p) /\ p \in DOMAIN patches
      BY <2>6 DEF PatchInv
    <3>2. CASE p = ops
      <4>1. patches'[p] = row /\ trail'[p] = trail[p]
        BY <2>1, <2>6, <3>2
      <4>2. Written(p) /\ Written(p)'
        BY <2>1, <2>4, <3>2, <4>1 DEF Written, At
      <4> QED
        BY <2>3, <2>4, <3>1, <3>2, <4>1, <4>2 DEF HistoryInv, Computed
    <3>3. CASE p # ops
      <4>1. patches'[p] = patches[p]
        BY <2>6, <3>1, <3>3
      <4>2. \A o \in Reqs : (At(o, "saved") => req[o].ops # p) /\ ~ At(o, "saved")'
        BY <2>5, <3>3 DEF At, Idle
      <4>3. Written(p)' <=> Written(p)
        BY <4>1, <4>2 DEF Written
      <4> QED
        BY <2>1, <3>1, <4>1, <4>3 DEF HistoryInv
    <3> QED
      BY <3>2, <3>3
  <2> QED
    BY <2>5, <2>7, <2>8, <2>9 DEF PatchInv
<1>9. ASSUME NEW r \in Reqs, RollbackSave(r) PROVE PatchInv'
  <2> DEFINE q == req[r]
             x == [pc |-> "restored", ops |-> q.ops]
  <2>1. q.pc = "undone" /\ doc' = q.after /\ req' = [req EXCEPT ![r] = x] /\ UNCHANGED <<patches, crashes, trail>>
    BY <1>9, <1>t DEF RollbackSave, At
  <2>2. q \in [pc : {"undone"}, ops : Plans, after : Documents] /\ RequestInv(r)
    <3>1. q \in Stored /\ RequestInv(r)
      BY <1>t DEF PatchInv
    <3> QED
      BY <2>1, <3>1, StoredIs
  <2>3. q.ops \in DOMAIN patches /\ patches[q.ops].status = "applied"
    BY <2>1, <2>2 DEF RequestInv
  <2>4. x \in Stored /\ x.pc = "restored" /\ x.ops = q.ops
    BY <2>2 DEF Stored
  <2> HIDE DEF x
  <2>5. /\ req' \in [Reqs -> Stored] /\ req'[r] = x /\ OneAtATime'
        /\ \A p \in Reqs : p # r => req[p] = Idle /\ req'[p] = Idle
        /\ \A p \in Reqs : p # r => RequestInv(p)'
    BY <2>1, <2>4, OnlyOne DEF At
  <2>6. TypeOK'
    BY <1>t, <2>1, <2>2, <2>5 DEF TypeOK
  <2>7. RequestInv(r)'
    BY <2>1, <2>3, <2>4, <2>5 DEF RequestInv
  <2>8. ASSUME NEW p \in DOMAIN patches' PROVE HistoryInv(p)'
    <3>1. HistoryInv(p)
      BY <2>1 DEF PatchInv
    <3>2. \A o \in Reqs : ~ At(o, "saved") /\ ~ At(o, "saved")'
      BY <2>1, <2>4, <2>5 DEF At, Idle
    <3>3. Written(p)' <=> Written(p)
      BY <2>1, <3>2 DEF Written
    <3> QED
      BY <2>1, <3>1, <3>3 DEF HistoryInv
  <2> QED
    BY <2>5, <2>6, <2>7, <2>8 DEF PatchInv
<1>10. ASSUME NEW r \in Reqs, RollbackUpdate(r) PROVE PatchInv'
  <2> DEFINE q == req[r]
             ops == q.ops
             row == [patches[ops] EXCEPT !.status = "rolled_back"]
  <2>1. q.pc = "restored" /\ RequestInv(r) /\ req' = [req EXCEPT ![r] = Idle] /\ UNCHANGED <<doc, crashes, trail>>
    BY <1>10 DEF RollbackUpdate, Leave, At, PatchInv
  <2>2. ops \in DOMAIN patches /\ patches[ops].status = "applied"
    BY <2>1 DEF RequestInv
  <2>3. patches' = [patches EXCEPT ![ops] = row]
    BY <1>10, <1>t, <2>2 DEF RollbackUpdate
  <2>4. row \in [status : PatchStatus, rollback : Seq(Operations)] /\ row.status = "rolled_back"
    BY <1>t, <2>2 DEF PatchStatus
  <2> HIDE DEF row
  <2>5. /\ req' \in [Reqs -> Stored] /\ req'[r] = Idle /\ OneAtATime'
        /\ \A p \in Reqs : p # r => req[p] = Idle /\ req'[p] = Idle
        /\ \A p \in Reqs : p # r => RequestInv(p)'
    BY <1>i, <2>1, OnlyOne DEF At
  <2>6. /\ DOMAIN patches' = DOMAIN patches /\ patches'[ops] = row
        /\ \A p \in DOMAIN patches : p # ops => patches'[p] = patches[p]
    BY <2>2, <2>3
  <2>7. TypeOK'
    BY <1>t, <2>1, <2>4, <2>5, <2>6 DEF TypeOK
  <2>8. RequestInv(r)'
    BY <1>i, <2>5 DEF RequestInv
  <2>9. ASSUME NEW p \in DOMAIN patches' PROVE HistoryInv(p)'
    <3>1. HistoryInv(p) /\ p \in DOMAIN patches
      BY <2>6 DEF PatchInv
    <3>2. \A o \in Reqs : ~ At(o, "saved") /\ ~ At(o, "saved")'
      BY <2>1, <2>5 DEF At, Idle
    <3>3. CASE p = ops
      <4>1. Written(p)' /\ Written(p) /\ patches'[p].status = "rolled_back"
        BY <2>2, <2>4, <2>6, <3>3 DEF Written
      <4> QED
        BY <2>1, <3>1, <4>1 DEF HistoryInv
    <3>4. CASE p # ops
      <4>1. patches'[p] = patches[p]
        BY <2>6, <3>1, <3>4
      <4>2. Written(p)' <=> Written(p)
        BY <3>2, <4>1 DEF Written
      <4> QED
        BY <2>1, <3>1, <4>1, <4>2 DEF HistoryInv
    <3> QED
      BY <3>3, <3>4
  <2> QED
    BY <2>5, <2>7, <2>8, <2>9 DEF PatchInv
<1>11. ASSUME NEW r \in Reqs, Crash(r) PROVE PatchInv'
  <2> DEFINE ops == req[r].ops
             new == [trail[ops] EXCEPT !.lost = @ + 1]
  <2>1. /\ ~ At(r, "idle") /\ crashes' = crashes + 1 /\ req' = [req EXCEPT ![r] = Idle]
        /\ UNCHANGED <<doc, patches>>
        /\ trail' = IF At(r, "saved") THEN [trail EXCEPT ![ops].lost = @ + 1] ELSE trail
    BY <1>11 DEF Crash, Leave
  <2>2. /\ req' \in [Reqs -> Stored] /\ req'[r] = Idle /\ OneAtATime'
        /\ \A p \in Reqs : p # r => req[p] = Idle /\ req'[p] = Idle
        /\ \A p \in Reqs : p # r => RequestInv(p)'
    BY <1>i, <2>1, OnlyOne
  <2>3. RequestInv(r)'
    BY <1>i, <2>2 DEF RequestInv
  <2>4. \A o \in Reqs : (o # r => ~ At(o, "saved")) /\ ~ At(o, "saved")'
    BY <2>2 DEF At, Idle
  <2>5. CASE At(r, "saved")
    <3>1. ops \in DOMAIN patches /\ patches[ops].status = "proposed"
      BY <2>5 DEF PatchInv, RequestInv, At
    <3>2. new \in [before : Documents, after : Documents, writes : Nat, lost : Nat]
          /\ new.before = trail[ops].before /\ new.after = trail[ops].after
          /\ new.writes = trail[ops].writes /\ new.lost = trail[ops].lost + 1
      <4>1. trail[ops] \in [before : Documents, after : Documents, writes : Nat, lost : Nat]
        BY <1>t, <3>1
      <4> HIDE DEF ops
      <4> QED
        BY <4>1
    <3> HIDE DEF new
    <3>3. trail' = [trail EXCEPT ![ops] = new]
      BY <1>t, <2>1, <2>5, <3>1 DEF new
    <3>4. /\ DOMAIN trail' = DOMAIN trail /\ trail'[ops] = new
          /\ \A p \in DOMAIN trail : p # ops => trail'[p] = trail[p]
      BY <1>t, <3>1, <3>3
    <3>5. TypeOK'
      BY <1>t, <2>1, <2>2, <3>2, <3>4 DEF TypeOK
    <3>6. ASSUME NEW p \in DOMAIN patches' PROVE HistoryInv(p)'
      <4>1. HistoryInv(p) /\ p \in DOMAIN patches
        BY <2>1 DEF PatchInv
      <4>2. CASE p = ops
        <5>1. Written(p) /\ ~ Written(p)'
          BY <2>1, <2>4, <2>5, <3>1, <4>2 DEF Written
        <5>2. trail[p].writes = trail[p].lost + 1
          BY <4>1, <5>1 DEF HistoryInv
        <5>3. trail'[p].writes = trail'[p].lost
          BY <3>2, <3>4, <4>2, <5>2
        <5>4. trail'[p].lost \in Nat
          BY <3>2, <3>4, <4>2
        <5> QED
          BY <2>1, <3>1, <4>2, <5>1, <5>3, <5>4 DEF HistoryInv
      <4>3. CASE p # ops
        <5>1. trail'[p] = trail[p]
          BY <1>t, <3>4, <4>1, <4>3
        <5>2. Written(p)' <=> Written(p)
          BY <2>1, <2>4, <4>3 DEF Written
        <5> QED
          BY <2>1, <4>1, <5>1, <5>2 DEF HistoryInv
      <4> QED
        BY <4>2, <4>3
    <3> QED
      BY <2>2, <2>3, <3>5, <3>6 DEF PatchInv
  <2>6. CASE ~ At(r, "saved")
    <3>1. trail' = trail
      BY <2>1, <2>6
    <3>2. TypeOK'
      BY <1>t, <2>1, <2>2, <3>1 DEF TypeOK
    <3>3. ASSUME NEW p \in DOMAIN patches' PROVE HistoryInv(p)'
      <4>1. HistoryInv(p)
        BY <2>1 DEF PatchInv
      <4>2. Written(p)' <=> Written(p)
        BY <2>1, <2>4, <2>6 DEF Written
      <4> QED
        BY <2>1, <3>1, <4>1, <4>2 DEF HistoryInv
    <3> QED
      BY <2>2, <2>3, <3>2, <3>3 DEF PatchInv
  <2> QED
    BY <2>5, <2>6
<1>12. CASE Edit
  <2>1. MayStart /\ UNCHANGED <<patches, req, crashes, trail>>
    BY <1>12 DEF Edit
  <2>2. doc' \in Documents
    <3> DEFINE rels == doc.rels
    <3>1. /\ doc = [fields |-> doc.fields, rels |-> rels]
          /\ doc.fields \in [Fields -> Vals \cup {None}] /\ rels \in Lists
      BY <1>t DEF Documents, Lists
    <3>2. ASSUME NEW new \in Lists PROVE [doc EXCEPT !.rels = new] \in Documents
      BY <3>1 DEF Documents, Lists
    <3>3. ASSUME NEW t \in Triples, Len(rels) < MaxRels, doc' = [doc EXCEPT !.rels = Append(@, t)]
          PROVE  doc' \in Documents
      <4>1. Append(rels, t) \in Lists
        <5> HIDE DEF rels
        <5>1. rels \in Seq(Triples) /\ Len(rels) \in Nat
          BY <3>1, ListsAre
        <5>2. Append(rels, t) \in Seq(Triples) /\ Len(Append(rels, t)) = Len(rels) + 1
          BY <5>1, AppendProperties
        <5>3. Len(rels) + 1 \in Nat /\ Len(rels) + 1 <= MaxRels
          BY <5>1, <3>3, PatchAssumption DEF rels
        <5> QED
          BY <5>2, <5>3, ListsAre
      <4> QED
        BY <3>2, <3>3, <4>1
    <3>4. ASSUME NEW t, doc' = [doc EXCEPT !.rels = Without(@, t)] PROVE doc' \in Documents
      BY <3>1, <3>2, <3>4, WithoutIs
    <3>5. ASSUME NEW f \in Fields, NEW v \in Vals, doc' = [doc EXCEPT !.fields[f] = v] PROVE doc' \in Documents
      <4>1. [doc.fields EXCEPT ![f] = v] \in [Fields -> Vals \cup {None}]
        BY <3>1
      <4>2. doc' = [fields |-> [doc.fields EXCEPT ![f] = v], rels |-> rels]
        BY <3>1, <3>5
      <4> QED
        BY <3>1, <4>1, <4>2 DEF Documents, Lists
    <3> QED
      BY <1>12, <3>3, <3>4, <3>5 DEF Edit
  <2>3. TypeOK'
    BY <1>t, <2>1, <2>2 DEF TypeOK
  <2>4. OneAtATime'
    BY <2>1 DEF PatchInv, OneAtATime, At
  <2>5. \A r \in Reqs : RequestInv(r)'
    BY <2>1 DEF RequestInv, MayStart, At
  <2>6. \A ops \in DOMAIN patches' : HistoryInv(ops)'
    BY <2>1 DEF PatchInv, HistoryInv, Written, At
  <2> QED
    BY <2>3, <2>4, <2>5, <2>6 DEF PatchInv
<1>13. CASE UNCHANGED vars
  <2>1. UNCHANGED <<doc, patches, req, crashes, trail>>
    BY <1>13 DEF vars
  <2>2. TypeOK' /\ OneAtATime'
    BY <2>1 DEF PatchInv, TypeOK, OneAtATime, At
  <2>3. \A r \in Reqs : RequestInv(r)'
    BY <2>1 DEF PatchInv, RequestInv, Survives, Errors, Computed
  <2>4. \A ops \in DOMAIN patches' : HistoryInv(ops)'
    BY <2>1 DEF PatchInv, HistoryInv, Written, At, Computed
  <2> QED
    BY <2>2, <2>3, <2>4 DEF PatchInv
<1> QED
  BY <1>1, <1>2, <1>3, <1>4, <1>5, <1>6, <1>7, <1>8, <1>9, <1>10, <1>11, <1>12, <1>13 DEF Next
-----------------------------------------------------------------------------
LEMMA PatchInvAlways == Spec => []PatchInv
<1>1. Init => PatchInv
  <2> SUFFICES ASSUME Init PROVE PatchInv
    OBVIOUS
  <2>1. patches = <<>> /\ trail = <<>> /\ doc \in Documents /\ crashes = 0 /\ req = [r \in Reqs |-> Idle]
    BY DEF Init
  <2>2. DOMAIN patches = {} /\ DOMAIN trail = {}
    BY <2>1
  <2>3. Idle \in Stored /\ Idle.pc = "idle"
    BY DEF Stored, Idle
  <2>4. TypeOK
    BY <2>1, <2>2, <2>3 DEF TypeOK
  <2>5. OneAtATime /\ \A r \in Reqs : RequestInv(r)
    BY <2>1, <2>3 DEF OneAtATime, RequestInv, At
  <2> QED
    BY <2>2, <2>4, <2>5 DEF PatchInv
<1> QED
  BY <1>1, PatchInvInductive, PTL DEF Spec

\* The world, the patches table and the requests always have their types: in particular every stored
\* patch and every stored rollback is a list of operations, and the world stays a document, whatever
\* is applied, rolled back or interrupted.
THEOREM TypeCorrect == Spec => []TypeOK
<1>1. PatchInv => TypeOK
  BY DEF PatchInv
<1> QED
  BY <1>1, PatchInvAlways, PTL

\* A proposal is written just as often as its row tells, at most once, and once more for each request
\* that died between its write and its mark, however often a request to apply it is repeated.
THEOREM WrittenOnce == Spec => []AppliedOnce
<1>1. PatchInv => AppliedOnce
  BY DEF PatchInv, TypeOK, HistoryInv, AppliedOnce
<1> QED
  BY <1>1, PatchInvAlways, PTL

\* One-click rollback, for patches of every length that replace or drop fields and append relations: as
\* long as the world is as the patch left it, the stored rollback gives it back as it was.
THEOREM RollbackRestores == Spec => []UndoableSimple
<1>1. ASSUME PatchInv, NEW ops \in DOMAIN patches, patches[ops].status = "applied"
      PROVE  /\ patches[ops].rollback # <<>>
             /\ (doc = trail[ops].after /\ \A k \in DOMAIN ops : Simple(ops[k]))
                   => ApplyOps(doc, patches[ops].rollback) = trail[ops].before
  <2> DEFINE d == trail[ops].before
  <2>1. ops \in Seq(Operations) /\ ops # <<>> /\ d \in Documents /\ trail[ops].after \in Documents
    BY <1>1 DEF PatchInv, TypeOK, Plans
  <2>2. trail[ops].after = ApplyOps(d, ops) /\ patches[ops].rollback = InverseOps(d, ops)
    BY <1>1 DEF PatchInv, HistoryInv, Computed
  <2>3. ApplyOps(d, ops) # Failed
    BY <2>1, <2>2, PatchAssumption
  <2>4. patches[ops].rollback # <<>>
    <3>1. Len(InverseOps(d, ops)) = Len(ops) /\ Len(ops) # 0
      BY <2>1, <2>3, InverseOpsAre, EmptySeq
    <3> QED
      BY <2>2, <3>1, EmptySeq
  <2>5. ASSUME \A k \in DOMAIN ops : Simple(ops[k])
        PROVE  ApplyOps(ApplyOps(d, ops), InverseOps(d, ops)) = d
    BY <2>1, <2>3, <2>5, InverseUndoes
  <2> QED
    BY <2>2, <2>4, <2>5
<1>2. PatchInv => UndoableSimple
  <2> SUFFICES ASSUME PatchInv PROVE UndoableSimple
    OBVIOUS
  <2>1. AppliedHasRollback
    BY <1>1 DEF AppliedHasRollback
  <2>2. \A ops \in DOMAIN patches :
           (/\ patches[ops].status = "applied" /\ doc = trail[ops].after
            /\ \A k \in DOMAIN ops : \/ ops[k].kind = "append"
                                     \/ ops[k].kind = "field" /\ ops[k].op # "add")
           => ApplyOps(doc, patches[ops].rollback) = trail[ops].before
    <3> TAKE ops \in DOMAIN patches
    <3> HAVE /\ patches[ops].status = "applied" /\ doc = trail[ops].after
             /\ \A k \in DOMAIN ops : \/ ops[k].kind = "append"
                                      \/ ops[k].kind = "field" /\ ops[k].op # "add"
    <3>1. \A k \in DOMAIN ops : Simple(ops[k])
      BY DEF Simple
    <3> QED
      BY <1>1, <3>1
  <2> QED
    BY <2>1, <2>2 DEF UndoableSimple
<1> QED
  BY <1>2, PatchInvAlways, PTL

\* The gate decides on the world that is written: no apply adds an error to it.
THEOREM AppliesAreClean == Spec => ApplyIsClean
<1>1. PatchInv /\ [Next]_vars =>
         [\A r \in Reqs : At(r, "loaded") /\ At(r, "saved")' => Errors(doc') \subseteq Errors(doc)]_vars
  <2> SUFFICES ASSUME PatchInv, [Next]_vars, NEW r \in Reqs, At(r, "loaded"), At(r, "saved")'
               PROVE  Errors(doc') \subseteq Errors(doc)
    OBVIOUS
  <2>1. ApplySave(r)
    <3>t. req \in [Reqs -> Stored]
      BY DEF PatchInv, TypeOK
    <3>1. req'[r].pc = "saved" /\ req[r].pc = "loaded" /\ req' # req
      BY DEF At
    <3>2. PICK q \in Reqs :
             \/ Suggest(q) \/ Propose(q)
             \/ \E ops \in DOMAIN patches : ApplyOpen(q, ops) \/ RollbackOpen(q, ops)
             \/ ApplyLoad(q) \/ ApplySave(q) \/ ApplyUpdate(q)
             \/ RollbackLoad(q) \/ RollbackSave(q) \/ RollbackUpdate(q)
             \/ Crash(q)
      BY <3>1 DEF Next, vars, Edit
    <3>3. \E x : req' = [req EXCEPT ![q] = x]
      BY <3>2 DEF Suggest, Propose, ApplyOpen, RollbackOpen, ApplyLoad, ApplySave, ApplyUpdate, RollbackLoad,
                  RollbackSave, RollbackUpdate, Crash, Leave
    <3>4. q = r
      BY <3>t, <3>1, <3>3
    <3> QED
      BY <3>t, <3>1, <3>2, <3>4 DEF Suggest, Propose, ApplyOpen, RollbackOpen, ApplyLoad, ApplyUpdate,
                  RollbackLoad, RollbackSave, RollbackUpdate, Crash, Leave, MayStart, At, Idle
  <2>2. doc' = req[r].after /\ Survives(doc, req[r].ops) /\ req[r].after = ApplyOps(doc, req[r].ops)
    BY <2>1 DEF ApplySave, At, PatchInv, RequestInv, Computed
  <2> QED
    BY <2>2 DEF Survives
<1> QED
  BY <1>1, PatchInvAlways, PTL DEF Spec, ApplyIsClean

-----------------------------------------------------------------------------
CONSTANTS Proposed(_), Flawed, Roots, MaxDepth, MaxIterations
VARIABLES root, tree, popped, walk, best, iterations

Search == INSTANCE RepairSearch

\* The planner's instance of the operations and the fixers does what the ones of this module do.
LEMMA SearchApplies ==
    /\ Search!Documents = Documents /\ Search!Operations = Operations
    /\ \A d, ops : Search!ApplyOps(d, ops) = ApplyOps(d, ops)
<1>1. Search!Documents = Documents /\ Search!Operations = Operations
  BY DEF Search!Documents, Documents, Search!Operations, Operations
<1>2. ASSUME NEW s, NEW i PROVE Search!RemoveAt(s, i) = RemoveAt(s, i)
  BY DEF Search!RemoveAt, RemoveAt
<1>3. ASSUME NEW d, NEW op PROVE Search!ApplyOp(d, op) = ApplyOp(d, op)
  BY <1>2 DEF Search!ApplyOp, ApplyOp
<1>4. ASSUME NEW x, NEW op PROVE Search!ApplyNext(x, op) = ApplyNext(x, op)
  BY <1>3 DEF Search!ApplyNext, ApplyNext, Search!Applicable, Applicable
<1>5. ASSUME NEW d, NEW ops PROVE Search!Shadow(d, ops) = Shadow(d, ops)
  BY <1>4 DEF Search!Shadow, Shadow
<1> QED
  BY <1>1, <1>5 DEF Search!ApplyOps, ApplyOps

LEMMA SearchCounts == \A S : Search!Cardinality(S) = Cardinality(S)
BY DEF Cardinality, Search!Cardinality

LEMMA SearchFixes ==
    ASSUME NEW d
    PROVE  Search!DanglingFix(d) = DanglingFix(d) /\ Search!FieldFix(d) = FieldFix(d)
<1>1. ASSUME NEW S, NEW n PROVE Search!Nth(S, n) = Nth(S, n)
  BY SearchCounts DEF Search!Nth, Nth
<1>2. ASSUME NEW t PROVE Search!Positions(d, t) = Positions(d, t)
  BY DEF Search!Positions, Positions
<1>3. ASSUME NEW t, NEW ks PROVE Search!Removals(d, t, ks) = Removals(d, t, ks)
  BY <1>1, SearchCounts DEF Search!Removals, Removals, Search!RelOp, RelOp
<1>4. Search!ToSet(d.rels) = ToSet(d.rels)
  BY DEF Search!ToSet, ToSet
<1> QED
  BY <1>2, <1>3, <1>4 DEF Search!DanglingFix, DanglingFix, Search!FieldFix, FieldFix, Search!FieldOp, FieldOp

\* Applied to a document, the operations give a document or fail.
LEMMA AppliedIs ==
    ASSUME NEW d \in Documents, NEW ops \in Seq(Operations)
    PROVE  ApplyOps(d, ops) = Failed \/ ApplyOps(d, ops) \in Documents
<1>1. ASSUME ApplyOps(d, ops) # Failed PROVE ApplyOps(d, ops) \in Documents
  <2>1. Len(ops) \in 0..Len(ops)
    BY LenProperties
  <2> QED
    BY <1>1, <2>1, ShadowRuns DEF ApplyOps
<1> QED
  BY <1>1

LEMMA ErrorsAreCounted ==
    ASSUME Search!WellFormed, NEW d \in Documents
    PROVE  Search!OpenErrors(d) \in Nat
<1> DEFINE R == {k \in DOMAIN d.rels : d.rels[k] \in Dangling}
           F == {f \in Fields : d.fields[f] \in BadVals \cup Flawed}
<1>1. IsFiniteSet(F)
  <2>1. IsFiniteSet(Fields)
    BY DEF Search!WellFormed, Search!IsFiniteSet, IsFiniteSet
  <2> QED
    BY <2>1, FS_Subset
<1>2. IsFiniteSet(R)
  <2>1. d.rels \in Lists
    BY DEF Documents, Lists
  <2>2. DOMAIN d.rels = 1..Len(d.rels) /\ Len(d.rels) \in Nat
    BY <2>1, ListsAre
  <2>3. IsFiniteSet(1..Len(d.rels))
    BY <2>2, FS_Interval
  <2> QED
    BY <2>2, <2>3, FS_Subset
<1>3. Cardinality(R) \in Nat /\ Cardinality(F) \in Nat
  BY <1>1, <1>2, FS_CardinalityType
<1>4. Search!OpenErrors(d) = Cardinality(R) + Cardinality(F)
  BY SearchCounts DEF Search!OpenErrors
<1> HIDE DEF R, F
<1> QED
  BY <1>3, <1>4

\* A move applies and adds no error.
LEMMA MovesAre ==
    ASSUME Search!WellFormed, NEW d \in Documents, NEW ops \in Search!Moves(d)
    PROVE  /\ ops \in Seq(Operations)
           /\ ApplyOps(d, ops) \in Documents /\ ApplyOps(d, ops) # Failed
           /\ Search!OpenErrors(ApplyOps(d, ops)) <= Search!OpenErrors(d)
<1>1. ops \in Search!Sound(d)
  <2>1. PICK good \in Search!Sound(d) :
           ops = CHOOSE o \in Search!Sound(d) : Search!ApplyOps(d, o) = Search!ApplyOps(d, good)
    BY DEF Search!Moves
  <2> QED
    BY <2>1
<1>2. ops \in Seq(Operations)
  <2>1. Search!DanglingFix(d) \subseteq Seq(Operations) /\ Search!FieldFix(d) \subseteq Seq(Operations)
    BY SearchFixes, CandidatesArePlans DEF Candidates, Plans
  <2>2. Proposed(d) \subseteq Seq(Operations)
    BY SearchApplies DEF Search!WellFormed
  <2> QED
    BY <1>1, <2>1, <2>2 DEF Search!Sound
<1>3. ApplyOps(d, ops) # Failed /\ Search!OpenErrors(ApplyOps(d, ops)) <= Search!OpenErrors(d)
  BY <1>1, SearchApplies DEF Search!Sound
<1> QED
  BY <1>2, <1>3, AppliedIs

\* The recursive functions of Through and Reachable exist, for plans of every length.
LEMMA ThroughIs ==
    ASSUME NEW moves \in Seq(Seq(Operations))
    PROVE  /\ Len(moves) \in Nat
           /\ Search!Through(moves) = [k \in 0..Len(moves) |->
                 IF k = 0 THEN root ELSE ApplyOps(Search!Through(moves)[k - 1], moves[k])]
<1> DEFINE Is(f, n) == f = [k \in 0..n |-> IF k = 0 THEN root ELSE Search!ApplyOps(f[k - 1], moves[k])]
           N == {n \in Nat : \E f : Is(f, n)}
<1>1. 0 \in N
  <2> DEFINE f == [k \in 0..0 |-> root]
  <2>1. f = [k \in 0..0 |-> IF k = 0 THEN root ELSE Search!ApplyOps(f[k - 1], moves[k])]
    OBVIOUS
  <2> QED
    BY <2>1
<1>2. ASSUME NEW n \in Nat, n \in N PROVE n + 1 \in N
  <2>1. PICK f : Is(f, n)
    BY <1>2
  <2> DEFINE g == [k \in 0..(n + 1) |-> IF k = n + 1 THEN Search!ApplyOps(f[n], moves[n + 1]) ELSE f[k]]
  <2>2. ASSUME NEW k \in 0..(n + 1)
        PROVE  g[k] = IF k = 0 THEN root ELSE Search!ApplyOps(g[k - 1], moves[k])
    <3>1. CASE k = n + 1
      BY <3>1
    <3>2. CASE k \in 0..n
      <4>1. f[k] = IF k = 0 THEN root ELSE Search!ApplyOps(f[k - 1], moves[k])
        BY <2>1, <3>2
      <4>2. k # 0 => g[k - 1] = f[k - 1]
        BY <3>2
      <4>3. g[k] = f[k]
        BY <3>2
      <4> QED
        BY <4>1, <4>2, <4>3
    <3> QED
      BY <3>1, <3>2
  <2>3. Is(g, n + 1)
    <3>1. g = [k \in 0..(n + 1) |-> g[k]]
      OBVIOUS
    <3> HIDE DEF g
    <3> QED
      BY ONLY <2>2, <3>1
  <2>4. \E h : Is(h, n + 1)
    <3> HIDE DEF g
    <3> WITNESS g
    <3> QED
      BY <2>3
  <2> HIDE DEF Is
  <2>5. n + 1 \in Nat
    OBVIOUS
  <2> QED
    BY ONLY <2>4, <2>5
<1>3. Nat \subseteq N
  <2> HIDE DEF N
  <2> QED
    BY <1>1, <1>2, Induction
<1>4. Len(moves) \in N /\ Len(moves) \in Nat
  BY <1>3, LenProperties
<1>5. Is(Search!Through(moves), Len(moves))
  BY <1>4 DEF Search!Through
<1> QED
  BY <1>4, <1>5, SearchApplies

LEMMA ReachableIs ==
    ASSUME NEW n \in Nat, NEW W, root \in W, Search!Onward(W) \subseteq W
    PROVE  Search!Reachable(n) \subseteq W
<1> DEFINE Is(f, m) == f = [k \in 0..m |-> IF k = 0 THEN {root} ELSE Search!Onward(f[k - 1])]
           N == {m \in Nat : \E f : Is(f, m)}
<1>1. 0 \in N
  <2> DEFINE f == [k \in 0..0 |-> {root}]
  <2>1. f = [k \in 0..0 |-> IF k = 0 THEN {root} ELSE Search!Onward(f[k - 1])]
    OBVIOUS
  <2> QED
    BY <2>1
<1>2. ASSUME NEW m \in Nat, m \in N PROVE m + 1 \in N
  <2>1. PICK f : Is(f, m)
    BY <1>2
  <2> DEFINE g == [k \in 0..(m + 1) |-> IF k = m + 1 THEN Search!Onward(f[m]) ELSE f[k]]
  <2>2. ASSUME NEW k \in 0..(m + 1)
        PROVE  g[k] = IF k = 0 THEN {root} ELSE Search!Onward(g[k - 1])
    <3>1. CASE k = m + 1
      BY <3>1
    <3>2. CASE k \in 0..m
      <4>1. f[k] = IF k = 0 THEN {root} ELSE Search!Onward(f[k - 1])
        BY <2>1, <3>2
      <4>2. k # 0 => g[k - 1] = f[k - 1]
        BY <3>2
      <4>3. g[k] = f[k]
        BY <3>2
      <4> QED
        BY <4>1, <4>2, <4>3
    <3> QED
      BY <3>1, <3>2
  <2>3. Is(g, m + 1)
    <3>1. g = [k \in 0..(m + 1) |-> g[k]]
      OBVIOUS
    <3> HIDE DEF g
    <3> QED
      BY ONLY <2>2, <3>1
  <2>4. \E h : Is(h, m + 1)
    <3> HIDE DEF g
    <3> WITNESS g
    <3> QED
      BY <2>3
  <2> HIDE DEF Is
  <2>5. m + 1 \in Nat
    OBVIOUS
  <2> QED
    BY ONLY <2>4, <2>5
<1>3. Nat \subseteq N
  <2> HIDE DEF N
  <2> QED
    BY <1>1, <1>2, Induction
<1> DEFINE within == CHOOSE f : Is(f, n)
<1>4. Is(within, n)
  BY <1>3
<1>5. Search!Reachable(n) = within[n]
  BY DEF Search!Reachable
<1> HIDE DEF within, N
<1> DEFINE S == {k \in 0..n : within[k] \subseteq W}
<1>6. 0 \in S
  BY <1>4
<1>7. ASSUME NEW k \in 0..(n - 1), k \in S PROVE k + 1 \in S
  <2>1. within[k] \subseteq W
    BY <1>7
  <2>2. k + 1 \in 0..n /\ k + 1 # 0 /\ k + 1 - 1 = k
    OBVIOUS
  <2>3. within[k + 1] = Search!Onward(within[k])
    BY <1>4, <2>2
  <2>4. Search!Onward(within[k]) \subseteq Search!Onward(W)
    BY <2>1 DEF Search!Onward
  <2> QED
    BY <2>2, <2>3, <2>4
<1>8. 0..n \subseteq S
  <2> HIDE DEF S
  <2> QED
    BY <1>6, <1>7, InductionUpTo
<1> QED
  BY <1>5, <1>8

\* One move more: the worlds so far, and the one that it leads to.
LEMMA OneMoveMore ==
    ASSUME NEW moves \in Seq(Seq(Operations)), NEW ops \in Seq(Operations)
    PROVE  LET more == Append(moves, ops)
           IN  /\ more \in Seq(Seq(Operations)) /\ Len(more) = Len(moves) + 1
               /\ \A k \in 1..Len(moves) : more[k] = moves[k]
               /\ more[Len(moves) + 1] = ops
               /\ \A k \in 0..Len(moves) : Search!Through(more)[k] = Search!Through(moves)[k]
               /\ Search!After(more) = ApplyOps(Search!After(moves), ops)
<1> DEFINE more == Append(moves, ops)
           n == Len(moves)
           old == Search!Through(moves)
           new == Search!Through(more)
<1>1. /\ more \in Seq(Seq(Operations)) /\ Len(more) = n + 1 /\ n \in Nat
      /\ \A k \in 1..n : more[k] = moves[k]
      /\ more[n + 1] = ops
  BY LenProperties, AppendProperties
<1> HIDE DEF more
<1>2. /\ old = [k \in 0..n |-> IF k = 0 THEN root ELSE ApplyOps(old[k - 1], moves[k])]
      /\ new = [k \in 0..(n + 1) |-> IF k = 0 THEN root ELSE ApplyOps(new[k - 1], more[k])]
  BY <1>1, ThroughIs
<1>3. Search!After(more) = new[n + 1] /\ Search!After(moves) = old[n]
  BY <1>1 DEF Search!After
<1> HIDE DEF n, old, new
<1>8. \A m \in 0..n : old[m] = IF m = 0 THEN root ELSE ApplyOps(old[m - 1], moves[m])
  BY <1>2
<1>9. \A m \in 0..(n + 1) : new[m] = IF m = 0 THEN root ELSE ApplyOps(new[m - 1], more[m])
  BY <1>2
<1> DEFINE S == {k \in 0..n : new[k] = old[k]}
<1>4. 0 \in S
  BY <1>1, <1>2
<1>5. ASSUME NEW k \in 0..(n - 1), k \in S PROVE k + 1 \in S
  <2>1. k + 1 \in 1..n /\ k + 1 \in 0..n /\ k + 1 \in 0..(n + 1) /\ k + 1 # 0 /\ k + 1 - 1 = k
    BY <1>1
  <2>2. new[k + 1] = ApplyOps(new[k + 1 - 1], more[k + 1])
    BY <1>9, <2>1
  <2>4. old[k + 1] = ApplyOps(old[k + 1 - 1], moves[k + 1])
    BY <1>8, <2>1
  <2>3. new[k] = old[k] /\ more[k + 1] = moves[k + 1]
    BY <1>1, <1>5, <2>1
  <2> QED
    BY <2>1, <2>2, <2>3, <2>4
<1>6. 0..n \subseteq S
  <2> HIDE DEF S
  <2> QED
    BY <1>1, <1>4, <1>5, InductionUpTo
<1>7. new[n + 1] = ApplyOps(new[n], ops) /\ new[n] = old[n]
  <2>1. n + 1 \in 0..(n + 1) /\ n + 1 # 0 /\ n + 1 - 1 = n /\ n \in 0..n
    BY <1>1
  <2>2. new[n + 1] = ApplyOps(new[n], more[n + 1])
    BY <1>9, <2>1
  <2>3. new[n] = old[n]
    BY <1>6, <2>1
  <2> QED
    BY <1>1, <2>2, <2>3
<1> QED
  BY <1>1, <1>3, <1>6, <1>7 DEF more, n, old, new

\* Where no moves lead.
LEMMA NoMoves ==
    /\ <<>> \in Seq(Seq(Operations)) /\ Len(<<>>) = 0
    /\ Search!After(<<>>) = root
<1>1. <<>> \in Seq(Seq(Operations)) /\ Len(<<>>) = 0
  BY EmptySeq
<1>2. Search!Through(<<>>) = [k \in 0..0 |->
         IF k = 0 THEN root ELSE ApplyOps(Search!Through(<<>>)[k - 1], <<>>[k])]
  BY <1>1, ThroughIs
<1> QED
  BY <1>1, <1>2 DEF Search!After

\* Moves that are moves of the worlds they go through lead through documents, and never to more errors.
LEMMA LegalIs ==
    ASSUME Search!WellFormed, root \in Documents, NEW moves, Search!Legal(moves)
    PROVE  /\ moves \in Seq(Seq(Operations)) /\ Len(moves) \in Nat /\ Len(moves) <= MaxDepth + 1
           /\ \A k \in 0..Len(moves) : Search!Through(moves)[k] \in Documents
           /\ \A k \in 1..Len(moves) : Search!OpenErrors(Search!Through(moves)[k])
                                          <= Search!OpenErrors(Search!Through(moves)[k - 1])
           /\ Search!After(moves) \in Documents
           /\ Search!OpenErrors(Search!After(moves)) \in Nat
<1> DEFINE n == Len(moves)
           world == Search!Through(moves)
<1>1. /\ moves \in Seq(Seq(Operations)) /\ n <= MaxDepth + 1
      /\ \A k \in 1..n : moves[k] \in Search!Moves(world[k - 1])
  BY SearchApplies DEF Search!Legal
<1>2. n \in Nat /\ world = [k \in 0..n |-> IF k = 0 THEN root ELSE ApplyOps(world[k - 1], moves[k])]
  BY <1>1, ThroughIs
<1>3. Search!After(moves) = world[n]
  BY DEF Search!After
<1> HIDE DEF n, world
<1> DEFINE S == {k \in 0..n : world[k] \in Documents}
<1>4. 0 \in S
  BY <1>2
<1>5. ASSUME NEW k \in 0..(n - 1), world[k] \in Documents
      PROVE  /\ world[k + 1] \in Documents
             /\ Search!OpenErrors(world[k + 1]) <= Search!OpenErrors(world[k])
  <2>1. k + 1 \in 1..n /\ k + 1 \in 0..n /\ k + 1 # 0 /\ k + 1 - 1 = k
    BY <1>2
  <2>2. world[k + 1] = ApplyOps(world[k], moves[k + 1]) /\ moves[k + 1] \in Search!Moves(world[k])
    BY <1>1, <1>2, <2>1
  <2> QED
    BY <1>5, <2>2, MovesAre
<1>6. \A k \in 0..(n - 1) : k \in S => k + 1 \in S
  <2> TAKE k \in 0..(n - 1)
  <2>1. k + 1 \in 0..n
    BY <1>2
  <2> QED
    BY <1>5, <2>1
<1>7. 0..n \subseteq S
  <2> HIDE DEF S
  <2> QED
    BY <1>2, <1>4, <1>6, InductionUpTo
<1>8. ASSUME NEW k \in 1..n
      PROVE  Search!OpenErrors(world[k]) <= Search!OpenErrors(world[k - 1])
  <2>1. k - 1 \in 0..(n - 1) /\ k - 1 \in 0..n /\ k - 1 + 1 = k
    BY <1>2
  <2>2. world[k - 1] \in Documents
    BY <1>7, <2>1
  <2>3. Search!OpenErrors(world[k - 1 + 1]) <= Search!OpenErrors(world[k - 1])
    BY <1>5, <2>1, <2>2
  <2> QED
    BY <2>1, <2>3
<1>9. world[n] \in Documents
  BY <1>2, <1>7
<1>10. Search!OpenErrors(world[n]) \in Nat
  BY <1>9, ErrorsAreCounted
<1> QED
  BY <1>1, <1>2, <1>3, <1>7, <1>8, <1>9, <1>10 DEF n, world

\* A legal sequence that is not too long goes on with any move of its world.
LEMMA LegalMore ==
    ASSUME Search!WellFormed, root \in Documents, NEW moves, Search!Legal(moves), Len(moves) <= MaxDepth,
           NEW ops \in Search!Moves(Search!After(moves))
    PROVE  /\ Search!Legal(Append(moves, ops))
           /\ Search!After(Append(moves, ops)) = ApplyOps(Search!After(moves), ops)
           /\ Search!OpenErrors(Search!After(Append(moves, ops))) <= Search!OpenErrors(Search!After(moves))
<1> DEFINE more == Append(moves, ops)
           n == Len(moves)
<1>1. /\ moves \in Seq(Seq(Operations)) /\ n \in Nat /\ Search!After(moves) \in Documents
      /\ Search!After(moves) = Search!Through(moves)[n]
  BY LegalIs DEF Search!After
<1>2. /\ ops \in Seq(Operations)
      /\ Search!OpenErrors(ApplyOps(Search!After(moves), ops)) <= Search!OpenErrors(Search!After(moves))
  BY <1>1, MovesAre
<1>3. /\ more \in Seq(Seq(Operations)) /\ Len(more) = n + 1
      /\ \A k \in 1..n : more[k] = moves[k]
      /\ more[n + 1] = ops
      /\ \A k \in 0..n : Search!Through(more)[k] = Search!Through(moves)[k]
      /\ Search!After(more) = ApplyOps(Search!After(moves), ops)
  BY <1>1, <1>2, OneMoveMore
<1>4. \A k \in 1..n : moves[k] \in Search!Moves(Search!Through(moves)[k - 1])
  BY DEF Search!Legal
<1>5. n <= MaxDepth /\ MaxDepth \in Nat
  BY DEF Search!WellFormed
<1> HIDE DEF more, n
<1>6. ASSUME NEW k \in 1..(n + 1) PROVE more[k] \in Search!Moves(Search!Through(more)[k - 1])
  <2>1. CASE k = n + 1
    <3>1. k - 1 = n /\ n \in 0..n
      BY <1>1, <2>1
    <3>2. Search!Through(more)[n] = Search!After(moves)
      BY <1>1, <1>3, <3>1
    <3> QED
      BY <1>3, <2>1, <3>1, <3>2
  <2>2. CASE k \in 1..n
    <3>1. k - 1 \in 0..n
      BY <1>1, <2>2
    <3> QED
      BY <1>3, <1>4, <2>2, <3>1
  <2> QED
    BY <1>1, <2>1, <2>2
<1>7. Search!Legal(more)
  <2>1. Len(more) <= MaxDepth + 1
    BY <1>1, <1>3, <1>5
  <2> QED
    BY <1>3, <1>6, <2>1, SearchApplies DEF Search!Legal
<1> QED
  BY <1>2, <1>3, <1>7 DEF more

-----------------------------------------------------------------------------
\* The world to repair stays, and with it what its sequences of moves are.
LEMMA RootStays ==
    ASSUME root' = root
    PROVE  /\ \A moves : Search!After(moves)' = Search!After(moves) /\ (Search!Legal(moves)' <=> Search!Legal(moves))
           /\ \A plan : Search!Replays(plan)' <=> Search!Replays(plan)
<1>1. \A moves : Search!Through(moves)' = Search!Through(moves)
  BY DEF Search!Through
<1> QED
  BY <1>1 DEF Search!After, Search!Legal, Search!Replays

\* A node that is selected is no deeper than it may be: the walk to it ends above the depth.
LEMMA SelectedIs ==
    ASSUME Search!WellFormed, Search!SearchInv, NEW node \in Search!Selected
    PROVE  node \in tree /\ Search!Legal(node) /\ Len(node) <= MaxDepth
<1>1. /\ node \in tree /\ Search!Legal(node) /\ root \in Documents
      /\ \A k \in 1..Len(node) : Search!Passed(SubSeq(node, 1, k - 1))
  BY SearchApplies DEF Search!Selected, Search!SearchInv, Search!NodesLegal, Search!TypeOK
<1>2. node \in Seq(Seq(Operations)) /\ Len(node) \in Nat /\ MaxDepth \in Nat
  BY <1>1, LegalIs DEF Search!WellFormed
<1>3. CASE Len(node) = 0
  BY <1>1, <1>2, <1>3
<1>4. CASE Len(node) > 0
  <2> DEFINE above == SubSeq(node, 1, Len(node) - 1)
  <2>1. Len(node) \in 1..Len(node)
    BY <1>2, <1>4
  <2>2. Search!Passed(above)
    BY <1>1, <2>1
  <2>3. Len(above) = Len(node) - 1
    <3>1. 1 \in Int /\ Len(node) - 1 \in Int /\ \A i \in 1..(Len(node) - 1) : node[i] \in Seq(Operations)
      BY <1>2, ElementOfSeq
    <3> DEFINE last == Len(node) - 1
    <3>2. Len(above) = IF 1 <= last THEN last - 1 + 1 ELSE 0
      <4> HIDE DEF last
      <4>1. last \in Int /\ \A i \in 1..last : node[i] \in Seq(Operations)
        BY <3>1 DEF last
      <4>2. Len(SubSeq(node, 1, last)) = IF 1 <= last THEN last - 1 + 1 ELSE 0
        BY <3>1, <4>1, SubSeqProperties
      <4> QED
        BY <4>2 DEF last
    <3>3. last \in Nat
      BY <1>2, <1>4
    <3> HIDE DEF above, last
    <3>4. Len(above) = last
      BY <3>2, <3>3
    <3> QED
      BY <3>4 DEF last
  <2>4. ~ (Len(above) >= MaxDepth)
    BY <2>2 DEF Search!Passed, Search!Terminal
  <2> HIDE DEF above
  <2> QED
    BY <1>1, <1>2, <2>3, <2>4
<1> QED
  BY <1>2, <1>3, <1>4

\* What a rollout may still be told of a plan, from the invariant.
LEMMA SearchIs ==
    ASSUME Search!WellFormed, Search!SearchInv
    PROVE  /\ root \in Documents /\ Search!OpenErrors(root) \in Nat
           /\ \A node \in tree : Search!OpenErrors(Search!After(node)) \in Nat
           /\ walk.on => Search!OpenErrors(Search!After(walk.moves)) \in Nat
           /\ best.errors \in Nat /\ Len(best.moves) \in Nat
           /\ iterations \in Nat /\ MaxIterations \in Nat
<1>1. root \in Documents
  BY SearchApplies DEF Search!SearchInv, Search!TypeOK
<1>2. Search!OpenErrors(root) \in Nat
  BY <1>1, ErrorsAreCounted
<1>3. \A node \in tree : Search!OpenErrors(Search!After(node)) \in Nat
  BY <1>1, LegalIs DEF Search!SearchInv, Search!NodesLegal
<1>4. walk.on => Search!OpenErrors(Search!After(walk.moves)) \in Nat
  BY <1>1, LegalIs DEF Search!SearchInv, Search!WalkLegal
<1>5. best.errors \in Nat /\ Len(best.moves) \in Nat
  BY <1>1, LegalIs DEF Search!SearchInv, Search!BestLegal
<1>6. iterations \in Nat /\ MaxIterations \in Nat
  BY DEF Search!SearchInv, Search!TypeOK, Search!WellFormed
<1> QED
  BY <1>1, <1>2, <1>3, <1>4, <1>5, <1>6

LEMMA ExpandKeeps ==
    ASSUME Search!WellFormed, Search!SearchInv, Search!Expand
    PROVE  Search!SearchInv'
<1>0. PICK node \in Search!Selected : \E ops \in Search!Untried(Search!After(node)) :
        /\ tree' = tree \cup {Append(node, ops)}
        /\ popped' = popped \cup {<<Search!After(node), ops>>}
        /\ walk' = Search!Walk(Append(node, ops))
  BY DEF Search!Expand
<1>1. PICK ops \in Search!Untried(Search!After(node)) :
        /\ tree' = tree \cup {Append(node, ops)}
        /\ popped' = popped \cup {<<Search!After(node), ops>>}
        /\ walk' = Search!Walk(Append(node, ops))
  BY <1>0
<1>2. /\ ~ walk.on /\ iterations < MaxIterations
      /\ root' = root /\ best' = best /\ iterations' = iterations
  BY DEF Search!Expand, Search!Searching
<1> DEFINE more == Append(node, ops)
<1>3. node \in tree /\ Search!Legal(node) /\ Len(node) <= MaxDepth /\ ops \in Search!Moves(Search!After(node))
  BY SelectedIs DEF Search!Untried
<1>4. /\ Search!Legal(more) /\ Search!After(more) = ApplyOps(Search!After(node), ops)
      /\ Search!OpenErrors(Search!After(more)) \in Nat
      /\ Len(more) <= MaxDepth + 1
  BY <1>3, SearchIs, LegalMore, LegalIs
<1>5. walk'.on /\ walk'.moves = more
  BY <1>1 DEF Search!Walk
<1> HIDE DEF more
<1>6. Search!TypeOK'
  <2>1. root' \in Search!Documents /\ iterations' \in 0..MaxIterations
    BY <1>2 DEF Search!SearchInv, Search!TypeOK
  <2>2. \A m \in tree' : Len(m) <= MaxDepth + 1
    BY <1>1, <1>4 DEF Search!SearchInv, Search!TypeOK, more
  <2>3. \A pair \in popped' : pair[2] \in Search!Moves(pair[1])
    BY <1>1, <1>3 DEF Search!SearchInv, Search!TypeOK
  <2> QED
    BY <2>1, <2>2, <2>3 DEF Search!TypeOK
<1>7. Search!NodesLegal'
  <2>1. <<>> \in tree' /\ \A m \in tree' : Search!Legal(m)
    BY <1>1, <1>4 DEF more, Search!SearchInv, Search!NodesLegal
  <2> QED
    BY <1>2, <2>1, RootStays DEF Search!NodesLegal
<1>8. Search!WalkLegal'
  BY <1>2, <1>4, <1>5, RootStays DEF Search!WalkLegal
<1>9. Search!BestLegal'
  BY <1>2, RootStays DEF Search!BestLegal, Search!SearchInv
<1>10. Search!PoppedLead'
  <2>1. ASSUME NEW pair \in popped'
        PROVE  \E m \in tree' : Search!After(m) = Search!ApplyOps(pair[1], pair[2])
    <3>1. CASE pair \in popped
      BY <1>1, <3>1 DEF Search!SearchInv, Search!PoppedLead
    <3>2. CASE pair = <<Search!After(node), ops>>
      <4>1. more \in tree' /\ Search!After(more) = Search!ApplyOps(pair[1], pair[2])
        BY <1>1, <1>4, <3>2, SearchApplies DEF more
      <4> QED
        BY <4>1
    <3> QED
      BY <1>1, <2>1, <3>1, <3>2
  <2> QED
    BY <1>2, <2>1, RootStays DEF Search!PoppedLead
<1>11. Search!BestBelow'
  <2>1. ASSUME NEW m \in tree'
        PROVE  \/ best.errors <= Search!OpenErrors(Search!After(m))
               \/ Search!OpenErrors(Search!After(more)) <= Search!OpenErrors(Search!After(m))
    <3>1. CASE m \in tree
      BY <1>2, <3>1 DEF Search!SearchInv, Search!BestBelow
    <3>2. CASE m = more
      BY <1>4, <3>2
    <3> QED
      BY <1>1, <2>1, <3>1, <3>2 DEF more
  <2> QED
    BY <1>2, <1>5, <2>1, RootStays DEF Search!BestBelow
<1> QED
  BY <1>6, <1>7, <1>8, <1>9, <1>10, <1>11 DEF Search!SearchInv

LEMMA RevisitKeeps ==
    ASSUME Search!WellFormed, Search!SearchInv, Search!Revisit
    PROVE  Search!SearchInv'
<1>1. PICK node \in Search!Selected : walk' = Search!Walk(node)
  BY DEF Search!Revisit
<1>2. /\ ~ walk.on /\ iterations < MaxIterations
      /\ root' = root /\ tree' = tree /\ popped' = popped /\ best' = best /\ iterations' = iterations
  BY DEF Search!Revisit, Search!Searching
<1>3. Search!Legal(node)
  BY SelectedIs
<1>4. walk'.on /\ walk'.moves = node
  BY <1>1 DEF Search!Walk
<1>5. Search!TypeOK' /\ Search!NodesLegal' /\ Search!BestLegal' /\ Search!PoppedLead'
  BY <1>2, RootStays DEF Search!SearchInv, Search!TypeOK, Search!NodesLegal, Search!BestLegal, Search!PoppedLead
<1>6. Search!WalkLegal'
  BY <1>2, <1>3, <1>4, RootStays DEF Search!WalkLegal
<1>7. Search!BestBelow'
  BY <1>2, RootStays DEF Search!SearchInv, Search!BestBelow
<1> QED
  BY <1>5, <1>6, <1>7 DEF Search!SearchInv

LEMMA RollOutKeeps ==
    ASSUME Search!WellFormed, Search!SearchInv, Search!RollOut
    PROVE  Search!SearchInv'
<1>1. PICK ops \in Search!Untried(Search!After(walk.moves)) : walk' = Search!Walk(Append(walk.moves, ops))
  BY DEF Search!RollOut
<1>2. /\ walk.on /\ ~ Search!Terminal(walk.moves)
      /\ root' = root /\ tree' = tree /\ popped' = popped /\ best' = best /\ iterations' = iterations
  BY DEF Search!RollOut
<1> DEFINE more == Append(walk.moves, ops)
<1>3. Search!Legal(walk.moves) /\ iterations < MaxIterations
  BY <1>2 DEF Search!SearchInv, Search!WalkLegal
<1>4. Len(walk.moves) <= MaxDepth
  <2>1. Len(walk.moves) \in Nat /\ MaxDepth \in Nat
    BY <1>3, SearchIs, LegalIs DEF Search!WellFormed
  <2>2. ~ (Len(walk.moves) >= MaxDepth)
    BY <1>2 DEF Search!Terminal
  <2> QED
    BY <2>1, <2>2
<1>5. /\ Search!Legal(more) /\ Search!OpenErrors(Search!After(more)) \in Nat
      /\ Search!OpenErrors(Search!After(more)) <= Search!OpenErrors(Search!After(walk.moves))
  BY <1>1, <1>3, <1>4, SearchIs, LegalMore, LegalIs DEF Search!Untried
<1>6. walk'.on /\ walk'.moves = more
  BY <1>1 DEF Search!Walk
<1> HIDE DEF more
<1>7. Search!TypeOK' /\ Search!NodesLegal' /\ Search!BestLegal' /\ Search!PoppedLead'
  BY <1>2, RootStays DEF Search!SearchInv, Search!TypeOK, Search!NodesLegal, Search!BestLegal, Search!PoppedLead
<1>8. Search!WalkLegal'
  BY <1>2, <1>3, <1>5, <1>6, RootStays DEF Search!WalkLegal
<1>9. Search!BestBelow'
  <2>1. ASSUME NEW m \in tree
        PROVE  \/ best.errors <= Search!OpenErrors(Search!After(m))
               \/ Search!OpenErrors(Search!After(more)) <= Search!OpenErrors(Search!After(m))
    <3>1. \/ best.errors <= Search!OpenErrors(Search!After(m))
          \/ Search!OpenErrors(Search!After(walk.moves)) <= Search!OpenErrors(Search!After(m))
      BY DEF Search!SearchInv, Search!BestBelow
    <3>2. /\ Search!OpenErrors(Search!After(m)) \in Nat
          /\ Search!OpenErrors(Search!After(walk.moves)) \in Nat
      BY <1>2, SearchIs
    <3> QED
      BY <1>5, <3>1, <3>2
  <2> QED
    BY <1>2, <1>6, <2>1, RootStays DEF Search!BestBelow
<1> QED
  BY <1>7, <1>8, <1>9 DEF Search!SearchInv

LEMMA RecordKeeps ==
    ASSUME Search!WellFormed, Search!SearchInv, Search!Record
    PROVE  Search!SearchInv'
<1> DEFINE errors == Search!OpenErrors(Search!After(walk.moves))
<1>1. /\ walk.on /\ walk' = Search!NoWalk /\ iterations' = iterations + 1
      /\ best' = IF Search!Better(errors, walk.moves) THEN [errors |-> errors, moves |-> walk.moves] ELSE best
      /\ root' = root /\ tree' = tree /\ popped' = popped
  BY DEF Search!Record
<1>2. Search!Legal(walk.moves) /\ iterations < MaxIterations /\ errors \in Nat
  BY <1>1, SearchIs DEF Search!SearchInv, Search!WalkLegal
<1>3. ~ walk'.on
  BY <1>1 DEF Search!NoWalk
<1>4. Search!TypeOK' /\ Search!NodesLegal' /\ Search!PoppedLead'
  <2>1. iterations' \in 0..MaxIterations
    BY <1>1, <1>2, SearchIs
  <2> QED
    BY <1>1, <2>1, RootStays DEF Search!SearchInv, Search!TypeOK, Search!NodesLegal, Search!PoppedLead
<1>5. Search!WalkLegal'
  BY <1>3 DEF Search!WalkLegal
<1>6. /\ Search!Legal(best'.moves) /\ best'.errors = Search!OpenErrors(Search!After(best'.moves))
      /\ best'.moves = <<>> \/ best'.errors < Search!OpenErrors(root)
      /\ best'.errors <= best.errors /\ best'.errors <= errors /\ best'.errors \in Nat
  <2>1. /\ Search!Legal(best.moves) /\ best.errors = Search!OpenErrors(Search!After(best.moves))
        /\ best.moves = <<>> \/ best.errors < Search!OpenErrors(root)
    BY DEF Search!SearchInv, Search!BestLegal
  <2>2. best.errors \in Nat /\ Len(best.moves) \in Nat /\ Search!OpenErrors(root) \in Nat
    BY SearchIs
  <2>3. best.moves = <<>> => best.errors = Search!OpenErrors(root) /\ Len(best.moves) = 0
    BY <2>1, NoMoves
  <2>4. Len(walk.moves) \in Nat
    BY <1>2, SearchIs, LegalIs
  <2>5. CASE Search!Better(errors, walk.moves)
    <3>1. best'.errors = errors /\ best'.moves = walk.moves
      BY <1>1, <2>5
    <3>2. errors < best.errors \/ (errors = best.errors /\ Len(walk.moves) < Len(best.moves))
      BY <2>5 DEF Search!Better
    <3>3. errors < Search!OpenErrors(root) /\ errors <= best.errors
      <4> HIDE DEF errors
      <4> QED
        BY <1>2, <2>1, <2>2, <2>3, <2>4, <3>2
    <3> QED
      BY <1>2, <3>1, <3>3
  <2>6. CASE ~ Search!Better(errors, walk.moves)
    <3>1. best' = best
      BY <1>1, <2>6
    <3>2. ~ (errors < best.errors)
      BY <2>6 DEF Search!Better
    <3>3. best.errors <= errors
      <4> HIDE DEF errors
      <4> QED
        BY <1>2, <2>2, <3>2
    <3> QED
      BY <2>1, <2>2, <3>1, <3>3
  <2> QED
    BY <2>5, <2>6
<1>7. Search!BestLegal'
  BY <1>1, <1>6, RootStays DEF Search!BestLegal
<1>8. Search!BestBelow'
  <2>1. ASSUME NEW m \in tree
        PROVE  best'.errors <= Search!OpenErrors(Search!After(m))
    <3>1. best.errors <= Search!OpenErrors(Search!After(m)) \/ errors <= Search!OpenErrors(Search!After(m))
      BY DEF Search!SearchInv, Search!BestBelow
    <3>2. Search!OpenErrors(Search!After(m)) \in Nat /\ best.errors \in Nat
      BY SearchIs
    <3> HIDE DEF errors
    <3> QED
      BY <1>2, <1>6, <3>1, <3>2
  <2> QED
    BY <1>1, <2>1, RootStays DEF Search!BestBelow
<1> QED
  BY <1>4, <1>5, <1>7, <1>8 DEF Search!SearchInv

LEMMA SearchAlways == Search!WellFormed /\ Search!Spec => []Search!SearchInv
<1> SUFFICES ASSUME Search!WellFormed PROVE Search!Spec => []Search!SearchInv
  OBVIOUS
<1>1. ASSUME Search!Init PROVE Search!SearchInv
  <2>1. /\ root \in Documents /\ tree = {<<>>} /\ popped = {} /\ walk = Search!NoWalk /\ iterations = 0
        /\ best = [errors |-> Search!OpenErrors(root), moves |-> <<>>]
    BY <1>1, SearchApplies DEF Search!Init, Search!WellFormed
  <2>2. ~ walk.on
    BY <2>1 DEF Search!NoWalk
  <2>3. MaxDepth \in Nat /\ MaxIterations \in Nat
    BY <1>1 DEF Search!WellFormed
  <2>4. Search!Legal(<<>>)
    BY <2>3, NoMoves, SearchApplies DEF Search!Legal
  <2>5. Search!TypeOK
    BY <2>1, <2>3, NoMoves, SearchApplies DEF Search!TypeOK
  <2>6. Search!NodesLegal /\ Search!WalkLegal /\ Search!BestLegal /\ Search!PoppedLead
    BY <2>1, <2>2, <2>4, NoMoves DEF Search!NodesLegal, Search!WalkLegal, Search!BestLegal, Search!PoppedLead
  <2>7. Search!OpenErrors(root) \in Nat
    BY <1>1, <2>1, ErrorsAreCounted
  <2>8. Search!BestBelow
    BY <2>1, <2>7, NoMoves DEF Search!BestBelow
  <2> QED
    BY <2>5, <2>6, <2>8 DEF Search!SearchInv
<1>2. ASSUME Search!SearchInv, [Search!Next]_(Search!vars) PROVE Search!SearchInv'
  <2>1. CASE UNCHANGED Search!vars
    <3>1. /\ root' = root /\ tree' = tree /\ popped' = popped /\ walk' = walk /\ best' = best
          /\ iterations' = iterations
      BY <2>1 DEF Search!vars
    <3> QED
      BY <1>2, <3>1, RootStays DEF Search!SearchInv, Search!TypeOK, Search!NodesLegal, Search!WalkLegal,
                                   Search!BestLegal, Search!PoppedLead, Search!BestBelow
  <2> QED
    BY <1>2, <2>1, ExpandKeeps, RevisitKeeps, RollOutKeeps, RecordKeeps DEF Search!Next
<1> QED
  BY <1>1, <1>2, PTL DEF Search!Spec

\* The plan of a repair search, whatever moves are offered and however the tree is walked: it replays from the
\* world to the count of errors it claims, never adding one on the way; it is empty or better than doing
\* nothing; and once every list of moves is used up no world that moves lead to has fewer errors, although
\* nodes take moves from each other's lists (patches/search.py).
THEOREM PlansHold == Search!WellFormed /\ Search!Spec => []Search!PlanHolds
<1> SUFFICES ASSUME Search!WellFormed PROVE Search!Spec => []Search!PlanHolds
  OBVIOUS
<1>1. ASSUME Search!SearchInv PROVE Search!PlanHolds
  <2> SUFFICES ASSUME ~ walk.on PROVE
         /\ Search!Replays(best)
         /\ best.moves = <<>> \/ best.errors < Search!OpenErrors(root)
         /\ Len(best.moves) <= MaxDepth + 1
         /\ Search!Exhausted => \A d \in Search!Reachable(MaxIterations) : best.errors <= Search!OpenErrors(d)
    BY DEF Search!PlanHolds
  <2>1. /\ Search!Legal(best.moves) /\ best.errors = Search!OpenErrors(Search!After(best.moves))
        /\ best.moves = <<>> \/ best.errors < Search!OpenErrors(root)
    BY <1>1 DEF Search!SearchInv, Search!BestLegal
  <2>2. root \in Documents /\ MaxIterations \in Nat
    BY <1>1, SearchIs
  <2>3. Failed \notin Documents
    BY PatchAssumption
  <2>4. Search!Replays(best) /\ Len(best.moves) <= MaxDepth + 1
    BY <1>1, <2>1, <2>2, <2>3, LegalIs DEF Search!Replays, Search!After
  <2>5. ASSUME Search!Exhausted, NEW d \in Search!Reachable(MaxIterations)
        PROVE  best.errors <= Search!OpenErrors(d)
    <3> DEFINE W == {Search!After(node) : node \in tree}
    <3>1. root \in W
      BY <1>1, NoMoves DEF Search!SearchInv, Search!NodesLegal
    <3>2. Search!Onward(W) \subseteq W
      <4>1. ASSUME NEW node \in tree, NEW ops \in Search!Moves(Search!After(node))
            PROVE  Search!ApplyOps(Search!After(node), ops) \in W
        <5>1. <<Search!After(node), ops>> \in popped
          BY <2>5 DEF Search!Exhausted, Search!Untried
        <5>2. PICK m \in tree : Search!After(m) = Search!ApplyOps(Search!After(node), ops)
          <6> DEFINE pair == <<Search!After(node), ops>>
          <6>1. \E m \in tree : Search!After(m) = Search!ApplyOps(pair[1], pair[2])
            <7> HIDE DEF pair
            <7> QED
              BY <1>1, <5>1 DEF Search!SearchInv, Search!PoppedLead, pair
          <6> QED
            BY <6>1
        <5> QED
          BY <5>2
      <4> QED
        BY <4>1 DEF Search!Onward
    <3>3. d \in W
      <4> HIDE DEF W
      <4> QED
        BY <2>2, <2>5, <3>1, <3>2, ReachableIs
    <3>4. PICK node \in tree : d = Search!After(node)
      BY <3>3
    <3> QED
      BY <1>1, <3>4 DEF Search!SearchInv, Search!BestBelow
  <2> QED
    BY <2>1, <2>4, <2>5
<1> QED
  BY <1>1, SearchAlways, PTL

\* The search keeps its types: no node is deeper than one move below the depth, a taken move is one of the
\* world it was taken for, and no more iterations are made than allowed.
THEOREM SearchesKeepTypes == Search!WellFormed /\ Search!Spec => []Search!TypeOK
<1>1. Search!SearchInv => Search!TypeOK
  BY DEF Search!SearchInv
<1> QED
  BY <1>1, SearchAlways, PTL
=============================================================================
