------------------------- MODULE CanonRefactor_proofs -------------------------
(***************************************************************************)
(* Theorems about the requests that save the content store as a whole: the *)
(* renames of CanonRefactor, for every set of ids, every world and any     *)
(* number of saves, snapshots and deaths, and the imports of Intake, for   *)
(* every number of requests and whatever the files say; and about what is  *)
(* told of a manuscript that is brought in (Manuscript), for every text,   *)
(* every budget of calls and whatever the models reply.                    *)
(***************************************************************************)
EXTENDS CanonRefactor, FiniteSetTheorems, SequenceTheorems, TLAPS

Pcs == {"cut entities", "entities", "relations", "event_refs", "cut quests", "quests"}

\* The order in which a save writes.
LEMMA TheStages ==
    /\ Range(Stages) = Pcs
    /\ Stages[1] = "cut entities"
    /\ After("cut entities") = "entities"
    /\ After("entities") = "relations"
    /\ After("relations") = "event_refs"
    /\ After("event_refs") = "cut quests"
    /\ After("cut quests") = "quests"
<1>1. /\ Len(Stages) = 6 /\ DOMAIN Stages = 1..6
      /\ Stages[1] = "cut entities" /\ Stages[2] = "entities" /\ Stages[3] = "relations"
      /\ Stages[4] = "event_refs" /\ Stages[5] = "cut quests" /\ Stages[6] = "quests"
  BY DEF Stages
<1>2. \A k \in 1..6 : k = 1 \/ k = 2 \/ k = 3 \/ k = 4 \/ k = 5 \/ k = 6
  OBVIOUS
<1>3. Range(Stages) = Pcs
  <2>1. ASSUME NEW x \in Range(Stages) PROVE x \in Pcs
    <3>1. PICK k \in 1..6 : x = Stages[k]
      BY <1>1 DEF Range
    <3> QED
      BY <3>1, <1>1, <1>2 DEF Pcs
  <2>2. \A k \in 1..6 : Stages[k] \in Range(Stages)
    BY <1>1 DEF Range
  <2>3. /\ Stages[1] \in Range(Stages) /\ Stages[2] \in Range(Stages) /\ Stages[3] \in Range(Stages)
        /\ Stages[4] \in Range(Stages) /\ Stages[5] \in Range(Stages) /\ Stages[6] \in Range(Stages)
    BY <2>2
  <2>4. Pcs \subseteq Range(Stages)
    BY <1>1, <2>3 DEF Pcs
  <2> QED
    BY <2>1, <2>4
<1>4. ASSUME NEW k \in 1..6, NEW j \in 1..6, Stages[j] = Stages[k]
      PROVE  j = k
  <2>1. CASE k = 1
    BY <2>1, <1>1, <1>2, <1>4
  <2>2. CASE k = 2
    BY <2>2, <1>1, <1>2, <1>4
  <2>3. CASE k = 3
    BY <2>3, <1>1, <1>2, <1>4
  <2>4. CASE k = 4
    BY <2>4, <1>1, <1>2, <1>4
  <2>5. CASE k = 5
    BY <2>5, <1>1, <1>2, <1>4
  <2>6. CASE k = 6
    BY <2>6, <1>1, <1>2, <1>4
  <2> QED
    BY <2>1, <2>2, <2>3, <2>4, <2>5, <2>6, <1>2
<1>5. ASSUME NEW k \in 1..5
      PROVE  After(Stages[k]) = Stages[1 + k]
  <2>1. (CHOOSE j \in 1..6 : Stages[j] = Stages[k]) = k
    BY <1>4
  <2> QED
    BY <2>1, <1>1 DEF After
<1>6. /\ After(Stages[1]) = Stages[2] /\ After(Stages[2]) = Stages[3] /\ After(Stages[3]) = Stages[4]
      /\ After(Stages[4]) = Stages[5] /\ After(Stages[5]) = Stages[6]
  BY <1>5
<1> QED
  BY <1>1, <1>3, <1>6

\* A bundle is its three parts.
LEMMA Parts ==
    ASSUME NEW b \in World, NEW c \in World,
           b.entities = c.entities, b.quests = c.quests, b.refs = c.refs
    PROVE  b = c
BY DEF World

\* A rename makes a bundle of a bundle, and a quest keeps its references.
LEMMA RenamedIs ==
    ASSUME NEW b \in World, NEW old \in Ids, NEW new \in Ids, old \in Objects(b), Owned(b)
    PROVE  Renamed(b, old, new) \in World /\ Owned(Renamed(b, old, new))
<1> DEFINE coll == Collection(b, old)
           c == Renamed(b, old, new)
           E == IF coll = "entities" THEN Swap(b.entities, old, new) ELSE b.entities
           Q == IF coll = "quests" THEN Swap(b.quests, old, new) ELSE b.quests
           R == {Moved(r, old, new, coll) : r \in b.refs}
<1>1. b.entities \subseteq Ids /\ b.quests \subseteq Ids /\ b.refs \subseteq Ref
  BY DEF World
<1>2. c = [entities |-> E, quests |-> Q, refs |-> R]
  BY DEF Renamed
<1>3. coll \in {"entities", "quests"} /\ (coll = "quests" => old \in b.quests)
  BY DEF Collection, Objects
<1>4. E \subseteq Ids /\ Q \subseteq Ids
  BY <1>1 DEF Swap
<1>5. \A r \in b.refs : Moved(r, old, new, coll) \in Ref
  BY <1>1 DEF Moved, Ref
<1>6. R \subseteq Ref
  BY <1>5
<1> HIDE DEF E, Q, R, c
<1>7. c \in World
  BY <1>2, <1>4, <1>6 DEF World
<1>8. ASSUME NEW x \in R, InQuest(x)
      PROVE  x.owner \in Q
  <2>1. PICK r \in b.refs : x = Moved(r, old, new, coll)
    BY DEF R
  <2>2. /\ x.site = r.site
        /\ x.owner = IF RewriteOwner(r, old, coll) THEN new ELSE r.owner
    BY <2>1 DEF Moved
  <2>3. InQuest(r) /\ r.site # "relation"
    BY <1>8, <2>2 DEF InQuest, QuestSites
  <2>4. r.owner \in b.quests
    BY <2>3 DEF Owned
  <2> QED
    BY <2>2, <2>3, <2>4, <1>3 DEF RewriteOwner, Q, Swap
<1> QED
  BY <1>2, <1>7, <1>8 DEF Owned, c

\* There are finitely many references.
LEMMA RefIsFinite ==
    ASSUME IsFiniteSet(Ids)
    PROVE  IsFiniteSet(Ref)
<1> DEFINE D == (Sites \X Ids) \X Ids
           f == [d \in D |-> [site |-> d[1][1], owner |-> d[1][2], to |-> d[2]]]
<1>1. IsFiniteSet(Sites)
  <2>1. IsFiniteSet({})
    BY FS_EmptySet
  <2>2. IsFiniteSet({"quest.entity"})
    BY <2>1, FS_Singleton
  <2>3. IsFiniteSet({"quest.entity"} \cup {"quest.prerequisite"})
    BY <2>2, FS_AddElement
  <2>4. IsFiniteSet(({"quest.entity"} \cup {"quest.prerequisite"}) \cup {"stage.location"})
    BY <2>3, FS_AddElement
  <2>5. IsFiniteSet((({"quest.entity"} \cup {"quest.prerequisite"}) \cup {"stage.location"}) \cup {"relation"})
    BY <2>4, FS_AddElement
  <2>6. IsFiniteSet(((({"quest.entity"} \cup {"quest.prerequisite"}) \cup {"stage.location"}) \cup {"relation"})
                      \cup {"event_ref"})
    BY <2>5, FS_AddElement
  <2>7. Sites = ((({"quest.entity"} \cup {"quest.prerequisite"}) \cup {"stage.location"}) \cup {"relation"})
                      \cup {"event_ref"}
    BY DEF Sites, QuestSites
  <2> QED
    BY <2>6, <2>7
<1>2. IsFiniteSet(D)
  <2>1. IsFiniteSet(Sites \X Ids)
    BY <1>1, FS_Product
  <2> QED
    BY <2>1, FS_Product
<1>3. ASSUME NEW r \in Ref
      PROVE  \E d \in D : f[d] = r
  <2>1. r.site \in Sites /\ r.owner \in Ids /\ r.to \in Ids
        /\ r = [site |-> r.site, owner |-> r.owner, to |-> r.to]
    BY DEF Ref
  <2>2. <<<<r.site, r.owner>>, r.to>> \in D
    BY <2>1
  <2>3. f[<<<<r.site, r.owner>>, r.to>>] = r
    BY <2>1, <2>2
  <2> QED
    BY <2>2, <2>3
<1>4. ASSUME NEW d \in D
      PROVE  f[d] \in Ref
  BY DEF Ref
<1>5. f \in [D -> Ref]
  BY <1>4
<1> HIDE DEF f, D
<1>6. f \in Surjection(D, Ref)
  BY <1>3, <1>5 DEF Surjection
<1> QED
  BY <1>2, <1>6, FS_Surjection

\* The objects of the renamed world, when no id is of two objects.
LEMMA ObjectsMove ==
    ASSUME NEW b \in World, NEW old \in Ids, NEW new \in Ids, old \in Objects(b), Distinct(b)
    PROVE  /\ \A x \in Objects(b) : (IF x = old THEN new ELSE x) \in Objects(Renamed(b, old, new))
           /\ \A x \in b.quests : (IF x = old THEN new ELSE x) \in Renamed(b, old, new).quests
           /\ \A x \in Objects(b) : x # old => x \in Objects(Renamed(b, old, new))
BY DEF Renamed, Objects, Distinct, Collection, Swap

\* A reference that is followed and resolves goes on resolving.
LEMMA MovedResolves ==
    ASSUME NEW b \in World, NEW old \in Ids, NEW new \in Ids, old \in Objects(b), Distinct(b),
           NEW r \in b.refs, r.site \in {"relation", "quest.entity", "quest.prerequisite"}, Resolves(b, r)
    PROVE  Resolves(Renamed(b, old, new), Moved(r, old, new, Collection(b, old)))
<1> DEFINE m == Moved(r, old, new, Collection(b, old))
<1>1. m.site = r.site
  BY DEF Moved
<1>2. m.to = IF r.to = old THEN new ELSE r.to
  BY DEF Moved, RewriteTo, Followed
<1>3. r.site = "relation" => m.owner = IF r.owner = old THEN new ELSE r.owner
  BY DEF Moved, RewriteOwner
<1> HIDE DEF m
<1>4. CASE r.site = "relation"
  <2>1. r.owner \in Objects(b) /\ r.to \in Objects(b)
    BY <1>4 DEF Resolves
  <2>2. m.owner \in Objects(Renamed(b, old, new)) /\ m.to \in Objects(Renamed(b, old, new))
    BY <2>1, <1>2, <1>3, <1>4, ObjectsMove
  <2> QED
    BY <2>2, <1>1, <1>4 DEF Resolves, m
<1>5. CASE r.site = "quest.prerequisite"
  <2>1. r.to \in b.quests
    BY <1>5 DEF Resolves
  <2>2. m.to \in Renamed(b, old, new).quests
    BY <2>1, <1>2, ObjectsMove
  <2> QED
    BY <2>2, <1>1, <1>5 DEF Resolves, m
<1>6. CASE r.site = "quest.entity"
  <2>1. r.to \in Objects(b)
    BY <1>6 DEF Resolves
  <2>2. m.to \in Objects(Renamed(b, old, new))
    BY <2>1, <1>2, ObjectsMove
  <2> QED
    BY <2>2, <1>1, <1>6 DEF Resolves, m
<1> QED
  BY <1>4, <1>5, <1>6

\* So every error of the renamed world comes of an error of the world, and there are no more.
LEMMA RenameBreaksNothing ==
    ASSUME IsFiniteSet(Ids),
           NEW b \in World, NEW old \in Ids, NEW new \in Ids, old \in Objects(b), Distinct(b)
    PROVE  Cardinality(FollowedErrors(Renamed(b, old, new))) <= Cardinality(FollowedErrors(b))
<1> DEFINE c == Renamed(b, old, new)
           S == FollowedErrors(b)
           f == [r \in S |-> Moved(r, old, new, Collection(b, old))]
           T == {f[r] : r \in S}
<1>1. S \subseteq Ref /\ S \subseteq b.refs
  BY DEF World, FollowedErrors, Errors
<1>2. IsFiniteSet(S)
  BY <1>1, RefIsFinite, FS_Subset
<1>3. f \in Surjection(S, T)
  BY DEF Surjection
<1>4. IsFiniteSet(T) /\ Cardinality(T) <= Cardinality(S)
  <2> HIDE DEF f, T, S
  <2> QED
    BY <1>2, <1>3, FS_Surjection
<1>5. ASSUME NEW x \in FollowedErrors(c)
      PROVE  x \in T
  <2>1. x \in c.refs /\ ~Resolves(c, x) /\ x.site \in {"relation", "quest.entity", "quest.prerequisite"}
    BY DEF FollowedErrors, Errors
  <2>2. c.refs = {Moved(r, old, new, Collection(b, old)) : r \in b.refs}
    BY DEF Renamed
  <2>3. PICK r \in b.refs : x = Moved(r, old, new, Collection(b, old))
    BY <2>1, <2>2
  <2>4. r.site = x.site
    BY <2>3 DEF Moved
  <2>5. ~Resolves(b, r)
    BY <2>1, <2>3, <2>4, MovedResolves
  <2>6. r \in S
    BY <2>1, <2>4, <2>5 DEF FollowedErrors, Errors
  <2> QED
    BY <2>3, <2>6
<1>6. FollowedErrors(c) \subseteq T
  BY <1>5
<1> HIDE DEF c, S, f, T
<1>7. Cardinality(FollowedErrors(c)) <= Cardinality(T) /\ IsFiniteSet(FollowedErrors(c))
  BY <1>4, <1>6, FS_Subset
<1>8. Cardinality(FollowedErrors(c)) \in Nat /\ Cardinality(T) \in Nat /\ Cardinality(S) \in Nat
  BY <1>2, <1>4, <1>7, FS_CardinalityType
<1>9. Cardinality(FollowedErrors(c)) <= Cardinality(S)
  BY <1>4, <1>7, <1>8
<1> QED
  BY <1>9 DEF c, S

-----------------------------------------------------------------------------
\* The request that is served.
LEMMA WriterIs ==
    ASSUME TypeOK
    PROVE  /\ writer.pc = "idle" <=> writer = Idle
           /\ writer # Idle =>
                /\ writer \in Requests
                /\ writer.pc \in {"snapshot"} \cup Pcs
                /\ writer.op \in {"rename", "restore", "edit"}
                /\ writer.from \in World /\ writer.to \in World
<1>1. writer = Idle \/ writer \in Requests
  BY DEF TypeOK
<1>2. Idle.pc = "idle"
  BY DEF Idle
<1>3. writer \in Requests =>
        /\ writer.pc \in {"snapshot"} \cup Pcs
        /\ writer.op \in {"rename", "restore", "edit"}
        /\ writer.from \in World /\ writer.to \in World
  BY TheStages DEF Requests
<1> QED
  BY <1>1, <1>2, <1>3 DEF Pcs

\* A step of a save leaves the request idle or at its next stage.
Going ==
    \/ writer' = Idle
    \/ /\ writer # Idle
       /\ writer' \in Requests /\ writer'.pc \in Pcs
       /\ writer'.op = writer.op /\ writer'.from = writer.from /\ writer'.to = writer.to

LEMMA AdvanceIs ==
    ASSUME TypeOK, writer.pc \in Pcs, Advance
    PROVE  /\ Going
           /\ writer.pc = "quests" => writer' = Idle
           /\ writer.pc # "quests" => writer' # Idle /\ writer'.pc = After(writer.pc)
<1>1. writer # Idle /\ writer \in Requests
  BY WriterIs DEF Pcs
<1>2. CASE writer.pc = "quests"
  BY <1>2 DEF Advance, Going
<1>3. CASE writer.pc # "quests"
  <2>1. writer' = [writer EXCEPT !.pc = After(writer.pc)]
    BY <1>3 DEF Advance
  <2>2. After(writer.pc) \in Pcs
    BY <1>3, TheStages DEF Pcs
  <2> DEFINE a == After(writer.pc)
  <2> HIDE DEF a
  <2>3. a \in Pcs /\ a \in Range(Stages) /\ writer' = [writer EXCEPT !.pc = a]
    BY <2>1, <2>2, TheStages DEF a
  <2>4. /\ writer' \in Requests /\ writer'.pc = a
        /\ writer'.op = writer.op /\ writer'.from = writer.from /\ writer'.to = writer.to
    BY <2>3, <1>1 DEF Requests
  <2>5. a # "idle"
    BY <2>3 DEF Pcs
  <2>6. writer' # Idle
    BY <2>4, <2>5 DEF Idle
  <2> QED
    BY <1>1, <1>3, <2>3, <2>4, <2>6 DEF Going, a
<1> QED
  BY <1>2, <1>3

\* A write of a save changes no snapshot and is of a world that has one, if it is a rename's.
LEMMA PutKeeps ==
    ASSUME TypeOK, UndoInv, RenamesOnly, NEW b \in World, writer.pc \in Pcs, Put(b), Going
    PROVE  TypeOK' /\ UndoInv' /\ RenamesOnly'
<1>1. writer # Idle /\ writer.pc # "snapshot"
  BY WriterIs DEF Pcs
<1>2. writer.op = "rename" => \E k \in 1..Len(snaps) : snaps[k] = writer.from
  BY <1>1 DEF UndoInv, Renaming
<1>3. /\ files' = b /\ torn' = torn /\ snaps' = snaps /\ ops' = ops /\ crashes' = crashes
      /\ overwritten' = IF writer.op = "rename" THEN overwritten \cup {writer.from} ELSE overwritten
  BY DEF Put
<1>4. TypeOK'
  BY <1>1, <1>3, WriterIs DEF TypeOK, Going
<1>5. UndoPoint'
  BY <1>2, <1>3 DEF UndoInv, UndoPoint
<1>6. writer' = Idle => writer'.pc # "snapshot"
  BY DEF Idle
<1>7. UndoInv'
  BY <1>1, <1>2, <1>3, <1>5, <1>6 DEF UndoInv, Going, Renaming, Pcs
<1>8. RenamesOnly'
  BY <1>1 DEF RenamesOnly, Renaming, Going
<1> QED
  BY <1>4, <1>7, <1>8

\* A request begins with the world that is there.
LEMMA StartKeeps ==
    ASSUME TypeOK, UndoInv, AllOwned, NEW w \in Requests, Start(w), w.from = files, Owned(w.to),
           (w.pc = "snapshot" /\ w.op = "rename") \/ (w.pc = "cut entities" /\ w.op # "rename"),
           w.op = "rename" => \E old, new \in Ids : old \in Objects(w.from) /\ w.to = Renamed(w.from, old, new)
    PROVE  RefactorInv'
<1>1. /\ writer' = w /\ files' = files /\ torn' = torn /\ snaps' = snaps /\ ops' = ops + 1
      /\ overwritten' = overwritten /\ crashes' = crashes
  BY DEF Start
<1>2. TypeOK'
  <2>1. files' \in World /\ torn' \in BOOLEAN /\ writer' \in {Idle} \cup Requests /\ overwritten' \subseteq World
    BY <1>1 DEF TypeOK
  <2>2. \A k \in 1..Len(snaps') : snaps'[k] \in World
    BY <1>1 DEF TypeOK
  <2>3. ops \in Nat /\ crashes \in Nat
    BY DEF TypeOK
  <2>4. ops' = ops + 1 /\ crashes' = crashes
    BY <1>1
  <2>5. ops' \in Nat /\ crashes' \in Nat
    BY ONLY <2>3, <2>4
  <2> QED
    BY <2>1, <2>2, <2>5 DEF TypeOK
<1>3. UndoInv'
  BY <1>1 DEF UndoInv, UndoPoint, Renaming
<1>4. AllOwned'
  BY <1>1 DEF AllOwned
<1>5. SavedSoFar'
  BY <1>1 DEF SavedSoFar
<1>6. RenamesOnly'
  BY <1>1 DEF RenamesOnly, Renaming
<1> QED
  BY <1>2, <1>3, <1>4, <1>5, <1>6 DEF RefactorInv

LEMMA RenameKeeps ==
    ASSUME RefactorInv, NEW old \in Ids, NEW new \in Ids, Rename(old, new)
    PROVE  RefactorInv'
<1> DEFINE t == Renamed(files, old, new)
           w == [pc |-> "snapshot", op |-> "rename", from |-> files, to |-> t]
<1>1. files \in World /\ Owned(files) /\ old \in Objects(files)
  BY DEF RefactorInv, TypeOK, AllOwned, Rename, Objects
<1>2. t \in World /\ Owned(t)
  BY <1>1, RenamedIs
<1>3. Start(w)
  BY DEF Rename
<1>4. w.from = files /\ w.to = Renamed(files, old, new) /\ w.pc = "snapshot" /\ w.op = "rename"
  OBVIOUS
<1> HIDE DEF t
<1>5. w \in Requests
  BY <1>1, <1>2 DEF Requests
<1> HIDE DEF w
<1>6. Owned(w.to)
  BY <1>2, <1>4 DEF t
<1>7. \E o, n \in Ids : o \in Objects(w.from) /\ w.to = Renamed(w.from, o, n)
  BY <1>1, <1>4
<1>8. TypeOK /\ UndoInv /\ AllOwned
  BY DEF RefactorInv
<1> QED
  BY ONLY <1>3, <1>4, <1>5, <1>6, <1>7, <1>8, StartKeeps

LEMMA RestoreKeeps ==
    ASSUME RefactorInv, NEW k \in 1..Len(snaps), Restore(k)
    PROVE  RefactorInv'
<1> DEFINE w == [pc |-> Stages[1], op |-> "restore", from |-> files, to |-> snaps[k]]
<1>1. files \in World /\ snaps[k] \in World /\ Owned(snaps[k])
  BY DEF RefactorInv, TypeOK, AllOwned
<1>2. Start(w)
  BY DEF Restore
<1>3. w.from = files /\ w.to = snaps[k] /\ w.pc = "cut entities" /\ w.op = "restore"
  BY TheStages
<1>4. w \in Requests
  BY <1>1, TheStages DEF Requests, Pcs
<1> HIDE DEF w
<1>5. Owned(w.to)
  BY <1>1, <1>3
<1> QED
  BY <1>2, <1>3, <1>4, <1>5, StartKeeps DEF RefactorInv

LEMMA EditKeeps ==
    ASSUME RefactorInv, NEW r \in Ref, EditRelations(r)
    PROVE  RefactorInv'
<1> DEFINE R == IF r \in files.refs THEN files.refs \ {r} ELSE files.refs \cup {r}
           t == [files EXCEPT !.refs = IF r \in @ THEN @ \ {r} ELSE @ \cup {r}]
           w == [pc |-> Stages[1], op |-> "edit", from |-> files, to |-> t]
<1>1. files \in World /\ Owned(files)
  BY DEF RefactorInv, TypeOK, AllOwned
<1>2. R \subseteq Ref
  BY <1>1 DEF World
<1>3. t = [files EXCEPT !.refs = R]
  OBVIOUS
<1> HIDE DEF R
<1>4. t \in World /\ t.refs = R /\ t.quests = files.quests
  BY <1>1, <1>2, <1>3 DEF World
<1>5. r.site = "relation"
  BY DEF EditRelations
<1>6. Owned(t)
  BY <1>1, <1>4, <1>5 DEF Owned, R, InQuest, QuestSites
<1>7. Start(w)
  BY DEF EditRelations
<1> HIDE DEF t
<1>8. w.from = files /\ w.to = t /\ w.pc = "cut entities" /\ w.op = "edit"
  BY TheStages
<1>9. w \in Requests
  BY <1>1, <1>4, TheStages DEF Requests, Pcs
<1> HIDE DEF w
<1> QED
  BY <1>6, <1>7, <1>8, <1>9, StartKeeps DEF RefactorInv

LEMMA SnapshotKeeps ==
    ASSUME RefactorInv, WriteSnapshot
    PROVE  RefactorInv'
<1>1. TypeOK /\ UndoInv /\ AllOwned /\ SavedSoFar /\ RenamesOnly
  BY DEF RefactorInv
<1>2. writer # Idle /\ writer \in Requests /\ writer.pc = "snapshot"
  BY <1>1, WriterIs DEF WriteSnapshot, Idle
<1>3. writer' = [writer EXCEPT !.pc = "cut entities"] /\ "cut entities" \in Range(Stages)
  BY TheStages DEF WriteSnapshot, Pcs
<1>4. /\ writer' \in Requests /\ writer'.pc = "cut entities"
      /\ writer'.op = writer.op /\ writer'.from = writer.from /\ writer'.to = writer.to
  BY <1>2, <1>3 DEF Requests
<1>5. writer.op = "rename" /\ writer.from = files
  BY <1>1, <1>2 DEF UndoInv
<1>6. /\ files' = files /\ torn' = torn /\ overwritten' = overwritten /\ ops' = ops /\ crashes' = crashes
      /\ snaps' = Append(snaps, files)
  BY DEF WriteSnapshot
<1>7. /\ Len(snaps') = Len(snaps) + 1 /\ Len(snaps) \in Nat
      /\ \A k \in 1..Len(snaps) : snaps'[k] = snaps[k]
      /\ snaps'[Len(snaps) + 1] = files
  BY <1>1, <1>6 DEF TypeOK
<1>8. \A k \in 1..Len(snaps') : k \in 1..Len(snaps) \/ k = Len(snaps) + 1
  BY <1>7
<1>9. TypeOK'
  BY <1>1, <1>4, <1>6, <1>7, <1>8 DEF TypeOK
<1>10. UndoPoint'
  <2>1. \A b \in overwritten : \E k \in 1..Len(snaps) : snaps[k] = b
    BY <1>1 DEF UndoInv, UndoPoint
  <2>2. \A k \in 1..Len(snaps) : k \in 1..Len(snaps')
    BY <1>7
  <2> QED
    BY <2>1, <2>2, <1>6, <1>7 DEF UndoPoint
<1>11. UndoInv'
  <2>1. Len(snaps) + 1 \in 1..Len(snaps')
    BY <1>7
  <2> QED
    BY <1>4, <1>5, <1>7, <1>10, <2>1 DEF UndoInv
<1>12. AllOwned'
  BY <1>1, <1>2, <1>4, <1>6, <1>7, <1>8 DEF AllOwned
<1>13. SavedSoFar'
  BY <1>4 DEF SavedSoFar
<1>14. RenamesOnly'
  BY <1>1, <1>2, <1>4, <1>5 DEF RenamesOnly, Renaming
<1> QED
  BY <1>9, <1>11, <1>12, <1>13, <1>14 DEF RefactorInv

\* What is left to show of a write of a save: that the references of quests stay with them, and that
\* the parts it claims to have written are those of the world it writes.
LEMMA SaveStep ==
    ASSUME RefactorInv, NEW b \in World, writer.pc \in Pcs, Put(b), Going, Owned(b), SavedSoFar'
    PROVE  RefactorInv'
<1>1. TypeOK /\ UndoInv /\ AllOwned /\ RenamesOnly
  BY DEF RefactorInv
<1>2. TypeOK' /\ UndoInv' /\ RenamesOnly'
  BY <1>1, PutKeeps
<1>3. writer # Idle
  BY <1>1, WriterIs DEF Pcs
<1>4. AllOwned'
  BY <1>1, <1>3 DEF AllOwned, Put, Going
<1> QED
  BY <1>2, <1>4 DEF RefactorInv

LEMMA EntitiesKeep ==
    ASSUME RefactorInv, CutEntities \/ WriteEntities
    PROVE  RefactorInv'
<1>1. TypeOK /\ AllOwned
  BY DEF RefactorInv
<1>2. writer.pc \in {"cut entities", "entities"} /\ writer.pc \in Pcs /\ Advance
  BY DEF CutEntities, WriteEntities, Pcs
<1>3. files \in World /\ writer.to \in World /\ Owned(files)
  BY <1>1, <1>2, WriterIs DEF TypeOK, AllOwned, Pcs
<1>4. Going /\ writer' # Idle /\ writer'.pc = After(writer.pc) /\ writer'.to = writer.to
  BY <1>1, <1>2, AdvanceIs DEF Going
<1>5. CASE CutEntities
  <2> DEFINE E == files.entities \cap writer.to.entities
             b == [files EXCEPT !.entities = E]
  <2>1. Put(b)
    BY <1>5 DEF CutEntities
  <2>2. E \subseteq Ids
    BY <1>3 DEF World
  <2> HIDE DEF E
  <2>3. b \in World /\ b.refs = files.refs /\ b.quests = files.quests
    BY <1>3, <2>2 DEF World
  <2> HIDE DEF b
  <2>4. Owned(b)
    BY <1>3, <2>3 DEF Owned
  <2>5. writer'.pc = "entities"
    BY <1>4, <1>5, TheStages DEF CutEntities
  <2>6. SavedSoFar'
    BY <2>5 DEF SavedSoFar
  <2> QED
    BY <1>2, <1>4, <2>1, <2>3, <2>4, <2>6, SaveStep
<1>6. CASE WriteEntities
  <2> DEFINE E == writer.to.entities
             b == [files EXCEPT !.entities = E]
  <2>1. Put(b)
    BY <1>6 DEF WriteEntities
  <2>2. E \subseteq Ids
    BY <1>3 DEF World
  <2> HIDE DEF E
  <2>3. b \in World /\ b.refs = files.refs /\ b.quests = files.quests /\ b.entities = E
    BY <1>3, <2>2 DEF World
  <2> HIDE DEF b
  <2>4. Owned(b)
    BY <1>3, <2>3 DEF Owned
  <2>5. writer'.pc = "relations"
    BY <1>4, <1>6, TheStages DEF WriteEntities
  <2>6. files'.entities = writer'.to.entities
    BY <1>4, <2>1, <2>3 DEF Put, E
  <2>7. SavedSoFar'
    BY <2>5, <2>6 DEF SavedSoFar
  <2> QED
    BY <1>2, <1>4, <2>1, <2>3, <2>4, <2>7, SaveStep
<1> QED
  BY <1>5, <1>6

\* The two lists of references that are kept beside the quests.
LEMMA ListsKeep ==
    ASSUME RefactorInv, WriteRelations \/ WriteEventRefs
    PROVE  RefactorInv'
<1>1. TypeOK /\ AllOwned /\ SavedSoFar
  BY DEF RefactorInv
<1> DEFINE site == IF writer.pc = "relations" THEN "relation" ELSE "event_ref"
           R == (files.refs \ At(files, site)) \cup At(writer.to, site)
           b == [files EXCEPT !.refs = R]
<1>2. writer.pc \in {"relations", "event_refs"} /\ writer.pc \in Pcs /\ Advance
  BY DEF WriteRelations, WriteEventRefs, Pcs
<1>3. files \in World /\ writer.to \in World /\ Owned(files)
  BY <1>1, <1>2, WriterIs DEF TypeOK, AllOwned, Pcs
<1>4. Going /\ writer' # Idle /\ writer'.pc = After(writer.pc) /\ writer'.to = writer.to
  BY <1>1, <1>2, AdvanceIs DEF Going
<1>5. Put(b)
  BY DEF WriteRelations, WriteEventRefs, WithSite
<1>6. R \subseteq Ref
  BY <1>3 DEF World, At
<1>7. \A r \in R : InQuest(r) => r \in files.refs
  BY DEF At, InQuest, QuestSites
<1>8. \A r : r.site = site => (r \in R <=> r \in writer.to.refs)
  BY DEF At
<1>9. \A r : r.site # site => (r \in R <=> r \in files.refs)
  BY DEF At
<1> HIDE DEF R
<1>10. /\ b \in World /\ b.refs = R
       /\ b.quests = files.quests /\ b.entities = files.entities
  BY <1>3, <1>6 DEF World
<1> HIDE DEF b
<1>11. Owned(b)
  BY <1>3, <1>7, <1>10 DEF Owned
<1>12. files' = b
  BY <1>5 DEF Put
<1>13. CASE writer.pc = "relations"
  <2>1. writer'.pc = "event_refs"
    BY <1>4, <1>13, TheStages
  <2>2. files'.entities = writer'.to.entities
    BY <1>1, <1>4, <1>10, <1>12, <1>13 DEF SavedSoFar
  <2>3. At(b, "relation") = At(writer.to, "relation")
    BY <1>8, <1>10, <1>13 DEF At
  <2>4. SavedSoFar'
    BY <2>1, <2>2, <2>3, <1>4, <1>12 DEF SavedSoFar
  <2> QED
    BY <1>2, <1>4, <1>5, <1>10, <1>11, <2>4, SaveStep
<1>14. CASE writer.pc = "event_refs"
  <2>1. writer'.pc = "cut quests"
    BY <1>4, <1>14, TheStages
  <2>2. files'.entities = writer'.to.entities
    BY <1>1, <1>4, <1>10, <1>12, <1>14 DEF SavedSoFar
  <2>3. At(b, "event_ref") = At(writer.to, "event_ref")
    BY <1>8, <1>10, <1>14 DEF At
  <2>4. At(b, "relation") = At(files, "relation") /\ At(files, "relation") = At(writer.to, "relation")
    BY <1>1, <1>9, <1>10, <1>14 DEF At, SavedSoFar
  <2>5. SavedSoFar'
    BY <2>1, <2>2, <2>3, <2>4, <1>4, <1>12 DEF SavedSoFar
  <2> QED
    BY <1>2, <1>4, <1>5, <1>10, <1>11, <2>5, SaveStep
<1> QED
  BY <1>2, <1>13, <1>14

LEMMA CutQuestsKeeps ==
    ASSUME RefactorInv, CutQuests
    PROVE  RefactorInv'
<1> DEFINE R == {r \in files.refs : InQuest(r) => r.owner \in writer.to.quests}
           Q == files.quests \cap writer.to.quests
           b == [files EXCEPT !.quests = Q, !.refs = R]
<1>1. TypeOK /\ AllOwned /\ SavedSoFar
  BY DEF RefactorInv
<1>2. writer.pc = "cut quests" /\ writer.pc \in Pcs /\ Advance
  BY DEF CutQuests, Pcs
<1>3. files \in World /\ writer.to \in World /\ Owned(files)
  BY <1>1, <1>2, WriterIs DEF TypeOK, AllOwned, Pcs
<1>4. Going /\ writer' # Idle /\ writer'.pc = "quests" /\ writer'.to = writer.to
  BY <1>1, <1>2, AdvanceIs, TheStages DEF Going
<1>5. Put(b)
  BY DEF CutQuests
<1>6. R \subseteq Ref /\ Q \subseteq Ids
  BY <1>3 DEF World
<1>7. \A r \in R : InQuest(r) => r.owner \in Q
  BY <1>3 DEF Owned
<1>8. \A r : ~InQuest(r) => (r \in R <=> r \in files.refs)
  OBVIOUS
<1>9. Q \subseteq writer.to.quests
  OBVIOUS
<1> HIDE DEF R, Q
<1>10. b \in World /\ b.refs = R /\ b.quests = Q /\ b.entities = files.entities
  BY <1>3, <1>6 DEF World
<1> HIDE DEF b
<1>11. Owned(b)
  BY <1>7, <1>10 DEF Owned
<1>12. files' = b
  BY <1>5 DEF Put
<1>13. At(b, "relation") = At(files, "relation") /\ At(b, "event_ref") = At(files, "event_ref")
  BY <1>8, <1>10 DEF At, InQuest, QuestSites
<1>14. /\ files.entities = writer.to.entities
       /\ At(files, "relation") = At(writer.to, "relation")
       /\ At(files, "event_ref") = At(writer.to, "event_ref")
  BY <1>1, <1>2 DEF SavedSoFar
<1>15. SavedSoFar'
  BY <1>4, <1>9, <1>10, <1>12, <1>13, <1>14 DEF SavedSoFar
<1> QED
  BY <1>2, <1>4, <1>5, <1>10, <1>11, <1>15, SaveStep

LEMMA WriteQuestKeeps ==
    ASSUME RefactorInv, NEW q \in Ids, WriteQuest(q)
    PROVE  RefactorInv'
<1> DEFINE R == (files.refs \ OfQuest(files, q)) \cup OfQuest(writer.to, q)
           Q == files.quests \cup {q}
           b == [files EXCEPT !.quests = Q, !.refs = R]
<1>1. TypeOK /\ AllOwned /\ SavedSoFar
  BY DEF RefactorInv
<1>2. writer.pc = "quests" /\ writer.pc \in Pcs /\ writer' = writer /\ q \in writer.to.quests
  BY DEF WriteQuest, Pcs
<1>3. files \in World /\ writer.to \in World /\ Owned(files)
  BY <1>1, <1>2, WriterIs DEF TypeOK, AllOwned, Pcs
<1>4. Going
  BY <1>1, <1>2, WriterIs DEF Going, Pcs
<1>5. Put(b)
  BY DEF WriteQuest
<1>6. R \subseteq Ref /\ Q \subseteq Ids
  BY <1>3 DEF World, OfQuest
<1>7. \A r \in R : InQuest(r) => r.owner \in Q
  BY <1>3 DEF Owned, OfQuest
<1>8. \A r : ~InQuest(r) => (r \in R <=> r \in files.refs)
  BY DEF OfQuest
<1>9. Q \subseteq writer.to.quests
  BY <1>1, <1>2 DEF SavedSoFar
<1> HIDE DEF R, Q
<1>10. b \in World /\ b.refs = R /\ b.quests = Q /\ b.entities = files.entities
  BY <1>3, <1>6 DEF World
<1> HIDE DEF b
<1>11. Owned(b)
  BY <1>7, <1>10 DEF Owned
<1>12. files' = b
  BY <1>5 DEF Put
<1>13. At(b, "relation") = At(files, "relation") /\ At(b, "event_ref") = At(files, "event_ref")
  BY <1>8, <1>10 DEF At, InQuest, QuestSites
<1>14. /\ files.entities = writer.to.entities
       /\ At(files, "relation") = At(writer.to, "relation")
       /\ At(files, "event_ref") = At(writer.to, "event_ref")
  BY <1>1, <1>2 DEF SavedSoFar
<1>15. SavedSoFar'
  BY <1>2, <1>9, <1>10, <1>12, <1>13, <1>14 DEF SavedSoFar
<1> QED
  BY <1>2, <1>4, <1>5, <1>10, <1>11, <1>15, SaveStep

LEMMA QuestsWrittenKeeps ==
    ASSUME RefactorInv, QuestsWritten
    PROVE  RefactorInv' /\ writer' = Idle
<1>1. TypeOK /\ AllOwned
  BY DEF RefactorInv
<1>2. writer.pc = "quests" /\ writer.pc \in Pcs /\ Put(files) /\ Advance
  BY DEF QuestsWritten, Pcs
<1>3. Going /\ writer' = Idle
  BY <1>1, <1>2, AdvanceIs
<1>4. SavedSoFar'
  BY <1>3 DEF SavedSoFar, Idle
<1>5. files \in World /\ Owned(files)
  BY <1>1 DEF TypeOK, AllOwned
<1> QED
  BY <1>2, <1>3, <1>4, <1>5, SaveStep

\* When the last quest is written, the files are the world that was to be written.
LEMMA SaveIsExact ==
    ASSUME RefactorInv, QuestsWritten
    PROVE  files' = writer.to
<1>1. TypeOK /\ AllOwned /\ SavedSoFar
  BY DEF RefactorInv
<1>2. writer.pc = "quests" /\ writer # Idle /\ \A q \in writer.to.quests : Written(q)
  BY <1>1, WriterIs DEF QuestsWritten, Idle
<1>3. files \in World /\ writer.to \in World /\ Owned(files) /\ Owned(writer.to)
  BY <1>1, <1>2, WriterIs DEF TypeOK, AllOwned
<1>4. files.entities = writer.to.entities
  BY <1>1, <1>2 DEF SavedSoFar
<1>5. files.quests = writer.to.quests
  BY <1>1, <1>2 DEF SavedSoFar, Written
<1>6. ASSUME NEW r \in Ref
      PROVE  r \in files.refs <=> r \in writer.to.refs
  <2>1. CASE InQuest(r)
    <3>1. r \in files.refs \/ r \in writer.to.refs => r.owner \in writer.to.quests
      BY <1>3, <1>5, <2>1 DEF Owned
    <3>2. r.owner \in writer.to.quests => OfQuest(files, r.owner) = OfQuest(writer.to, r.owner)
      BY <1>2 DEF Written
    <3> QED
      BY <2>1, <3>1, <3>2 DEF OfQuest
  <2>2. CASE r.site = "relation"
    BY <1>1, <1>2, <2>2 DEF SavedSoFar, At
  <2>3. CASE r.site = "event_ref"
    BY <1>1, <1>2, <2>3 DEF SavedSoFar, At
  <2>4. r.site \in Sites
    BY DEF Ref
  <2> QED
    BY <2>1, <2>2, <2>3, <2>4 DEF Sites, InQuest
<1>7. files.refs \subseteq Ref /\ writer.to.refs \subseteq Ref
  BY <1>3 DEF World
<1>8. files.refs = writer.to.refs
  BY <1>6, <1>7
<1>9. files' = files
  BY DEF QuestsWritten, Put
<1> QED
  BY <1>3, <1>4, <1>5, <1>8, <1>9, Parts

\* A death leaves the files as they are, one unreadable, or one of the two lists empty.
LEMMA CrashKeeps ==
    ASSUME RefactorInv, Crash
    PROVE  RefactorInv'
<1>1. TypeOK /\ UndoInv /\ AllOwned
  BY DEF RefactorInv
<1>2. writer # Idle /\ writer' = Idle /\ snaps' = snaps /\ ops' = ops /\ crashes' = crashes + 1
  BY DEF Crash
<1>3. writer'.pc = "idle" /\ ~Renaming'
  BY <1>2 DEF Idle, Renaming
<1>4. files \in World /\ Owned(files)
  BY <1>1 DEF TypeOK, AllOwned
<1>5. files' \in World /\ Owned(files') /\ torn' \in BOOLEAN
  <2>1. CASE files' = files /\ (torn' = torn \/ torn' = TRUE)
    BY <2>1, <1>1, <1>4 DEF TypeOK
  <2>2. CASE /\ files' = [files EXCEPT !.refs = @ \ At(files, IF writer.pc = "relations" THEN "relation"
                                                                                     ELSE "event_ref")]
             /\ torn' = torn
    <3> DEFINE R == files.refs \ At(files, IF writer.pc = "relations" THEN "relation" ELSE "event_ref")
    <3>1. files' = [files EXCEPT !.refs = R] /\ R \subseteq files.refs
      BY <2>2
    <3> HIDE DEF R
    <3>2. files' \in World /\ files'.refs = R /\ files'.quests = files.quests
      BY <3>1, <1>4 DEF World
    <3> QED
      BY <3>1, <3>2, <1>1, <1>4, <2>2 DEF Owned, TypeOK
  <2> QED
    BY <2>1, <2>2 DEF Crash
<1>6. /\ overwritten' = overwritten \/ overwritten' = overwritten \cup {writer.from}
      /\ overwritten' # overwritten => Renaming /\ writer.pc # "snapshot"
  BY <1>2 DEF Crash, Renaming
<1>7. UndoPoint'
  BY <1>1, <1>2, <1>6 DEF UndoInv, UndoPoint
<1>8. UndoInv'
  BY <1>3, <1>7 DEF UndoInv
<1>9. overwritten' \subseteq World
  BY <1>1, <1>2, <1>6, WriterIs DEF TypeOK
<1>10. crashes' \in Nat
  BY <1>1, <1>2 DEF TypeOK
<1>11. TypeOK'
  BY <1>1, <1>2, <1>5, <1>9, <1>10 DEF TypeOK
<1>12. AllOwned'
  BY <1>1, <1>2, <1>5 DEF AllOwned
<1>13. SavedSoFar'
  BY <1>3 DEF SavedSoFar
<1>14. RenamesOnly'
  BY <1>3 DEF RenamesOnly
<1> QED
  BY <1>8, <1>11, <1>12, <1>13, <1>14 DEF RefactorInv

LEMMA StutterKeeps ==
    ASSUME RefactorInv, UNCHANGED vars
    PROVE  RefactorInv'
BY DEF vars, RefactorInv, TypeOK, UndoInv, UndoPoint, AllOwned, SavedSoFar, RenamesOnly, Renaming, At

LEMMA InitHolds ==
    ASSUME WellFormed, Init
    PROVE  RefactorInv
<1>1. /\ writer = Idle /\ writer.pc = "idle" /\ snaps = <<>> /\ overwritten = {} /\ files \in Worlds
      /\ torn = FALSE /\ ops = 0 /\ crashes = 0
  BY DEF Init, Idle
<1>2. files \in World /\ Owned(files)
  BY <1>1 DEF WellFormed
<1>3. TypeOK
  <2>1. \A k \in 1..Len(snaps) : snaps[k] \in World
    BY <1>1
  <2>2. writer \in {Idle} \cup Requests /\ overwritten \subseteq World /\ torn \in BOOLEAN
    BY <1>1
  <2> QED
    BY <2>1, <2>2, <1>1, <1>2 DEF TypeOK
<1>4. UndoInv
  BY <1>1 DEF UndoInv, UndoPoint, Renaming
<1>5. AllOwned
  BY <1>1, <1>2 DEF AllOwned
<1>6. SavedSoFar /\ RenamesOnly
  BY <1>1 DEF SavedSoFar, RenamesOnly, Renaming
<1> QED
  BY <1>3, <1>4, <1>5, <1>6 DEF RefactorInv

LEMMA RefactorInvAlways ==
    WellFormed /\ Spec => []RefactorInv
<1>1. WellFormed /\ Init => RefactorInv
  BY InitHolds
<1>2. RefactorInv /\ [Next]_vars => RefactorInv'
  <2> SUFFICES ASSUME RefactorInv, [Next]_vars
               PROVE  RefactorInv'
    OBVIOUS
  <2>1. ASSUME NEW old \in Ids, NEW new \in Ids, Rename(old, new) PROVE RefactorInv'
    BY <2>1, RenameKeeps
  <2>2. ASSUME NEW k \in 1..Len(snaps), Restore(k) PROVE RefactorInv'
    BY <2>2, RestoreKeeps
  <2>3. ASSUME NEW r \in Ref, EditRelations(r) PROVE RefactorInv'
    BY <2>3, EditKeeps
  <2>4. CASE WriteSnapshot
    BY <2>4, SnapshotKeeps
  <2>5. CASE CutEntities \/ WriteEntities
    BY <2>5, EntitiesKeep
  <2>6. CASE WriteRelations \/ WriteEventRefs
    BY <2>6, ListsKeep
  <2>7. CASE CutQuests
    BY <2>7, CutQuestsKeeps
  <2>8. ASSUME NEW q \in Ids, WriteQuest(q) PROVE RefactorInv'
    BY <2>8, WriteQuestKeeps
  <2>9. CASE QuestsWritten
    BY <2>9, QuestsWrittenKeeps
  <2>10. CASE Crash
    BY <2>10, CrashKeeps
  <2>11. CASE UNCHANGED vars
    BY <2>11, StutterKeeps
  <2> QED
    BY <2>1, <2>2, <2>3, <2>4, <2>5, <2>6, <2>7, <2>8, <2>9, <2>10, <2>11 DEF Next
<1> QED
  BY <1>1, <1>2, PTL DEF Spec

\* The files, the snapshots and the request keep their types: no rename, restore or edit, and no
\* death between two files, leaves a bundle of another shape.
THEOREM TypeCorrect ==
    WellFormed /\ Spec => []TypeOK
<1>1. RefactorInv => TypeOK
  BY DEF RefactorInv
<1> QED
  BY <1>1, RefactorInvAlways, PTL

\* apply_rename and the snapshot before it: from the first file that a rename writes on, the world
\* it replaces is in a snapshot, however many requests follow and wherever they die.
THEOREM RenamesCanBeUndone ==
    WellFormed /\ Spec => []UndoPoint
<1>1. RefactorInv => UndoPoint
  BY DEF RefactorInv, UndoInv
<1> QED
  BY <1>1, RefactorInvAlways, PTL

\* _apply_id_change: whatever ids are renamed to whatever others, while no entity and quest share an
\* id, a rename leaves no more of the references it follows dangling than there were.
THEOREM RenamesResolve ==
    WellFormed /\ Spec => []FollowedResolve
<1> SUFFICES ASSUME WellFormed
             PROVE  Spec => []FollowedResolve
  OBVIOUS
<1>1. RefactorInv => FollowedResolve
  <2> SUFFICES ASSUME RefactorInv, Renaming, Distinct(writer.from)
               PROVE  Cardinality(FollowedErrors(writer.to)) <= Cardinality(FollowedErrors(writer.from))
    BY DEF FollowedResolve
  <2>1. PICK old \in Ids, new \in Ids :
            old \in Objects(writer.from) /\ writer.to = Renamed(writer.from, old, new)
    BY DEF RefactorInv, RenamesOnly
  <2>2. writer.from \in World
    BY WriterIs DEF RefactorInv, Renaming
  <2> QED
    BY <2>1, <2>2, RenameBreaksNothing DEF WellFormed
<1> QED
  BY <1>1, RefactorInvAlways, PTL

\* restore_snapshot and ContentStore.save: a restore that ends has put back exactly its snapshot, over
\* whatever earlier saves, and deaths in the middle of them, had left.
THEOREM RestoresAreExact ==
    WellFormed /\ Spec => RestoreIsExact
<1> DEFINE Ends == writer # Idle /\ writer.op = "restore" /\ writer' = Idle /\ crashes' = crashes
<1>1. RefactorInv /\ [Next]_vars => [Ends => files' = writer.to]_writer
  <2> SUFFICES ASSUME RefactorInv, [Next]_vars, Ends
               PROVE  files' = writer.to
    OBVIOUS
  <2>0. TypeOK
    BY DEF RefactorInv
  <2>2. ~\E old, new \in Ids : Rename(old, new)
    BY DEF Rename, Start
  <2>3. ~\E k \in 1..Len(snaps) : Restore(k)
    BY DEF Restore, Start
  <2>4. ~\E r \in Ref : EditRelations(r)
    BY DEF EditRelations, Start
  <2>5. ~WriteSnapshot
    <3> SUFFICES ASSUME WriteSnapshot PROVE FALSE
      OBVIOUS
    <3>1. writer.pc = "snapshot"
      BY DEF WriteSnapshot
    <3>2. writer.op = "rename"
      BY <3>1 DEF RefactorInv, UndoInv
    <3> QED
      BY <3>2
  <2>6. ~(CutEntities \/ WriteEntities \/ WriteRelations \/ WriteEventRefs \/ CutQuests)
    <3> SUFFICES ASSUME CutEntities \/ WriteEntities \/ WriteRelations \/ WriteEventRefs \/ CutQuests PROVE FALSE
      OBVIOUS
    <3>1. writer.pc \in Pcs /\ writer.pc # "quests" /\ Advance
      BY DEF CutEntities, WriteEntities, WriteRelations, WriteEventRefs, CutQuests, Pcs
    <3> QED
      BY <3>1, <2>0, AdvanceIs
  <2>7. ~\E q \in Ids : WriteQuest(q)
    BY DEF WriteQuest
  <2>8. ~Crash
    <3>1. crashes \in Nat
      BY <2>0 DEF TypeOK
    <3> QED
      BY <3>1 DEF Crash
  <2>9. CASE QuestsWritten
    BY <2>9, SaveIsExact
  <2>10. ~UNCHANGED vars
    BY DEF vars
  <2> QED
    BY <2>2, <2>3, <2>4, <2>5, <2>6, <2>7, <2>8, <2>9, <2>10 DEF Next
<1>2. WellFormed /\ Spec => [][Ends => files' = writer.to]_writer
  BY <1>1, RefactorInvAlways, PTL DEF Spec
<1> QED
  BY <1>2 DEF RestoreIsExact

-----------------------------------------------------------------------------
(***************************************************************************)
(* Intake                                                                  *)
(***************************************************************************)

CONSTANTS Stem(_), Split(_), Spans(_), IllFormed, Locales, Callers, Files, Mappings,
          Uploads, Sources, Proposals, FirstWorld, Edited, MaxRequests, MaxEdits
VARIABLES world, uploaded, queue, at, past, spent

Arrivals == INSTANCE Intake WITH Requests <- Callers

Statuses == {"approved", "pending_review"}
Reading == {"uploaded", "parsed", "loaded"}
Stated(objects) == \A k \in DOMAIN objects : "status" \in DOMAIN objects[k] /\ objects[k].status \in Statuses
ItemFields == {"source", "plan", "on", "bundle", "whole", "read", "status"}

\* The shapes of the parts of the state.
IntakeShape ==
    /\ DOMAIN at = Callers
    /\ past = [kept |-> past.kept, lost |-> past.lost, mixed |-> past.mixed, imported |-> past.imported]
    /\ world = [objects |-> world.objects, relations |-> world.relations]

QueueInv ==
    /\ queue \in Seq({queue[i] : i \in DOMAIN queue})
    /\ \A i \in DOMAIN queue : /\ DOMAIN queue[i] = ItemFields /\ queue[i].status \in {"pending_review", "accepted"}
                              /\ "objects" \in DOMAIN queue[i].bundle /\ Stated(queue[i].bundle.objects)

\* Whatever has a key has been written.
EverWritten ==
    /\ DOMAIN world.objects \subseteq DOMAIN past.kept
    /\ \A c \in Callers : at[c].step = "loaded" => DOMAIN at[c].on.objects \subseteq DOMAIN past.kept
    /\ \A objects \in past.imported : DOMAIN objects \subseteq DOMAIN past.kept

\* Who has met nobody under the name of an upload is alone with it.
NamesApart ==
    /\ \A c \in Callers : at[c].step = "uploaded" => at[c].name # ""
    /\ \A c, d \in Callers :
          c # d /\ at[c].step = "uploaded" /\ at[d].step \in Reading /\ at[c].name = at[d].name => c \in past.mixed

\* Objects keep their statuses wherever they wait.
StatusesInv ==
    /\ Stated(world.objects)
    /\ \A c \in Callers : at[c].step \in {"idle", "uploaded", "parsed", "loaded", "recognising", "editing"}
    /\ \A c \in Callers : at[c].step = "loaded" => Stated(at[c].on.objects) /\ Stated(at[c].batch.objects)

IntakeInv ==
    /\ IntakeShape /\ QueueInv /\ EverWritten /\ NamesApart /\ StatusesInv
    /\ Arrivals!WordIsKept /\ Arrivals!OwnUpload

LEMMA OverIs ==
    ASSUME NEW f, NEW g
    PROVE  /\ DOMAIN Arrivals!Over(f, g) = DOMAIN f \cup DOMAIN g
           /\ \A k \in DOMAIN f : Arrivals!Over(f, g)[k] = f[k]
           /\ \A k \in DOMAIN g \ DOMAIN f : Arrivals!Over(f, g)[k] = g[k]
BY DEF Arrivals!Over

LEMMA OverStated ==
    ASSUME NEW f, NEW g, Stated(f), Stated(g)
    PROVE  Stated(Arrivals!Over(f, g))
BY DEF Arrivals!Over, Stated

LEMMA MovedTo ==
    ASSUME NEW c \in Callers, NEW req, DOMAIN at = Callers, at' = [at EXCEPT ![c] = req]
    PROVE  DOMAIN at' = Callers /\ at'[c] = req /\ \A d \in Callers \ {c} : at'[d] = at[d]
OBVIOUS

\* The objects of a batch.
LEMMA BatchStated ==
    ASSUME NEW rows, Arrivals!NormalizeRawObjects(rows).ok
    PROVE  Stated(Arrivals!NormalizeRawObjects(rows).objects)
<1> DEFINE all == UNION {{[key |-> m.key, object |-> m.object, row |-> i] : m \in Arrivals!Made(rows[i])} : i \in DOMAIN rows}
           object == [k \in {m.key : m \in all} |-> (CHOOSE m \in all : m.key = k).object]
<1>1. ASSUME NEW row, NEW m \in Arrivals!Made(row)
      PROVE  "status" \in DOMAIN m.object /\ m.object.status = "approved"
  <2> DEFINE kind == Arrivals!ObjectKind(row)
             id == Arrivals!ResolveId(kind, row.data)
             says(l) == Arrivals!Says(row.data, Arrivals!Structural \cup Locales) \cup
                        {<<"text", IF Arrivals!Cell(row.data, l) # "" THEN row.data[l] ELSE row.data["text"]>>}
             texts == {[key |-> <<kind, Arrivals!TextId(row.data, l)>>,
                        object |-> Arrivals!Imported(l, "", says(l), row.place)] : l \in Arrivals!TextLocales(row.data)}
             one == [key |-> <<kind, id>>,
                     object |-> Arrivals!Imported(Arrivals!Or(Arrivals!GivenName(kind, row.data), id),
                                    Arrivals!Cell(row.data, "type"),
                                    Arrivals!Says(row.data, Arrivals!Structural), row.place)]
  <2>1. Arrivals!Made(row) = IF kind = "none" THEN {} ELSE IF kind = "localized_text" THEN texts ELSE {one}
    <3> HIDE DEF says
    <3>1. CASE kind = "none"
      BY <3>1 DEF Arrivals!Made
    <3>2. CASE kind = "localized_text"
      BY <3>2 DEF Arrivals!Made, says
    <3>3. CASE kind \notin {"none", "localized_text"}
      BY <3>3 DEF Arrivals!Made
    <3> QED
      BY <3>1, <3>2, <3>3
  <2>2. \A name, type, fields, place : 
            LET o == Arrivals!Imported(name, type, fields, place) IN "status" \in DOMAIN o /\ o.status = "approved"
    BY DEF Arrivals!Imported, Arrivals!Object
  <2>3. ASSUME NEW n \in texts PROVE "status" \in DOMAIN n.object /\ n.object.status = "approved"
    <3> HIDE DEF says, kind
    <3>1. PICK l \in Arrivals!TextLocales(row.data) :
             n = [key |-> <<kind, Arrivals!TextId(row.data, l)>>,
                  object |-> Arrivals!Imported(l, "", says(l), row.place)]
      OBVIOUS
    <3>2. n.object = Arrivals!Imported(l, "", says(l), row.place)
      BY <3>1
    <3>3. LET o == Arrivals!Imported(l, "", says(l), row.place) IN "status" \in DOMAIN o /\ o.status = "approved"
      BY DEF Arrivals!Imported, Arrivals!Object
    <3> QED
      BY <3>2, <3>3
  <2>4. "status" \in DOMAIN one.object /\ one.object.status = "approved"
    <3> HIDE DEF kind, id
    <3> QED
      BY <2>2
  <2> HIDE DEF texts, one
  <2> QED
    BY <1>1, <2>1, <2>3, <2>4
<1>2. \A m \in all : "status" \in DOMAIN m.object /\ m.object.status = "approved"
  BY <1>1
<1>3. Arrivals!NormalizeRawObjects(rows).objects = object
  BY DEF Arrivals!NormalizeRawObjects
<1>4. DOMAIN object = {m.key : m \in all} /\ \A k \in DOMAIN object : object[k] = (CHOOSE m \in all : m.key = k).object
  OBVIOUS
<1> HIDE DEF object, all
<1>5. ASSUME NEW k \in DOMAIN object
      PROVE  "status" \in DOMAIN object[k] /\ object[k].status = "approved"
  <2>1. \E m \in all : m.key = k
    BY <1>4
  <2>2. (CHOOSE m \in all : m.key = k) \in all
    BY <2>1
  <2> QED
    BY <2>2, <1>2, <1>4
<1> QED
  BY <1>3, <1>5 DEF Stated, Statuses

\* What is filed awaits review.
LEMMA StagedStated ==
    ASSUME NEW plan, NEW file, NEW canon
    PROVE  Stated(Arrivals!Staged(plan, file, canon).objects)
BY DEF Arrivals!Staged, Arrivals!PlanToBundle, Arrivals!ToEntity, Arrivals!Object, Stated, Statuses

LEMMA ApprovedStated ==
    ASSUME NEW bundle, Stated(bundle.objects), "objects" \in DOMAIN bundle
    PROVE  Stated(Arrivals!Approved(bundle).objects)
<1> DEFINE made == [k \in DOMAIN bundle.objects |->
               IF bundle.objects[k].origin # "human" THEN [bundle.objects[k] EXCEPT !.status = "approved"]
               ELSE bundle.objects[k]]
<1>1. Arrivals!Approved(bundle).objects = made
  BY DEF Arrivals!Approved
<1>2. Stated(made)
  BY DEF Stated, Statuses
<1> QED
  BY <1>1, <1>2


LEMMA UnlinkIs ==
    ASSUME NEW name, NEW other \in DOMAIN uploaded, other # name
    PROVE  other \in DOMAIN Arrivals!Unlink(name) /\ Arrivals!Unlink(name)[other] = uploaded[other]
BY DEF Arrivals!Unlink

\* A step of one request, which may write to the world, and ends or goes on under the name that it has.
LEMMA RequestSteps ==
    ASSUME IntakeInv, NEW c \in Callers, NEW req, at' = [at EXCEPT ![c] = req],
           req.step \in {"idle", "recognising", "editing"}
           \/ (req.step \in {"parsed", "loaded"} /\ (at[c] = Arrivals!Idle => req.name = "")
               /\ (at[c] # Arrivals!Idle => at[c].step \in Reading /\ at[c].name = req.name)),
           past'.mixed = past.mixed,
           uploaded' = uploaded \/ (uploaded' = Arrivals!Unlink(at[c].name) /\ at[c].step \in Reading /\ req.step = "idle")
    PROVE  NamesApart' /\ Arrivals!OwnUpload'
<1>0. DOMAIN at' = Callers /\ at'[c] = req /\ \A d \in Callers \ {c} : at'[d] = at[d]
  BY MovedTo DEF IntakeInv, IntakeShape
<1>1. NamesApart /\ Arrivals!OwnUpload
  BY DEF IntakeInv
<1>2. at'[c].step # "uploaded" /\ \A d \in Callers : at'[d].step = "uploaded" => d # c /\ at'[d] = at[d]
  BY <1>0
<1>3. ASSUME NEW d \in Callers, NEW e \in Callers, d # e, at'[d].step = "uploaded", at'[e].step \in Reading, at'[d].name = at'[e].name
      PROVE  d \in past.mixed
  <2>1. d # c /\ at'[d] = at[d] /\ at[d].name # ""
    BY <1>3, <1>2, <1>1 DEF NamesApart
  <2>2. CASE e # c
    BY <2>1, <2>2, <1>3, <1>0, <1>1 DEF NamesApart
  <2>3. CASE e = c
    <3>1. at'[e] = req /\ req.step \in {"parsed", "loaded"}
      BY <2>3, <1>0, <1>3 DEF Reading
    <3>2. CASE at[c] = Arrivals!Idle
      BY <3>1, <3>2, <2>1, <1>3
    <3>3. CASE at[c] # Arrivals!Idle
      BY <3>1, <3>3, <2>1, <2>3, <1>1, <1>3 DEF NamesApart
    <3> QED
      BY <3>2, <3>3
  <2> QED
    BY <2>2, <2>3
<1>4. NamesApart'
  BY <1>1, <1>2, <1>3 DEF NamesApart
<1>5. ASSUME NEW d \in Callers, d \notin past.mixed, at'[d].step = "uploaded"
      PROVE  at'[d].name \in DOMAIN uploaded' /\ uploaded'[at'[d].name] = at'[d].file
  <2>1. d # c /\ at'[d] = at[d] /\ at[d].name \in DOMAIN uploaded /\ uploaded[at[d].name] = at[d].file
    BY <1>5, <1>2, <1>1 DEF Arrivals!OwnUpload
  <2>2. CASE uploaded' = Arrivals!Unlink(at[c].name) /\ at[c].step \in Reading
    <3>1. at[d].name # at[c].name
      BY <2>1, <2>2, <1>1, <1>5 DEF NamesApart
    <3>2. at[d].name \in DOMAIN uploaded' /\ uploaded'[at[d].name] = uploaded[at[d].name]
      BY <3>1, <2>1, <2>2, UnlinkIs
    <3> QED
      BY <3>2, <2>1
  <2> QED
    BY <2>1, <2>2
<1>6. Arrivals!OwnUpload'
  BY <1>5 DEF Arrivals!OwnUpload
<1> QED
  BY <1>4, <1>6

\* A step of one request that does not write to the world.
LEMMA WorldStays ==
    ASSUME IntakeInv, NEW c \in Callers, NEW req, at' = [at EXCEPT ![c] = req], world' = world,
           req.step \in {"idle", "uploaded", "parsed", "loaded", "recognising", "editing"},
           req.step = "loaded" => req.on = world /\ Stated(req.batch.objects),
           past' = [past EXCEPT !.mixed = past'.mixed]
    PROVE  IntakeShape' /\ EverWritten' /\ StatusesInv' /\ Arrivals!WordIsKept'
<1>0. DOMAIN at' = Callers /\ at'[c] = req /\ \A d \in Callers \ {c} : at'[d] = at[d]
  BY MovedTo DEF IntakeInv, IntakeShape
<1>1. /\ past' = [kept |-> past.kept, lost |-> past.lost, mixed |-> past'.mixed, imported |-> past.imported]
      /\ past'.kept = past.kept /\ past'.lost = past.lost /\ past'.imported = past.imported
  <2>1. past = [kept |-> past.kept, lost |-> past.lost, mixed |-> past.mixed, imported |-> past.imported]
    BY DEF IntakeInv, IntakeShape
  <2> DEFINE k == past.kept  l == past.lost  m == past.mixed  n == past'.mixed  j == past.imported
  <2>2. past = [kept |-> k, lost |-> l, mixed |-> m, imported |-> j] /\ past' = [past EXCEPT !.mixed = n]
    BY <2>1
  <2>3. past' = [kept |-> k, lost |-> l, mixed |-> n, imported |-> j]
    <3> HIDE DEF k, l, m, n, j
    <3> QED
      BY <2>2
  <2> QED
    BY <2>3
<1>2. IntakeShape'
  BY <1>0, <1>1 DEF IntakeInv, IntakeShape
<1>3. EverWritten'
  <2>1. EverWritten
    BY DEF IntakeInv
  <2>2. \A d \in Callers : at'[d].step = "loaded" => DOMAIN at'[d].on.objects \subseteq DOMAIN past.kept
    BY <2>1, <1>0 DEF EverWritten
  <2> QED
    BY <2>1, <2>2, <1>1 DEF EverWritten
<1>4. StatusesInv'
  <2>1. StatusesInv
    BY DEF IntakeInv
  <2>2. \A d \in Callers : at'[d].step = "loaded" => Stated(at'[d].on.objects) /\ Stated(at'[d].batch.objects)
    <3>1. Stated(world.objects)
      BY <2>1 DEF StatusesInv
    <3> QED
      BY <2>1, <1>0, <3>1 DEF StatusesInv
  <2>3. \A d \in Callers : at'[d].step \in {"idle", "uploaded", "parsed", "loaded", "recognising", "editing"}
    BY <2>1, <1>0 DEF StatusesInv
  <2> QED
    BY <2>1, <2>2, <2>3 DEF StatusesInv
<1>5. Arrivals!WordIsKept'
  BY <1>1 DEF IntakeInv, Arrivals!WordIsKept
<1> QED
  BY <1>2, <1>3, <1>4, <1>5

LEMMA UploadKeeps ==
    ASSUME IntakeInv, Arrivals!WellFormed, NEW c \in Callers, NEW f, Arrivals!Upload(c, f)
    PROVE  IntakeInv'
<1> DEFINE name == Files[f].name
           met == Arrivals!Using(name, c)
<1>1. /\ f \in Uploads /\ at[c] = Arrivals!Idle /\ UNCHANGED <<world, queue>>
      /\ uploaded' = [n \in DOMAIN uploaded \cup {name} |-> IF n = name THEN f ELSE uploaded[n]]
      /\ past' = [past EXCEPT !.mixed = IF met = {} THEN past.mixed \ {c} ELSE past.mixed \cup met \cup {c}]
  BY DEF Arrivals!Upload, Arrivals!Take
<1>2. PICK mode \in Arrivals!Modes : at' = [at EXCEPT ![c] = [step |-> "uploaded", file |-> f, mode |-> mode, name |-> name]]
  BY DEF Arrivals!Upload
<1>3. name # ""
  BY <1>1 DEF Arrivals!WellFormed
<1> DEFINE req == [step |-> "uploaded", file |-> f, mode |-> mode, name |-> name]
<1>4. req.step = "uploaded" /\ req.file = f /\ req.name = name
  OBVIOUS
<1> HIDE DEF name, req
<1>5. DOMAIN at' = Callers /\ at'[c] = req /\ \A d \in Callers \ {c} : at'[d] = at[d]
  BY <1>2, MovedTo DEF IntakeInv, IntakeShape, req
<1>6. past'.mixed = IF met = {} THEN past.mixed \ {c} ELSE past.mixed \cup met \cup {c}
  BY <1>1 DEF IntakeInv, IntakeShape
<1>7. met = {d \in Callers \ {c} : at[d].step \in Reading /\ at[d].name = name}
  BY DEF Arrivals!Using, Reading
<1> HIDE DEF met
<1>8. IntakeShape' /\ EverWritten' /\ StatusesInv' /\ Arrivals!WordIsKept'
  BY <1>1, <1>2, <1>4, <1>6, WorldStays DEF req
<1>9. QueueInv'
  BY <1>1 DEF IntakeInv, QueueInv
<1>10. NamesApart'
  <2>0. NamesApart
    BY DEF IntakeInv
  <2>1. \A d \in Callers : at'[d].step = "uploaded" => at'[d].name # ""
    BY <2>0, <1>3, <1>4, <1>5 DEF NamesApart
  <2>2. ASSUME NEW d \in Callers, NEW e \in Callers, d # e, at'[d].step = "uploaded", at'[e].step \in Reading,
               at'[d].name = at'[e].name
        PROVE  d \in past'.mixed
    <3>1. CASE d = c
      <4>1. e \in met
        BY <3>1, <2>2, <1>4, <1>5, <1>7
      <4> QED
        BY <4>1, <3>1, <1>6
    <3>2. CASE e = c
      <4>1. d \in met
        BY <3>2, <2>2, <1>4, <1>5, <1>7 DEF Reading
      <4> QED
        BY <4>1, <1>6
    <3>3. CASE d # c /\ e # c
      <4>1. d \in past.mixed
        BY <3>3, <2>2, <2>0, <1>5 DEF NamesApart
      <4> QED
        BY <4>1, <3>3, <1>6
    <3> QED
      BY <3>1, <3>2, <3>3
  <2> QED
    BY <2>1, <2>2 DEF NamesApart
<1>11. Arrivals!OwnUpload'
  <2>1. ASSUME NEW d \in Callers, d \notin past'.mixed, at'[d].step = "uploaded"
        PROVE  at'[d].name \in DOMAIN uploaded' /\ uploaded'[at'[d].name] = at'[d].file
    <3>1. CASE d = c
      BY <3>1, <1>1, <1>4, <1>5
    <3>2. CASE d # c
      <4>1. d \notin past.mixed /\ d \notin met /\ at'[d] = at[d]
        BY <3>2, <2>1, <1>5, <1>6
      <4>2. at[d].name # name
        BY <4>1, <3>2, <2>1, <1>7 DEF Reading
      <4>3. at[d].name \in DOMAIN uploaded /\ uploaded[at[d].name] = at[d].file
        BY <4>1, <2>1 DEF IntakeInv, Arrivals!OwnUpload
      <4>4. at[d].name \in DOMAIN uploaded' /\ uploaded'[at[d].name] = uploaded[at[d].name]
        BY <1>1, <4>2, <4>3
      <4> QED
        BY <4>1, <4>3, <4>4
    <3> QED
      BY <3>1, <3>2
  <2> QED
    BY <2>1 DEF Arrivals!OwnUpload
<1> QED
  BY <1>8, <1>9, <1>10, <1>11 DEF IntakeInv

\* The steps that leave the world, the queue and what was written alone.
LEMMA QuietKeeps ==
    ASSUME IntakeInv, NEW c \in Callers, NEW req, at' = [at EXCEPT ![c] = req], world' = world, QueueInv', past' = past,
           req.step \in {"idle", "parsed", "loaded", "recognising", "editing"},
           req.step = "loaded" => req.on = world /\ Stated(req.batch.objects),
           req.step \in {"parsed", "loaded"} =>
               (at[c] = Arrivals!Idle => req.name = "")
               /\ (at[c] # Arrivals!Idle => at[c].step \in Reading /\ at[c].name = req.name),
           uploaded' = uploaded \/ (uploaded' = Arrivals!Unlink(at[c].name) /\ at[c].step \in Reading /\ req.step = "idle")
    PROVE  IntakeInv'
<1>1. past' = [past EXCEPT !.mixed = past'.mixed]
  BY DEF IntakeInv, IntakeShape
<1>2. IntakeShape' /\ EverWritten' /\ StatusesInv' /\ Arrivals!WordIsKept'
  BY <1>1, WorldStays
<1>3. NamesApart' /\ Arrivals!OwnUpload'
  BY RequestSteps
<1> QED
  BY <1>2, <1>3 DEF IntakeInv

LEMMA TakenQueue == ASSUME IntakeInv, UNCHANGED queue PROVE QueueInv'
BY DEF IntakeInv, QueueInv

LEMMA Idles == Arrivals!Idle.step = "idle"
BY DEF Arrivals!Idle

LEMMA ParseUploadKeeps ==
    ASSUME IntakeInv, NEW c \in Callers, Arrivals!ParseUpload(c)
    PROVE  IntakeInv'
<1>1. at[c].step = "uploaded" /\ at[c] # Arrivals!Idle /\ UNCHANGED <<world, uploaded, queue, past>>
  BY Idles DEF Arrivals!ParseUpload
<1>2. QueueInv'
  BY <1>1, TakenQueue
<1>3. CASE at' = [at EXCEPT ![c] = Arrivals!Idle]
  BY <1>1, <1>2, <1>3, QuietKeeps, Idles
<1>4. CASE at' # [at EXCEPT ![c] = Arrivals!Idle]
  <2> DEFINE req == [step |-> "parsed", file |-> uploaded[at[c].name], mode |-> at[c].mode,
                     rows |-> Arrivals!ParsePath(Files[uploaded[at[c].name]]), name |-> at[c].name]
  <2>1. at' = [at EXCEPT ![c] = req]
    BY <1>4 DEF Arrivals!ParseUpload, Arrivals!Parsed
  <2>2. req.step = "parsed" /\ req.name = at[c].name
    OBVIOUS
  <2> HIDE DEF req
  <2> QED
    BY <1>1, <1>2, <2>1, <2>2, QuietKeeps DEF Reading
<1> QED
  BY <1>3, <1>4

LEMMA ReadFileKeeps ==
    ASSUME IntakeInv, NEW c \in Callers, NEW f, Arrivals!ReadFile(c, f)
    PROVE  IntakeInv'
<1>1. at[c] = Arrivals!Idle /\ UNCHANGED <<world, uploaded, queue, past>>
  BY DEF Arrivals!ReadFile, Arrivals!Take
<1>2. \E rows, mode : at' = [at EXCEPT ![c] = [step |-> "parsed", file |-> f, mode |-> mode, rows |-> rows, name |-> ""]]
  BY DEF Arrivals!ReadFile, Arrivals!Parsed
<1>3. PICK rows, mode : at' = [at EXCEPT ![c] = [step |-> "parsed", file |-> f, mode |-> mode, rows |-> rows, name |-> ""]]
  BY <1>2
<1> DEFINE req == [step |-> "parsed", file |-> f, mode |-> mode, rows |-> rows, name |-> ""]
<1>4. at' = [at EXCEPT ![c] = req] /\ req.step = "parsed" /\ req.name = ""
  BY <1>3
<1> HIDE DEF req
<1> QED
  BY <1>1, <1>4, QuietKeeps, TakenQueue

LEMMA LoadBatchKeeps ==
    ASSUME IntakeInv, NEW c \in Callers, Arrivals!LoadBatch(c)
    PROVE  IntakeInv'
<1> DEFINE batch == Arrivals!NormalizeRawObjects(at[c].rows)
           req == [step |-> "loaded", file |-> at[c].file, mode |-> at[c].mode, batch |-> batch,
                   on |-> world, name |-> at[c].name]
<1>1. at[c].step = "parsed" /\ at[c] # Arrivals!Idle /\ UNCHANGED <<world, queue, past>>
  BY Idles DEF Arrivals!LoadBatch
<1>2. QueueInv'
  BY <1>1, TakenQueue
<1>3. CASE batch.ok
  <2>1. at' = [at EXCEPT ![c] = req] /\ uploaded' = uploaded
    BY <1>3 DEF Arrivals!LoadBatch
  <2>2. req.step = "loaded" /\ req.on = world /\ req.batch = batch /\ req.name = at[c].name
    OBVIOUS
  <2>3. Stated(batch.objects)
    BY <1>3, BatchStated
  <2> HIDE DEF req, batch
  <2> QED
    BY <1>1, <1>2, <2>1, <2>2, <2>3, QuietKeeps DEF Reading
<1>4. CASE ~batch.ok
  <2>1. at' = [at EXCEPT ![c] = Arrivals!Idle] /\ uploaded' = Arrivals!Unlink(at[c].name)
    BY <1>4 DEF Arrivals!LoadBatch
  <2> QED
    BY <1>1, <1>2, <2>1, QuietKeeps, Idles DEF Reading
<1> QED
  BY <1>3, <1>4

LEMMA ReadKeeps ==
    ASSUME IntakeInv, NEW c \in Callers, NEW s, Arrivals!Read(c, s)
    PROVE  IntakeInv'
<1>1. UNCHANGED <<world, uploaded, queue, past>>
  BY DEF Arrivals!Read
<1>2. PICK apply, asks \in BOOLEAN :
         at' = [at EXCEPT ![c] = [step |-> "recognising", source |-> s, on |-> world, apply |-> apply, asks |-> asks]]
  BY DEF Arrivals!Read
<1> DEFINE req == [step |-> "recognising", source |-> s, on |-> world, apply |-> apply, asks |-> asks]
<1>3. at' = [at EXCEPT ![c] = req] /\ req.step = "recognising"
  BY <1>2
<1> HIDE DEF req
<1> QED
  BY <1>1, <1>3, QuietKeeps, TakenQueue

LEMMA Appended ==
    ASSUME NEW q, q \in Seq({q[i] : i \in DOMAIN q}), NEW x
    PROVE  LET r == Append(q, x)
           IN  /\ r \in Seq({r[i] : i \in DOMAIN r})
               /\ \A i \in DOMAIN r : r[i] = x \/ (i \in DOMAIN q /\ r[i] = q[i])
<1> DEFINE r == Append(q, x)  S == {q[i] : i \in DOMAIN q} \cup {x}
<1>1. q \in Seq(S)
  OBVIOUS
<1> HIDE DEF S
<1>2. x \in S
  BY DEF S
<1>3. /\ Len(r) = Len(q) + 1 /\ r \in Seq(S) /\ DOMAIN r = 1 .. Len(q) + 1 /\ DOMAIN q = 1 .. Len(q) /\ Len(q) \in Nat
      /\ \A i \in 1 .. Len(q) : r[i] = q[i]
      /\ r[Len(q) + 1] = x
  BY <1>1, <1>2
<1> HIDE DEF r
<1>4. \A i \in DOMAIN r : r[i] = x \/ (i \in DOMAIN q /\ r[i] = q[i])
  BY <1>3
<1>5. r \in Seq({r[i] : i \in DOMAIN r})
  BY <1>3
<1> QED
  BY <1>4, <1>5 DEF r

\* Filing what a plan says.
LEMMA FiledIs ==
    ASSUME IntakeInv, NEW plan, NEW s, NEW canon, NEW whole, NEW read, Arrivals!File(plan, s, canon, whole, read)
    PROVE  QueueInv'
<1> DEFINE bundle == Arrivals!Staged(plan, Sources[s].name, canon)
           item == [source |-> s, plan |-> plan, on |-> canon, bundle |-> bundle, whole |-> whole,
                    read |-> read, status |-> "pending_review"]
<1>1. queue' = queue \/ queue' = Append(queue, item)
  BY DEF Arrivals!File
<1>2. Stated(bundle.objects) /\ "objects" \in DOMAIN bundle
  BY StagedStated DEF Arrivals!Staged, Arrivals!PlanToBundle
<1>3. item.bundle = bundle /\ item.status = "pending_review" /\ DOMAIN item = ItemFields
  BY DEF ItemFields
<1> HIDE DEF bundle, item
<1>4. QueueInv
  BY DEF IntakeInv
<1>5. CASE queue' = Append(queue, item)
  <2>1. /\ queue' \in Seq({queue'[i] : i \in DOMAIN queue'})
        /\ \A i \in DOMAIN queue' : queue'[i] = item \/ (i \in DOMAIN queue /\ queue'[i] = queue[i])
    BY <1>4, <1>5, Appended DEF QueueInv
  <2> QED
    BY <2>1, <1>2, <1>3, <1>4 DEF QueueInv
<1> QED
  BY <1>1, <1>4, <1>5, TakenQueue

LEMMA FinishPlanKeeps ==
    ASSUME IntakeInv, NEW c \in Callers, Arrivals!FinishPlan(c)
    PROVE  IntakeInv'
<1> DEFINE req == at[c]
           read == Arrivals!Recognize(Sources[req.source], Arrivals!EntityIds(req.on))
           all == Arrivals!Passages(Sources[req.source], read)
<1>1. UNCHANGED <<world, uploaded, past>>
  BY DEF Arrivals!FinishPlan
<1>2. \E plan :
         IF req.apply
         THEN /\ Arrivals!File(plan, req.source, req.on, TRUE, Arrivals!AsRead(plan, req.on))
              /\ at' = [at EXCEPT ![c] = Arrivals!Idle]
         ELSE /\ at' = [at EXCEPT ![c] = [step |-> "editing", source |-> req.source, plan |-> plan,
                                         read |-> Arrivals!AsRead(plan, req.on)]]
              /\ UNCHANGED queue
  BY DEF Arrivals!FinishPlan
<1>3. PICK plan :
         IF req.apply
         THEN /\ Arrivals!File(plan, req.source, req.on, TRUE, Arrivals!AsRead(plan, req.on))
              /\ at' = [at EXCEPT ![c] = Arrivals!Idle]
         ELSE /\ at' = [at EXCEPT ![c] = [step |-> "editing", source |-> req.source, plan |-> plan,
                                         read |-> Arrivals!AsRead(plan, req.on)]]
              /\ UNCHANGED queue
  BY <1>2
<1>4. CASE req.apply
  <2>1. QueueInv'
    BY <1>3, <1>4, FiledIs
  <2>2. at' = [at EXCEPT ![c] = Arrivals!Idle]
    BY <1>3, <1>4
  <2> QED
    BY <1>1, <2>1, <2>2, QuietKeeps, Idles
<1>5. CASE ~req.apply
  <2> DEFINE new == [step |-> "editing", source |-> req.source, plan |-> plan, read |-> Arrivals!AsRead(plan, req.on)]
  <2>1. at' = [at EXCEPT ![c] = new] /\ new.step = "editing" /\ QueueInv'
    BY <1>3, <1>5, TakenQueue
  <2> HIDE DEF new
  <2> QED
    BY <1>1, <2>1, QuietKeeps
<1> QED
  BY <1>4, <1>5

LEMMA ApplyPlanKeeps ==
    ASSUME IntakeInv, NEW c \in Callers, Arrivals!ApplyPlan(c)
    PROVE  IntakeInv'
<1>1. UNCHANGED <<world, uploaded, past>> /\ at' = [at EXCEPT ![c] = Arrivals!Idle]
  BY DEF Arrivals!ApplyPlan
<1>2. PICK plan \in Arrivals!Trimmed(at[c].plan) :
         Arrivals!File(plan, at[c].source, world, plan = at[c].plan, at[c].read)
  BY DEF Arrivals!ApplyPlan
<1>3. QueueInv'
  BY <1>2, FiledIs
<1> QED
  BY <1>1, <1>3, QuietKeeps, Idles

\* What MergeBundles adds is written, the world that was read comes back, and what has changed since
\* is either the same in the merged world or undone.
LEMMA SaveBatchKeeps ==
    ASSUME IntakeInv, NEW c \in Callers, Arrivals!SaveBatch(c)
    PROVE  IntakeInv'
<1> DEFINE on == at[c].on
           batch == at[c].batch
           merged == Arrivals!MergeBundles(on, batch)
           added == {k \in DOMAIN batch.objects : Arrivals!DiffBundles(on, batch)[k] = "add"}
           new == [k \in added |-> batch.objects[k]]
           kept == Arrivals!Over(new, past.kept)
           undone == Arrivals!Undone(at[c], merged)
           imported == IF Arrivals!Conflicts(on, batch) = {} THEN past.imported \cup {batch.objects} ELSE past.imported
<1>1. /\ at[c].step = "loaded" /\ at' = [at EXCEPT ![c] = Arrivals!Idle] /\ queue' = queue
      /\ uploaded' = Arrivals!Unlink(at[c].name)
  BY DEF Arrivals!SaveBatch
<1>2. QueueInv'
  BY <1>1, TakenQueue
<1>3. CASE ~Arrivals!Writes(at[c])
  <2>1. UNCHANGED <<world, past>>
    BY <1>3 DEF Arrivals!SaveBatch
  <2> QED
    BY <1>1, <1>2, <2>1, QuietKeeps, Idles DEF Reading
<1>4. CASE Arrivals!Writes(at[c])
  <2>0. IntakeShape /\ EverWritten /\ StatusesInv /\ Arrivals!WordIsKept
    BY DEF IntakeInv
  <2>1. world' = merged
    BY <1>4 DEF Arrivals!SaveBatch
  <2>2. past' = [kept |-> kept, lost |-> past.lost \cup undone, mixed |-> past.mixed, imported |-> imported]
    <3>1. past' = [past EXCEPT !.lost = past.lost \cup undone, !.kept = kept, !.imported = imported]
      BY <1>4 DEF Arrivals!SaveBatch
    <3> HIDE DEF kept, undone, imported
    <3>2. past = [kept |-> past.kept, lost |-> past.lost, mixed |-> past.mixed, imported |-> past.imported]
      BY <2>0 DEF IntakeShape
    <3> QED
      BY <3>1, <3>2
  <2>3. /\ past'.kept = kept /\ past'.lost = past.lost \cup undone /\ past'.mixed = past.mixed
        /\ past'.imported = imported
        /\ past' = [kept |-> past'.kept, lost |-> past'.lost, mixed |-> past'.mixed, imported |-> past'.imported]
    <3> HIDE DEF kept, undone, imported
    <3> QED
      BY <2>2
  <2>4. /\ world'.objects = Arrivals!Over(on.objects, batch.objects)
        /\ world' = [objects |-> world'.objects, relations |-> world'.relations]
    BY <2>1 DEF Arrivals!MergeBundles
  <2>5. /\ DOMAIN world'.objects = DOMAIN on.objects \cup DOMAIN batch.objects
        /\ \A k \in DOMAIN on.objects : world'.objects[k] = on.objects[k]
        /\ \A k \in DOMAIN batch.objects \ DOMAIN on.objects : world'.objects[k] = batch.objects[k]
    <3> DEFINE f == on.objects  g == batch.objects
    <3>1. /\ DOMAIN Arrivals!Over(f, g) = DOMAIN f \cup DOMAIN g
          /\ \A k \in DOMAIN f : Arrivals!Over(f, g)[k] = f[k]
          /\ \A k \in DOMAIN g \ DOMAIN f : Arrivals!Over(f, g)[k] = g[k]
      BY OverIs
    <3>2. world'.objects = Arrivals!Over(f, g)
      BY <2>4
    <3> QED
      BY <3>1, <3>2
  <2>6. added = DOMAIN batch.objects \ DOMAIN on.objects
    BY DEF Arrivals!DiffBundles, Arrivals!Conflicts
  <2>7. /\ DOMAIN kept = added \cup DOMAIN past.kept
        /\ \A k \in added : kept[k] = batch.objects[k]
        /\ \A k \in DOMAIN past.kept \ added : kept[k] = past.kept[k]
    <3>1. DOMAIN new = added /\ \A k \in added : new[k] = batch.objects[k]
      OBVIOUS
    <3> HIDE DEF new, added
    <3>2. kept = Arrivals!Over(new, past.kept)
      OBVIOUS
    <3> HIDE DEF kept
    <3>3. /\ DOMAIN Arrivals!Over(new, past.kept) = added \cup DOMAIN past.kept
          /\ \A k \in added : Arrivals!Over(new, past.kept)[k] = new[k]
          /\ \A k \in DOMAIN past.kept \ added : Arrivals!Over(new, past.kept)[k] = past.kept[k]
      BY ONLY <3>1, OverIs
    <3> QED
      BY ONLY <3>1, <3>2, <3>3
  <2>8. undone = {k \in DOMAIN world.objects :
                     (k \notin DOMAIN on.objects \/ on.objects[k] # world.objects[k])
                     /\ (k \notin DOMAIN world'.objects \/ world'.objects[k] # world.objects[k])}
    BY <2>1 DEF Arrivals!Undone
  <2>9. DOMAIN at' = Callers /\ at'[c] = Arrivals!Idle /\ \A d \in Callers \ {c} : at'[d] = at[d]
    BY <1>1, <2>0, MovedTo DEF IntakeShape
  <2>10. DOMAIN on.objects \subseteq DOMAIN past.kept /\ Stated(on.objects) /\ Stated(batch.objects)
    BY <1>1, <2>0 DEF EverWritten, StatusesInv
  <2>11. IntakeShape'
    BY <2>3, <2>4, <2>9 DEF IntakeShape
  <2>12. EverWritten'
    <3>1. DOMAIN world'.objects \subseteq DOMAIN past'.kept
      <4> HIDE DEF on, batch, added, kept, undone, imported
      <4> QED
        BY <2>3, <2>5, <2>6, <2>7, <2>10
    <3>2. ASSUME NEW d \in Callers, at'[d].step = "loaded"
          PROVE  DOMAIN at'[d].on.objects \subseteq DOMAIN past'.kept
      <4>1. d # c /\ at'[d] = at[d]
        BY <3>2, <2>9, Idles
      <4>2. DOMAIN at[d].on.objects \subseteq DOMAIN past.kept
        BY <4>1, <3>2, <2>0 DEF EverWritten
      <4> QED
        BY <4>1, <4>2, <2>3, <2>7
    <3>3. ASSUME NEW objects \in past'.imported
          PROVE  DOMAIN objects \subseteq DOMAIN past'.kept
      <4>1. CASE objects \in past.imported
        BY <4>1, <2>0, <2>3, <2>7 DEF EverWritten
      <4>2. CASE objects \notin past.imported
        <5>1. objects = batch.objects
          BY <3>3, <4>2, <2>3
        <5> HIDE DEF on, batch, added, kept, undone, imported
        <5> QED
          BY <5>1, <2>3, <2>6, <2>7, <2>10
      <4> QED
        BY <4>1, <4>2
    <3> QED
      BY <3>1, <3>2, <3>3 DEF EverWritten
  <2>13. StatusesInv'
    <3>1. Stated(world'.objects)
      BY <2>4, <2>10, OverStated
    <3>2. ASSUME NEW d \in Callers
          PROVE  /\ at'[d].step \in {"idle", "uploaded", "parsed", "loaded", "recognising", "editing"}
                 /\ at'[d].step = "loaded" => Stated(at'[d].on.objects) /\ Stated(at'[d].batch.objects)
      <4>1. CASE d = c
        BY <4>1, <2>9, Idles
      <4>2. CASE d # c
        BY <4>2, <2>9, <2>0 DEF StatusesInv
      <4> QED
        BY <4>1, <4>2
    <3> QED
      BY <3>1, <3>2 DEF StatusesInv
  <2>14. Arrivals!WordIsKept'
    <3>1. ASSUME NEW k \in DOMAIN past'.kept, k \notin past'.lost
          PROVE  k \in DOMAIN world'.objects /\ world'.objects[k] = past'.kept[k]
      <4> HIDE DEF on, batch, added, kept, undone, imported
      <4>1. CASE k \in added
        BY <4>1, <2>3, <2>5, <2>6, <2>7
      <4>2. CASE k \notin added
        <5>1. k \in DOMAIN past.kept /\ past'.kept[k] = past.kept[k] /\ k \notin past.lost /\ k \notin undone
          BY <4>2, <3>1, <2>3, <2>7
        <5>2. k \in DOMAIN world.objects /\ world.objects[k] = past.kept[k]
          BY <5>1, <2>0 DEF Arrivals!WordIsKept
        <5>3. CASE k \in DOMAIN on.objects /\ on.objects[k] = world.objects[k]
          BY <5>1, <5>2, <5>3, <2>5
        <5>4. CASE ~(k \in DOMAIN on.objects /\ on.objects[k] = world.objects[k])
          BY <5>1, <5>2, <5>4, <2>8
        <5> QED
          BY <5>3, <5>4
      <4> QED
        BY <4>1, <4>2
    <3> QED
      BY <3>1 DEF Arrivals!WordIsKept
  <2>15. NamesApart' /\ Arrivals!OwnUpload'
    BY <1>1, <2>3, RequestSteps, Idles DEF Reading
  <2> QED
    BY <1>2, <2>11, <2>12, <2>13, <2>14, <2>15 DEF IntakeInv
<1> QED
  BY <1>3, <1>4

\* A write to the world outside the requests, of some keys, and what was written is the last word.
LEMMA WriteKeeps ==
    ASSUME IntakeInv, UNCHANGED <<uploaded, at>>, QueueInv',
           world' = [objects |-> world'.objects, relations |-> world'.relations],
           DOMAIN world.objects \subseteq DOMAIN world'.objects, Stated(world'.objects),
           past' = [past EXCEPT !.kept = past'.kept],
           DOMAIN past'.kept = DOMAIN past.kept \cup DOMAIN world'.objects,
           \A k \in DOMAIN world'.objects :
               past'.kept[k] = world'.objects[k]
               \/ (k \in DOMAIN world.objects /\ world'.objects[k] = world.objects[k] /\ past'.kept[k] = past.kept[k]),
           \A k \in DOMAIN past.kept \ DOMAIN world'.objects : past'.kept[k] = past.kept[k]
    PROVE  IntakeInv'
<1>1. /\ past' = [kept |-> past'.kept, lost |-> past.lost, mixed |-> past.mixed, imported |-> past.imported]
      /\ past'.lost = past.lost /\ past'.mixed = past.mixed /\ past'.imported = past.imported
  <2> DEFINE k == past.kept  l == past.lost  m == past.mixed  n == past'.kept  j == past.imported
  <2>1. past = [kept |-> k, lost |-> l, mixed |-> m, imported |-> j] /\ past' = [past EXCEPT !.kept = n]
    BY DEF IntakeInv, IntakeShape
  <2>2. past' = [kept |-> n, lost |-> l, mixed |-> m, imported |-> j]
    <3> HIDE DEF k, l, m, n, j
    <3> QED
      BY <2>1
  <2> HIDE DEF n
  <2>3. past'.lost = l /\ past'.mixed = m /\ past'.imported = j
    BY <2>2
  <2> QED
    BY <2>2, <2>3 DEF n
<1>2. IntakeShape' /\ EverWritten' /\ NamesApart' /\ Arrivals!OwnUpload'
  BY <1>1 DEF IntakeInv, IntakeShape, EverWritten, NamesApart, Arrivals!OwnUpload
<1>3. StatusesInv'
  BY DEF IntakeInv, StatusesInv
<1>4. Arrivals!WordIsKept'
  BY <1>1 DEF IntakeInv, EverWritten, Arrivals!WordIsKept
<1> QED
  BY <1>2, <1>3, <1>4 DEF IntakeInv

LEMMA AcceptKeeps ==
    ASSUME IntakeInv, NEW i \in DOMAIN queue, Arrivals!Accept(i)
    PROVE  IntakeInv'
<1> DEFINE bundle == queue[i].bundle
           f == Arrivals!Approved(bundle).objects
           merged == [objects |-> Arrivals!Over(f, world.objects), relations |-> world.relations \o bundle.relations]
<1>0. IntakeShape /\ EverWritten /\ StatusesInv /\ QueueInv
  BY DEF IntakeInv
<1>1. /\ world' = merged /\ UNCHANGED <<uploaded, at>>
      /\ queue' = [queue EXCEPT ![i] = [queue[i] EXCEPT !.status = "accepted"]]
      /\ past' = [past EXCEPT !.kept = Arrivals!Over(f, past.kept)]
  BY DEF Arrivals!Accept, Arrivals!Accepted
<1>2. Stated(f)
  BY <1>0, ApprovedStated DEF QueueInv
<1>3. Stated(world.objects)
  BY <1>0 DEF StatusesInv
<1>4. world'.objects = Arrivals!Over(f, world.objects) /\ world' = [objects |-> world'.objects, relations |-> world'.relations]
  BY <1>1
<1>5. past'.kept = Arrivals!Over(f, past.kept)
  <2> DEFINE n == Arrivals!Over(f, past.kept)
  <2>1. past' = [past EXCEPT !.kept = n]
    BY <1>1
  <2> HIDE DEF n
  <2>2. past'.kept = n
    BY <2>1, <1>0 DEF IntakeShape
  <2> QED
    BY <2>2 DEF n
<1>6. QueueInv'
  <2> DEFINE new == [queue[i] EXCEPT !.status = "accepted"]  S == {queue[j] : j \in DOMAIN queue} \cup {new}
  <2>1. DOMAIN new = ItemFields /\ new.status = "accepted" /\ new.bundle = bundle
    BY <1>0 DEF QueueInv, ItemFields
  <2>2. queue \in Seq(S) /\ queue' = [queue EXCEPT ![i] = new]
    BY <1>0, <1>1 DEF QueueInv
  <2> HIDE DEF S
  <2>3. new \in S
    BY DEF S
  <2> HIDE DEF new, bundle
  <2>4. queue' \in Seq(S) /\ DOMAIN queue' = DOMAIN queue /\ queue'[i] = new /\ \A j \in DOMAIN queue \ {i} : queue'[j] = queue[j]
    BY <2>2, <2>3
  <2>5. queue' \in Seq({queue'[j] : j \in DOMAIN queue'})
    BY <2>4
  <2>6. "objects" \in DOMAIN bundle /\ Stated(bundle.objects)
    BY <1>0 DEF QueueInv, bundle
  <2>7. ASSUME NEW j \in DOMAIN queue'
        PROVE  /\ DOMAIN queue'[j] = ItemFields /\ queue'[j].status \in {"pending_review", "accepted"}
               /\ "objects" \in DOMAIN queue'[j].bundle /\ Stated(queue'[j].bundle.objects)
    <3>1. CASE j = i
      BY <3>1, <2>1, <2>4, <2>6
    <3>2. CASE j # i
      BY <3>2, <2>4, <1>0 DEF QueueInv
    <3> QED
      BY <3>1, <3>2
  <2> QED
    BY <2>5, <2>7 DEF QueueInv
<1>7. /\ DOMAIN world'.objects = DOMAIN f \cup DOMAIN world.objects
      /\ \A k \in DOMAIN f : world'.objects[k] = f[k]
      /\ \A k \in DOMAIN world.objects \ DOMAIN f : world'.objects[k] = world.objects[k]
  <2> HIDE DEF f
  <2> DEFINE g == world.objects
  <2>1. /\ DOMAIN Arrivals!Over(f, g) = DOMAIN f \cup DOMAIN g
        /\ \A k \in DOMAIN f : Arrivals!Over(f, g)[k] = f[k]
        /\ \A k \in DOMAIN g \ DOMAIN f : Arrivals!Over(f, g)[k] = g[k]
    BY OverIs
  <2> QED
    BY <2>1, <1>4
<1>8. /\ DOMAIN past'.kept = DOMAIN f \cup DOMAIN past.kept
      /\ \A k \in DOMAIN f : past'.kept[k] = f[k]
      /\ \A k \in DOMAIN past.kept \ DOMAIN f : past'.kept[k] = past.kept[k]
  <2> HIDE DEF f
  <2> DEFINE g == past.kept
  <2>1. /\ DOMAIN Arrivals!Over(f, g) = DOMAIN f \cup DOMAIN g
        /\ \A k \in DOMAIN f : Arrivals!Over(f, g)[k] = f[k]
        /\ \A k \in DOMAIN g \ DOMAIN f : Arrivals!Over(f, g)[k] = g[k]
    BY OverIs
  <2> QED
    BY <2>1, <1>5
<1>9. Stated(world'.objects)
  BY <1>2, <1>3, <1>4, OverStated
<1>10. past' = [past EXCEPT !.kept = past'.kept]
  BY <1>1, <1>5
<1>11. DOMAIN world.objects \subseteq DOMAIN past.kept
  BY <1>0 DEF EverWritten
<1> HIDE DEF f, merged
<1>12. /\ DOMAIN world.objects \subseteq DOMAIN world'.objects
       /\ DOMAIN past'.kept = DOMAIN past.kept \cup DOMAIN world'.objects
       /\ \A k \in DOMAIN world'.objects :
               past'.kept[k] = world'.objects[k]
               \/ (k \in DOMAIN world.objects /\ world'.objects[k] = world.objects[k] /\ past'.kept[k] = past.kept[k])
       /\ \A k \in DOMAIN past.kept \ DOMAIN world'.objects : past'.kept[k] = past.kept[k]
  BY <1>7, <1>8, <1>11
<1> QED
  BY <1>1, <1>4, <1>6, <1>9, <1>10, <1>12, WriteKeeps

LEMMA HandEditKeeps ==
    ASSUME IntakeInv, NEW k, Arrivals!Edit(k)
    PROVE  IntakeInv'
<1> DEFINE new == [world.objects[k] EXCEPT !.name = "edited"]
           objects == [world.objects EXCEPT ![k] = new]
           word == [j \in {k} |-> world'.objects[j]]
           kept == Arrivals!Over(word, past.kept)
<1>0. IntakeShape /\ EverWritten /\ StatusesInv
  BY DEF IntakeInv
<1>1. k \in DOMAIN world.objects /\ UNCHANGED <<uploaded, queue, at>> /\ past' = [past EXCEPT !.kept = kept]
  BY DEF Arrivals!Edit
<1>2. world' = [world EXCEPT !.objects = objects]
  BY DEF Arrivals!Edit
<1>3. world' = [objects |-> world'.objects, relations |-> world'.relations] /\ world'.objects = objects
  <2> HIDE DEF objects
  <2> QED
    BY <1>0, <1>2 DEF IntakeShape
<1>4. DOMAIN objects = DOMAIN world.objects /\ objects[k] = new /\ \A j \in DOMAIN world.objects \ {k} : objects[j] = world.objects[j]
  BY <1>1
<1>5. new.status = world.objects[k].status /\ DOMAIN new = DOMAIN world.objects[k]
  OBVIOUS
<1> HIDE DEF objects, new
<1>6. Stated(world'.objects)
  BY <1>0, <1>1, <1>3, <1>4, <1>5 DEF StatusesInv, Stated
<1>7. past'.kept = kept
  <2> HIDE DEF kept
  <2> QED
    BY <1>0, <1>1 DEF IntakeShape
<1>8. DOMAIN kept = {k} \cup DOMAIN past.kept /\ kept[k] = world'.objects[k] /\ \A j \in DOMAIN past.kept \ {k} : kept[j] = past.kept[j]
  <2>1. DOMAIN word = {k} /\ word[k] = world'.objects[k]
    OBVIOUS
  <2> HIDE DEF word
  <2> DEFINE g == past.kept
  <2>2. /\ DOMAIN Arrivals!Over(word, g) = DOMAIN word \cup DOMAIN g
        /\ \A j \in DOMAIN word : Arrivals!Over(word, g)[j] = word[j]
        /\ \A j \in DOMAIN g \ DOMAIN word : Arrivals!Over(word, g)[j] = g[j]
    BY OverIs
  <2> QED
    BY <2>1, <2>2
<1> HIDE DEF kept
<1>9. past' = [past EXCEPT !.kept = past'.kept]
  BY <1>1, <1>7
<1>10. QueueInv'
  BY <1>1, TakenQueue
<1>11. DOMAIN world.objects \subseteq DOMAIN past.kept
  BY <1>0 DEF EverWritten
<1>12. /\ DOMAIN world.objects \subseteq DOMAIN world'.objects
       /\ DOMAIN past'.kept = DOMAIN past.kept \cup DOMAIN world'.objects
       /\ \A j \in DOMAIN world'.objects :
               past'.kept[j] = world'.objects[j]
               \/ (j \in DOMAIN world.objects /\ world'.objects[j] = world.objects[j] /\ past'.kept[j] = past.kept[j])
       /\ \A j \in DOMAIN past.kept \ DOMAIN world'.objects : past'.kept[j] = past.kept[j]
  BY <1>1, <1>3, <1>4, <1>7, <1>8, <1>11
<1> QED
  BY <1>1, <1>3, <1>6, <1>9, <1>10, <1>12, WriteKeeps

LEMMA IntakeBegins ==
    ASSUME Arrivals!WellFormed, Arrivals!Init
    PROVE  IntakeInv
<1>1. /\ DOMAIN at = Callers /\ \A c \in Callers : at[c].step = "idle"
      /\ past = [kept |-> FirstWorld.objects, lost |-> {}, mixed |-> {}, imported |-> {}]
      /\ world = FirstWorld /\ queue = <<>>
  BY Idles DEF Arrivals!Init
<1>2. past.kept = FirstWorld.objects /\ past.lost = {} /\ past.mixed = {} /\ past.imported = {}
  BY <1>1
<1>3. IntakeShape
  BY <1>1, <1>2 DEF IntakeShape, Arrivals!WellFormed
<1>4. QueueInv
  BY <1>1 DEF QueueInv
<1>5. EverWritten /\ NamesApart /\ Arrivals!OwnUpload /\ Arrivals!WordIsKept
  BY <1>1, <1>2 DEF EverWritten, NamesApart, Arrivals!OwnUpload, Arrivals!WordIsKept
<1>6. StatusesInv
  BY <1>1 DEF StatusesInv, Arrivals!WellFormed, Stated, Statuses
<1> QED
  BY <1>3, <1>4, <1>5, <1>6 DEF IntakeInv

LEMMA IntakeSteps ==
    ASSUME Arrivals!WellFormed, IntakeInv, [Arrivals!Next]_Arrivals!vars
    PROVE  IntakeInv'
<1>1. CASE UNCHANGED Arrivals!vars
  <2>1. UNCHANGED <<world, uploaded, past, queue, at>>
    BY <1>1 DEF Arrivals!vars
  <2>2. IntakeShape' /\ QueueInv' /\ StatusesInv'
    BY <2>1 DEF IntakeInv, IntakeShape, QueueInv, StatusesInv
  <2>3. EverWritten' /\ NamesApart'
    BY <2>1 DEF IntakeInv, EverWritten, NamesApart
  <2>4. Arrivals!OwnUpload' /\ Arrivals!WordIsKept'
    BY <2>1 DEF IntakeInv, Arrivals!OwnUpload, Arrivals!WordIsKept
  <2> QED
    BY <2>2, <2>3, <2>4 DEF IntakeInv
<1>2. ASSUME NEW c \in Callers, NEW f, Arrivals!Upload(c, f) PROVE IntakeInv'
  BY <1>2, UploadKeeps
<1>3. ASSUME NEW c \in Callers, NEW f, Arrivals!ReadFile(c, f) PROVE IntakeInv'
  BY <1>3, ReadFileKeeps
<1>4. ASSUME NEW c \in Callers, NEW s, Arrivals!Read(c, s) PROVE IntakeInv'
  BY <1>4, ReadKeeps
<1>5. ASSUME NEW c \in Callers, Arrivals!ParseUpload(c) \/ Arrivals!LoadBatch(c) \/ Arrivals!SaveBatch(c) PROVE IntakeInv'
  BY <1>5, ParseUploadKeeps, LoadBatchKeeps, SaveBatchKeeps
<1>6. ASSUME NEW c \in Callers, Arrivals!FinishPlan(c) \/ Arrivals!ApplyPlan(c) PROVE IntakeInv'
  BY <1>6, FinishPlanKeeps, ApplyPlanKeeps
<1>7. ASSUME NEW i \in DOMAIN queue, Arrivals!Accept(i) PROVE IntakeInv'
  BY <1>7, AcceptKeeps
<1>8. ASSUME NEW k, Arrivals!Edit(k) PROVE IntakeInv'
  BY <1>8, HandEditKeeps
<1> QED
  BY <1>1, <1>2, <1>3, <1>4, <1>5, <1>6, <1>7, <1>8 DEF Arrivals!Next

LEMMA IntakeInvAlways ==
    ASSUME Arrivals!WellFormed
    PROVE  Arrivals!Spec => []IntakeInv
<1>1. Arrivals!Init => IntakeInv
  BY IntakeBegins
<1>2. IntakeInv /\ [Arrivals!Next]_Arrivals!vars => IntakeInv'
  BY IntakeSteps
<1> QED
  BY <1>1, <1>2, PTL DEF Arrivals!Spec

LEMMA ReimportsAreQuiet ==
    ASSUME IntakeInv
    PROVE  Arrivals!ReimportIsQuiet
<1>1. ASSUME NEW objects \in past.imported, NEW k \in DOMAIN objects, k \notin past.lost, past.kept[k] = objects[k]
      PROVE  k \notin Arrivals!Conflicts(world, [objects |-> objects])
  <2>1. k \in DOMAIN past.kept
    BY <1>1 DEF IntakeInv, EverWritten
  <2>2. world.objects[k] = objects[k]
    BY <1>1, <2>1 DEF IntakeInv, Arrivals!WordIsKept
  <2> QED
    BY <2>2 DEF Arrivals!Conflicts
<1> QED
  BY <1>1 DEF Arrivals!ReimportIsQuiet

\* run_ingest_action, ingest_table and accept_review_item, by any number of requests at once: what was last
\* written stays unless a save that overlapped with its writing undid it, a request imports what it was
\* sent unless another came under the same name meanwhile, and a batch that was imported whole and not
\* edited since conflicts with nothing when it comes again.
THEOREM ImportsAreKept ==
    ASSUME Arrivals!WellFormed
    PROVE  Arrivals!Spec => [](Arrivals!WordIsKept /\ Arrivals!OwnUpload /\ Arrivals!ReimportIsQuiet)
<1>1. IntakeInv => Arrivals!WordIsKept /\ Arrivals!OwnUpload /\ Arrivals!ReimportIsQuiet
  BY ReimportsAreQuiet DEF IntakeInv
<1> QED
  BY <1>1, IntakeInvAlways, PTL

\* The same: every object of the world is approved or awaits review, and so is every item of the queue.
THEOREM ImportsKeepTypes ==
    ASSUME Arrivals!WellFormed
    PROVE  Arrivals!Spec => []Arrivals!TypeOK
<1>1. IntakeInv => Arrivals!TypeOK
  BY DEF IntakeInv, StatusesInv, QueueInv, Stated, Statuses, Arrivals!TypeOK
<1> QED
  BY <1>1, IntakeInvAlways, PTL

-----------------------------------------------------------------------------
(***************************************************************************)
(* Manuscript                                                              *)
(***************************************************************************)

CONSTANTS Base, Most, Budget, Overlap, Grow, NameOrder, Slugs, Where, Near, Existing,
          TextsPlanned, TextsRead, Replies, GleanRounds, MaxVerdicts
VARIABLES plan, merged, heard, failed, draft, filed

Distilled == INSTANCE Manuscript

LEMMA DistilledCounts == \A S : Distilled!Cardinality(S) = Cardinality(S) /\ (Distilled!IsFiniteSet(S) <=> IsFiniteSet(S))
BY DEF Cardinality, Distilled!Cardinality, IsFiniteSet, Distilled!IsFiniteSet

\* Among numbers there is a first one; induction over the naturals for a set, and below a bound.
LEMMA FirstIs ==
    ASSUME NEW S \in SUBSET Nat, S # {}
    PROVE  \E i \in S : \A j \in S : i <= j
<1>1. IsWellFoundedOn(OpToRel(<, Nat), Nat)
  BY NatLessThanWellFounded
<1>2. PICK m \in S : \A k \in S : ~ (<<k, m>> \in OpToRel(<, Nat))
  <2> DEFINE R == OpToRel(<, Nat)
  <2>1. IsWellFoundedOn(R, Nat)
    BY <1>1
  <2> HIDE DEF R
  <2>2. \E m \in S : \A k \in S : ~ (<<k, m>> \in R)
    BY <2>1, WFMin
  <2> QED
    BY <2>2 DEF R
<1>3. \A k \in S : ~ (k < m)
  BY <1>2 DEF OpToRel
<1>4. m \in S /\ m \in Nat /\ \A k \in S : k \in Nat
  BY <1>2
<1> QED
  BY <1>3, <1>4

LEMMA CountingOn ==
    ASSUME NEW S, 0 \in S, \A n \in Nat : n \in S => n + 1 \in S
    PROVE  Nat \subseteq S
<1> SUFFICES ASSUME Nat \ S # {} PROVE FALSE
  OBVIOUS
<1>1. PICK m \in Nat \ S : \A k \in Nat \ S : m <= k
  BY FirstIs
<1>2. m # 0 /\ m - 1 \in Nat /\ m - 1 < m /\ m - 1 + 1 = m
  OBVIOUS
<1> QED
  BY <1>1, <1>2

LEMMA CountingTo ==
    ASSUME NEW m \in Nat, NEW S, 0 \in S, \A n \in 0..(m - 1) : n \in S => n + 1 \in S
    PROVE  0..m \subseteq S
<1> DEFINE T == {n \in Nat : n \in 0..m => n \in S}
<1>1. 0 \in T
  OBVIOUS
<1>2. ASSUME NEW n \in Nat, n \in T PROVE n + 1 \in T
  <2>1. CASE n + 1 \in 0..m
    <3>1. n \in 0..m /\ n \in 0..(m - 1)
      BY <2>1
    <3> QED
      BY <1>2, <3>1
  <2> QED
    BY <2>1
<1>3. Nat \subseteq T
  <2> HIDE DEF T
  <2> QED
    BY <1>1, <1>2, CountingOn
<1> QED
  BY <1>3

\* Of finitely many places, one has the greatest number.
LEMMA GreatestIs ==
    ASSUME NEW n \in Nat, NEW f \in [1..n -> Nat], NEW M \in SUBSET (1..n), M # {}
    PROVE  \E i \in M : \A j \in M : f[j] <= f[i]
<1> DEFINE Has(m) == \A K \in SUBSET (1..m) : K # {} => \E i \in K : \A j \in K : f[j] <= f[i]
           S == {m \in 0..n : Has(m)}
<1>1. 0 \in S
  <2>1. 1..0 = {} /\ 0 \in 0..n
    OBVIOUS
  <2>2. Has(0)
    BY <2>1
  <2> QED
    BY <2>1, <2>2
<1>2. ASSUME NEW m \in 0..(n - 1), m \in S PROVE m + 1 \in S
  <2> SUFFICES ASSUME NEW K \in SUBSET (1..(m + 1)), K # {}
               PROVE  \E i \in K : \A j \in K : f[j] <= f[i]
    OBVIOUS
  <2>0. \A i \in K : f[i] \in Nat
    OBVIOUS
  <2>1. CASE K \subseteq {m + 1}
    <3>1. K = {m + 1}
      BY <2>1
    <3> QED
      BY <3>1, <2>0
  <2>2. CASE ~(K \subseteq {m + 1})
    <3> DEFINE L == K \ {m + 1}
    <3>1. L \in SUBSET (1..m) /\ L # {}
      BY <2>2
    <3>2. PICK i \in L : \A j \in L : f[j] <= f[i]
      BY <3>1, <1>2
    <3>3. CASE m + 1 \in K /\ f[m + 1] > f[i]
      <4>1. \A j \in K : f[j] <= f[m + 1]
        BY <3>2, <3>3, <2>0
      <4> QED
        BY <3>3, <4>1
    <3>4. CASE ~(m + 1 \in K /\ f[m + 1] > f[i])
      <4>1. \A j \in K : f[j] <= f[i]
        BY <3>2, <3>4, <2>0
      <4> QED
        BY <3>2, <4>1
    <3> QED
      BY <3>3, <3>4
  <2> QED
    BY <2>1, <2>2
<1>3. 0..n \subseteq S
  <2> HIDE DEF S
  <2> QED
    BY <1>1, <1>2, CountingTo
<1>4. Has(n)
  <2>1. n \in 0..n
    OBVIOUS
  <2>2. n \in S
    BY <1>3, <2>1
  <2> HIDE DEF Has
  <2> QED
    BY <2>2
<1> QED
  BY <1>4
SumRun(numbers, upTo) ==
    /\ DOMAIN upTo = 0..Len(numbers)
    /\ upTo[0] = 0
    /\ \A k \in 1..Len(numbers) : upTo[k] = upTo[k - 1] + numbers[k]
    /\ Distilled!Sum(numbers) = upTo[Len(numbers)]
\* The sums of the first numbers.
LEMMA SumLoop ==
    ASSUME NEW numbers, Len(numbers) \in Nat
    PROVE  \E upTo : SumRun(numbers, upTo)
<1> DEFINE m == Len(numbers)
           Is(f, n) == f = [k \in 0..n |-> IF k = 0 THEN 0 ELSE f[k - 1] + numbers[k]]
           S == {n \in Nat : \E f : Is(f, n)}
           upTo == CHOOSE f : Is(f, m)
<1>1. 0 \in S
  <2> DEFINE f == [k \in 0..0 |-> 0]
  <2>1. f = [k \in 0..0 |-> IF k = 0 THEN 0 ELSE f[k - 1] + numbers[k]]
    OBVIOUS
  <2> QED
    BY <2>1
<1>2. ASSUME NEW n \in Nat, n \in S PROVE n + 1 \in S
  <2>1. PICK f : Is(f, n)
    BY <1>2
  <2> DEFINE g == [k \in 0..(n + 1) |-> IF k = n + 1 THEN f[n] + numbers[n + 1] ELSE f[k]]
  <2>2. ASSUME NEW k \in 0..(n + 1)
        PROVE  g[k] = IF k = 0 THEN 0 ELSE g[k - 1] + numbers[k]
    <3>1. CASE k = n + 1
      <4>1. g[n + 1] = f[n] + numbers[n + 1] /\ g[n] = f[n] /\ n + 1 # 0 /\ n + 1 - 1 = n
        OBVIOUS
      <4> HIDE DEF g
      <4> QED
        BY <3>1, <4>1
    <3>2. CASE k \in 0..n
      <4>1. f[k] = IF k = 0 THEN 0 ELSE f[k - 1] + numbers[k]
        BY <2>1, <3>2
      <4>2. k # 0 => g[k - 1] = f[k - 1]
        BY <3>2
      <4>3. g[k] = f[k]
        BY <3>2
      <4> QED
        BY <4>1, <4>2, <4>3
    <3> QED
      BY <3>1, <3>2
  <2>3. Is(g, n + 1)
    <3>1. g = [k \in 0..(n + 1) |-> g[k]]
      OBVIOUS
    <3> HIDE DEF g
    <3> QED
      BY ONLY <2>2, <3>1
  <2>4. \E h : Is(h, n + 1)
    <3> HIDE DEF g
    <3> WITNESS g
    <3> QED
      BY <2>3
  <2> HIDE DEF Is
  <2>5. n + 1 \in Nat
    OBVIOUS
  <2> QED
    BY ONLY <2>4, <2>5
<1>3. Nat \subseteq S
  <2> HIDE DEF S
  <2> QED
    BY <1>1, <1>2, CountingOn
<1>4. Is(upTo, m)
  <2>1. \E f : Is(f, m)
    BY <1>3
  <2> HIDE DEF Is
  <2> QED
    BY <2>1
<1>5. Distilled!Sum(numbers) = upTo[m]
  BY DEF Distilled!Sum
<1> HIDE DEF upTo
<1>6. DOMAIN upTo = 0..m /\ upTo[0] = 0 /\ \A k \in 1..m : upTo[k] = upTo[k - 1] + numbers[k]
  <2>1. m \in Nat
    OBVIOUS
  <2> HIDE DEF m
  <2>2. DOMAIN upTo = 0..m
    BY <1>4
  <2>3. \A k \in 0..m : upTo[k] = IF k = 0 THEN 0 ELSE upTo[k - 1] + numbers[k]
    BY <1>4
  <2>4. 0 \in 0..m /\ \A k \in 1..m : k \in 0..m /\ k # 0
    BY <2>1
  <2> QED
    BY ONLY <2>2, <2>3, <2>4
<1> QED
  BY <1>5, <1>6 DEF SumRun

OnlyRun(seq, places, upTo) ==
    /\ DOMAIN upTo = 0..Len(seq)
    /\ upTo[0] = <<>>
    /\ \A k \in 1..Len(seq) : upTo[k] = (IF k \in places THEN Append(upTo[k - 1], seq[k]) ELSE upTo[k - 1])
    /\ Distilled!Only(seq, places) = upTo[Len(seq)]
\* What is taken of the first elements.
LEMMA OnlyLoop ==
    ASSUME NEW seq, NEW places, Len(seq) \in Nat
    PROVE  \E upTo : OnlyRun(seq, places, upTo)
<1> DEFINE m == Len(seq)
           Is(f, n) == f = [k \in 0..n |-> IF k = 0 THEN <<>> ELSE (IF k \in places THEN Append(f[k - 1], seq[k]) ELSE f[k - 1])]
           S == {n \in Nat : \E f : Is(f, n)}
           upTo == CHOOSE f : Is(f, m)
<1>1. 0 \in S
  <2> DEFINE f == [k \in 0..0 |-> <<>>]
  <2>1. f = [k \in 0..0 |-> IF k = 0 THEN <<>> ELSE (IF k \in places THEN Append(f[k - 1], seq[k]) ELSE f[k - 1])]
    OBVIOUS
  <2> QED
    BY <2>1
<1>2. ASSUME NEW n \in Nat, n \in S PROVE n + 1 \in S
  <2>1. PICK f : Is(f, n)
    BY <1>2
  <2> DEFINE g == [k \in 0..(n + 1) |-> IF k = n + 1 THEN (IF n + 1 \in places THEN Append(f[n], seq[n + 1]) ELSE f[n]) ELSE f[k]]
  <2>2. ASSUME NEW k \in 0..(n + 1)
        PROVE  g[k] = IF k = 0 THEN <<>> ELSE (IF k \in places THEN Append(g[k - 1], seq[k]) ELSE g[k - 1])
    <3>1. CASE k = n + 1
      <4>1. g[n + 1] = (IF n + 1 \in places THEN Append(f[n], seq[n + 1]) ELSE f[n]) /\ g[n] = f[n] /\ n + 1 # 0 /\ n + 1 - 1 = n
        OBVIOUS
      <4> HIDE DEF g
      <4> QED
        BY <3>1, <4>1
    <3>2. CASE k \in 0..n
      <4>1. f[k] = IF k = 0 THEN <<>> ELSE (IF k \in places THEN Append(f[k - 1], seq[k]) ELSE f[k - 1])
        BY <2>1, <3>2
      <4>2. k # 0 => g[k - 1] = f[k - 1]
        BY <3>2
      <4>3. g[k] = f[k]
        BY <3>2
      <4> QED
        BY <4>1, <4>2, <4>3
    <3> QED
      BY <3>1, <3>2
  <2>3. Is(g, n + 1)
    <3>1. g = [k \in 0..(n + 1) |-> g[k]]
      OBVIOUS
    <3> HIDE DEF g
    <3> QED
      BY ONLY <2>2, <3>1
  <2>4. \E h : Is(h, n + 1)
    <3> HIDE DEF g
    <3> WITNESS g
    <3> QED
      BY <2>3
  <2> HIDE DEF Is
  <2>5. n + 1 \in Nat
    OBVIOUS
  <2> QED
    BY ONLY <2>4, <2>5
<1>3. Nat \subseteq S
  <2> HIDE DEF S
  <2> QED
    BY <1>1, <1>2, CountingOn
<1>4. Is(upTo, m)
  <2>1. \E f : Is(f, m)
    BY <1>3
  <2> HIDE DEF Is
  <2> QED
    BY <2>1
<1>5. Distilled!Only(seq, places) = upTo[m]
  BY DEF Distilled!Only
<1> HIDE DEF upTo
<1>6. DOMAIN upTo = 0..m /\ upTo[0] = <<>> /\ \A k \in 1..m : upTo[k] = (IF k \in places THEN Append(upTo[k - 1], seq[k]) ELSE upTo[k - 1])
  <2>1. m \in Nat
    OBVIOUS
  <2> HIDE DEF m
  <2>2. DOMAIN upTo = 0..m
    BY <1>4
  <2>3. \A k \in 0..m : upTo[k] = IF k = 0 THEN <<>> ELSE (IF k \in places THEN Append(upTo[k - 1], seq[k]) ELSE upTo[k - 1])
    BY <1>4
  <2>4. 0 \in 0..m /\ \A k \in 1..m : k \in 0..m /\ k # 0
    BY <2>1
  <2> QED
    BY ONLY <2>2, <2>3, <2>4
<1> QED
  BY <1>5, <1>6 DEF OnlyRun

AddRun(m0, payload, upTo) ==
    /\ DOMAIN upTo = 0..Len(payload.facts)
    /\ upTo[0] = m0.slots
    /\ \A k \in 1..Len(payload.facts) : upTo[k] = Distilled!Put(upTo[k - 1], payload.facts[k])
    /\ Distilled!Add(m0, payload).slots = upTo[Len(payload.facts)]
\* The slots after the first facts of a payload.
LEMMA AddLoop ==
    ASSUME NEW m0, NEW payload, Len(payload.facts) \in Nat
    PROVE  \E upTo : AddRun(m0, payload, upTo)
<1> DEFINE m == Len(payload.facts)
           Is(f, n) == f = [k \in 0..n |-> IF k = 0 THEN m0.slots ELSE Distilled!Put(f[k - 1], payload.facts[k])]
           S == {n \in Nat : \E f : Is(f, n)}
           upTo == CHOOSE f : Is(f, m)
<1>1. 0 \in S
  <2> DEFINE f == [k \in 0..0 |-> m0.slots]
  <2>1. f = [k \in 0..0 |-> IF k = 0 THEN m0.slots ELSE Distilled!Put(f[k - 1], payload.facts[k])]
    OBVIOUS
  <2> QED
    BY <2>1
<1>2. ASSUME NEW n \in Nat, n \in S PROVE n + 1 \in S
  <2>1. PICK f : Is(f, n)
    BY <1>2
  <2> DEFINE g == [k \in 0..(n + 1) |-> IF k = n + 1 THEN Distilled!Put(f[n], payload.facts[n + 1]) ELSE f[k]]
  <2>2. ASSUME NEW k \in 0..(n + 1)
        PROVE  g[k] = IF k = 0 THEN m0.slots ELSE Distilled!Put(g[k - 1], payload.facts[k])
    <3>1. CASE k = n + 1
      <4>1. g[n + 1] = Distilled!Put(f[n], payload.facts[n + 1]) /\ g[n] = f[n] /\ n + 1 # 0 /\ n + 1 - 1 = n
        OBVIOUS
      <4> HIDE DEF g
      <4> QED
        BY <3>1, <4>1
    <3>2. CASE k \in 0..n
      <4>1. f[k] = IF k = 0 THEN m0.slots ELSE Distilled!Put(f[k - 1], payload.facts[k])
        BY <2>1, <3>2
      <4>2. k # 0 => g[k - 1] = f[k - 1]
        BY <3>2
      <4>3. g[k] = f[k]
        BY <3>2
      <4> QED
        BY <4>1, <4>2, <4>3
    <3> QED
      BY <3>1, <3>2
  <2>3. Is(g, n + 1)
    <3>1. g = [k \in 0..(n + 1) |-> g[k]]
      OBVIOUS
    <3> HIDE DEF g
    <3> QED
      BY ONLY <2>2, <3>1
  <2>4. \E h : Is(h, n + 1)
    <3> HIDE DEF g
    <3> WITNESS g
    <3> QED
      BY <2>3
  <2> HIDE DEF Is
  <2>5. n + 1 \in Nat
    OBVIOUS
  <2> QED
    BY ONLY <2>4, <2>5
<1>3. Nat \subseteq S
  <2> HIDE DEF S
  <2> QED
    BY <1>1, <1>2, CountingOn
<1>4. Is(upTo, m)
  <2>1. \E f : Is(f, m)
    BY <1>3
  <2> HIDE DEF Is
  <2> QED
    BY <2>1
<1>5. Distilled!Add(m0, payload).slots = upTo[m]
  BY DEF Distilled!Add
<1> HIDE DEF upTo
<1>6. DOMAIN upTo = 0..m /\ upTo[0] = m0.slots /\ \A k \in 1..m : upTo[k] = Distilled!Put(upTo[k - 1], payload.facts[k])
  <2>1. m \in Nat
    OBVIOUS
  <2> HIDE DEF m
  <2>2. DOMAIN upTo = 0..m
    BY <1>4
  <2>3. \A k \in 0..m : upTo[k] = IF k = 0 THEN m0.slots ELSE Distilled!Put(upTo[k - 1], payload.facts[k])
    BY <1>4
  <2>4. 0 \in 0..m /\ \A k \in 1..m : k \in 0..m /\ k # 0
    BY <2>1
  <2> QED
    BY ONLY <2>2, <2>3, <2>4
<1> QED
  BY <1>5, <1>6 DEF AddRun

TextRun(text, max, upTo) ==
    /\ DOMAIN upTo = 0..Len(text)
    /\ upTo[0] = [chunks |-> <<>>, current |-> Distilled!Chunk(0, 0)]
    /\ \A k \in 1..Len(text) : upTo[k] = Distilled!Packed(upTo[k - 1], text[k], max)
    /\ Distilled!ChunkText(text, max) = (IF upTo[Len(text)].current.size = 0 THEN upTo[Len(text)].chunks ELSE Append(upTo[Len(text)].chunks, upTo[Len(text)].current))
\* The chunks after the first paragraphs.
LEMMA TextLoop ==
    ASSUME NEW text, NEW max, Len(text) \in Nat
    PROVE  \E upTo : TextRun(text, max, upTo)
<1> DEFINE m == Len(text)
           Is(f, n) == f = [k \in 0..n |-> IF k = 0 THEN [chunks |-> <<>>, current |-> Distilled!Chunk(0, 0)] ELSE Distilled!Packed(f[k - 1], text[k], max)]
           S == {n \in Nat : \E f : Is(f, n)}
           upTo == CHOOSE f : Is(f, m)
<1>1. 0 \in S
  <2> DEFINE f == [k \in 0..0 |-> [chunks |-> <<>>, current |-> Distilled!Chunk(0, 0)]]
  <2>1. f = [k \in 0..0 |-> IF k = 0 THEN [chunks |-> <<>>, current |-> Distilled!Chunk(0, 0)] ELSE Distilled!Packed(f[k - 1], text[k], max)]
    OBVIOUS
  <2> QED
    BY <2>1
<1>2. ASSUME NEW n \in Nat, n \in S PROVE n + 1 \in S
  <2>1. PICK f : Is(f, n)
    BY <1>2
  <2> DEFINE g == [k \in 0..(n + 1) |-> IF k = n + 1 THEN Distilled!Packed(f[n], text[n + 1], max) ELSE f[k]]
  <2>2. ASSUME NEW k \in 0..(n + 1)
        PROVE  g[k] = IF k = 0 THEN [chunks |-> <<>>, current |-> Distilled!Chunk(0, 0)] ELSE Distilled!Packed(g[k - 1], text[k], max)
    <3>1. CASE k = n + 1
      <4>1. g[n + 1] = Distilled!Packed(f[n], text[n + 1], max) /\ g[n] = f[n] /\ n + 1 # 0 /\ n + 1 - 1 = n
        OBVIOUS
      <4> HIDE DEF g
      <4> QED
        BY <3>1, <4>1
    <3>2. CASE k \in 0..n
      <4>1. f[k] = IF k = 0 THEN [chunks |-> <<>>, current |-> Distilled!Chunk(0, 0)] ELSE Distilled!Packed(f[k - 1], text[k], max)
        BY <2>1, <3>2
      <4>2. k # 0 => g[k - 1] = f[k - 1]
        BY <3>2
      <4>3. g[k] = f[k]
        BY <3>2
      <4> QED
        BY <4>1, <4>2, <4>3
    <3> QED
      BY <3>1, <3>2
  <2>3. Is(g, n + 1)
    <3>1. g = [k \in 0..(n + 1) |-> g[k]]
      OBVIOUS
    <3> HIDE DEF g
    <3> QED
      BY ONLY <2>2, <3>1
  <2>4. \E h : Is(h, n + 1)
    <3> HIDE DEF g
    <3> WITNESS g
    <3> QED
      BY <2>3
  <2> HIDE DEF Is
  <2>5. n + 1 \in Nat
    OBVIOUS
  <2> QED
    BY ONLY <2>4, <2>5
<1>3. Nat \subseteq S
  <2> HIDE DEF S
  <2> QED
    BY <1>1, <1>2, CountingOn
<1>4. Is(upTo, m)
  <2>1. \E f : Is(f, m)
    BY <1>3
  <2> HIDE DEF Is
  <2> QED
    BY <2>1
<1>5. Distilled!ChunkText(text, max) = (IF upTo[m].current.size = 0 THEN upTo[m].chunks ELSE Append(upTo[m].chunks, upTo[m].current))
  BY DEF Distilled!ChunkText
<1> HIDE DEF upTo
<1>6. DOMAIN upTo = 0..m /\ upTo[0] = [chunks |-> <<>>, current |-> Distilled!Chunk(0, 0)] /\ \A k \in 1..m : upTo[k] = Distilled!Packed(upTo[k - 1], text[k], max)
  <2>1. m \in Nat
    OBVIOUS
  <2> HIDE DEF m
  <2>2. DOMAIN upTo = 0..m
    BY <1>4
  <2>3. \A k \in 0..m : upTo[k] = IF k = 0 THEN [chunks |-> <<>>, current |-> Distilled!Chunk(0, 0)] ELSE Distilled!Packed(upTo[k - 1], text[k], max)
    BY <1>4
  <2>4. 0 \in 0..m /\ \A k \in 1..m : k \in 0..m /\ k # 0
    BY <2>1
  <2> QED
    BY ONLY <2>2, <2>3, <2>4
<1> QED
  BY <1>5, <1>6 DEF TextRun

-----------------------------------------------------------------------------
IsList(x) == x \in Seq(Distilled!Range(x))

LEMMA ListIs ==
    ASSUME NEW x, IsList(x)
    PROVE  /\ Len(x) \in Nat /\ DOMAIN x = 1..Len(x) /\ x = [k \in 1..Len(x) |-> x[k]]
           /\ IsFiniteSet(Distilled!Range(x))
           /\ Distilled!Range(x) = {x[k] : k \in 1..Len(x)}
<1> DEFINE R == Distilled!Range(x)
           g == [k \in 1..Len(x) |-> x[k]]
<1>1. Len(x) \in Nat /\ DOMAIN x = 1..Len(x) /\ x = [k \in 1..Len(x) |-> x[k]]
  BY LenProperties, SeqDef DEF IsList
<1>2. R = {x[k] : k \in 1..Len(x)}
  BY <1>1 DEF Distilled!Range
<1>3. g \in Surjection(1..Len(x), R)
  BY <1>2 DEF Surjection
<1>4. IsFiniteSet(1..Len(x))
  BY <1>1, FS_Interval
<1> HIDE DEF g, R
<1>5. IsFiniteSet(R)
  BY <1>3, <1>4, FS_Surjection
<1> QED
  BY <1>1, <1>2, <1>5 DEF R

\* Whatever is a function on the first numbers is a list.
LEMMA ListMade ==
    ASSUME NEW n \in Nat, NEW x, x = [k \in 1..n |-> x[k]]
    PROVE  IsList(x) /\ Len(x) = n
<1> DEFINE R == Distilled!Range(x)
<1>1. DOMAIN x = 1..n
  BY x = [k \in 1..n |-> x[k]]
<1>2. \A k \in 1..n : x[k] \in R
  BY <1>1 DEF Distilled!Range
<1> HIDE DEF R
<1>3. x \in [1..n -> R]
  BY <1>2
<1>4. x \in Seq(R)
  BY <1>3, SeqDef
<1>5. Len(x) = n
  BY <1>1, <1>4, LenProperties
<1> QED
  BY <1>4, <1>5 DEF R, IsList

LEMMA ListOf ==
    ASSUME NEW x, NEW S, x \in Seq(S)
    PROVE  IsList(x) /\ Distilled!Range(x) \subseteq S
<1>1. Len(x) \in Nat /\ x = [k \in 1..Len(x) |-> x[k]] /\ DOMAIN x = 1..Len(x) /\ \A k \in 1..Len(x) : x[k] \in S
  BY LenProperties, SeqDef, ElementOfSeq
<1>2. Distilled!Range(x) \subseteq S
  BY <1>1 DEF Distilled!Range
<1> QED
  BY <1>1, <1>2, ListMade

LEMMA ListAppended ==
    ASSUME NEW x, IsList(x), NEW e
    PROVE  /\ IsList(Append(x, e)) /\ Len(Append(x, e)) = Len(x) + 1
           /\ Distilled!Range(Append(x, e)) = Distilled!Range(x) \cup {e}
           /\ Append(x, e)[Len(x) + 1] = e
           /\ \A k \in 1..Len(x) : Append(x, e)[k] = x[k]
<1> DEFINE S == Distilled!Range(x) \cup {e}
           y == Append(x, e)
<1>1. Len(x) \in Nat /\ DOMAIN x = 1..Len(x) /\ x = [k \in 1..Len(x) |-> x[k]] /\ \A k \in 1..Len(x) : x[k] \in S
  BY ListIs
<1> HIDE DEF S
<1>2. x \in Seq(S)
  BY <1>1, SeqDef
<1>3. e \in S
  BY DEF S
<1>4. y \in Seq(S) /\ Len(y) = Len(x) + 1 /\ y[Len(x) + 1] = e /\ \A k \in 1..Len(x) : y[k] = x[k]
  BY <1>2, <1>3, AppendProperties
<1> HIDE DEF y
<1>5. IsList(y) /\ DOMAIN y = 1..(Len(x) + 1)
  BY <1>4, ListOf, LenProperties
<1>6. Distilled!Range(y) = Distilled!Range(x) \cup {e}
  BY <1>1, <1>4, <1>5 DEF Distilled!Range
<1> QED
  BY <1>4, <1>5, <1>6 DEF y

LEMMA ListJoined ==
    ASSUME NEW x, IsList(x), NEW y, IsList(y)
    PROVE  /\ IsList(x \o y) /\ Len(x \o y) = Len(x) + Len(y)
           /\ Distilled!Range(x \o y) = Distilled!Range(x) \cup Distilled!Range(y)
           /\ \A k \in 1..Len(x) : (x \o y)[k] = x[k]
           /\ \A k \in 1..Len(y) : (x \o y)[Len(x) + k] = y[k]
<1> DEFINE S == Distilled!Range(x) \cup Distilled!Range(y)
           z == x \o y
<1>1. /\ Len(x) \in Nat /\ DOMAIN x = 1..Len(x) /\ x = [k \in 1..Len(x) |-> x[k]] /\ \A k \in 1..Len(x) : x[k] \in S
      /\ Len(y) \in Nat /\ DOMAIN y = 1..Len(y) /\ y = [k \in 1..Len(y) |-> y[k]] /\ \A k \in 1..Len(y) : y[k] \in S
  BY ListIs
<1>2. \A e \in S : (\E k \in 1..Len(x) : e = x[k]) \/ (\E k \in 1..Len(y) : e = y[k])
  BY ListIs
<1> HIDE DEF S
<1>3. x \in Seq(S) /\ y \in Seq(S)
  BY <1>1, SeqDef
<1>4. z \in Seq(S) /\ Len(z) = Len(x) + Len(y)
      /\ \A k \in 1..(Len(x) + Len(y)) : z[k] = IF k <= Len(x) THEN x[k] ELSE y[k - Len(x)]
  BY <1>3, ConcatProperties
<1> HIDE DEF z
<1>5. IsList(z) /\ DOMAIN z = 1..(Len(x) + Len(y)) /\ Distilled!Range(z) \subseteq S
  BY <1>4, ListOf, LenProperties
<1>6. /\ \A k \in 1..Len(x) : k \in 1..(Len(x) + Len(y)) /\ k <= Len(x)
      /\ \A k \in 1..Len(y) : Len(x) + k \in 1..(Len(x) + Len(y)) /\ ~(Len(x) + k <= Len(x)) /\ Len(x) + k - Len(x) = k
  BY <1>1
<1>7. (\A k \in 1..Len(x) : z[k] = x[k]) /\ (\A k \in 1..Len(y) : z[Len(x) + k] = y[k])
  BY <1>4, <1>6
<1>8. S \subseteq Distilled!Range(z)
  <2>1. Distilled!Range(z) = {z[k] : k \in 1..(Len(x) + Len(y))}
    BY <1>5 DEF Distilled!Range
  <2>2. \A k \in 1..Len(x) : x[k] \in Distilled!Range(z)
    BY <2>1, <1>6, <1>7
  <2>3. \A k \in 1..Len(y) : y[k] \in Distilled!Range(z)
    BY <2>1, <1>6, <1>7
  <2> QED
    BY <2>2, <2>3, <1>2
<1> QED
  BY <1>4, <1>5, <1>7, <1>8 DEF z, S

\* The elements at some places: each once, in a list.
LEMMA OnlyIs ==
    ASSUME NEW seq, IsList(seq), NEW places
    PROVE  LET x == Distilled!Only(seq, places)
           IN  /\ IsList(x) /\ Distilled!Range(x) = {seq[i] : i \in places \cap DOMAIN seq}
               /\ (\A i, j \in DOMAIN seq : seq[i] = seq[j] => i = j) => \A i, j \in DOMAIN x : x[i] = x[j] => i = j
<1> DEFINE n == Len(seq)
           Once(x) == \A i, j \in DOMAIN x : x[i] = x[j] => i = j
<1>1. n \in Nat /\ DOMAIN seq = 1..n
  BY ListIs
<1>2. PICK upTo : OnlyRun(seq, places, upTo)
  BY <1>1, OnlyLoop
<1>7. /\ upTo[0] = <<>> /\ Distilled!Only(seq, places) = upTo[n]
      /\ \A k \in 1..n : upTo[k] = (IF k \in places THEN Append(upTo[k - 1], seq[k]) ELSE upTo[k - 1])
  BY <1>2 DEF OnlyRun
<1> DEFINE Good(k) == /\ IsList(upTo[k]) /\ Distilled!Range(upTo[k]) = {seq[i] : i \in places \cap (1..k)}
                      /\ Once(seq) => Once(upTo[k])
           S == {k \in 0..n : Good(k)}
<1>3. 0 \in S
  <2>1. <<>> = [k \in 1..0 |-> <<>>[k]] /\ 1..0 = {}
    OBVIOUS
  <2>2. IsList(<<>>) /\ Len(<<>>) = 0
    BY <2>1, ListMade
  <2>3. Distilled!Range(<<>>) = {} /\ DOMAIN <<>> = {}
    BY <2>1 DEF Distilled!Range
  <2>4. 0 \in 0..n
    BY <1>1
  <2> QED
    BY <1>7, <2>1, <2>2, <2>3, <2>4
<1>4. ASSUME NEW k \in 0..(n - 1), k \in S PROVE k + 1 \in S
  <2>1. Good(k)
    BY <1>4
  <2>2. k + 1 \in 1..n /\ k + 1 - 1 = k /\ k \in Nat
    BY <1>1
  <2>3. upTo[k + 1] = IF k + 1 \in places THEN Append(upTo[k], seq[k + 1]) ELSE upTo[k]
    BY <1>7, <2>2
  <2>4. 1..(k + 1) = (1..k) \cup {k + 1}
    BY <2>2
  <2>5. CASE k + 1 \in places
    <3> DEFINE x == upTo[k]  y == Append(x, seq[k + 1])
    <3>1. /\ IsList(y) /\ Len(y) = Len(x) + 1 /\ Distilled!Range(y) = Distilled!Range(x) \cup {seq[k + 1]}
          /\ y[Len(x) + 1] = seq[k + 1] /\ \A j \in 1..Len(x) : y[j] = x[j]
      BY <2>1, ListAppended
    <3>2. {seq[i] : i \in places \cap (1..(k + 1))} = {seq[i] : i \in places \cap (1..k)} \cup {seq[k + 1]}
      BY <2>4, <2>5
    <3>3. ASSUME Once(seq) PROVE Once(y)
      <4>1. Once(x)
        BY <2>1, <3>3
      <4>2. DOMAIN x = 1..Len(x) /\ Len(x) \in Nat /\ DOMAIN y = 1..(Len(x) + 1)
        BY <2>1, <3>1, ListIs
      <4>3. seq[k + 1] \notin Distilled!Range(x)
        <5> SUFFICES ASSUME NEW i \in places \cap (1..k), seq[k + 1] = seq[i] PROVE FALSE
          BY <2>1
        <5>1. i \in DOMAIN seq /\ k + 1 \in DOMAIN seq /\ i # k + 1
          BY <1>1, <2>2
        <5> QED
          BY <5>1, <3>3
      <4>4. \A j \in 1..Len(x) : x[j] # seq[k + 1]
        BY <4>2, <4>3 DEF Distilled!Range
      <4>5. \A j \in 1..(Len(x) + 1) : j \in 1..Len(x) \/ j = Len(x) + 1
        BY <4>2
      <4> SUFFICES ASSUME NEW i \in 1..(Len(x) + 1), NEW j \in 1..(Len(x) + 1), y[i] = y[j] PROVE i = j
        BY <4>2
      <4>6. \A a, b \in 1..Len(x) : x[a] = x[b] => a = b
        BY <4>1, <4>2
      <4> HIDE DEF x, y
      <4> QED
        BY <3>1, <4>4, <4>5, <4>6
    <3>4. y = upTo[k + 1]
      BY <2>3, <2>5
    <3>5. Distilled!Range(y) = {seq[i] : i \in places \cap (1..(k + 1))}
      BY <2>1, <3>1, <3>2
    <3> HIDE DEF y
    <3>6. Good(k + 1)
      BY <3>1, <3>3, <3>4, <3>5
    <3> QED
      BY <2>2, <3>6
  <2>6. CASE k + 1 \notin places
    <3>1. {seq[i] : i \in places \cap (1..(k + 1))} = {seq[i] : i \in places \cap (1..k)}
      BY <2>4, <2>6
    <3> QED
      BY <2>1, <2>2, <2>3, <2>6, <3>1
  <2> QED
    BY <2>5, <2>6
<1>5. Good(n)
  <2>1. 0..n \subseteq S
    <3> HIDE DEF S
    <3> QED
      BY <1>1, <1>3, <1>4, CountingTo
  <2>2. n \in 0..n
    BY <1>1
  <2>3. n \in S
    BY <2>1, <2>2
  <2> HIDE DEF Good
  <2> QED
    BY <2>3
<1> QED
  BY <1>1, <1>7, <1>5

-----------------------------------------------------------------------------
Ints(x) == IsList(x) /\ \A k \in 1..Len(x) : x[k] \in Int

LEMMA SumsAre ==
    ASSUME NEW x, Ints(x), NEW upTo, SumRun(x, upTo)
    PROVE  \A k \in 0..Len(x) : upTo[k] \in Int
<1> DEFINE S == {k \in 0..Len(x) : upTo[k] \in Int}
<1>1. Len(x) \in Nat
  BY ListIs DEF Ints
<1>2. 0 \in S
  BY <1>1 DEF SumRun
<1>3. ASSUME NEW k \in 0..(Len(x) - 1), k \in S PROVE k + 1 \in S
  <2>1. k + 1 \in 1..Len(x) /\ k + 1 - 1 = k /\ k + 1 \in 0..Len(x)
    BY <1>1
  <2>2. upTo[k + 1] = upTo[k] + x[k + 1]
    BY <2>1 DEF SumRun
  <2> QED
    BY <2>1, <2>2, <1>3 DEF Ints
<1>4. 0..Len(x) \subseteq S
  <2> HIDE DEF S
  <2> QED
    BY <1>1, <1>2, <1>3, CountingTo
<1> QED
  BY <1>4

LEMMA SumIs ==
    ASSUME NEW x, Ints(x)
    PROVE  Distilled!Sum(x) \in Int /\ \E upTo : SumRun(x, upTo)
<1>1. Len(x) \in Nat
  BY ListIs DEF Ints
<1>2. PICK upTo : SumRun(x, upTo)
  BY <1>1, SumLoop
<1>3. upTo[Len(x)] \in Int
  BY <1>1, <1>2, SumsAre
<1> QED
  BY <1>2, <1>3 DEF SumRun

LEMMA SumJoined ==
    ASSUME NEW x, Ints(x), NEW y, Ints(y)
    PROVE  Ints(x \o y) /\ Distilled!Sum(x \o y) = Distilled!Sum(x) + Distilled!Sum(y)
<1> DEFINE z == x \o y  m == Len(x)  n == Len(y)
<1>1. m \in Nat /\ n \in Nat
  BY ListIs DEF Ints
<1>2. /\ IsList(z) /\ Len(z) = m + n
      /\ \A k \in 1..m : z[k] = x[k]
      /\ \A k \in 1..n : z[m + k] = y[k]
  BY ListJoined DEF Ints
<1>3. Ints(z)
  <2> SUFFICES ASSUME NEW k \in 1..(m + n) PROVE z[k] \in Int
    BY <1>2 DEF Ints
  <2>1. k \in 1..m \/ (k - m \in 1..n /\ m + (k - m) = k)
    BY <1>1
  <2> HIDE DEF z
  <2>2. CASE k \in 1..m
    BY <2>2, <1>2 DEF Ints
  <2>3. CASE k - m \in 1..n /\ m + (k - m) = k
    <3>1. z[k] = y[k - m]
      BY <2>3, <1>2
    <3> QED
      BY <2>3, <3>1 DEF Ints
  <2> QED
    BY <2>1, <2>2, <2>3
<1>4. PICK u : SumRun(x, u)
  BY SumIs
<1>5. PICK v : SumRun(y, v)
  BY SumIs
<1>6. PICK w : SumRun(z, w)
  BY <1>3, SumIs
<1>7. /\ \A k \in 0..m : u[k] \in Int
      /\ \A k \in 0..n : v[k] \in Int
  BY <1>4, <1>5, SumsAre
<1>8. \A k \in 0..m : w[k] = u[k]
  <2> DEFINE S == {k \in 0..m : w[k] = u[k]}
  <2>1. 0 \in S
    BY <1>1, <1>4, <1>6 DEF SumRun
  <2>2. ASSUME NEW k \in 0..(m - 1), k \in S PROVE k + 1 \in S
    <3>1. k + 1 \in 1..m /\ k + 1 \in 1..(m + n) /\ k + 1 - 1 = k /\ k + 1 \in 0..m
      BY <1>1
    <3>2. w[k + 1] = w[k] + z[k + 1] /\ u[k + 1] = u[k] + x[k + 1]
      BY <3>1, <1>2, <1>4, <1>6 DEF SumRun
    <3> QED
      BY <3>1, <3>2, <2>2, <1>2
  <2>3. 0..m \subseteq S
    <3> HIDE DEF S
    <3> QED
      BY <1>1, <2>1, <2>2, CountingTo
  <2> QED
    BY <2>3
<1>9. \A k \in 0..n : w[m + k] = u[m] + v[k]
  <2> DEFINE S == {k \in 0..n : w[m + k] = u[m] + v[k]}
  <2>1. 0 \in S
    <3>1. v[0] = 0 /\ m \in 0..m /\ m + 0 = m /\ 0 \in 0..n
      BY <1>1, <1>5 DEF SumRun
    <3>2. w[m] = u[m] /\ u[m] \in Int
      BY <3>1, <1>8, <1>7
    <3> QED
      BY <3>1, <3>2
  <2>2. ASSUME NEW k \in 0..(n - 1), k \in S PROVE k + 1 \in S
    <3>1. /\ k + 1 \in 1..n /\ m + (k + 1) \in 1..(m + n) /\ k + 1 - 1 = k /\ k + 1 \in 0..n /\ k \in 0..n
          /\ m + (k + 1) - 1 = m + k /\ m \in 0..m
      BY <1>1
    <3>2. w[m + (k + 1)] = w[m + k] + z[m + (k + 1)] /\ v[k + 1] = v[k] + y[k + 1]
      <4>1. w[m + (k + 1)] = w[m + (k + 1) - 1] + z[m + (k + 1)]
        BY <3>1, <1>2, <1>6 DEF SumRun
      <4>2. v[k + 1] = v[k + 1 - 1] + y[k + 1]
        BY <3>1, <1>5 DEF SumRun
      <4> QED
        BY <3>1, <4>1, <4>2
    <3>3. z[m + (k + 1)] = y[k + 1] /\ y[k + 1] \in Int /\ v[k] \in Int /\ u[m] \in Int
      BY <3>1, <1>2, <1>7 DEF Ints
    <3>4. w[m + k] = u[m] + v[k]
      BY <2>2
    <3> QED
      BY <3>1, <3>2, <3>3, <3>4
  <2>3. 0..n \subseteq S
    <3> HIDE DEF S
    <3> QED
      BY <1>1, <2>1, <2>2, CountingTo
  <2> QED
    BY <2>3
<1>10. w[m + n] = u[m] + v[n]
  BY <1>1, <1>9
<1> QED
  BY <1>2, <1>3, <1>4, <1>5, <1>6, <1>10 DEF SumRun

LEMMA SumOfOne ==
    ASSUME NEW e \in Int
    PROVE  Ints(<<e>>) /\ Distilled!Sum(<<e>>) = e /\ Ints(<<>>) /\ Distilled!Sum(<<>>) = 0
<1>1. <<e>> = [k \in 1..1 |-> <<e>>[k]] /\ <<e>>[1] = e /\ <<>> = [k \in 1..0 |-> <<>>[k]] /\ 1..0 = {}
  OBVIOUS
<1>2. IsList(<<e>>) /\ Len(<<e>>) = 1 /\ IsList(<<>>) /\ Len(<<>>) = 0
  BY <1>1, ListMade
<1>3. Ints(<<e>>) /\ Ints(<<>>)
  BY <1>1, <1>2 DEF Ints
<1>4. PICK u : SumRun(<<e>>, u)
  BY <1>3, SumIs
<1>5. PICK v : SumRun(<<>>, v)
  BY <1>3, SumIs
<1>6. u[1] = u[0] + e /\ u[0] = 0 /\ Distilled!Sum(<<e>>) = u[1]
  BY <1>1, <1>2, <1>4 DEF SumRun
<1> QED
  BY <1>2, <1>3, <1>5, <1>6 DEF SumRun

-----------------------------------------------------------------------------
IsChunk(c) ==
    /\ c = Distilled!Chunk(c.size, c.own) /\ c.size \in Nat /\ c.own \in Nat
    /\ c.size - Overlap <= c.own /\ c.own <= c.size
Chunks(x) == IsList(x) /\ \A k \in 1..Len(x) : IsChunk(x[k])
OwnOf(x) == Distilled!Sum(Distilled!Owns(x))

LEMMA ChunkIs ==
    ASSUME NEW size, NEW own
    PROVE  Distilled!Chunk(size, own).size = size /\ Distilled!Chunk(size, own).own = own
BY DEF Distilled!Chunk

LEMMA OwnsAre ==
    ASSUME NEW x, Chunks(x)
    PROVE  /\ Ints(Distilled!Owns(x)) /\ Len(Distilled!Owns(x)) = Len(x)
           /\ \A k \in 1..Len(x) : Distilled!Owns(x)[k] = x[k].own
           /\ Ints(Distilled!Sizes(x)) /\ Len(Distilled!Sizes(x)) = Len(x)
           /\ \A k \in 1..Len(x) : Distilled!Sizes(x)[k] = x[k].size
           /\ OwnOf(x) \in Int
<1> DEFINE y == Distilled!Owns(x)  z == Distilled!Sizes(x)
<1>1. Len(x) \in Nat /\ DOMAIN x = 1..Len(x)
  BY ListIs DEF Chunks
<1>2. y = [k \in 1..Len(x) |-> x[k].own] /\ z = [k \in 1..Len(x) |-> x[k].size]
  BY <1>1 DEF Distilled!Owns, Distilled!Sizes
<1>3. \A k \in 1..Len(x) : x[k].own \in Int /\ x[k].size \in Int
  BY DEF Chunks, IsChunk
<1> HIDE DEF y, z
<1>4. y = [k \in 1..Len(x) |-> y[k]] /\ z = [k \in 1..Len(x) |-> z[k]]
  BY <1>2
<1>5. IsList(y) /\ Len(y) = Len(x) /\ IsList(z) /\ Len(z) = Len(x)
  BY <1>1, <1>4, ListMade
<1>6. Ints(y) /\ Ints(z)
  BY <1>2, <1>3, <1>5 DEF Ints
<1>7. Distilled!Sum(y) \in Int
  BY <1>6, SumIs
<1> QED
  BY <1>2, <1>5, <1>6, <1>7 DEF y, z, OwnOf

LEMMA OwnsJoined ==
    ASSUME NEW x, Chunks(x), NEW y, Chunks(y)
    PROVE  Chunks(x \o y) /\ OwnOf(x \o y) = OwnOf(x) + OwnOf(y)
<1> DEFINE z == x \o y  a == Distilled!Owns(x)  b == Distilled!Owns(y)  c == Distilled!Owns(z)
           m == Len(x)  n == Len(y)
<1>1. m \in Nat /\ n \in Nat
  BY ListIs DEF Chunks
<1>2. /\ IsList(z) /\ Len(z) = m + n
      /\ \A k \in 1..m : z[k] = x[k]
      /\ \A k \in 1..n : z[m + k] = y[k]
  BY ListJoined DEF Chunks
<1>3. \A k \in 1..(m + n) : k \in 1..m \/ (k - m \in 1..n /\ m + (k - m) = k)
  BY <1>1
<1>4. Chunks(z)
  <2> SUFFICES ASSUME NEW k \in 1..(m + n) PROVE IsChunk(z[k])
    BY <1>2 DEF Chunks
  <2> HIDE DEF z
  <2>1. CASE k \in 1..m
    BY <2>1, <1>2 DEF Chunks
  <2>2. CASE k - m \in 1..n /\ m + (k - m) = k
    <3>1. z[k] = y[k - m]
      BY <2>2, <1>2
    <3> QED
      BY <2>2, <3>1 DEF Chunks
  <2> QED
    BY <1>3, <2>1, <2>2
<1>5. /\ Ints(a) /\ Len(a) = m /\ \A k \in 1..m : a[k] = x[k].own
      /\ Ints(b) /\ Len(b) = n /\ \A k \in 1..n : b[k] = y[k].own
  BY OwnsAre
<1>6. Ints(c) /\ Len(c) = m + n /\ \A k \in 1..(m + n) : c[k] = z[k].own
  <2> HIDE DEF z
  <2> QED
    BY <1>2, <1>4, OwnsAre
<1>7. /\ Ints(a \o b) /\ Len(a \o b) = m + n
      /\ \A k \in 1..m : (a \o b)[k] = a[k]
      /\ \A k \in 1..n : (a \o b)[m + k] = b[k]
      /\ Distilled!Sum(a \o b) = Distilled!Sum(a) + Distilled!Sum(b)
  <2>1. IsList(a) /\ IsList(b)
    BY <1>5 DEF Ints
  <2>2. Ints(a) /\ Ints(b) /\ Len(a) = m /\ Len(b) = n
    BY <1>5
  <2> HIDE DEF a, b, m, n
  <2>3. /\ Len(a \o b) = m + n
        /\ \A k \in 1..m : (a \o b)[k] = a[k]
        /\ \A k \in 1..n : (a \o b)[m + k] = b[k]
    <3>1. /\ Len(a \o b) = Len(a) + Len(b)
          /\ \A k \in 1..Len(a) : (a \o b)[k] = a[k]
          /\ \A k \in 1..Len(b) : (a \o b)[Len(a) + k] = b[k]
      BY <2>1, ListJoined
    <3> QED
      BY ONLY <3>1, <2>2
  <2> QED
    BY <2>2, <2>3, SumJoined
<1>8. c = a \o b
  <2> DEFINE d == a \o b
  <2>1. c = [k \in 1..(m + n) |-> c[k]]
    BY <1>6, ListIs DEF Ints
  <2>2. d = [k \in 1..(m + n) |-> d[k]]
    BY <1>7, ListIs DEF Ints
  <2>3. \A k \in 1..(m + n) : c[k] = d[k]
    <3> SUFFICES ASSUME NEW k \in 1..(m + n) PROVE c[k] = d[k]
      OBVIOUS
    <3> HIDE DEF a, b, c, d, z
    <3>0. (\A j \in 1..m : d[j] = a[j]) /\ \A j \in 1..n : d[m + j] = b[j]
      BY <1>7 DEF d
    <3>1. CASE k \in 1..m
      BY <3>0, <3>1, <1>2, <1>5, <1>6
    <3>2. CASE k - m \in 1..n /\ m + (k - m) = k
      <4>1. z[k] = y[k - m] /\ d[k] = b[k - m]
        BY <3>0, <3>2, <1>2
      <4> QED
        BY <3>2, <4>1, <1>5, <1>6
    <3> QED
      BY <1>3, <3>1, <3>2
  <2> HIDE DEF c, d
  <2> QED
    BY <2>1, <2>2, <2>3 DEF d
<1> QED
  BY <1>4, <1>7, <1>8 DEF OwnOf

LEMMA OwnsOfOne ==
    ASSUME NEW e, IsChunk(e)
    PROVE  Chunks(<<e>>) /\ Len(<<e>>) = 1 /\ <<e>>[1] = e /\ OwnOf(<<e>>) = e.own
           /\ Chunks(<<>>) /\ Len(<<>>) = 0 /\ OwnOf(<<>>) = 0
<1>1. <<e>> = [k \in 1..1 |-> <<e>>[k]] /\ <<e>>[1] = e /\ <<>> = [k \in 1..0 |-> <<>>[k]] /\ 1..0 = {}
  OBVIOUS
<1>2. IsList(<<e>>) /\ Len(<<e>>) = 1 /\ IsList(<<>>) /\ Len(<<>>) = 0
  BY <1>1, ListMade
<1>3. Chunks(<<e>>) /\ Chunks(<<>>)
  BY <1>1, <1>2 DEF Chunks
<1>4. Distilled!Owns(<<e>>) = <<e.own>> /\ Distilled!Owns(<<>>) = <<>>
  BY <1>1 DEF Distilled!Owns
<1>5. e.own \in Int
  BY DEF IsChunk
<1> QED
  BY <1>1, <1>2, <1>3, <1>4, <1>5, SumOfOne DEF OwnOf

\* A list without its last element, and with it.
LEMMA FrontIs ==
    ASSUME NEW x, IsList(x), x # <<>>
    PROVE  /\ Len(x) \in Nat \ {0}
           /\ IsList(Distilled!Front(x)) /\ Len(Distilled!Front(x)) = Len(x) - 1
           /\ \A k \in 1..(Len(x) - 1) : Distilled!Front(x)[k] = x[k]
           /\ Distilled!Last(x) = x[Len(x)]
           /\ x = Distilled!Front(x) \o <<Distilled!Last(x)>>
<1> DEFINE n == Len(x)  R == Distilled!Range(x)
<1>1. n \in Nat /\ DOMAIN x = 1..n /\ x \in Seq(R) /\ \A k \in 1..n : x[k] \in R
  BY ListIs DEF IsList, Distilled!Range
<1>2. n # 0
  BY <1>1, EmptySeq
<1>3. Distilled!Front(x) = SubSeq(x, 1, n - 1) /\ Distilled!Last(x) = x[n]
  BY DEF Distilled!Front, Distilled!Last
<1> HIDE DEF R
<1>4. /\ SubSeq(x, 1, n - 1) \in Seq(R)
      /\ Len(SubSeq(x, 1, n - 1)) = (IF 1 <= n - 1 THEN n - 1 - 1 + 1 ELSE 0)
      /\ \A k \in 1..(n - 1 - 1 + 1) : SubSeq(x, 1, n - 1)[k] = x[1 + k - 1]
  <2>1. 1 \in Int /\ n - 1 \in Int /\ \A k \in 1..(n - 1) : x[k] \in R
    BY <1>1
  <2> QED
    BY <2>1, SubSeqProperties
<1>5. SubSeq(x, 1, n) = SubSeq(x, 1, n - 1) \o <<x[n]>> /\ SubSeq(x, 1, n) = x
  <2>1. 1 \in 1..n /\ n \in 1..n
    BY <1>1, <1>2
  <2> QED
    BY <1>1, <2>1, SubSeqRecursiveSecond, SubSeqFull
<1>6. IsList(SubSeq(x, 1, n - 1))
  BY <1>4, ListOf
<1>7. Len(SubSeq(x, 1, n - 1)) = n - 1 /\ \A k \in 1..(n - 1) : SubSeq(x, 1, n - 1)[k] = x[k]
  BY <1>1, <1>2, <1>4
<1> QED
  BY <1>1, <1>2, <1>3, <1>5, <1>6, <1>7


-----------------------------------------------------------------------------
Sized(max) == max \in Nat /\ Overlap \in Nat /\ Overlap < max

\* A paragraph is cut into pieces that own it: each has something, and the first owns what it has.
LEMMA PiecesAre ==
    ASSUME NEW max, Sized(max), NEW p \in Nat \ {0}
    PROVE  LET x == Distilled!Pieces(p, max)
           IN  /\ Chunks(x) /\ Len(x) # 0 /\ OwnOf(x) = p
               /\ x[1].own = x[1].size /\ \A k \in 1..Len(x) : x[k].size # 0
<1> DEFINE rest(n) == p - n * (max - Overlap)
           cuts    == CHOOSE n \in 0..p : rest(n) <= max /\ \A m \in 0..(n - 1) : rest(m) > max
           size(n) == IF n < cuts THEN max ELSE rest(n)
           own(k)  == IF k = 1 THEN size(0) ELSE size(k - 1) - Overlap
           x == Distilled!Pieces(p, max)
<1>1. max \in Nat /\ Overlap \in Nat /\ Overlap < max /\ p \in Nat /\ p # 0
  BY DEF Sized
<1>2. \A n \in Nat : rest(n) \in Int /\ rest(n + 1) = rest(n) - (max - Overlap)
  <2> SUFFICES ASSUME NEW n \in Nat PROVE rest(n) \in Int /\ rest(n + 1) = rest(n) - (max - Overlap)
    OBVIOUS
  <2> DEFINE d == max - Overlap
  <2>1. d \in Int
    BY <1>1
  <2> HIDE DEF d
  <2>2. n * d \in Int /\ (n + 1) * d = n * d + d
    BY <2>1
  <2>3. p - n * d \in Int /\ p - (n + 1) * d = p - n * d - d
    BY <1>1, <2>1, <2>2
  <2> QED
    BY <2>3 DEF d
<1>3. rest(0) = p
  <2>1. 0 * (max - Overlap) = 0
    BY <1>1
  <2> QED
    BY <1>1, <2>1
<1>4. rest(p) <= max
  <2> DEFINE S == {n \in Nat : rest(n) <= p - n}
  <2>1. 0 \in S
    BY <1>1, <1>3
  <2>2. ASSUME NEW n \in Nat, n \in S PROVE n + 1 \in S
    <3> HIDE DEF rest
    <3>1. rest(n) \in Int /\ rest(n + 1) = rest(n) - (max - Overlap) /\ rest(n + 1) \in Int
      BY <1>2
    <3>2. rest(n) <= p - n /\ n + 1 \in Nat
      BY <2>2
    <3>3. rest(n + 1) <= p - (n + 1)
      BY <1>1, <3>1, <3>2
    <3> QED
      BY <3>2, <3>3
  <2>3. p \in S
    <3> HIDE DEF S
    <3> QED
      BY <1>1, <2>1, <2>2, CountingOn
  <2> HIDE DEF rest
  <2>4. rest(p) <= p - p /\ rest(p) \in Int
    BY <1>1, <1>2, <2>3
  <2> QED
    BY <1>1, <2>4
<1>5. /\ cuts \in 0..p /\ rest(cuts) <= max /\ \A m \in 0..(cuts - 1) : rest(m) > max
  <2> HIDE DEF rest
  <2> DEFINE S == {n \in 0..p : rest(n) <= max}
  <2>1. p \in S /\ S \in SUBSET Nat
    BY <1>1, <1>4
  <2>2. PICK n \in S : \A m \in S : n <= m
    <3> HIDE DEF S
    <3> QED
      BY <2>1, FirstIs
  <2>3. n \in 0..p /\ rest(n) <= max
    BY <2>2
  <2>4. ASSUME NEW m \in 0..(n - 1) PROVE rest(m) > max
    <3>1. m \in 0..p /\ m < n /\ m \in Nat /\ n \in Nat
      BY <2>3, <1>1
    <3>2. m \notin S
      BY <2>2, <3>1
    <3>3. rest(m) \in Int /\ ~(rest(m) <= max)
      BY <3>1, <3>2, <1>2
    <3> QED
      BY <3>3, <1>1
  <2>5. \E c \in 0..p : rest(c) <= max /\ \A m \in 0..(c - 1) : rest(m) > max
    BY <2>3, <2>4
  <2> QED
    BY <2>5
<1>6. x = [k \in 1..(cuts + 1) |-> Distilled!Chunk(size(k - 1), own(k))]
  BY DEF Distilled!Pieces
<1> HIDE DEF cuts, rest, x
<1>7. cuts \in Nat /\ rest(cuts) \in Int /\ (cuts # 0 => Overlap < rest(cuts)) /\ 0 < rest(cuts)
  <2>1. cuts \in Nat
    BY <1>5, <1>1
  <2>2. CASE cuts = 0
    BY <2>2, <1>1, <1>2, <1>3
  <2>3. CASE cuts # 0
    <3>1. cuts - 1 \in 0..(cuts - 1) /\ cuts - 1 \in Nat /\ cuts - 1 + 1 = cuts
      BY <2>1, <2>3
    <3>2. rest(cuts - 1) > max /\ rest(cuts - 1) \in Int /\ rest(cuts) = rest(cuts - 1) - (max - Overlap)
      BY <3>1, <1>5, <1>2
    <3> QED
      BY <2>1, <3>2, <1>1
  <2> QED
    BY <2>1, <2>2, <2>3
<1>8. /\ \A k \in 1..(cuts + 1) : x[k].size = size(k - 1) /\ x[k].own = own(k) /\ x[k] = Distilled!Chunk(x[k].size, x[k].own)
      /\ IsList(x) /\ Len(x) = cuts + 1
  <2> HIDE DEF size, own
  <2>1. \A k \in 1..(cuts + 1) : x[k] = Distilled!Chunk(size(k - 1), own(k))
    BY <1>6
  <2>2. x = [k \in 1..(cuts + 1) |-> x[k]] /\ cuts + 1 \in Nat
    BY <1>6, <1>7
  <2>3. \A k \in 1..(cuts + 1) : x[k].size = size(k - 1) /\ x[k].own = own(k)
    BY <2>1, ChunkIs
  <2> QED
    BY <2>1, <2>2, <2>3, ListMade
<1>9. \A k \in 1..(cuts + 1) : /\ k = cuts + 1 => size(k - 1) = rest(cuts)
                               /\ k # cuts + 1 => size(k - 1) = max
  BY <1>7
<1>10. ASSUME NEW k \in 1..(cuts + 1)
       PROVE  /\ x[k].size \in Nat /\ x[k].size # 0 /\ x[k].own \in Nat
              /\ x[k].size - Overlap <= x[k].own /\ x[k].own <= x[k].size
              /\ k = 1 => x[k].own = x[k].size
              /\ k # 1 => x[k].own = x[k].size - Overlap
  <2>1. x[k].size \in Nat /\ x[k].size # 0 /\ (k # 1 => Overlap < x[k].size)
    <3>1. CASE k = cuts + 1
      <4>1. x[k].size = rest(cuts)
        BY <3>1, <1>8, <1>9
      <4>2. k # 1 => cuts # 0
        BY <3>1, <1>7
      <4> QED
        BY <4>1, <4>2, <1>7
    <3>2. CASE k # cuts + 1
      <4>1. x[k].size = max
        BY <3>2, <1>8, <1>9
      <4> QED
        BY <4>1, <1>1
    <3> QED
      BY <3>1, <3>2
  <2>2. (k = 1 => x[k].own = x[k].size) /\ (k # 1 => x[k].own = x[k].size - Overlap)
    <3>1. k = 1 => k - 1 = 0
      OBVIOUS
    <3> HIDE DEF size
    <3> QED
      BY <3>1, <1>8
  <2> QED
    BY <1>1, <2>1, <2>2
<1>11. Chunks(x)
  BY <1>8, <1>10 DEF Chunks, IsChunk
<1> DEFINE y == Distilled!Owns(x)
<1>12. Ints(y) /\ Len(y) = cuts + 1 /\ \A k \in 1..(cuts + 1) : y[k] = x[k].own
  BY <1>8, <1>11, OwnsAre
<1>13. PICK u : SumRun(y, u)
  BY <1>12, SumIs
<1>14. u[0] = 0 /\ Distilled!Sum(y) = u[cuts + 1] /\ \A k \in 1..(cuts + 1) : u[k] = u[k - 1] + x[k].own
  BY <1>12, <1>13 DEF SumRun
<1>15. 1 \in 1..(cuts + 1) /\ u[1] = x[1].size
  <2>1. 1 \in 1..(cuts + 1)
    BY <1>7
  <2>2. u[1] = u[1 - 1] + x[1].own
    BY <2>1, <1>14
  <2> QED
    BY <2>1, <2>2, <1>14, <1>10
<1>16. CASE cuts = 0
  <2>1. x[1].size = p
    BY <1>15, <1>16, <1>8, <1>9, <1>3
  <2>2. OwnOf(x) = p
    BY <2>1, <1>14, <1>15, <1>16 DEF OwnOf
  <2> QED
    BY <1>8, <1>10, <1>11, <1>15, <1>16, <2>2 DEF x
<1>17. CASE cuts # 0
  <2> DEFINE S == {k \in 0..(cuts - 1) : u[k + 1] = p - rest(k + 1) + Overlap}
  <2>1. 0 \in S
    <3>1. u[1] = max
      BY <1>15, <1>17, <1>7, <1>8, <1>9
    <3>2. rest(0 + 1) = rest(0) - (max - Overlap) /\ 0 \in Nat /\ 0 + 1 = 1
      BY <1>2
    <3>3. p - rest(1) + Overlap = max
      BY <3>2, <1>3, <1>1
    <3>4. 0 \in 0..(cuts - 1)
      BY <1>17, <1>7
    <3> QED
      BY <3>1, <3>2, <3>3, <3>4
  <2>2. ASSUME NEW k \in 0..(cuts - 1 - 1), k \in S PROVE k + 1 \in S
    <3>1. k \in Nat /\ k + 1 \in 0..(cuts - 1) /\ k + 1 + 1 \in 1..(cuts + 1) /\ k + 1 + 1 # cuts + 1 /\ k + 1 + 1 # 1
          /\ k + 1 + 1 - 1 = k + 1 /\ k + 1 \in Nat
      BY <1>17, <1>7
    <3>2. x[k + 1 + 1].own = max - Overlap
      <4>1. x[k + 1 + 1].size = max
        BY <3>1, <1>8, <1>9
      <4> QED
        BY <3>1, <4>1, <1>10
    <3>3. u[k + 1 + 1] = u[k + 1] + (max - Overlap)
      <4>1. u[k + 1 + 1] = u[k + 1 + 1 - 1] + x[k + 1 + 1].own
        BY <3>1, <1>14
      <4> QED
        BY <3>1, <3>2, <4>1
    <3>4. rest(k + 1) \in Int /\ rest(k + 1 + 1) = rest(k + 1) - (max - Overlap)
      BY <3>1, <1>2
    <3>5. u[k + 1] = p - rest(k + 1) + Overlap
      BY <2>2
    <3>6. u[k + 1 + 1] = p - rest(k + 1 + 1) + Overlap
      BY <3>3, <3>4, <3>5, <1>1
    <3> QED
      BY <3>1, <3>6
  <2>3. 0..(cuts - 1) \subseteq S
    <3>1. cuts - 1 \in Nat
      BY <1>17, <1>7
    <3> HIDE DEF S
    <3> QED
      BY <3>1, <2>1, <2>2, CountingTo
  <2>4. u[cuts] = p - rest(cuts) + Overlap
    <3>1. cuts - 1 \in 0..(cuts - 1) /\ cuts - 1 + 1 = cuts
      BY <1>17, <1>7
    <3> QED
      BY <2>3, <3>1
  <2>5. u[cuts + 1] = u[cuts] + (rest(cuts) - Overlap)
    <3>1. cuts + 1 \in 1..(cuts + 1) /\ cuts + 1 # 1 /\ cuts + 1 - 1 = cuts
      BY <1>17, <1>7
    <3>2. x[cuts + 1].own = rest(cuts) - Overlap
      <4>1. x[cuts + 1].size = rest(cuts)
        BY <3>1, <1>8, <1>9
      <4> QED
        BY <3>1, <4>1, <1>10
    <3>3. \A k \in 1..(cuts + 1) : k - 1 = cuts => u[k] = u[cuts] + x[k].own
      BY <1>14
    <3>4. \A k \in 1..(cuts + 1) : k = cuts + 1 => u[k] = u[cuts] + (rest(cuts) - Overlap)
      BY <3>1, <3>2, <3>3, <1>7
    <3> QED
      BY <3>1, <3>4
  <2>6. u[cuts + 1] = p
    BY <2>4, <2>5, <1>1, <1>7
  <2>7. OwnOf(x) = p
    BY <2>6, <1>14 DEF OwnOf
  <2>8. Len(x) # 0
    BY <1>8, <1>7
  <2> QED
    BY <1>8, <1>10, <1>11, <1>15, <2>7, <2>8 DEF x
<1> QED
  BY <1>16, <1>17

-----------------------------------------------------------------------------
\* What has been read of a text: chunks, and one that is not yet full.
Held(s) == OwnOf(s.chunks) + s.current.own
Read(s) ==
    /\ s = [chunks |-> s.chunks, current |-> s.current]
    /\ Chunks(s.chunks) /\ IsChunk(s.current)
    /\ Len(s.chunks) = 0 => s.current.own = s.current.size
    /\ Len(s.chunks) # 0 => s.chunks[1].own = s.chunks[1].size

LEMMA PackedIs ==
    ASSUME NEW max, Sized(max), NEW p \in Nat \ {0}, NEW s, Read(s),
           s.current.size = 0 => Len(s.chunks) = 0
    PROVE  LET t == Distilled!Packed(s, p, max)
           IN  /\ Read(t) /\ t.current.size # 0
               /\ Held(t) = Held(s) + p \/ (s.current.size # 0 /\ Held(t) = Held(s) + p + 1)
<1> DEFINE t == Distilled!Packed(s, p, max)
           gap == IF s.current.size = 0 THEN 0 ELSE Distilled!Separator
           x == Distilled!Pieces(p, max)
           full == s.current.size + p + Distilled!Separator <= max
           mine == IF s.current.size = 0 THEN <<>> ELSE <<s.current>>
           front == Distilled!Front(x)
           last == Distilled!Last(x)
<1>1. p \in Nat /\ p # 0 /\ max \in Nat /\ Overlap \in Nat /\ Overlap < max
  BY DEF Sized
<1>2. s.current.size \in Nat /\ s.current.own \in Nat /\ s.current.size - Overlap <= s.current.own /\ s.current.own <= s.current.size
  BY DEF Read, IsChunk
<1>3. OwnOf(s.chunks) \in Int
  BY OwnsAre DEF Read
<1>4. t = IF full THEN [s EXCEPT !.current = Distilled!Chunk(@.size + gap + p, @.own + gap + p)]
          ELSE [chunks |-> s.chunks \o mine \o front, current |-> last]
  BY DEF Distilled!Packed
<1>5. CASE full
  <2> DEFINE c == Distilled!Chunk(s.current.size + gap + p, s.current.own + gap + p)
  <2>1. t = [chunks |-> s.chunks, current |-> c]
    BY <1>4, <1>5 DEF Read
  <2>2. gap \in Nat /\ (gap = 0 \/ (gap = 1 /\ s.current.size # 0))
    BY DEF Distilled!Separator
  <2>3. c.size = s.current.size + gap + p /\ c.own = s.current.own + gap + p
    BY ChunkIs
  <2> HIDE DEF gap, t
  <2>4. c = Distilled!Chunk(c.size, c.own)
    BY <2>3
  <2> HIDE DEF c
  <2>5. c.size \in Nat /\ c.own \in Nat /\ c.size - Overlap <= c.own /\ c.own <= c.size /\ c.size # 0
    <3>1. ASSUME NEW a \in Nat, NEW b \in Nat, NEW g \in Nat, NEW q \in Nat, q # 0, NEW o \in Nat, a - o <= b, b <= a
          PROVE  /\ a + g + q \in Nat /\ b + g + q \in Nat /\ (a + g + q) - o <= b + g + q
                 /\ b + g + q <= a + g + q /\ a + g + q # 0
      BY ONLY <3>1
    <3> QED
      BY ONLY <3>1, <2>2, <2>3, <1>1, <1>2
  <2>6. IsChunk(c)
    BY <2>4, <2>5 DEF IsChunk
  <2>7. t.chunks = s.chunks /\ t.current = c
    BY <2>1
  <2>8. Len(s.chunks) = 0 => c.own = c.size
    BY <2>3, <1>2 DEF Read
  <2>9. Read(t)
    BY <2>1, <2>6, <2>7, <2>8 DEF Read
  <2>10. Held(t) = Held(s) + p + gap
    BY <2>3, <2>7, <1>1, <1>2, <1>3, <2>2 DEF Held
  <2>11. Held(s) \in Int
    BY <1>2, <1>3 DEF Held
  <2> QED
    BY <2>2, <2>5, <2>7, <2>9, <2>10, <2>11, <1>1 DEF t
<1>6. CASE ~ full
  <2>1. t = [chunks |-> s.chunks \o mine \o front, current |-> last]
    BY <1>4, <1>6
  <2>2. /\ Chunks(x) /\ Len(x) # 0 /\ OwnOf(x) = p
        /\ x[1].own = x[1].size /\ \A k \in 1..Len(x) : x[k].size # 0
    BY PiecesAre
  <2> HIDE DEF t, full, x
  <2>3. IsList(x) /\ x # <<>>
    BY <2>2 DEF Chunks
  <2>4. /\ Len(x) \in Nat \ {0} /\ IsList(front) /\ Len(front) = Len(x) - 1
        /\ \A k \in 1..(Len(x) - 1) : front[k] = x[k]
        /\ last = x[Len(x)] /\ x = front \o <<last>>
    BY <2>3, FrontIs
  <2> HIDE DEF front, last
  <2>5. IsChunk(last) /\ last.size # 0
    <3>1. Len(x) \in 1..Len(x)
      BY <2>4
    <3> QED
      BY <3>1, <2>2, <2>4 DEF Chunks
  <2>6. Chunks(front)
    <3>1. \A k \in 1..(Len(x) - 1) : k \in 1..Len(x)
      BY <2>4
    <3> QED
      BY <3>1, <2>2, <2>4 DEF Chunks
  <2>7. Chunks(<<last>>) /\ OwnOf(<<last>>) = last.own /\ Chunks(<<>>) /\ Len(<<>>) = 0 /\ OwnOf(<<>>) = 0
    BY <2>5, OwnsOfOne
  <2>8. OwnOf(front) + last.own = p
    BY <2>2, <2>4, <2>6, <2>7, OwnsJoined
  <2>9. Chunks(mine) /\ OwnOf(mine) = s.current.own
        /\ (s.current.size = 0 => Len(mine) = 0)
        /\ (s.current.size # 0 => Len(mine) = 1 /\ mine[1] = s.current)
    <3>1. CASE s.current.size = 0
      <4>1. mine = <<>> /\ s.current.own = 0
        BY <3>1, <1>2
      <4> QED
        BY <3>1, <4>1, <2>7
    <3>2. CASE s.current.size # 0
      <4>1. mine = <<s.current>>
        BY <3>2
      <4>2. IsChunk(s.current)
        BY DEF Read
      <4> QED
        BY <3>2, <4>1, <4>2, OwnsOfOne
    <3> QED
      BY <3>1, <3>2
  <2> HIDE DEF mine
  <2> DEFINE a == s.chunks \o mine  b == a \o front
  <2>10. Chunks(s.chunks)
    BY DEF Read
  <2>11. Chunks(a) /\ OwnOf(a) = OwnOf(s.chunks) + s.current.own
    BY <2>9, <2>10, OwnsJoined
  <2>12. /\ Len(a) = Len(s.chunks) + Len(mine)
         /\ \A k \in 1..Len(s.chunks) : a[k] = s.chunks[k]
         /\ \A k \in 1..Len(mine) : a[Len(s.chunks) + k] = mine[k]
    BY <2>9, <2>10, ListJoined DEF Chunks
  <2> HIDE DEF a
  <2>13. Chunks(b) /\ OwnOf(b) = OwnOf(a) + OwnOf(front)
    BY <2>11, <2>6, OwnsJoined
  <2>14. /\ Len(b) = Len(a) + Len(front)
         /\ \A k \in 1..Len(a) : b[k] = a[k]
         /\ \A k \in 1..Len(front) : b[Len(a) + k] = front[k]
    BY <2>11, <2>6, ListJoined DEF Chunks
  <2>15. t = [chunks |-> b, current |-> last] /\ t.chunks = b /\ t.current = last
    BY <2>1 DEF a
  <2> HIDE DEF b
  <2>16. Held(t) = Held(s) + p
    <3>1. OwnOf(front) \in Int /\ last.own \in Int
      BY <2>5, <2>6, OwnsAre DEF IsChunk
    <3>2. Held(t) = OwnOf(s.chunks) + s.current.own + OwnOf(front) + last.own
      BY <2>11, <2>13, <2>15, <1>2, <1>3, <3>1 DEF Held
    <3> QED
      BY <3>1, <3>2, <2>8, <1>1, <1>2, <1>3 DEF Held
  <2>17. Len(s.chunks) \in Nat /\ Len(mine) \in Nat /\ Len(front) \in Nat /\ Len(a) \in Nat
    BY <2>9, <2>10, <2>6, <2>11, ListIs DEF Chunks
  <2>18. (Len(b) = 0 => last.own = last.size) /\ (Len(b) # 0 => b[1].own = b[1].size)
    <3>1. CASE Len(s.chunks) # 0
      <4>1. 1 \in 1..Len(s.chunks) /\ 1 \in 1..Len(a) /\ Len(b) # 0
        BY <3>1, <2>12, <2>14, <2>17
      <4>2. b[1] = s.chunks[1]
        BY <4>1, <2>12, <2>14
      <4> QED
        BY <3>1, <4>1, <4>2 DEF Read
    <3>2. CASE Len(s.chunks) = 0 /\ s.current.size # 0
      <4>1. 1 \in 1..Len(mine) /\ 1 \in 1..Len(a) /\ Len(b) # 0 /\ Len(s.chunks) + 1 = 1
        BY <3>2, <2>9, <2>12, <2>14, <2>17
      <4>2. b[1] = a[1] /\ a[1] = mine[1] /\ mine[1] = s.current
        <5>1. a[Len(s.chunks) + 1] = mine[1]
          BY <4>1, <2>12
        <5> QED
          BY <5>1, <4>1, <2>14, <2>9, <3>2
      <4> QED
        BY <3>2, <4>1, <4>2 DEF Read
    <3>3. CASE Len(s.chunks) = 0 /\ s.current.size = 0
      <4>1. Len(a) = 0 /\ Len(b) = Len(front)
        BY <3>3, <2>9, <2>12, <2>14, <2>17
      <4>2. CASE Len(front) = 0
        <5>1. Len(x) = 1
          BY <4>2, <2>4
        <5> QED
          BY <5>1, <4>1, <4>2, <2>2, <2>4
      <4>3. CASE Len(front) # 0
        <5>1. 1 \in 1..Len(front) /\ 1 \in 1..(Len(x) - 1) /\ Len(a) + 1 = 1
          BY <4>1, <4>3, <2>17, <2>4
        <5>2. b[Len(a) + 1] = front[1] /\ front[1] = x[1]
          BY <5>1, <2>14, <2>4
        <5> QED
          BY <5>1, <5>2, <4>1, <4>3, <2>2
      <4> QED
        BY <4>2, <4>3
    <3> QED
      BY <3>1, <3>2, <3>3
  <2>19. Read(t)
    BY <2>5, <2>13, <2>15, <2>18 DEF Read
  <2> QED
    BY <2>5, <2>15, <2>16, <2>19 DEF t
<1> QED
  BY <1>5, <1>6

\* A text is cut into chunks that own it, with what separates paragraphs where they are joined.
LEMMA ChunksAre ==
    ASSUME NEW max, Sized(max), NEW text \in Seq(Nat \ {0}), text # <<>>
    PROVE  LET x == Distilled!ChunkText(text, max)
           IN  /\ Chunks(x) /\ Len(x) \in Nat \ {0} /\ x[1].own = x[1].size
               /\ Len(text) \in Nat \ {0} /\ Ints(text)
               /\ \E joins \in 0..(Len(text) - 1) : OwnOf(x) = Distilled!Sum(text) + joins
<1> DEFINE x == Distilled!ChunkText(text, max)  n == Len(text)
<1>1. n \in Nat /\ n # 0 /\ (\A k \in 1..n : text[k] \in Nat \ {0}) /\ IsList(text)
  BY EmptySeq, LenProperties, ElementOfSeq, ListOf
<1>2. Ints(text)
  BY <1>1 DEF Ints
<1>3. PICK upTo : TextRun(text, max, upTo)
  BY <1>1, TextLoop
<1>4. PICK sum : SumRun(text, sum)
  BY <1>2, SumIs
<1> HIDE DEF n
<1>5. /\ upTo[0] = [chunks |-> <<>>, current |-> Distilled!Chunk(0, 0)]
      /\ \A k \in 1..n : upTo[k] = Distilled!Packed(upTo[k - 1], text[k], max)
      /\ x = (IF upTo[n].current.size = 0 THEN upTo[n].chunks ELSE Append(upTo[n].chunks, upTo[n].current))
      /\ sum[0] = 0 /\ (\A k \in 1..n : sum[k] = sum[k - 1] + text[k]) /\ Distilled!Sum(text) = sum[n]
  BY <1>3, <1>4 DEF TextRun, SumRun, n
<1>6. \A k \in 0..n : sum[k] \in Int
  BY <1>2, <1>4, SumsAre DEF n
<1> DEFINE Good(k) == /\ Read(upTo[k])
                      /\ k = 0 => upTo[k].current.size = 0 /\ Len(upTo[k].chunks) = 0
                      /\ k # 0 => upTo[k].current.size # 0
                      /\ \E joins \in Nat : joins <= k /\ (k # 0 => joins < k) /\ Held(upTo[k]) = sum[k] + joins
           S == {k \in 0..n : Good(k)}
<1>7. 0 \in S
  <2> DEFINE c == Distilled!Chunk(0, 0)
  <2>1. c.size = 0 /\ c.own = 0 /\ Overlap \in Nat
    BY ChunkIs DEF Sized
  <2>2. IsChunk(c)
    BY <2>1 DEF IsChunk
  <2>3. Chunks(<<>>) /\ Len(<<>>) = 0 /\ OwnOf(<<>>) = 0
    BY <2>2, OwnsOfOne
  <2> HIDE DEF c
  <2>4. upTo[0].chunks = <<>> /\ upTo[0].current = c /\ upTo[0] = [chunks |-> <<>>, current |-> c]
    BY <1>5 DEF c
  <2>5. Read(upTo[0])
    BY <2>1, <2>2, <2>3, <2>4 DEF Read
  <2>6. Held(upTo[0]) = sum[0] + 0 /\ 0 \in Nat /\ 0 \in 0..n
    BY <2>1, <2>3, <2>4, <1>5, <1>1 DEF Held
  <2> QED
    BY <2>1, <2>3, <2>4, <2>5, <2>6
<1>8. ASSUME NEW k \in 0..(n - 1), k \in S PROVE k + 1 \in S
  <2>1. k + 1 \in 1..n /\ k + 1 - 1 = k /\ k + 1 \in 0..n /\ k + 1 # 0 /\ k \in Nat /\ k \in 0..n
    BY <1>1
  <2>2. upTo[k + 1] = Distilled!Packed(upTo[k], text[k + 1], max) /\ sum[k + 1] = sum[k] + text[k + 1]
    <3>1. upTo[k + 1] = Distilled!Packed(upTo[k + 1 - 1], text[k + 1], max) /\ sum[k + 1] = sum[k + 1 - 1] + text[k + 1]
      BY <2>1, <1>5
    <3> QED
      BY <2>1, <3>1
  <2>3. Good(k)
    BY <1>8
  <2> DEFINE s == upTo[k]  t == upTo[k + 1]  p == text[k + 1]
  <2>4. PICK joins \in Nat : joins <= k /\ (k # 0 => joins < k) /\ Held(s) = sum[k] + joins
    BY <2>3
  <2>5. p \in Nat \ {0}
    BY <2>1, <1>1
  <2>6. Read(s) /\ (s.current.size = 0 => Len(s.chunks) = 0) /\ (s.current.size # 0 => k # 0)
    BY <2>3
  <2>7. t = Distilled!Packed(s, p, max)
    BY <2>2
  <2> HIDE DEF s, t, p
  <2>8. Read(t) /\ t.current.size # 0 /\ (Held(t) = Held(s) + p \/ (s.current.size # 0 /\ Held(t) = Held(s) + p + 1))
    BY <2>5, <2>6, <2>7, PackedIs
  <2>9. sum[k] \in Int /\ sum[k + 1] = sum[k] + p
    BY <1>6, <2>1, <2>2 DEF p
  <2>10. \E j \in Nat : j <= k + 1 /\ j < k + 1 /\ Held(t) = sum[k + 1] + j
    <3>1. CASE Held(t) = Held(s) + p
      <4>1. Held(t) = sum[k + 1] + joins /\ joins <= k + 1 /\ joins < k + 1
        BY <3>1, <2>4, <2>9, <2>1, <2>5
      <4> QED
        BY <4>1
    <3>2. CASE s.current.size # 0 /\ Held(t) = Held(s) + p + 1
      <4>1. k # 0
        BY <3>2, <2>6
      <4>2. Held(t) = sum[k + 1] + (joins + 1) /\ joins + 1 <= k + 1 /\ joins + 1 < k + 1 /\ joins + 1 \in Nat
        <5>1. joins < k /\ joins \in Nat /\ k \in Nat
          BY <4>1, <2>4, <2>1
        <5>2. Held(t) = sum[k] + joins + p + 1 /\ sum[k] \in Int /\ p \in Nat
          BY <3>2, <2>4, <2>5, <2>9
        <5>3. joins + 1 <= k + 1 /\ joins + 1 < k + 1 /\ joins + 1 \in Nat
          BY ONLY <5>1
        <5>4. Held(t) = sum[k + 1] + (joins + 1)
          <6>1. PICK i \in Int : i = sum[k]
            BY <5>2
          <6>2. PICK q \in Nat : q = p
            BY <5>2
          <6>3. Held(t) = i + joins + q + 1 /\ sum[k + 1] = i + q
            BY <5>2, <6>1, <6>2, <2>9
          <6>4. i + joins + q + 1 = i + q + (joins + 1)
            OBVIOUS
          <6> QED
            BY <6>3, <6>4
        <5> QED
          BY <5>3, <5>4
      <4> QED
        BY <4>2
    <3> QED
      BY <3>1, <3>2, <2>8
  <2>11. Good(k + 1)
    BY <2>1, <2>8, <2>10 DEF t
  <2> HIDE DEF Good
  <2> QED
    BY <2>1, <2>11
<1>9. Good(n)
  <2>1. 0..n \subseteq S
    <3> HIDE DEF S
    <3> QED
      BY <1>1, <1>7, <1>8, CountingTo
  <2>2. n \in 0..n
    BY <1>1
  <2>3. n \in S
    BY <2>1, <2>2
  <2> HIDE DEF Good
  <2> QED
    BY <2>3
<1> DEFINE s == upTo[n]
<1>10. PICK joins \in Nat : joins < n /\ Held(s) = sum[n] + joins
  BY <1>1, <1>9
<1>11. Read(s) /\ s.current.size # 0
  BY <1>1, <1>9
<1>12. x = Append(s.chunks, s.current)
  BY <1>5, <1>11
<1> HIDE DEF s, x
<1>13. Chunks(s.chunks) /\ IsChunk(s.current)
  BY <1>11 DEF Read
<1>14. Append(s.chunks, s.current) = s.chunks \o <<s.current>>
  <2>1. s.chunks \in Seq(Distilled!Range(s.chunks) \cup {s.current}) /\ s.current \in Distilled!Range(s.chunks) \cup {s.current}
    <3>1. Len(s.chunks) \in Nat /\ s.chunks = [k \in 1..Len(s.chunks) |-> s.chunks[k]]
          /\ Distilled!Range(s.chunks) = {s.chunks[k] : k \in 1..Len(s.chunks)}
      BY <1>13, ListIs DEF Chunks
    <3> QED
      BY <3>1, SeqDef
  <2> QED
    BY <2>1, AppendIsConcat
<1>15. Chunks(<<s.current>>) /\ OwnOf(<<s.current>>) = s.current.own
  BY <1>13, OwnsOfOne
<1>16. Chunks(x) /\ OwnOf(x) = Held(s)
  BY <1>12, <1>13, <1>14, <1>15, OwnsJoined DEF Held
<1>17. Len(x) = Len(s.chunks) + 1 /\ x[Len(s.chunks) + 1] = s.current /\ \A k \in 1..Len(s.chunks) : x[k] = s.chunks[k]
  BY <1>12, <1>13, ListAppended DEF Chunks
<1>18. Len(s.chunks) \in Nat
  BY <1>13, ListIs DEF Chunks
<1>19. x[1].own = x[1].size
  <2>1. CASE Len(s.chunks) = 0
    BY <2>1, <1>11, <1>17 DEF Read
  <2>2. CASE Len(s.chunks) # 0
    <3>1. 1 \in 1..Len(s.chunks)
      BY <2>2, <1>18
    <3> QED
      BY <3>1, <2>2, <1>11, <1>17 DEF Read
  <2> QED
    BY <2>1, <2>2
<1>20. joins \in 0..(n - 1) /\ OwnOf(x) = Distilled!Sum(text) + joins
  BY <1>1, <1>10, <1>16, <1>5
<1> QED
  BY <1>1, <1>2, <1>16, <1>17, <1>18, <1>19, <1>20 DEF x, n

-----------------------------------------------------------------------------
Wider(text, max) ==
    LET n == Len(Distilled!ChunkText(text, max))
    IN  IF n <= Budget \/ max >= Most THEN max
        ELSE Distilled!Min({Most, Distilled!Max({max + Grow, Distilled!Ceil(max * n, Budget)})})
PlanAt(text, size) ==
    LET chunks == Distilled!ChunkText(text, size)
        kept   == SubSeq(chunks, 1, Distilled!Min({Budget, Len(chunks)}))
    IN  [granularity |-> IF Len(chunks) > Budget THEN "partial" ELSE IF size > Base THEN "coarsened" ELSE "full",
         text |-> text, total |-> Distilled!Total(text), chunks |-> kept, size |-> size,
         covered |-> IF Len(chunks) > Budget THEN Distilled!Covered(text, kept) ELSE Distilled!Total(text)]

GrownRun(text, upTo) ==
    /\ DOMAIN upTo = 0..Most
    /\ upTo[0] = Base
    /\ \A k \in 1..Most : upTo[k] = Wider(text, upTo[k - 1])
    /\ Distilled!PlanCoverage(text) = PlanAt(text, upTo[Most])
\* How the size of the chunks grows.
LEMMA GrownLoop ==
    ASSUME NEW text, Most \in Nat
    PROVE  \E upTo : GrownRun(text, upTo)
<1> DEFINE m == Most
           Is(f, n) == f = [k \in 0..n |-> IF k = 0 THEN Base ELSE Wider(text, f[k - 1])]
           S == {n \in Nat : \E f : Is(f, n)}
           upTo == CHOOSE f : Is(f, m)
<1>1. 0 \in S
  <2> DEFINE f == [k \in 0..0 |-> Base]
  <2>1. f = [k \in 0..0 |-> IF k = 0 THEN Base ELSE Wider(text, f[k - 1])]
    OBVIOUS
  <2> QED
    BY <2>1
<1>2. ASSUME NEW n \in Nat, n \in S PROVE n + 1 \in S
  <2>1. PICK f : Is(f, n)
    BY <1>2
  <2> DEFINE g == [k \in 0..(n + 1) |-> IF k = n + 1 THEN Wider(text, f[n]) ELSE f[k]]
  <2>2. ASSUME NEW k \in 0..(n + 1)
        PROVE  g[k] = IF k = 0 THEN Base ELSE Wider(text, g[k - 1])
    <3>1. CASE k = n + 1
      <4>1. g[n + 1] = Wider(text, f[n]) /\ g[n] = f[n] /\ n + 1 # 0 /\ n + 1 - 1 = n
        OBVIOUS
      <4> HIDE DEF g
      <4> QED
        BY <3>1, <4>1
    <3>2. CASE k \in 0..n
      <4>1. f[k] = IF k = 0 THEN Base ELSE Wider(text, f[k - 1])
        BY <2>1, <3>2
      <4>2. k # 0 => g[k - 1] = f[k - 1]
        BY <3>2
      <4>3. g[k] = f[k]
        BY <3>2
      <4> QED
        BY <4>1, <4>2, <4>3
    <3> QED
      BY <3>1, <3>2
  <2>3. Is(g, n + 1)
    <3>1. g = [k \in 0..(n + 1) |-> g[k]]
      OBVIOUS
    <3> HIDE DEF g
    <3> QED
      BY ONLY <2>2, <3>1
  <2>4. \E h : Is(h, n + 1)
    <3> HIDE DEF g
    <3> WITNESS g
    <3> QED
      BY <2>3
  <2> HIDE DEF Is
  <2>5. n + 1 \in Nat
    OBVIOUS
  <2> QED
    BY ONLY <2>4, <2>5
<1>3. Nat \subseteq S
  <2> HIDE DEF S
  <2> QED
    BY <1>1, <1>2, CountingOn
<1>4. Is(upTo, m)
  <2>1. \E f : Is(f, m)
    BY <1>3
  <2> HIDE DEF Is
  <2> QED
    BY <2>1
<1>5. Distilled!PlanCoverage(text) = PlanAt(text, upTo[m])
  BY DEF Distilled!PlanCoverage, PlanAt, Wider
<1> HIDE DEF upTo
<1>6. DOMAIN upTo = 0..m /\ upTo[0] = Base /\ \A k \in 1..m : upTo[k] = Wider(text, upTo[k - 1])
  <2>1. m \in Nat
    OBVIOUS
  <2> HIDE DEF m
  <2>2. DOMAIN upTo = 0..m
    BY <1>4
  <2>3. \A k \in 0..m : upTo[k] = IF k = 0 THEN Base ELSE Wider(text, upTo[k - 1])
    BY <1>4
  <2>4. 0 \in 0..m /\ \A k \in 1..m : k \in 0..m /\ k # 0
    BY <2>1
  <2> QED
    BY ONLY <2>2, <2>3, <2>4
<1> QED
  BY <1>5, <1>6 DEF GrownRun


-----------------------------------------------------------------------------
LEMMA OfTwo ==
    ASSUME NEW a \in Int, NEW b \in Int
    PROVE  /\ Distilled!Max({a, b}) \in Int /\ Distilled!Max({a, b}) >= a /\ Distilled!Max({a, b}) >= b
           /\ Distilled!Max({a, b}) \in {a, b}
           /\ Distilled!Min({a, b}) \in Int /\ Distilled!Min({a, b}) <= a /\ Distilled!Min({a, b}) <= b
           /\ Distilled!Min({a, b}) \in {a, b}
<1>1. (\E x \in {a, b} : \A y \in {a, b} : x >= y) /\ (\E x \in {a, b} : \A y \in {a, b} : x <= y)
  <2>1. CASE a <= b
    BY <2>1
  <2>2. CASE b <= a
    BY <2>2
  <2> QED
    BY <2>1, <2>2
<1>2. Distilled!Max({a, b}) \in {a, b} /\ \A y \in {a, b} : Distilled!Max({a, b}) >= y
  BY <1>1 DEF Distilled!Max
<1>3. Distilled!Min({a, b}) \in {a, b} /\ \A y \in {a, b} : Distilled!Min({a, b}) <= y
  BY <1>1 DEF Distilled!Min
<1> QED
  BY <1>2, <1>3

Limits ==
    /\ Base \in Nat /\ Most \in Nat /\ Budget \in Nat /\ Overlap \in Nat /\ Grow \in Nat
    /\ Overlap < Base /\ Base <= Most /\ 0 < Budget /\ 0 < Grow

\* The size ends where there are few enough chunks, or at the most.
LEMMA GrownEnds ==
    ASSUME Limits, NEW text \in Seq(Nat \ {0}), text # <<>>
    PROVE  \E size \in Base..Most :
              /\ Distilled!PlanCoverage(text) = PlanAt(text, size)
              /\ Len(Distilled!ChunkText(text, size)) <= Budget \/ size = Most
<1> USE DEF Limits
<1> DEFINE few(size) == Len(Distilled!ChunkText(text, size)) <= Budget
<1>1. PICK upTo : GrownRun(text, upTo)
  BY GrownLoop
<1>2. /\ upTo[0] = Base /\ Distilled!PlanCoverage(text) = PlanAt(text, upTo[Most])
      /\ \A k \in 1..Most : upTo[k] = Wider(text, upTo[k - 1])
  BY <1>1 DEF GrownRun
<1> DEFINE Good(k) == upTo[k] \in Base..Most /\ (few(upTo[k]) \/ k <= upTo[k])
           S == {k \in 0..Most : Good(k)}
<1>3. 0 \in S
  BY <1>2
<1>4. ASSUME NEW k \in 0..(Most - 1), k \in S PROVE k + 1 \in S
  <2> DEFINE max == upTo[k]  n == Len(Distilled!ChunkText(text, max))
             c == Distilled!Ceil(max * n, Budget)
             m == Distilled!Max({max + Grow, c})
             w == Distilled!Min({Most, m})
  <2>1. k + 1 \in 0..Most /\ k + 1 \in 1..Most /\ k + 1 - 1 = k /\ k \in Nat
    OBVIOUS
  <2>2. upTo[k + 1] = IF few(max) \/ max >= Most THEN max ELSE w
    <3>1. upTo[k + 1] = Wider(text, max)
      BY <1>2, <2>1
    <3> QED
      BY <3>1 DEF Wider
  <2>3. max \in Base..Most /\ (few(max) \/ k <= max)
    BY <1>4
  <2>4. CASE few(max) \/ max >= Most
    <3>1. upTo[k + 1] = max
      BY <2>2, <2>4
    <3> HIDE DEF few
    <3>2. few(upTo[k + 1]) \/ k + 1 <= upTo[k + 1]
      <4>1. max >= Most => k + 1 <= max
        BY <2>1, <2>3
      <4> QED
        BY <3>1, <4>1, <2>4
    <3> QED
      BY <3>1, <3>2, <2>1, <2>3
  <2>5. CASE ~(few(max) \/ max >= Most)
    <3>1. upTo[k + 1] = w
      BY <2>2, <2>5
    <3>2. n \in Nat
      <4>1. Sized(max)
        BY <2>3 DEF Sized
      <4> HIDE DEF max
      <4> QED
        BY <4>1, ChunksAre
    <3>3. c \in Int
      <4>1. max * n \in Int
        BY <2>3, <3>2
      <4> HIDE DEF max, n
      <4>2. max * n + Budget - 1 \in Int
        BY <4>1
      <4> QED
        BY <4>2 DEF Distilled!Ceil
    <3> HIDE DEF c, max
    <3>4. max + Grow \in Int /\ max < max + Grow /\ k <= max
      BY <2>3, <2>5
    <3>5. m \in Int /\ m >= max + Grow
      BY <3>3, <3>4, OfTwo
    <3> HIDE DEF m
    <3>6. w \in Int /\ w <= Most /\ w <= m /\ w \in {Most, m}
      <4>1. Most \in Int /\ m \in Int
        BY <3>5
      <4> QED
        BY ONLY <4>1, OfTwo
    <3> HIDE DEF w
    <3>7. w \in Base..Most /\ k + 1 <= w
      BY <3>4, <3>5, <3>6, <2>1, <2>3
    <3> QED
      BY <3>1, <3>7, <2>1
  <2> QED
    BY <2>4, <2>5
<1>5. Good(Most)
  <2>1. 0..Most \subseteq S
    <3> HIDE DEF S
    <3> QED
      BY <1>3, <1>4, CountingTo
  <2>2. Most \in 0..Most
    OBVIOUS
  <2>3. Most \in S
    BY <2>1, <2>2
  <2> HIDE DEF Good
  <2> QED
    BY <2>3
<1>6. upTo[Most] \in Base..Most /\ (few(upTo[Most]) \/ upTo[Most] = Most)
  BY <1>5
<1> QED
  BY <1>2, <1>6

\* The first of the chunks, at most as many as there are.
LEMMA KeptAre ==
    ASSUME NEW x, Chunks(x), NEW n \in 0..Len(x)
    PROVE  LET y == SubSeq(x, 1, n)
           IN  Chunks(y) /\ Len(y) = n /\ \A k \in 1..n : y[k] = x[k]
<1> DEFINE y == SubSeq(x, 1, n)  R == Distilled!Range(x)
<1>1. Len(x) \in Nat /\ x \in Seq(R) /\ \A k \in 1..Len(x) : x[k] \in R
  BY ListIs DEF Chunks, IsList, Distilled!Range
<1> HIDE DEF R
<1>2. /\ y \in Seq(R) /\ Len(y) = (IF 1 <= n THEN n - 1 + 1 ELSE 0)
      /\ \A k \in 1..(n - 1 + 1) : y[k] = x[1 + k - 1]
  <2>1. 1 \in Int /\ n \in Int /\ \A k \in 1..n : x[k] \in R
    BY <1>1
  <2> QED
    BY <1>1, <2>1, SubSeqProperties
<1>3. Len(y) = n /\ IsList(y)
  <2>1. n \in Nat
    BY <1>1
  <2> HIDE DEF y
  <2>2. IsList(y)
    BY <1>2, ListOf
  <2> QED
    BY <1>2, <2>1, <2>2
<1>4. ASSUME NEW k \in 1..n PROVE y[k] = x[k] /\ IsChunk(y[k])
  <2>1. k \in 1..(n - 1 + 1) /\ 1 + k - 1 = k /\ k \in 1..Len(x)
    BY <1>1
  <2> HIDE DEF y
  <2>2. y[k] = x[k]
    BY <1>2, <2>1
  <2> QED
    BY <2>1, <2>2 DEF Chunks
<1> QED
  BY <1>3, <1>4 DEF Chunks

\* What chunks own is at least what they have less the overlaps.
LEMMA OwnedIs ==
    ASSUME NEW x, Chunks(x), Overlap \in Nat, Len(x) # 0, x[1].own = x[1].size
    PROVE  OwnOf(x) \in Nat /\ Distilled!Sum(Distilled!Sizes(x)) \in Int
           /\ Distilled!Sum(Distilled!Sizes(x)) - Overlap * (Len(x) - 1) <= OwnOf(x)
<1> DEFINE a == Distilled!Owns(x)  b == Distilled!Sizes(x)  n == Len(x)
<1>1. n \in Nat /\ n # 0
  BY ListIs DEF Chunks
<1>2. /\ Ints(a) /\ Len(a) = n /\ \A k \in 1..n : a[k] = x[k].own
      /\ Ints(b) /\ Len(b) = n /\ \A k \in 1..n : b[k] = x[k].size
  BY OwnsAre
<1>3. \A k \in 1..n : x[k].own \in Nat /\ x[k].size \in Nat /\ x[k].size - Overlap <= x[k].own
  BY DEF Chunks, IsChunk
<1> HIDE DEF a, b, n
<1>4. PICK u : SumRun(a, u)
  BY <1>2, SumIs
<1>5. PICK v : SumRun(b, v)
  BY <1>2, SumIs
<1>6. u[0] = 0 /\ Distilled!Sum(a) = u[n] /\ \A k \in 1..n : u[k] = u[k - 1] + x[k].own
  BY <1>2, <1>4 DEF SumRun
<1>7. v[0] = 0 /\ Distilled!Sum(b) = v[n] /\ \A k \in 1..n : v[k] = v[k - 1] + x[k].size
  BY <1>2, <1>5 DEF SumRun
<1> DEFINE Good(k) == u[k + 1] \in Nat /\ v[k + 1] \in Int /\ v[k + 1] - Overlap * k <= u[k + 1]
           S == {k \in 0..(n - 1) : Good(k)}
<1>8. 0 \in S
  <2>1. 1 \in 1..n /\ 1 - 1 = 0 /\ 0 + 1 = 1 /\ 0 \in 0..(n - 1)
    BY <1>1
  <2>2. u[1] = 0 + x[1].own /\ v[1] = 0 + x[1].size
    BY <1>6, <1>7, <2>1
  <2>3. u[1] = v[1] /\ u[1] \in Nat
    BY <1>3, <2>1, <2>2 DEF n
  <2> QED
    BY <2>1, <2>3
<1>9. ASSUME NEW k \in 0..(n - 1 - 1), k \in S PROVE k + 1 \in S
  <2>1. k + 1 + 1 \in 1..n /\ k + 1 + 1 - 1 = k + 1 /\ k + 1 \in 0..(n - 1) /\ k \in Nat
    BY <1>1
  <2>2. u[k + 1 + 1] = u[k + 1] + x[k + 1 + 1].own /\ v[k + 1 + 1] = v[k + 1] + x[k + 1 + 1].size
    BY <1>6, <1>7, <2>1
  <2>3. /\ x[k + 1 + 1].own \in Nat /\ x[k + 1 + 1].size \in Nat
        /\ x[k + 1 + 1].size - Overlap <= x[k + 1 + 1].own
    BY <1>3, <2>1
  <2>4. Good(k)
    BY <1>9
  <2>5. Overlap * k \in Int /\ Overlap * (k + 1) = Overlap * k + Overlap
    BY <2>1
  <2>6. PICK o \in Int : o = Overlap * k /\ o + Overlap = Overlap * (k + 1)
    BY <2>5
  <2>7. v[k + 1 + 1] - (o + Overlap) <= u[k + 1 + 1] /\ u[k + 1 + 1] \in Nat /\ v[k + 1 + 1] \in Int
    <3>1. ASSUME NEW e \in Nat, NEW f \in Int, NEW g \in Nat, NEW h \in Nat, NEW i \in Int, NEW j \in Nat,
                 f - i <= e, h - j <= g
          PROVE  (f + h) - (i + j) <= e + g /\ e + g \in Nat /\ f + h \in Int
      BY ONLY <3>1
    <3>2. u[k + 1] \in Nat /\ v[k + 1] \in Int /\ v[k + 1] - o <= u[k + 1] /\ Overlap \in Nat /\ o \in Int
      BY <2>4, <2>6
    <3> QED
      BY ONLY <3>1, <3>2, <2>2, <2>3
  <2>8. Good(k + 1)
    BY <2>6, <2>7
  <2> HIDE DEF Good
  <2> QED
    BY <2>1, <2>8
<1>10. Good(n - 1)
  <2>1. 0..(n - 1) \subseteq S
    <3>1. n - 1 \in Nat
      BY <1>1
    <3> HIDE DEF S
    <3> QED
      BY <3>1, <1>8, <1>9, CountingTo
  <2>2. n - 1 \in 0..(n - 1)
    BY <1>1
  <2>3. n - 1 \in S
    BY <2>1, <2>2
  <2> HIDE DEF Good
  <2> QED
    BY <2>3
<1>11. n - 1 + 1 = n
  BY <1>1
<1>12. u[n] \in Nat /\ v[n] \in Int /\ v[n] - Overlap * (n - 1) <= u[n]
  BY <1>10, <1>11
<1> QED
  BY <1>6, <1>7, <1>12 DEF a, b, n, OwnOf

\* _plan_coverage: a plan keeps within the budget, and says honestly what it reads.
LEMMA CoverageIs ==
    ASSUME Limits, NEW text \in Seq(Nat \ {0}), text # <<>>, plan = Distilled!PlanCoverage(text)
    PROVE  Distilled!CoverageIsHonest /\ Len(plan.chunks) \in 1..Budget
<1> USE DEF Limits
<1>1. PICK size \in Base..Most :
          /\ Distilled!PlanCoverage(text) = PlanAt(text, size)
          /\ Len(Distilled!ChunkText(text, size)) <= Budget \/ size = Most
  BY GrownEnds
<1> DEFINE x == Distilled!ChunkText(text, size)  n == Len(x)
           count == Distilled!Min({Budget, n})
           kept == SubSeq(x, 1, count)
<1>2. /\ plan.granularity = IF n > Budget THEN "partial" ELSE IF size > Base THEN "coarsened" ELSE "full"
      /\ plan.text = text /\ plan.total = Distilled!Total(text) /\ plan.chunks = kept /\ plan.size = size
      /\ plan.covered = IF n > Budget THEN Distilled!Covered(text, kept) ELSE Distilled!Total(text)
  <2>1. plan = PlanAt(text, size)
    BY <1>1
  <2>2. PlanAt(text, size) =
          [granularity |-> IF n > Budget THEN "partial" ELSE IF size > Base THEN "coarsened" ELSE "full",
           text |-> text, total |-> Distilled!Total(text), chunks |-> kept, size |-> size,
           covered |-> IF n > Budget THEN Distilled!Covered(text, kept) ELSE Distilled!Total(text)]
    BY DEF PlanAt
  <2> HIDE DEF n, kept
  <2> QED
    BY <2>1, <2>2
<1>3. Sized(size)
  BY DEF Sized
<1>4. /\ Chunks(x) /\ n \in Nat \ {0} /\ x[1].own = x[1].size
      /\ Len(text) \in Nat \ {0} /\ Ints(text)
  BY <1>3, ChunksAre
<1>5. PICK joins \in 0..(Len(text) - 1) : OwnOf(x) = Distilled!Sum(text) + joins
  BY <1>3, ChunksAre
<1>6. Distilled!Sum(text) \in Int
  BY <1>4, SumIs
<1>7. n <= Budget \/ size = Most
  BY <1>1
<1> HIDE DEF x
<1>8. n \in Int /\ Budget \in Int
  BY <1>4
<1>9. count \in {Budget, n} /\ count <= Budget /\ count <= n
  <2> HIDE DEF n
  <2> QED
    BY <1>8, OfTwo
<1> HIDE DEF count
<1>10. count \in 0..n /\ count # 0
  BY <1>4, <1>9
<1>11. Chunks(kept) /\ Len(kept) = count /\ \A k \in 1..count : kept[k] = x[k]
  BY <1>10, <1>4, KeptAre
<1> HIDE DEF kept
<1>12. Len(plan.chunks) \in 1..Budget /\ Len(plan.chunks) <= Budget
  BY <1>2, <1>9, <1>10, <1>11
<1>13. Distilled!Sum(Distilled!Owns(plan.chunks)) = OwnOf(kept)
  BY <1>2 DEF OwnOf
<1>14. CASE n > Budget
  <2>1. kept[1] = x[1]
    <3>1. 1 \in 1..count
      BY <1>4, <1>10
    <3> QED
      BY <3>1, <1>11
  <2> DEFINE some == Distilled!Sum(Distilled!Sizes(kept)) - Overlap * (Len(kept) - 1)
             all == Distilled!Total(text)
             less == Distilled!Min({all, some})
  <2>2. OwnOf(kept) \in Nat /\ some <= OwnOf(kept) /\ Distilled!Sum(Distilled!Sizes(kept)) \in Int
    BY <2>1, <1>4, <1>10, <1>11, OwnedIs
  <2>3. some \in Int
    <3>1. Overlap * (Len(kept) - 1) \in Int
      BY <1>10, <1>11
    <3> QED
      BY <2>2, <3>1
  <2>4. all \in Int
    BY <1>4, <1>6 DEF Distilled!Total, Distilled!Separator
  <2>5. plan.covered = Distilled!Max({0, less})
    BY <1>2, <1>14 DEF Distilled!Covered
  <2> HIDE DEF some, all
  <2>6. less \in Int /\ less <= some
    BY <2>3, <2>4, OfTwo
  <2> HIDE DEF less
  <2>7. plan.covered \in {0, less}
    <3>1. 0 \in Int /\ less \in Int
      BY <2>6
    <3>2. Distilled!Max({0, less}) \in {0, less}
      BY ONLY <3>1, OfTwo
    <3> QED
      BY <2>5, <3>2
  <2>8. plan.covered <= OwnOf(kept)
    BY <2>2, <2>3, <2>6, <2>7
  <2>9. plan.granularity = "partial" /\ plan.size = Most
    BY <1>2, <1>7, <1>8, <1>14
  <2> QED
    BY <1>12, <1>13, <2>8, <2>9 DEF Distilled!CoverageIsHonest
<1>15. CASE ~(n > Budget)
  <2>1. count = n
    BY <1>4, <1>9, <1>15
  <2>2. kept = x
    <3>1. kept = [k \in 1..n |-> kept[k]] /\ x = [k \in 1..n |-> x[k]]
      BY <1>4, <1>11, <2>1, ListIs DEF Chunks
    <3>2. \A k \in 1..n : kept[k] = x[k]
      BY <1>11, <2>1
    <3> HIDE DEF n
    <3> QED
      BY <3>1, <3>2
  <2>3. plan.granularity # "partial"
    BY <1>2, <1>15
  <2>4. Distilled!Separator * (Len(text) - 1) = Len(text) - 1
    BY <1>4 DEF Distilled!Separator
  <2>5. plan.total = Distilled!Sum(text) + (Len(text) - 1)
    BY <1>2, <2>4 DEF Distilled!Total
  <2> DEFINE edges == Len(text) - 1 - joins
  <2>6. edges \in 0..(Len(text) - 1) /\ Distilled!Separator * edges = edges
    BY <1>4 DEF Distilled!Separator
  <2>7. OwnOf(kept) + edges = plan.total
    BY <2>2, <2>5, <1>4, <1>5, <1>6
  <2> HIDE DEF edges
  <2>8. \E e \in 0..(Len(plan.text) - 1) : Distilled!Sum(Distilled!Owns(plan.chunks)) + Distilled!Separator * e = plan.total
    BY <2>6, <2>7, <1>13, <1>2
  <2> QED
    BY <1>12, <2>3, <2>8 DEF Distilled!CoverageIsHonest
<1> QED
  BY <1>12, <1>14, <1>15

-----------------------------------------------------------------------------
\* Slots: facts, no two of one kind and name.
Slots(s) ==
    /\ IsList(s) /\ \A i \in 1..Len(s) : Distilled!IsFact(s[i])
    /\ \A i, j \in 1..Len(s) : s[i].kind = s[j].kind /\ s[i].name = s[j].name => i = j
Has(s, f) == \E i \in 1..Len(s) : s[i].kind = f.kind /\ s[i].name = f.name /\ s[i].size >= f.size

LEMMA LargerIs ==
    ASSUME NEW m \in Nat, NEW n \in Nat
    PROVE  Distilled!Larger(m, n) \in Nat /\ Distilled!Larger(m, n) >= m /\ Distilled!Larger(m, n) >= n
BY DEF Distilled!Larger

LEMMA SlotChanged ==
    ASSUME NEW k, NEW n, NEW a, NEW z, NEW b, NEW c
    PROVE  /\ [[kind |-> k, name |-> n, aliases |-> a, size |-> z] EXCEPT !.size = b]
                = [kind |-> k, name |-> n, aliases |-> a, size |-> b]
           /\ [[kind |-> k, name |-> n, aliases |-> a, size |-> z] EXCEPT !.aliases = c]
                = [kind |-> k, name |-> n, aliases |-> c, size |-> z]
OBVIOUS

\* A fact that is put among slots is there afterwards, and what was there stays.
LEMMA PutIs ==
    ASSUME NEW s, Slots(s), NEW f, Distilled!IsFact(f)
    PROVE  LET t == Distilled!Put(s, f)
           IN  Slots(t) /\ Has(t, f) /\ \A g : Distilled!IsFact(g) /\ Has(s, g) => Has(t, g)
<1> DEFINE t == Distilled!Put(s, f)  n == Len(s)
           same == {i \in DOMAIN s : s[i].kind = f.kind /\ s[i].name = f.name}
<1>1. n \in Nat /\ DOMAIN s = 1..n /\ IsList(s) /\ s = [k \in 1..n |-> s[k]]
  BY ListIs DEF Slots
<1>2. f.size \in Nat /\ \A i \in 1..n : s[i].size \in Nat
  BY DEF Slots, Distilled!IsFact
<1>3. CASE same = {}
  <2>1. t = Append(s, f)
    BY <1>3 DEF Distilled!Put
  <2> HIDE DEF t
  <2>2. IsList(t) /\ Len(t) = n + 1 /\ t[n + 1] = f /\ \A k \in 1..n : t[k] = s[k]
    BY <2>1, <1>1, ListAppended
  <2>3. \A k \in 1..(n + 1) : k \in 1..n \/ k = n + 1
    BY <1>1
  <2>4. \A k \in 1..(n + 1) : Distilled!IsFact(t[k])
    BY <2>2, <2>3 DEF Slots
  <2>5. \A i \in 1..n : ~(s[i].kind = f.kind /\ s[i].name = f.name)
    BY <1>1, <1>3
  <2>6. ASSUME NEW i \in 1..(n + 1), NEW j \in 1..(n + 1), t[i].kind = t[j].kind, t[i].name = t[j].name
        PROVE  i = j
    <3>1. CASE i \in 1..n /\ j \in 1..n
      BY <3>1, <2>2, <2>6 DEF Slots
    <3>2. CASE ~(i \in 1..n /\ j \in 1..n)
      BY <3>2, <2>2, <2>3, <2>5, <2>6
    <3> QED
      BY <3>1, <3>2
  <2>7. Slots(t)
    BY <2>2, <2>4, <2>6 DEF Slots
  <2>8. Has(t, f)
    <3>1. n + 1 \in 1..(n + 1)
      BY <1>1
    <3> QED
      BY <3>1, <2>2, <1>2 DEF Has
  <2>9. ASSUME NEW g, Has(s, g) PROVE Has(t, g)
    <3>1. PICK i \in 1..n : s[i].kind = g.kind /\ s[i].name = g.name /\ s[i].size >= g.size
      BY <2>9 DEF Has
    <3>2. i \in 1..(n + 1) /\ t[i] = s[i]
      BY <1>1, <2>2
    <3> QED
      BY <3>1, <3>2, <2>2 DEF Has
  <2> QED
    BY <2>7, <2>8, <2>9 DEF t
<1>4. CASE same # {}
  <2> DEFINE i == CHOOSE i \in same : TRUE
             e == [kind |-> s[i].kind, name |-> s[i].name, aliases |-> s[i].aliases \cup f.aliases,
                   size |-> Distilled!Larger(s[i].size, f.size)]
  <2>1. i \in same
    BY <1>4
  <2>2. t = [s EXCEPT ![i].size = Distilled!Larger(@, f.size), ![i].aliases = @ \cup f.aliases]
    BY <1>4 DEF Distilled!Put
  <2>3. i \in 1..n /\ s[i].kind = f.kind /\ s[i].name = f.name
    BY <2>1, <1>1
  <2> HIDE DEF i, t
  <2>4. Distilled!IsFact(s[i])
    BY <2>3 DEF Slots
  <2>5. s[i] = [kind |-> s[i].kind, name |-> s[i].name, aliases |-> s[i].aliases, size |-> s[i].size] /\ s[i].size \in Nat
    BY <2>4 DEF Distilled!IsFact
  <2>6. Distilled!Larger(s[i].size, f.size) \in Nat /\ Distilled!Larger(s[i].size, f.size) >= s[i].size
        /\ Distilled!Larger(s[i].size, f.size) >= f.size
    BY <2>5, <1>2, LargerIs
  <2>8. e.kind = s[i].kind /\ e.name = s[i].name /\ e.size = Distilled!Larger(s[i].size, f.size)
        /\ e = [kind |-> e.kind, name |-> e.name, aliases |-> e.aliases, size |-> e.size]
    OBVIOUS
  <2>9. Distilled!IsFact(e)
    BY <2>4, <2>6, <2>8 DEF Distilled!IsFact
  <2>10. t = [k \in 1..n |-> IF k = i THEN e ELSE s[k]]
    <3> DEFINE big == Distilled!Larger(s[i].size, f.size)
               more == s[i].aliases \cup f.aliases
               one == [s EXCEPT ![i].size = big]
               x == [kind |-> s[i].kind, name |-> s[i].name, aliases |-> s[i].aliases, size |-> big]
    <3>1. t = [one EXCEPT ![i].aliases = more]
      BY <2>2, <2>3, <2>5, <1>1
    <3> HIDE DEF big, more
    <3>2. [s[i] EXCEPT !.size = big] = x
      <4>1. \E k, a, b, z : s[i] = [kind |-> k, name |-> a, aliases |-> b, size |-> z]
        BY <2>5
      <4>2. PICK k, a, b, z : s[i] = [kind |-> k, name |-> a, aliases |-> b, size |-> z]
        BY <4>1
      <4> QED
        BY <4>2, SlotChanged
    <3>3. one[i] = x /\ (\A k \in 1..n : k # i => one[k] = s[k]) /\ DOMAIN one = 1..n
      BY <3>2, <2>3, <1>1
    <3>4. [x EXCEPT !.aliases = more] = e
      <4>1. e = [kind |-> s[i].kind, name |-> s[i].name, aliases |-> more, size |-> big]
        BY DEF big, more
      <4> HIDE DEF e
      <4>2. [x EXCEPT !.aliases = more] = [kind |-> s[i].kind, name |-> s[i].name, aliases |-> more, size |-> big]
        BY SlotChanged
      <4> QED
        BY <4>1, <4>2
    <3> HIDE DEF one, x, e
    <3>5. t[i] = e /\ (\A k \in 1..n : k # i => t[k] = s[k]) /\ t = [k \in 1..n |-> t[k]]
      BY <3>1, <3>3, <3>4, <2>3
    <3> QED
      BY <3>5, <2>3
  <2> HIDE DEF e
  <2>11. t = [k \in 1..n |-> t[k]] /\ t[i] = e /\ \A k \in 1..n : k # i => t[k] = s[k]
    BY <2>10, <2>3
  <2>12. IsList(t) /\ Len(t) = n
    BY <2>11, <1>1, ListMade
  <2>13. \A k \in 1..n : t[k].kind = s[k].kind /\ t[k].name = s[k].name /\ t[k].size >= s[k].size /\ Distilled!IsFact(t[k])
    <3> SUFFICES ASSUME NEW k \in 1..n
                 PROVE  t[k].kind = s[k].kind /\ t[k].name = s[k].name /\ t[k].size >= s[k].size /\ Distilled!IsFact(t[k])
      OBVIOUS
    <3>1. CASE k = i
      BY <3>1, <2>6, <2>8, <2>9, <2>11
    <3>2. CASE k # i
      <4>1. t[k] = s[k] /\ Distilled!IsFact(s[k])
        BY <3>2, <2>11 DEF Slots
      <4> QED
        BY <4>1, <1>2
    <3> QED
      BY <3>1, <3>2
  <2>14. Slots(t)
    BY <2>12, <2>13 DEF Slots
  <2>15. Has(t, f)
    BY <2>3, <2>6, <2>8, <2>11, <2>12 DEF Has
  <2>16. ASSUME NEW g, Distilled!IsFact(g), Has(s, g) PROVE Has(t, g)
    <3>1. PICK k \in 1..n : s[k].kind = g.kind /\ s[k].name = g.name /\ s[k].size >= g.size
      BY <2>16 DEF Has
    <3>2. g.size \in Nat /\ t[k].size \in Nat /\ s[k].size \in Nat
      BY <2>16, <2>13, <1>2 DEF Distilled!IsFact
    <3>3. t[k].size >= g.size
      BY <3>1, <3>2, <2>13
    <3> QED
      BY <3>1, <3>3, <2>12, <2>13 DEF Has
  <2> QED
    BY <2>14, <2>15, <2>16 DEF t
<1> QED
  BY <1>3, <1>4

Link(a, kind, b) == [source |-> a, kind |-> kind, target |-> b]
IsRelation(r) == r = Link(r.source, r.kind, r.target)

LEMMA LinkIs ==
    ASSUME NEW r, IsRelation(r), NEW e, NEW f
    PROVE  [r EXCEPT !.source = e, !.target = f] = Link(e, r.kind, f)
<1>1. \E a, k, b : r = Link(a, k, b)
  BY DEF IsRelation
<1>2. PICK a, k, b : r = Link(a, k, b)
  BY <1>1
<1> DEFINE s == Link(a, k, b)  p == Link(e, k, b)
<1>3. [s EXCEPT !.source = e] = p /\ [p EXCEPT !.target = f] = Link(e, k, f) /\ s.kind = k
  BY DEF Link
<1> HIDE DEF s, p
<1>4. [s EXCEPT !.source = e, !.target = f] = [[s EXCEPT !.source = e] EXCEPT !.target = f]
  OBVIOUS
<1>5. r = s
  BY <1>2 DEF s
<1> QED
  BY <1>3, <1>4, <1>5

Facts(m) ==
    /\ Slots(m.slots)
    /\ \A r \in m.relations : IsRelation(r) /\ r.source # r.target
    /\ IsList(m.beats)
\* What was told of is kept.
Keeps(m, p) ==
    /\ \A i \in DOMAIN p.facts : Has(m.slots, p.facts[i])
    /\ \A i \in DOMAIN p.relations : p.relations[i].source # p.relations[i].target => p.relations[i] \in m.relations

\* A payload that is merged is kept, and so is what was kept.
LEMMA AddIs ==
    ASSUME NEW m, Facts(m), NEW p, Distilled!IsReply(p)
    PROVE  LET t == Distilled!Add(m, p)
           IN  Facts(t) /\ Keeps(t, p) /\ (\A q : Distilled!IsReply(q) /\ Keeps(m, q) => Keeps(t, q))
               /\ \A g : Distilled!IsFact(g) /\ Has(m.slots, g) => Has(t.slots, g)
<1> DEFINE t == Distilled!Add(m, p)  n == Len(p.facts)
<1>1. IsList(p.facts) /\ n \in Nat /\ DOMAIN p.facts = 1..n /\ \A k \in 1..n : Distilled!IsFact(p.facts[k])
  <2>1. IsList(p.facts) /\ \A f \in Distilled!Range(p.facts) : Distilled!IsFact(f)
    BY DEF Distilled!IsReply, IsList
  <2>2. n \in Nat /\ DOMAIN p.facts = 1..n /\ Distilled!Range(p.facts) = {p.facts[k] : k \in 1..n}
    BY <2>1, ListIs
  <2> QED
    BY <2>1, <2>2
<1>2. PICK upTo : AddRun(m, p, upTo)
  BY <1>1, AddLoop
<1>3. upTo[0] = m.slots /\ t.slots = upTo[n] /\ \A k \in 1..n : upTo[k] = Distilled!Put(upTo[k - 1], p.facts[k])
  BY <1>2 DEF AddRun
<1>4. t.relations = m.relations \cup {r \in Distilled!Range(p.relations) : r.source # r.target}
      /\ t.beats = m.beats \o p.beats
  BY DEF Distilled!Add
<1> HIDE DEF t, n
<1> DEFINE Good(k) == /\ Slots(upTo[k]) /\ \A j \in 1..k : Has(upTo[k], p.facts[j])
                      /\ \A g : Distilled!IsFact(g) /\ Has(m.slots, g) => Has(upTo[k], g)
           S == {k \in 0..n : Good(k)}
<1>5. 0 \in S
  <2>1. 0 \in 0..n /\ 1..0 = {}
    BY <1>1 DEF n
  <2> QED
    BY <2>1, <1>3 DEF Facts
<1>6. ASSUME NEW k \in 0..(n - 1), k \in S PROVE k + 1 \in S
  <2>1. k + 1 \in 1..n /\ k + 1 - 1 = k /\ k + 1 \in 0..n /\ 1..(k + 1) = (1..k) \cup {k + 1} /\ \A j \in 1..k : j \in 1..n
    BY <1>1 DEF n
  <2>2. upTo[k + 1] = Distilled!Put(upTo[k], p.facts[k + 1])
    BY <2>1, <1>3
  <2>3. Good(k)
    BY <1>6
  <2>4. Distilled!IsFact(p.facts[k + 1]) /\ \A j \in 1..k : Distilled!IsFact(p.facts[j])
    BY <2>1, <1>1 DEF n
  <2> DEFINE a == upTo[k]  b == upTo[k + 1]  f == p.facts[k + 1]
  <2>5. Slots(b) /\ Has(b, f) /\ \A g : Distilled!IsFact(g) /\ Has(a, g) => Has(b, g)
    <3>1. Slots(a) /\ Distilled!IsFact(f) /\ b = Distilled!Put(a, f)
      BY <2>2, <2>3, <2>4
    <3> HIDE DEF a, b, f
    <3> QED
      BY <3>1, PutIs
  <2>6. Good(k + 1)
    BY <2>1, <2>3, <2>4, <2>5
  <2> HIDE DEF Good
  <2> QED
    BY <2>1, <2>6
<1>7. Good(n)
  <2>1. 0..n \subseteq S
    <3>1. n \in Nat
      BY <1>1 DEF n
    <3> HIDE DEF S
    <3> QED
      BY <3>1, <1>5, <1>6, CountingTo
  <2>2. n \in 0..n
    BY <1>1 DEF n
  <2>3. n \in S
    BY <2>1, <2>2
  <2> HIDE DEF Good
  <2> QED
    BY <2>3
<1>8. /\ Slots(t.slots) /\ \A j \in DOMAIN p.facts : Has(t.slots, p.facts[j])
      /\ \A g : Distilled!IsFact(g) /\ Has(m.slots, g) => Has(t.slots, g)
  BY <1>7, <1>3, <1>1 DEF n
<1>9. \A r \in Distilled!Range(p.relations) : IsRelation(r)
  BY DEF Distilled!IsReply, IsRelation, Link
<1>10. IsList(t.beats)
  <2>1. IsList(m.beats) /\ IsList(p.beats)
    BY DEF Facts, Distilled!IsReply, IsList
  <2> QED
    BY <2>1, <1>4, ListJoined
<1>11. Facts(t)
  BY <1>4, <1>8, <1>9, <1>10 DEF Facts
<1>12. Keeps(t, p)
  <2>1. \A i \in DOMAIN p.relations : p.relations[i] \in Distilled!Range(p.relations)
    BY DEF Distilled!Range
  <2> QED
    BY <1>4, <1>8, <2>1 DEF Keeps
<1>13. ASSUME NEW q, Distilled!IsReply(q), Keeps(m, q) PROVE Keeps(t, q)
  <2>1. \A i \in DOMAIN q.facts : Distilled!IsFact(q.facts[i])
    BY <1>13 DEF Distilled!IsReply, Distilled!Range
  <2> QED
    BY <1>4, <1>8, <1>13, <2>1 DEF Keeps
<1> QED
  BY <1>8, <1>11, <1>12, <1>13 DEF t

LEMMA KindsAre ==
    /\ DOMAIN Distilled!Kinds = 1..5
    /\ Distilled!Range(Distilled!Kinds) = {"npc", "location", "faction", "item", "term"}
<1> DEFINE a == <<"npc", "location", "faction", "item">>  b == Distilled!Kinds
           S == {"npc", "location", "faction", "item", "term"}
<1>1. b = Append(a, "term")
  BY DEF Distilled!Kinds, Distilled!EntityKinds
<1>2. a \in Seq(S) /\ Len(a) = 4 /\ a[1] = "npc" /\ a[2] = "location" /\ a[3] = "faction" /\ a[4] = "item" /\ "term" \in S
  OBVIOUS
<1>3. DOMAIN b = 1..5 /\ b[1] = "npc" /\ b[2] = "location" /\ b[3] = "faction" /\ b[4] = "item" /\ b[5] = "term"
  <2> HIDE DEF a, S, b
  <2>1. b \in Seq(S) /\ Len(b) = Len(a) + 1 /\ b[Len(a) + 1] = "term" /\ \A k \in 1..Len(a) : b[k] = a[k]
    <3> DEFINE t == "term"
    <3>1. a \in Seq(S) /\ t \in S /\ b = Append(a, t)
      BY <1>1, <1>2
    <3> HIDE DEF t
    <3>2. b \in Seq(S) /\ Len(b) = Len(a) + 1 /\ b[Len(a) + 1] = t /\ \A k \in 1..Len(a) : b[k] = a[k]
      BY ONLY <3>1, AppendProperties
    <3> QED
      BY <3>2 DEF t
  <2>2. Len(b) = 5 /\ b[5] = "term" /\ 1 \in 1..Len(a) /\ 2 \in 1..Len(a) /\ 3 \in 1..Len(a) /\ 4 \in 1..Len(a)
    BY <2>1, <1>2
  <2> QED
    BY <2>1, <2>2, <1>2, LenProperties
<1> HIDE DEF a, b
<1>4. \A k \in 1..5 : k = 1 \/ k = 2 \/ k = 3 \/ k = 4 \/ k = 5
  OBVIOUS
<1>5. 1 \in 1..5 /\ 2 \in 1..5 /\ 3 \in 1..5 /\ 4 \in 1..5 /\ 5 \in 1..5
  OBVIOUS
<1>6. Distilled!Range(b) = {"npc", "location", "faction", "item", "term"}
  <2>1. \A x \in Distilled!Range(b) : x \in {"npc", "location", "faction", "item", "term"}
    BY <1>3, <1>4 DEF Distilled!Range
  <2>2. \A k \in 1..5 : b[k] \in Distilled!Range(b)
    BY <1>3 DEF Distilled!Range
  <2>3. {"npc", "location", "faction", "item", "term"} \subseteq Distilled!Range(b)
    BY <2>2, <1>3, <1>5
  <2> QED
    BY <2>1, <2>3
<1> QED
  BY <1>3, <1>6 DEF b

-----------------------------------------------------------------------------
\* Ties make groups: of one kind, and a slot is in one of them only.
LEMMA GroupIs ==
    ASSUME NEW s, Slots(s), NEW i \in 1..Len(s)
    PROVE  /\ i \in Distilled!Group(s, i) /\ Distilled!Group(s, i) \subseteq 1..Len(s)
           /\ \A j \in Distilled!Group(s, i) : s[j].kind = s[i].kind /\ Distilled!Group(s, j) = Distilled!Group(s, i)
           /\ s[i].kind = "term" => Distilled!Group(s, i) = {i}
<1> DEFINE D == {k \in DOMAIN s : s[k].kind = s[i].kind}
           Shut(g) == \A a, b \in D : Distilled!Tie(s, a, b) => (a \in g <=> b \in g)
           closed == {g \in SUBSET D : Shut(g)}
<1>1. D \subseteq 1..Len(s) /\ i \in D
  BY ListIs DEF Slots
<1>2. ASSUME NEW k \in D
      PROVE  Distilled!Group(s, k) = {j \in D : \A g \in closed : k \in g => j \in g}
  <2>1. D = {j \in DOMAIN s : s[j].kind = s[k].kind}
    OBVIOUS
  <2> HIDE DEF D
  <2> QED
    BY <2>1 DEF Distilled!Group
<1>3. \A a, b : Distilled!Tie(s, a, b) => s[a].kind = s[b].kind /\ s[a].kind # "term"
  BY DEF Distilled!Tie
<1>4. \A g \in closed : D \ g \in closed
  BY DEF closed
<1>5. \A j \in D : s[j].kind = s[i].kind
  OBVIOUS
<1>6. ASSUME s[i].kind = "term" PROVE {i} \in closed
  BY <1>1, <1>3, <1>6 DEF closed
<1> HIDE DEF closed, D
<1>7. i \in Distilled!Group(s, i) /\ Distilled!Group(s, i) \subseteq 1..Len(s)
  BY <1>1, <1>2
<1>8. ASSUME NEW j \in Distilled!Group(s, i)
      PROVE  s[j].kind = s[i].kind /\ Distilled!Group(s, j) = Distilled!Group(s, i)
  <2>1. j \in D /\ \A g \in closed : i \in g => j \in g
    BY <1>1, <1>2
  <2>2. s[j].kind = s[i].kind
    BY <2>1, <1>5
  <2>3. \A g \in closed : i \in g <=> j \in g
    <3> SUFFICES ASSUME NEW g \in closed, j \in g, i \notin g PROVE FALSE
      BY <2>1
    <3>1. D \ g \in closed /\ i \in D \ g /\ j \notin D \ g
      BY <1>1, <1>4
    <3> QED
      BY <2>1, <3>1
  <2>4. /\ Distilled!Group(s, i) = {k \in D : \A g \in closed : i \in g => k \in g}
        /\ Distilled!Group(s, j) = {k \in D : \A g \in closed : j \in g => k \in g}
    BY <1>1, <1>2, <2>1
  <2> QED
    BY <2>2, <2>3, <2>4
<1>9. ASSUME s[i].kind = "term" PROVE Distilled!Group(s, i) = {i}
  <2>1. {i} \in closed
    BY <1>6, <1>9
  <2> QED
    BY <2>1, <1>1, <1>2, <1>7
<1> QED
  BY <1>7, <1>8, <1>9

Named == NameOrder \in Seq(Distilled!Range(NameOrder))

LEMMA OrderIs ==
    ASSUME Named, NEW a \in Distilled!Range(NameOrder), NEW b \in Distilled!Range(NameOrder)
    PROVE  /\ Distilled!Order(a) \in Nat
           /\ Distilled!Order(a) = Distilled!Order(b) => a = b
<1>1. \A x \in Distilled!Range(NameOrder) :
          Distilled!Order(x) \in DOMAIN NameOrder /\ NameOrder[Distilled!Order(x)] = x
  <2> SUFFICES ASSUME NEW x \in Distilled!Range(NameOrder)
               PROVE  Distilled!Order(x) \in DOMAIN NameOrder /\ NameOrder[Distilled!Order(x)] = x
    OBVIOUS
  <2>1. \E i \in DOMAIN NameOrder : NameOrder[i] = x
    BY DEF Distilled!Range
  <2> QED
    BY <2>1 DEF Distilled!Order
<1>2. DOMAIN NameOrder \subseteq Nat
  <2>1. IsList(NameOrder)
    BY DEF Named, IsList
  <2>2. DOMAIN NameOrder = 1..Len(NameOrder) /\ Len(NameOrder) \in Nat
    BY <2>1, ListIs
  <2> QED
    BY <2>2
<1> QED
  BY <1>1, <1>2

\* Of slots of one kind, one is left.
LEMMA SurvivorIs ==
    ASSUME Named, NEW s, Slots(s), NEW members \in SUBSET (1..Len(s)), members # {},
           \A i, j \in members : s[i].kind = s[j].kind
    PROVE  Distilled!Survivor(s, members) \in members
<1> DEFINE n == Len(s)
           size == [i \in 1..n |-> s[i].size]
           order == [i \in 1..n |-> Distilled!Order(s[i].name)]
<1>1. n \in Nat
  BY ListIs DEF Slots
<1>2. \A i \in 1..n : s[i].size \in Nat /\ s[i].name \in Distilled!Range(NameOrder)
  BY DEF Slots, Distilled!IsFact
<1>3. size \in [1..n -> Nat]
  BY <1>2
<1>4. PICK big \in members : \A j \in members : size[j] <= size[big]
  <2> HIDE DEF size, n
  <2>1. members \in SUBSET (1..n)
    BY DEF n
  <2> QED
    BY <1>1, <1>3, <2>1, GreatestIs
<1> DEFINE bigs == {j \in members : size[j] = size[big]}
           orders == {order[j] : j \in bigs}
<1>5. \A j \in 1..n : order[j] \in Nat
  BY <1>2, OrderIs
<1>6. orders \in SUBSET Nat /\ orders # {}
  <2> HIDE DEF order
  <2>1. big \in bigs /\ \A j \in bigs : order[j] \in Nat
    BY <1>5
  <2> QED
    BY <2>1
<1>7. PICK o \in orders : \A q \in orders : o <= q
  <2> HIDE DEF orders
  <2> QED
    BY <1>6, FirstIs
<1>8. PICK i \in bigs : order[i] = o
  BY <1>7
<1>9. i \in members /\ i \in 1..n /\ size[i] = size[big]
  BY <1>8
<1>10. ASSUME NEW j \in members \ {i}
       PROVE  \/ s[i].size > s[j].size
              \/ s[i].size = s[j].size /\ Distilled!Order(s[i].name) < Distilled!Order(s[j].name)
  <2>1. j \in 1..n /\ size[j] <= size[i] /\ size[i] = s[i].size /\ size[j] = s[j].size
    BY <1>4, <1>9
  <2>2. s[i].size \in Nat /\ s[j].size \in Nat
    BY <1>2, <1>9, <2>1
  <2>3. CASE s[j].size = s[i].size
    <3>1. j \in bigs
      BY <2>1, <2>3, <1>9
    <3>2. order[i] <= order[j] /\ order[i] = Distilled!Order(s[i].name) /\ order[j] = Distilled!Order(s[j].name)
      BY <3>1, <2>1, <1>7, <1>8, <1>9
    <3>3. Distilled!Order(s[i].name) # Distilled!Order(s[j].name)
      <4>1. s[i].name # s[j].name
        BY <2>1, <1>9 DEF Slots
      <4>2. s[i].name \in Distilled!Range(NameOrder) /\ s[j].name \in Distilled!Range(NameOrder)
        BY <1>2, <1>9, <2>1
      <4> QED
        BY <4>1, <4>2, OrderIs
    <3>4. Distilled!Order(s[i].name) \in Nat /\ Distilled!Order(s[j].name) \in Nat
      BY <1>2, <1>9, <2>1, OrderIs
    <3> HIDE DEF order
    <3>5. Distilled!Order(s[i].name) < Distilled!Order(s[j].name)
      BY <3>2, <3>3, <3>4
    <3> QED
      BY <2>3, <3>5
  <2>4. CASE s[j].size # s[i].size
    BY <2>1, <2>2, <2>4
  <2> QED
    BY <2>3, <2>4
<1>11. \E k \in members : \A j \in members \ {k} :
          \/ s[k].size > s[j].size
          \/ s[k].size = s[j].size /\ Distilled!Order(s[k].name) < Distilled!Order(s[j].name)
  BY <1>9, <1>10
<1> QED
  BY <1>11 DEF Distilled!Survivor

\* The best of a group is in it, and is its own best.
LEMMA BestIs ==
    ASSUME Named, NEW s, Slots(s), NEW i \in 1..Len(s)
    PROVE  LET b == Distilled!Best(s, i)
           IN  /\ b \in Distilled!Group(s, i) /\ b \in Distilled!Left(s) /\ b \in 1..Len(s)
               /\ Distilled!Group(s, b) = Distilled!Group(s, i)
<1> DEFINE g == Distilled!Group(s, i)  b == Distilled!Best(s, i)
<1>1. /\ i \in g /\ g \subseteq 1..Len(s)
      /\ \A j \in g : s[j].kind = s[i].kind /\ Distilled!Group(s, j) = g
  BY GroupIs
<1>2. b = Distilled!Survivor(s, g)
  BY DEF Distilled!Best
<1> HIDE DEF g, b
<1>3. b \in g
  BY <1>1, <1>2, SurvivorIs
<1>4. Distilled!Group(s, b) = g /\ b \in 1..Len(s)
  BY <1>1, <1>3
<1>5. Distilled!Best(s, b) = b
  BY <1>2, <1>4 DEF Distilled!Best
<1>6. DOMAIN s = 1..Len(s)
  BY ListIs DEF Slots
<1> QED
  BY <1>3, <1>4, <1>5, <1>6 DEF g, b, Distilled!Left

-----------------------------------------------------------------------------
SizesOf(s, g) == {s[j].size : j \in g}
NamesOf(s, g) == UNION {s[j].aliases \cup {s[j].name} : j \in g}

LEMMA JoinedAs ==
    ASSUME NEW s, NEW g, NEW i, NEW k, NEW n, NEW a, NEW z,
           s[i] = [kind |-> k, name |-> n, aliases |-> a, size |-> z]
    PROVE  Distilled!Joined(s, g, i) =
              [kind |-> k, name |-> n, aliases |-> NamesOf(s, g) \ {s[i].name}, size |-> Distilled!Max(SizesOf(s, g))]
<1> DEFINE x == s[i]
           S == {s[j].size : j \in g}
           A == UNION {s[j].aliases \cup {s[j].name} : j \in g}
           b == Distilled!Max({s[j].size : j \in g})
           c == (UNION {s[j].aliases \cup {s[j].name} : j \in g}) \ {s[i].name}
           r == [kind |-> k, name |-> n, aliases |-> a, size |-> z]
           q == [kind |-> k, name |-> n, aliases |-> a, size |-> b]
<1>1. Distilled!Joined(s, g, i) = [x EXCEPT !.size = b, !.aliases = c]
  BY Zenon DEF Distilled!Joined
<1>2. x = r
  OBVIOUS
<1> HIDE DEF b, c
<1>3. [r EXCEPT !.size = b] = q /\ [q EXCEPT !.aliases = c] = [kind |-> k, name |-> n, aliases |-> c, size |-> b]
  BY SlotChanged
<1> HIDE DEF x, r, q
<1>4. [r EXCEPT !.size = b, !.aliases = c] = [[r EXCEPT !.size = b] EXCEPT !.aliases = c]
  OBVIOUS
<1>5. Distilled!Joined(s, g, i) = [kind |-> k, name |-> n, aliases |-> c, size |-> b]
  BY <1>1, <1>2, <1>3, <1>4
<1>6. b = Distilled!Max(SizesOf(s, g)) /\ c = NamesOf(s, g) \ {s[i].name}
  <2>1. S = SizesOf(s, g) /\ A = NamesOf(s, g)
    BY DEF SizesOf, NamesOf
  <2>2. b = Distilled!Max(S)
    BY ONLY Zenon DEF b
  <2>3. c = A \ {s[i].name}
    BY ONLY Zenon DEF c
  <2> HIDE DEF S, A
  <2> QED
    BY <2>1, <2>2, <2>3
<1> QED
  BY <1>5, <1>6

\* What is left of a group answers to the names of all, and has the longest description.
LEMMA JoinedIs ==
    ASSUME Named, NEW s, Slots(s), NEW i \in 1..Len(s)
    PROVE  LET e == Distilled!Joined(s, Distilled!Group(s, i), i)
           IN  /\ e.kind = s[i].kind /\ e.name = s[i].name /\ Distilled!IsFact(e)
               /\ \A j \in Distilled!Group(s, i) : s[j].name \in Distilled!Answers(e) /\ e.size >= s[j].size
<1> DEFINE g == Distilled!Group(s, i)  n == Len(s)
           e == Distilled!Joined(s, g, i)
           sizes == SizesOf(s, g)
           all == NamesOf(s, g)
           rest == all \ {s[i].name}
           size == [j \in 1..n |-> s[j].size]
           max == Distilled!Max(sizes)
<1>1. i \in g /\ g \subseteq 1..n /\ n \in Nat
  BY GroupIs, ListIs DEF Slots
<1>2. \A j \in 1..n : s[j].size \in Nat
  BY DEF Slots, Distilled!IsFact
<1>3. PICK big \in g : \A j \in g : size[j] <= size[big]
  <2>1. size \in [1..n -> Nat] /\ g \in SUBSET (1..n) /\ g # {}
    BY <1>1, <1>2
  <2> HIDE DEF size, n, g
  <2> QED
    BY <2>1, <1>1, GreatestIs
<1>4. max \in sizes /\ \A x \in sizes : max >= x
  <2> HIDE DEF g
  <2>1. \A j \in g : s[j].size <= s[big].size /\ s[j].size \in Nat /\ s[big].size \in Nat
    BY <1>1, <1>2, <1>3
  <2>2. \A x \in sizes : s[big].size >= x
    BY <2>1 DEF SizesOf
  <2>3. s[big].size \in sizes
    BY <1>3 DEF SizesOf
  <2>4. \E m \in sizes : \A x \in sizes : m >= x
    BY <2>2, <2>3
  <2> HIDE DEF sizes
  <2> QED
    BY <2>4 DEF Distilled!Max
<1>5. max \in Nat /\ \A j \in g : max >= s[j].size
  <2> HIDE DEF g, max
  <2> QED
    BY <1>1, <1>2, <1>4 DEF SizesOf
<1>7. PICK k, a, b, z : s[i] = [kind |-> k, name |-> a, aliases |-> b, size |-> z]
  <2>1. s[i] = [kind |-> s[i].kind, name |-> s[i].name, aliases |-> s[i].aliases, size |-> s[i].size]
    BY DEF Slots, Distilled!IsFact
  <2>2. \E k, a, b, z : s[i] = [kind |-> k, name |-> a, aliases |-> b, size |-> z]
    BY <2>1
  <2> QED
    BY <2>2
<1>8. \A j \in g : s[j].name \in all
  <2> HIDE DEF g
  <2> QED
    BY DEF NamesOf
<1>9. e = [kind |-> k, name |-> a, aliases |-> rest, size |-> max]
  <2> HIDE DEF g
  <2> QED
    BY <1>7, JoinedAs
<1> HIDE DEF e, max, rest
<1>10. e.kind = s[i].kind /\ e.name = s[i].name /\ e.aliases = rest /\ e.size = max
       /\ e = [kind |-> e.kind, name |-> e.name, aliases |-> e.aliases, size |-> e.size]
  BY <1>7, <1>9
<1>11. s[i].kind \in Distilled!Range(Distilled!Kinds) /\ s[i].name \in Distilled!Range(NameOrder)
  BY DEF Slots, Distilled!IsFact
<1>12. Distilled!IsFact(e)
  BY <1>5, <1>10, <1>11 DEF Distilled!IsFact
<1>13. \A j \in g : s[j].name \in Distilled!Answers(e)
  <2> HIDE DEF g, all
  <2> QED
    BY <1>8, <1>10 DEF Distilled!Answers, rest
<1> QED
  BY <1>5, <1>10, <1>12, <1>13 DEF e

\* A name that is merged away is that of a slot whose best has another; any other stays.
LEMMA NowIs ==
    ASSUME Named, NEW s, Slots(s), NEW x
    PROVE  \/ Distilled!Now(s, x) = x
           \/ \E i \in 1..Len(s) : /\ s[i].name = x /\ s[i].kind # "term"
                                   /\ Distilled!Now(s, x) = s[Distilled!Best(s, i)].name
<1> DEFINE n == Len(s)
           away == {i \in DOMAIN s \ Distilled!Left(s) : s[i].name = x}
           kind == [i \in 1..n |-> Distilled!KindAt(s, i)]
           Latest(i) == \A j \in away : Distilled!KindAt(s, j) <= Distilled!KindAt(s, i)
           i == CHOOSE i \in away : Latest(i)
<1>1. CASE away = {}
  <2>1. Distilled!Now(s, x) = x
    BY <1>1 DEF Distilled!Now
  <2> QED
    BY <2>1
<1>2. CASE away # {}
  <2>1. n \in Nat /\ DOMAIN s = 1..n
    BY ListIs DEF Slots
  <2>2. kind \in [1..n -> Nat]
    <3> SUFFICES ASSUME NEW k \in 1..n PROVE Distilled!KindAt(s, k) \in Nat
      OBVIOUS
    <3>1. s[k].kind \in Distilled!Range(Distilled!Kinds)
      BY DEF Slots, Distilled!IsFact
    <3>2. \E c \in DOMAIN Distilled!Kinds : Distilled!Kinds[c] = s[k].kind
      BY <3>1 DEF Distilled!Range
    <3>3. Distilled!KindAt(s, k) \in DOMAIN Distilled!Kinds
      BY <3>2 DEF Distilled!KindAt
    <3>4. DOMAIN Distilled!Kinds = 1..5
      BY KindsAre
    <3> QED
      BY <3>3, <3>4
  <2>3. away \in SUBSET (1..n)
    BY <2>1
  <2>4. PICK k \in away : \A j \in away : kind[j] <= kind[k]
    <3> HIDE DEF kind, away, n
    <3> QED
      BY <1>2, <2>1, <2>2, <2>3, GreatestIs
  <2>5. \A j \in away : j \in 1..n
    BY <2>3
  <2>6. \E j \in away : Latest(j)
    <3> HIDE DEF away
    <3>1. \A j \in 1..n : kind[j] = Distilled!KindAt(s, j)
      OBVIOUS
    <3> HIDE DEF kind
    <3> QED
      BY <2>4, <2>5, <3>1
  <2>7. i \in away
    <3> HIDE DEF Latest
    <3> QED
      BY <2>6
  <2>8. Distilled!Now(s, x) = s[Distilled!Best(s, i)].name
    BY <1>2 DEF Distilled!Now
  <2> HIDE DEF i
  <2>9. i \in 1..n /\ i \notin Distilled!Left(s) /\ s[i].name = x
    BY <2>1, <2>7
  <2>10. s[i].kind # "term"
    <3> SUFFICES ASSUME s[i].kind = "term" PROVE FALSE
      OBVIOUS
    <3>1. Distilled!Group(s, i) = {i}
      BY <2>9, GroupIs
    <3>2. Distilled!Best(s, i) = i /\ Distilled!Best(s, i) \in Distilled!Left(s)
      BY <2>9, <3>1, BestIs
    <3> QED
      BY <2>9, <3>2
  <2> QED
    BY <2>8, <2>9, <2>10
<1> QED
  BY <1>1, <1>2

\* What the slots of a merge have become: what was told of is still there, under the same kind, and
\* a name and what it is replaced by are of one slot.
Answered(t, f) ==
    \E k \in 1..Len(t) : t[k].kind = f.kind /\ f.name \in Distilled!Answers(t[k]) /\ t[k].size >= f.size
OneSlot(t, x, y) ==
    x = y \/ \E k \in 1..Len(t) : t[k].kind # "term" /\ x \in Distilled!Answers(t[k]) /\ t[k].name = y

LEMMA ResolvedIs ==
    ASSUME Named, NEW m, Facts(m)
    PROVE  LET t == Distilled!ResolveAliases(m)
           IN  /\ Slots(t.slots)
               /\ \A f : Distilled!IsFact(f) /\ Has(m.slots, f) => Answered(t.slots, f)
               /\ \A x : OneSlot(t.slots, x, Distilled!Now(m.slots, x))
               /\ \A r \in m.relations :
                     LET q == Link(Distilled!Now(m.slots, r.source), r.kind, Distilled!Now(m.slots, r.target))
                     IN  q.source = q.target \/ q \in t.relations
               /\ \A r \in t.relations : IsRelation(r)
               /\ DOMAIN t.beats = DOMAIN m.beats
<1> DEFINE s == m.slots  t == Distilled!ResolveAliases(m)  n == Len(s)
           left == Distilled!Only(Distilled!Places(s), Distilled!Left(s))
           u == t.slots
           N == Len(left)
           joined(k) == Distilled!Joined(s, Distilled!Group(s, left[k]), left[k])
<1>1. Slots(s) /\ n \in Nat /\ DOMAIN s = 1..n
  BY ListIs DEF Facts, Slots
<1>2. /\ u = [k \in DOMAIN left |-> joined(k)]
      /\ t.relations = {r \in {[r EXCEPT !.source = Distilled!Now(s, @), !.target = Distilled!Now(s, @)] : r \in m.relations} :
                           r.source # r.target}
      /\ DOMAIN t.beats = DOMAIN m.beats
  BY DEF Distilled!ResolveAliases
<1>3. /\ IsList(left) /\ Distilled!Range(left) = Distilled!Left(s)
      /\ \A i, j \in DOMAIN left : left[i] = left[j] => i = j
  <2> DEFINE p == Distilled!Places(s)
  <2>1. p = [k \in 1..n |-> k]
    BY <1>1 DEF Distilled!Places
  <2>2. p = [k \in 1..n |-> p[k]] /\ DOMAIN p = 1..n /\ \A k \in 1..n : p[k] = k
    BY <2>1
  <2>3. Distilled!Left(s) \subseteq 1..n
    BY <1>1 DEF Distilled!Left
  <2> HIDE DEF p
  <2>4. IsList(p)
    BY <2>2, <1>1, ListMade
  <2>5. \A i, j \in DOMAIN p : p[i] = p[j] => i = j
    BY <2>2
  <2> DEFINE places == Distilled!Left(s)  x == Distilled!Only(p, places)
  <2> HIDE DEF places
  <2>6. IsList(x) /\ Distilled!Range(x) = {p[i] : i \in places \cap DOMAIN p} /\ \A i, j \in DOMAIN x : x[i] = x[j] => i = j
    BY <2>4, <2>5, OnlyIs
  <2>7. {p[i] : i \in places \cap DOMAIN p} = places
    BY <2>2, <2>3 DEF places
  <2>8. x = left
    BY DEF p, places
  <2> QED
    BY <2>6, <2>7, <2>8 DEF places
<1> HIDE DEF left
<1>4. N \in Nat /\ DOMAIN left = 1..N /\ Distilled!Range(left) = {left[k] : k \in 1..N}
  BY <1>3, ListIs
<1>5. \A k \in 1..N : left[k] \in 1..n
  BY <1>1, <1>3, <1>4 DEF Distilled!Left
<1> HIDE DEF t, joined
<1>6. u = [k \in 1..N |-> u[k]] /\ \A k \in 1..N : u[k] = joined(k)
  BY <1>2, <1>4
<1>7. IsList(u) /\ Len(u) = N
  <2> HIDE DEF u, N
  <2> QED
    BY <1>4, <1>6, ListMade
<1>8. \A k \in 1..N : /\ u[k].kind = s[left[k]].kind /\ u[k].name = s[left[k]].name /\ Distilled!IsFact(u[k])
                      /\ \A j \in Distilled!Group(s, left[k]) : s[j].name \in Distilled!Answers(u[k]) /\ u[k].size >= s[j].size
  <2> SUFFICES ASSUME NEW k \in 1..N
               PROVE  /\ u[k].kind = s[left[k]].kind /\ u[k].name = s[left[k]].name /\ Distilled!IsFact(u[k])
                      /\ \A j \in Distilled!Group(s, left[k]) : s[j].name \in Distilled!Answers(u[k]) /\ u[k].size >= s[j].size
    OBVIOUS
  <2> DEFINE i == left[k]
  <2>1. i \in 1..Len(s) /\ Slots(s) /\ u[k] = Distilled!Joined(s, Distilled!Group(s, i), i)
    BY <1>1, <1>5, <1>6 DEF joined
  <2> HIDE DEF i, s, u
  <2> QED
    BY <2>1, JoinedIs DEF i
<1> HIDE DEF s, u
<1>9. Slots(u)
  <2> SUFFICES ASSUME NEW i \in 1..N, NEW j \in 1..N, u[i].kind = u[j].kind, u[i].name = u[j].name
               PROVE  i = j
    BY <1>7, <1>8 DEF Slots
  <2>1. s[left[i]].kind = s[left[j]].kind /\ s[left[i]].name = s[left[j]].name
    BY <1>8
  <2>2. left[i] = left[j]
    BY <2>1, <1>1, <1>5 DEF Slots
  <2> QED
    BY <2>2, <1>3, <1>4
<1>10. \A i \in 1..n : \E k \in 1..N : left[k] = Distilled!Best(s, i) /\ Distilled!Group(s, left[k]) = Distilled!Group(s, i)
                                       /\ i \in Distilled!Group(s, left[k])
  <2> SUFFICES ASSUME NEW i \in 1..n
               PROVE  \E k \in 1..N : left[k] = Distilled!Best(s, i) /\ Distilled!Group(s, left[k]) = Distilled!Group(s, i)
                                       /\ i \in Distilled!Group(s, left[k])
    OBVIOUS
  <2> DEFINE b == Distilled!Best(s, i)
  <2>1. b \in Distilled!Left(s) /\ Distilled!Group(s, b) = Distilled!Group(s, i) /\ i \in Distilled!Group(s, i)
    BY <1>1, BestIs, GroupIs
  <2> HIDE DEF b
  <2>2. PICK k \in 1..N : left[k] = b
    BY <2>1, <1>3, <1>4
  <2> QED
    BY <2>1, <2>2 DEF b
<1>11. ASSUME NEW f, Distilled!IsFact(f), Has(s, f) PROVE Answered(u, f)
  <2>1. PICK i \in 1..n : s[i].kind = f.kind /\ s[i].name = f.name /\ s[i].size >= f.size
    BY <1>11 DEF Has
  <2>2. PICK k \in 1..N : Distilled!Group(s, left[k]) = Distilled!Group(s, i) /\ i \in Distilled!Group(s, left[k])
    BY <1>10
  <2>3. s[i].name \in Distilled!Answers(u[k]) /\ u[k].size >= s[i].size /\ u[k].kind = s[left[k]].kind
    BY <2>2, <1>8
  <2>4. s[left[k]].kind = s[i].kind
    <3>1. left[k] \in Distilled!Group(s, left[k])
      BY <1>1, <1>5, GroupIs
    <3> QED
      BY <3>1, <2>2, <1>1, GroupIs
  <2>5. f.size \in Nat /\ s[i].size \in Nat /\ u[k].size \in Nat
    BY <1>8, <1>11, <1>1 DEF Slots, Distilled!IsFact
  <2>6. u[k].size >= f.size
    BY <2>1, <2>3, <2>5
  <2> QED
    BY <2>1, <2>3, <2>4, <2>6, <1>7 DEF Answered
<1>12. ASSUME NEW x PROVE OneSlot(u, x, Distilled!Now(s, x))
  <2>1. CASE Distilled!Now(s, x) = x
    BY <2>1 DEF OneSlot
  <2>2. CASE Distilled!Now(s, x) # x
    <3>1. PICK i \in 1..n : s[i].name = x /\ s[i].kind # "term" /\ Distilled!Now(s, x) = s[Distilled!Best(s, i)].name
      BY <2>2, <1>1, NowIs
    <3>2. PICK k \in 1..N : left[k] = Distilled!Best(s, i) /\ Distilled!Group(s, left[k]) = Distilled!Group(s, i)
                            /\ i \in Distilled!Group(s, left[k])
      BY <1>10
    <3>3. u[k].kind = s[left[k]].kind /\ u[k].name = s[left[k]].name /\ s[i].name \in Distilled!Answers(u[k])
      BY <3>2, <1>8
    <3>4. s[left[k]].kind = s[i].kind
      <4>1. left[k] \in Distilled!Group(s, left[k])
        BY <1>1, <1>5, GroupIs
      <4> QED
        BY <4>1, <3>2, <1>1, GroupIs
    <3> QED
      BY <3>1, <3>2, <3>3, <3>4, <1>7 DEF OneSlot
  <2> QED
    BY <2>1, <2>2
<1> DEFINE now(r) == Link(Distilled!Now(s, r.source), r.kind, Distilled!Now(s, r.target))
<1>13. \A r \in m.relations : [r EXCEPT !.source = Distilled!Now(s, @), !.target = Distilled!Now(s, @)] = now(r)
  <2> SUFFICES ASSUME NEW r \in m.relations
               PROVE  [r EXCEPT !.source = Distilled!Now(s, @), !.target = Distilled!Now(s, @)] = now(r)
    OBVIOUS
  <2> DEFINE c == Distilled!Now(s, r.source)  d == Distilled!Now(s, r.target)
  <2>1. IsRelation(r)
    BY DEF Facts
  <2>2. [r EXCEPT !.source = c, !.target = d] = Link(c, r.kind, d)
    <3> HIDE DEF c, d
    <3> QED
      BY <2>1, LinkIs
  <2> QED
    BY <2>2
<1>14. t.relations = {q \in {now(r) : r \in m.relations} : q.source # q.target}
  <2>1. {[r EXCEPT !.source = Distilled!Now(s, @), !.target = Distilled!Now(s, @)] : r \in m.relations}
           = {now(r) : r \in m.relations}
    BY <1>13
  <2> QED
    BY <2>1, <1>2 DEF s
<1>15. \A r \in m.relations : now(r).source = now(r).target \/ now(r) \in t.relations
  <2> HIDE DEF now
  <2> QED
    BY <1>14
<1>16. \A q \in t.relations : IsRelation(q)
  BY <1>14 DEF IsRelation, Link
<1> QED
  BY <1>2, <1>9, <1>11, <1>12, <1>15, <1>16 DEF s, t, u

-----------------------------------------------------------------------------
\* _unique_id: an id that is not used; among so many numbers one is free.
LEMMA FreeIdIs ==
    ASSUME NEW kind, NEW name, NEW used, IsFiniteSet(used)
    PROVE  Distilled!UniqueId(kind, name, used) \notin used
<1> DEFINE c == Cardinality(used)
           N == 1..(c + 1)
           id(n) == <<kind, Slugs[name], n>>
           f == [m \in N |-> id(m)]
           free == {m \in N : id(m) \notin used}
           Is(n) == id(n) \notin used /\ \A m \in 1..(n - 1) : id(m) \in used
           n == CHOOSE n \in 1..(Distilled!Cardinality(used) + 1) : Is(n)
<1>1. c \in Nat /\ Distilled!Cardinality(used) = c
  BY FS_CardinalityType, DistilledCounts
<1>2. free # {}
  <2> SUFFICES ASSUME free = {} PROVE FALSE
    OBVIOUS
  <2>1. f \in [N -> used]
    OBVIOUS
  <2>2. IsFiniteSet(N) /\ Cardinality(N) = c + 1
    BY <1>1, FS_Interval
  <2>3. \A x, y \in N : f[x] = f[y] => x = y
    OBVIOUS
  <2> HIDE DEF f, N
  <2>4. Cardinality(used) < Cardinality(N)
    BY <1>1, <2>2
  <2> QED
    BY <2>1, <2>2, <2>3, <2>4, FS_PigeonHole
<1>3. free \in SUBSET Nat
  BY <1>1
<1> HIDE DEF free
<1>4. PICK m \in free : \A k \in free : m <= k
  BY <1>2, <1>3, FirstIs
<1>5. m \in N /\ id(m) \notin used
  BY DEF free
<1>6. \A k \in 1..(m - 1) : k \in N /\ k \notin free
  BY <1>1, <1>4, <1>5
<1>7. Is(m)
  BY <1>5, <1>6 DEF free
<1>8. Is(n)
  <2> HIDE DEF Is
  <2>1. \E k \in 1..(Distilled!Cardinality(used) + 1) : Is(k)
    BY <1>1, <1>5, <1>7
  <2> QED
    BY <2>1
<1>9. Distilled!UniqueId(kind, name, used) = id(n)
  BY DEF Distilled!UniqueId
<1> HIDE DEF n
<1> QED
  BY <1>8, <1>9

\* The ids of what comes before the k-th.
Before(id, k) == {id[j] : j \in 1..(k - 1)}
NumberedRun(named, used, id) ==
    /\ DOMAIN id = 1..Len(named)
    /\ \A k \in 1..Len(named) : id[k] = Distilled!UniqueId(named[k].kind, named[k].name, used \cup Before(id, k))
    /\ Distilled!Numbered(named, used) = id

LEMMA NumberedLoop ==
    ASSUME NEW named, NEW used, Len(named) \in Nat
    PROVE  \E id : NumberedRun(named, used, id)
<1> DEFINE m == Len(named)
           One(f, k) == Distilled!UniqueId(named[k].kind, named[k].name, used \cup {f[j] : j \in 1..(k - 1)})
           Is(f, n) == f = [k \in 1..n |-> One(f, k)]
           S == {n \in Nat : \E f : Is(f, n)}
           id == CHOOSE f : Is(f, m)
<1>1. 0 \in S
  <2>1. <<>> = [k \in 1..0 |-> One(<<>>, k)]
    <3>1. 1..0 = {} /\ DOMAIN <<>> = {}
      OBVIOUS
    <3> HIDE DEF One
    <3> QED
      BY <3>1
  <2> HIDE DEF One
  <2> QED
    BY <2>1
<1>2. ASSUME NEW n \in Nat, n \in S PROVE n + 1 \in S
  <2>1. PICK f : Is(f, n)
    BY <1>2
  <2> DEFINE g == [k \in 1..(n + 1) |-> IF k = n + 1 THEN One(f, n + 1) ELSE f[k]]
  <2>2. ASSUME NEW k \in 1..(n + 1) PROVE g[k] = One(g, k)
    <3>1. \A j \in 1..n : g[j] = f[j]
      OBVIOUS
    <3>2. \A j \in 1..(k - 1) : j \in 1..n
      OBVIOUS
    <3>3. {g[j] : j \in 1..(k - 1)} = {f[j] : j \in 1..(k - 1)}
      <4> HIDE DEF g
      <4> QED
        BY <3>1, <3>2
    <3>4. One(g, k) = One(f, k)
      <4> DEFINE a == {g[j] : j \in 1..(k - 1)}  b == {f[j] : j \in 1..(k - 1)}
      <4>1. a = b
        BY <3>3
      <4>2. One(g, k) = Distilled!UniqueId(named[k].kind, named[k].name, used \cup a)
        BY Zenon
      <4>3. One(f, k) = Distilled!UniqueId(named[k].kind, named[k].name, used \cup b)
        BY Zenon
      <4> HIDE DEF One, a, b
      <4> QED
        BY <4>1, <4>2, <4>3
    <3>5. CASE k = n + 1
      <4>1. g[k] = One(f, k)
        BY <3>5
      <4> QED
        BY <3>4, <4>1
    <3>6. CASE k \in 1..n
      <4>1. f[k] = One(f, k) /\ g[k] = f[k]
        BY <2>1, <3>1, <3>6
      <4> QED
        BY <3>4, <4>1
    <3> QED
      BY <3>5, <3>6
  <2>3. Is(g, n + 1)
    <3>1. g = [k \in 1..(n + 1) |-> g[k]]
      OBVIOUS
    <3> HIDE DEF g, One
    <3> QED
      BY ONLY <2>2, <3>1
  <2>4. \E h : Is(h, n + 1)
    <3> HIDE DEF g, One
    <3> WITNESS g
    <3> QED
      BY <2>3
  <2> HIDE DEF Is
  <2>5. n + 1 \in Nat
    OBVIOUS
  <2> QED
    BY ONLY <2>4, <2>5
<1>3. Nat \subseteq S
  <2> HIDE DEF S
  <2> QED
    BY <1>1, <1>2, CountingOn
<1>4. Is(id, m)
  <2>1. \E f : Is(f, m)
    BY <1>3
  <2> HIDE DEF Is
  <2> QED
    BY <2>1
<1>5. Distilled!Numbered(named, used) = id
  BY Zenon DEF Distilled!Numbered
<1> HIDE DEF id
<1>6. \A k : One(id, k) = Distilled!UniqueId(named[k].kind, named[k].name, used \cup Before(id, k))
  <2> SUFFICES ASSUME NEW k
               PROVE  One(id, k) = Distilled!UniqueId(named[k].kind, named[k].name, used \cup Before(id, k))
    OBVIOUS
  <2> DEFINE a == {id[j] : j \in 1..(k - 1)}
  <2>1. a = Before(id, k)
    BY DEF Before
  <2>2. One(id, k) = Distilled!UniqueId(named[k].kind, named[k].name, used \cup a)
    BY Zenon
  <2> HIDE DEF One, a
  <2> QED
    BY <2>1, <2>2
<1> HIDE DEF One
<1>7. DOMAIN id = 1..m /\ \A k \in 1..m : id[k] = One(id, k)
  BY <1>4
<1> QED
  BY <1>5, <1>6, <1>7 DEF NumberedRun

\* Each of a list gets an id of its own, and none that was used.
LEMMA NumberedIs ==
    ASSUME NEW named, IsList(named), NEW used, IsFiniteSet(used)
    PROVE  LET id == Distilled!Numbered(named, used)
           IN  /\ DOMAIN id = 1..Len(named)
               /\ \A k \in 1..Len(named) : id[k] \notin used
               /\ \A i, j \in 1..Len(named) : id[i] = id[j] => i = j
<1> DEFINE m == Len(named)
<1>1. m \in Nat
  BY ListIs
<1>2. PICK id : NumberedRun(named, used, id)
  BY <1>1, NumberedLoop
<1>3. DOMAIN id = 1..m /\ Distilled!Numbered(named, used) = id
      /\ \A k \in 1..m : id[k] = Distilled!UniqueId(named[k].kind, named[k].name, used \cup Before(id, k))
  BY <1>2 DEF NumberedRun
<1> HIDE DEF m
<1>4. ASSUME NEW k \in 1..m PROVE id[k] \notin used /\ \A j \in 1..(k - 1) : id[j] # id[k]
  <2> DEFINE f == [j \in 1..(k - 1) |-> id[j]]
  <2>1. f \in Surjection(1..(k - 1), Before(id, k))
    BY DEF Surjection, Before
  <2>2. k - 1 \in Nat /\ IsFiniteSet(1..(k - 1))
    BY <1>1, FS_Interval DEF m
  <2> HIDE DEF f
  <2>3. IsFiniteSet(Before(id, k))
    BY <2>1, <2>2, FS_Surjection
  <2>4. IsFiniteSet(used \cup Before(id, k))
    BY <2>3, FS_Union
  <2>5. id[k] \notin used \cup Before(id, k)
    <3> DEFINE u == used \cup Before(id, k)  a == named[k].kind  b == named[k].name
    <3>1. id[k] = Distilled!UniqueId(a, b, u) /\ IsFiniteSet(u)
      BY <2>4, <1>3
    <3> HIDE DEF u, a, b
    <3>2. Distilled!UniqueId(a, b, u) \notin u
      BY ONLY <3>1, FreeIdIs
    <3> QED
      BY <3>1, <3>2 DEF u
  <2> QED
    BY <2>5 DEF Before
<1>5. ASSUME NEW i \in 1..m, NEW j \in 1..m, id[i] = id[j] PROVE i = j
  <2>1. i \in 1..(j - 1) \/ j \in 1..(i - 1) \/ i = j
    BY <1>1 DEF m
  <2> QED
    BY <2>1, <1>4, <1>5
<1> QED
  BY <1>3, <1>4, <1>5 DEF m

-----------------------------------------------------------------------------
Once(x) == \A i, j \in 1..Len(x) : x[i] = x[j] => i = j

LEMMA JoinedOnce ==
    ASSUME NEW x, IsList(x), Once(x), NEW y, IsList(y), Once(y),
           Distilled!Range(x) \cap Distilled!Range(y) = {}
    PROVE  /\ IsList(x \o y) /\ Once(x \o y)
           /\ Distilled!Range(x \o y) = Distilled!Range(x) \cup Distilled!Range(y)
<1> DEFINE z == x \o y  m == Len(x)  n == Len(y)
<1>1. m \in Nat /\ n \in Nat /\ DOMAIN x = 1..m /\ DOMAIN y = 1..n
  BY ListIs
<1>2. /\ IsList(z) /\ Len(z) = m + n
      /\ Distilled!Range(z) = Distilled!Range(x) \cup Distilled!Range(y)
      /\ \A k \in 1..m : z[k] = x[k]
      /\ \A k \in 1..n : z[m + k] = y[k]
  BY ListJoined
<1>3. \A i \in 1..m, j \in 1..n : x[i] # y[j]
  BY <1>1 DEF Distilled!Range
<1>4. ASSUME NEW i \in 1..(m + n), NEW j \in 1..(m + n), z[i] = z[j] PROVE i = j
  <2> HIDE DEF z
  <2>1. \A k \in 1..(m + n) : k \in 1..m \/ (k - m \in 1..n /\ m + (k - m) = k)
    BY <1>1
  <2>2. \A k \in 1..(m + n) : k - m \in 1..n /\ m + (k - m) = k => z[k] = y[k - m]
    BY <1>2
  <2>3. CASE i \in 1..m /\ j \in 1..m
    BY <2>3, <1>2, <1>4 DEF Once
  <2>4. CASE i \in 1..m /\ j \notin 1..m
    BY <2>1, <2>2, <2>4, <1>2, <1>3, <1>4
  <2>5. CASE i \notin 1..m /\ j \in 1..m
    BY <2>1, <2>2, <2>5, <1>2, <1>3, <1>4
  <2>6. CASE i \notin 1..m /\ j \notin 1..m
    <3>1. i - m \in 1..n /\ j - m \in 1..n /\ z[i] = y[i - m] /\ z[j] = y[j - m]
      BY <2>1, <2>2, <2>6
    <3>2. i - m = j - m
      BY <3>1, <1>4 DEF Once
    <3> QED
      BY <3>2, <1>1
  <2> QED
    BY <2>3, <2>4, <2>5, <2>6
<1> QED
  BY <1>2, <1>4 DEF Once

\* The slots of one kind, and the slots kind by kind: each once.
LEMMA KindByKindIs ==
    ASSUME NEW s, Slots(s)
    PROVE  LET x == Distilled!KindByKind(s)
           IN  IsList(x) /\ Once(x) /\ Distilled!Range(x) = Distilled!Range(s)
<1> DEFINE P(kind) == {i \in DOMAIN s : s[i].kind = kind}
           K(kind) == {e \in Distilled!Range(s) : e.kind = kind}
           L(kind) == Distilled!OfKind(s, kind)
<1>1. IsList(s) /\ DOMAIN s = 1..Len(s) /\ Len(s) \in Nat
  BY ListIs DEF Slots
<1>2. \A i, j \in DOMAIN s : s[i] = s[j] => i = j
  BY <1>1 DEF Slots
<1>3. \A e \in Distilled!Range(s) : e.kind \in {"npc", "location", "faction", "item", "term"}
  <2>1. \A i \in DOMAIN s : s[i].kind \in Distilled!Range(Distilled!Kinds)
    BY <1>1 DEF Slots, Distilled!IsFact
  <2> QED
    BY <2>1, KindsAre DEF Distilled!Range
<1>4. \A kind : IsList(L(kind)) /\ Once(L(kind)) /\ Distilled!Range(L(kind)) = K(kind)
  <2> SUFFICES ASSUME NEW kind PROVE IsList(L(kind)) /\ Once(L(kind)) /\ Distilled!Range(L(kind)) = K(kind)
    OBVIOUS
  <2> DEFINE places == P(kind)  x == Distilled!Only(s, places)
  <2>1. L(kind) = x
    BY Zenon DEF Distilled!OfKind
  <2>2. {s[i] : i \in places \cap DOMAIN s} = K(kind)
    BY DEF Distilled!Range
  <2> HIDE DEF places
  <2>3. /\ IsList(x) /\ Distilled!Range(x) = {s[i] : i \in places \cap DOMAIN s}
        /\ \A i, j \in DOMAIN x : x[i] = x[j] => i = j
    BY <1>1, <1>2, OnlyIs
  <2> HIDE DEF x, K, L
  <2>4. Once(x)
    BY <2>3, ListIs DEF Once
  <2> QED
    BY <2>1, <2>2, <2>3, <2>4
<1> HIDE DEF L
<1>5. Distilled!KindByKind(s) = L("npc") \o L("location") \o L("faction") \o L("item") \o L("term")
  BY DEF Distilled!KindByKind, L
<1> DEFINE a == L("npc")  b == L("location")  c == L("faction")  d == L("item")  e == L("term")
<1>6. /\ IsList(a) /\ Once(a) /\ Distilled!Range(a) = K("npc")
      /\ IsList(b) /\ Once(b) /\ Distilled!Range(b) = K("location")
      /\ IsList(c) /\ Once(c) /\ Distilled!Range(c) = K("faction")
      /\ IsList(d) /\ Once(d) /\ Distilled!Range(d) = K("item")
      /\ IsList(e) /\ Once(e) /\ Distilled!Range(e) = K("term")
  BY <1>4
<1>7. Distilled!KindByKind(s) = a \o b \o c \o d \o e
  BY <1>5
<1> DEFINE ab == a \o b  abc == ab \o c  abcd == abc \o d  all == abcd \o e
<1>8. Distilled!KindByKind(s) = all
  BY <1>7
<1> HIDE DEF a, b, c, d, e
<1>9. IsList(ab) /\ Once(ab) /\ Distilled!Range(ab) = K("npc") \cup K("location")
  <2>1. Distilled!Range(a) \cap Distilled!Range(b) = {}
    BY <1>6
  <2> QED
    BY <1>6, <2>1, JoinedOnce
<1> HIDE DEF ab
<1>10. IsList(abc) /\ Once(abc) /\ Distilled!Range(abc) = K("npc") \cup K("location") \cup K("faction")
  <2>1. Distilled!Range(ab) \cap Distilled!Range(c) = {}
    BY <1>6, <1>9
  <2> QED
    BY <1>6, <1>9, <2>1, JoinedOnce
<1> HIDE DEF abc
<1>11. IsList(abcd) /\ Once(abcd) /\ Distilled!Range(abcd) = K("npc") \cup K("location") \cup K("faction") \cup K("item")
  <2>1. Distilled!Range(abc) \cap Distilled!Range(d) = {}
    BY <1>6, <1>10
  <2> QED
    BY <1>6, <1>10, <2>1, JoinedOnce
<1> HIDE DEF abcd
<1>12. IsList(all) /\ Once(all)
       /\ Distilled!Range(all) = K("npc") \cup K("location") \cup K("faction") \cup K("item") \cup K("term")
  <2>1. Distilled!Range(abcd) \cap Distilled!Range(e) = {}
    BY <1>6, <1>11
  <2> QED
    BY <1>6, <1>11, <2>1, JoinedOnce
<1> HIDE DEF all
<1>13. Distilled!Range(all) = Distilled!Range(s)
  BY <1>3, <1>12
<1> QED
  BY <1>8, <1>12, <1>13

\* An object shows a slot: it says the same, under an id.
IsObject(o) == o = [kind |-> o.kind, name |-> o.name, aliases |-> o.aliases, size |-> o.size, id |-> o.id]
Shows(o, e) == o.kind = e.kind /\ o.name = e.name /\ o.aliases = e.aliases /\ o.size = e.size
FiniteWorld == IsFiniteSet(Existing)

LEMMA ObjectsAre ==
    ASSUME FiniteWorld, NEW s, Slots(s)
    PROVE  LET x == Distilled!Objects(s)
           IN  /\ IsList(x)
               /\ \A i \in 1..Len(x) : x[i].id \notin Existing /\ IsObject(x[i]) /\ \E k \in 1..Len(s) : Shows(x[i], s[k])
               /\ \A k \in 1..Len(s) : \E i \in 1..Len(x) : Shows(x[i], s[k])
               /\ \A i, j \in 1..Len(x) : x[i].id = x[j].id => i = j
               /\ \A i, j \in 1..Len(x) : x[i].kind = x[j].kind /\ x[i].name = x[j].name => i = j
<1> DEFINE o == Distilled!KindByKind(s)  id == Distilled!Numbered(o, Existing)  x == Distilled!Objects(s)  n == Len(o)
           made(k) == [kind |-> o[k].kind, name |-> o[k].name, aliases |-> o[k].aliases, size |-> o[k].size, id |-> id[k]]
<1>1. IsList(o) /\ Once(o) /\ Distilled!Range(o) = Distilled!Range(s)
  BY KindByKindIs
<1>2. x = [k \in DOMAIN o |-> made(k)]
  BY DEF Distilled!Objects
<1> HIDE DEF o, x
<1>3. n \in Nat /\ DOMAIN o = 1..n /\ Distilled!Range(o) = {o[k] : k \in 1..n}
  BY <1>1, ListIs
<1>4. DOMAIN id = 1..n /\ (\A k \in 1..n : id[k] \notin Existing) /\ \A i, j \in 1..n : id[i] = id[j] => i = j
  BY <1>1, NumberedIs DEF FiniteWorld
<1> HIDE DEF id
<1>5. \A k \in 1..n : x[k] = made(k)
  BY <1>2, <1>3
<1>6. \A k \in 1..n : x[k].id = id[k] /\ IsObject(x[k]) /\ Shows(x[k], o[k])
  <2> SUFFICES ASSUME NEW k \in 1..n PROVE x[k].id = id[k] /\ IsObject(x[k]) /\ Shows(x[k], o[k])
    OBVIOUS
  <2>1. x[k] = made(k)
    BY <1>5
  <2>2. made(k).id = id[k] /\ IsObject(made(k)) /\ Shows(made(k), o[k])
    BY DEF Shows, IsObject
  <2> HIDE DEF made
  <2> QED
    BY <2>1, <2>2
<1>7. x = [k \in 1..n |-> x[k]]
  <2> HIDE DEF made
  <2> QED
    BY <1>2, <1>3
<1>8. IsList(x) /\ Len(x) = n
  <2> HIDE DEF n
  <2> QED
    BY <1>3, <1>7, ListMade
<1>9. Distilled!Range(s) = {s[k] : k \in 1..Len(s)}
  BY ListIs DEF Slots
<1>10. \A k \in 1..n : \E j \in 1..Len(s) : o[k] = s[j]
  BY <1>1, <1>3, <1>9
<1>11. \A j \in 1..Len(s) : \E k \in 1..n : o[k] = s[j]
  BY <1>1, <1>3, <1>9
<1>12. ASSUME NEW i \in 1..n, NEW j \in 1..n, x[i].kind = x[j].kind, x[i].name = x[j].name PROVE i = j
  <2>1. PICK a \in 1..Len(s) : o[i] = s[a]
    BY <1>10
  <2>2. PICK b \in 1..Len(s) : o[j] = s[b]
    BY <1>10
  <2>3. s[a].kind = s[b].kind /\ s[a].name = s[b].name
    BY <2>1, <2>2, <1>6, <1>12 DEF Shows
  <2>4. o[i] = o[j]
    BY <2>1, <2>2, <2>3 DEF Slots
  <2> QED
    BY <2>4, <1>1 DEF Once
<1>13. \A i \in 1..n : \E k \in 1..Len(s) : Shows(x[i], s[k])
  BY <1>6, <1>10
<1>14. \A j \in 1..Len(s) : \E i \in 1..n : Shows(x[i], s[j])
  BY <1>6, <1>11
<1>15. \A i \in 1..n : x[i].id \notin Existing /\ IsObject(x[i])
  BY <1>4, <1>6
<1>16. \A i, j \in 1..n : x[i].id = x[j].id => i = j
  BY <1>4, <1>6
<1>17. \A i \in 1..n : x[i].id \notin Existing /\ IsObject(x[i]) /\ \E k \in 1..Len(s) : Shows(x[i], s[k])
  BY <1>13, <1>15
<1> QED
  BY <1>8, <1>12, <1>14, <1>16, <1>17 DEF x

-----------------------------------------------------------------------------
\* The objects of a draft: a list, each with a kind, a name and an id of its own.
Shown(x) ==
    /\ IsList(x)
    /\ \A i, j \in 1..Len(x) : x[i].id = x[j].id => i = j
    /\ \A i, j \in 1..Len(x) : x[i].kind = x[j].kind /\ x[i].name = x[j].name => i = j
OneKind(x) == \A a : \A i, j \in Distilled!Answering(x, a) : x[i].kind = x[j].kind
OneObject(x, a, b) ==
    a = b \/ \E i \in 1..Len(x) : x[i].kind # "term" /\ a \in Distilled!Answers(x[i]) /\ x[i].name = b
Same(x, a, b) == a = b \/ \E i \in 1..Len(x) : a \in Distilled!Answers(x[i]) /\ b \in Distilled!Answers(x[i])

LEMMA AnsweringIs ==
    ASSUME NEW x, IsList(x), NEW a
    PROVE  /\ Distilled!Answering(x, a) = {i \in 1..Len(x) : x[i].kind # "term" /\ a \in Distilled!Answers(x[i])}
           /\ Len(x) \in Nat /\ Distilled!Answering(x, a) \in SUBSET Nat
<1>1. DOMAIN x = 1..Len(x) /\ Len(x) \in Nat
  BY ListIs
<1> QED
  BY <1>1 DEF Distilled!Answering

\* A name leads to an object that answers to it, and to one that has it if there is one.
LEMMA NameLeads ==
    ASSUME NEW x, IsList(x), NEW a, Distilled!Answering(x, a) # {}
    PROVE  \E i \in Distilled!Answering(x, a) :
              /\ Distilled!NameToId(x, a) = x[i].id
              /\ \A j \in Distilled!Answering(x, a) : x[j].name = a => x[i].name = a
<1> DEFINE A == Distilled!Answering(x, a)  n == Len(x)
           named == {i \in A : x[i].name = a}
           first == CHOOSE i \in A : \A j \in A : i <= j
           last == CHOOSE i \in named : \A j \in named : j <= i
           met == IF named = {} THEN first ELSE last
<1>1. A \in SUBSET (1..n) /\ n \in Nat /\ A \in SUBSET Nat
  <2>1. A = {i \in 1..n : x[i].kind # "term" /\ a \in Distilled!Answers(x[i])} /\ n \in Nat /\ A \in SUBSET Nat
    BY AnsweringIs
  <2> HIDE DEF A
  <2> QED
    BY <2>1
<1>2. Distilled!NameToId(x, a) = x[met].id
  BY DEF Distilled!NameToId
<1>3. A # {}
  OBVIOUS
<1> HIDE DEF A, n
<1>4. \E i \in A : \A j \in A : i <= j
  BY <1>1, <1>3, FirstIs
<1>5. first \in A
  BY <1>4
<1>6. ASSUME named # {} PROVE last \in named
  <2> DEFINE f == [i \in 1..n |-> i]
  <2>0. 1..n \subseteq Nat
    BY <1>1
  <2>1. f \in [1..n -> Nat] /\ named \in SUBSET (1..n)
    <3>1. f \in [1..n -> Nat]
      BY <2>0
    <3>2. named \subseteq 1..n
      BY <1>1
    <3> QED
      BY <3>1, <3>2
  <2>2. \A i \in named : f[i] = i
    BY <1>1
  <2> HIDE DEF f, named
  <2>3. \E i \in named : \A j \in named : f[j] <= f[i]
    BY <1>1, <1>6, <2>1, GreatestIs
  <2>4. \E i \in named : \A j \in named : j <= i
    BY <2>2, <2>3
  <2> QED
    BY <2>4
<1> HIDE DEF first, last
<1>7. met \in A /\ \A j \in A : x[j].name = a => x[met].name = a
  <2>1. CASE named = {}
    BY <2>1, <1>5
  <2>2. CASE named # {}
    BY <2>2, <1>6
  <2> QED
    BY <2>1, <2>2
<1> QED
  BY <1>2, <1>7 DEF A

\* If no name is shared by two kinds, what a name is replaced by leads to an object that answers to it.
LEMMA MetIs ==
    ASSUME NEW x, Shown(x), OneKind(x), NEW a, NEW b, OneObject(x, a, b), Distilled!Answering(x, b) # {}
    PROVE  \E i \in Distilled!Answering(x, a) : Distilled!NameToId(x, b) = x[i].id
<1>1. PICK i \in Distilled!Answering(x, b) :
          /\ Distilled!NameToId(x, b) = x[i].id
          /\ \A j \in Distilled!Answering(x, b) : x[j].name = b => x[i].name = b
  BY NameLeads DEF Shown
<1>2. CASE a = b
  BY <1>1, <1>2
<1>3. CASE a # b
  <2>1. PICK j \in 1..Len(x) : x[j].kind # "term" /\ a \in Distilled!Answers(x[j]) /\ x[j].name = b
    BY <1>3 DEF OneObject
  <2>2. b \in Distilled!Answers(x[j])
    BY <2>1 DEF Distilled!Answers
  <2>3. /\ Distilled!Answering(x, b) = {k \in 1..Len(x) : x[k].kind # "term" /\ b \in Distilled!Answers(x[k])}
        /\ Distilled!Answering(x, a) = {k \in 1..Len(x) : x[k].kind # "term" /\ a \in Distilled!Answers(x[k])}
    BY AnsweringIs DEF Shown
  <2>4. j \in Distilled!Answering(x, b) /\ j \in Distilled!Answering(x, a) /\ i \in 1..Len(x)
    BY <2>1, <2>2, <2>3
  <2>5. x[i].name = x[j].name /\ x[i].kind = x[j].kind
    BY <2>1, <2>4, <1>1 DEF OneKind
  <2>6. i = j
    BY <2>4, <2>5 DEF Shown
  <2> QED
    BY <2>4, <2>6, <1>1
<1> QED
  BY <1>2, <1>3

\* Two names that are replaced by one are of one object, if no name is shared by two kinds.
LEMMA MergedAreSame ==
    ASSUME NEW x, Shown(x), OneKind(x), NEW a, NEW b, NEW c, OneObject(x, a, c), OneObject(x, b, c)
    PROVE  Same(x, a, b)
<1>0. \A i \in 1..Len(x) : x[i].name \in Distilled!Answers(x[i])
  BY DEF Distilled!Answers
<1>1. CASE a = c \/ b = c
  BY <1>0, <1>1 DEF OneObject, Same
<1>2. CASE a # c /\ b # c
  <2>1. PICK i \in 1..Len(x) : x[i].kind # "term" /\ a \in Distilled!Answers(x[i]) /\ x[i].name = c
    BY <1>2 DEF OneObject
  <2>2. PICK j \in 1..Len(x) : x[j].kind # "term" /\ b \in Distilled!Answers(x[j]) /\ x[j].name = c
    BY <1>2 DEF OneObject
  <2>3. Distilled!Answering(x, c) = {k \in 1..Len(x) : x[k].kind # "term" /\ c \in Distilled!Answers(x[k])}
    BY AnsweringIs DEF Shown
  <2>4. i \in Distilled!Answering(x, c) /\ j \in Distilled!Answering(x, c)
    BY <1>0, <2>1, <2>2, <2>3
  <2>5. i = j
    BY <2>1, <2>2, <2>4 DEF OneKind, Shown
  <2> QED
    BY <2>1, <2>2, <2>5 DEF Same
<1> QED
  BY <1>1, <1>2

\* A relation is in the draft between objects that answer to its ends, or left open, or its ends are one.
Lands(x, d, r) ==
    \/ Same(x, r.source, r.target)
    \/ \E i \in Distilled!Answering(x, r.source), j \in Distilled!Answering(x, r.target) :
          Link(x[i].id, r.kind, x[j].id) \in d.relations
    \/ \E u \in d.unresolved : u.kind = r.kind /\ Same(x, u.source, r.source) /\ Same(x, u.target, r.target)

LEMMA WiredIs ==
    ASSUME NEW m, \A r \in m.relations : IsRelation(r),
           NEW q \in m.relations
    PROVE  LET x == Distilled!Objects(m.slots)
               d == Distilled!DraftFromMerged(m)
           IN  IF Distilled!Answering(x, q.source) # {} /\ Distilled!Answering(x, q.target) # {}
               THEN Link(Distilled!NameToId(x, q.source), q.kind, Distilled!NameToId(x, q.target)) \in d.relations
               ELSE q \in d.unresolved
<1> DEFINE x == Distilled!Objects(m.slots)
           d == Distilled!DraftFromMerged(m)
           known(a) == Distilled!Answering(x, a) # {}
           to(a) == Distilled!NameToId(x, a)
           held == {r \in m.relations : known(r.source) /\ known(r.target)}
<1>1. d.relations = {[r EXCEPT !.source = to(@), !.target = to(@)] : r \in held}
  BY DEF Distilled!DraftFromMerged
<1>2. d.unresolved = {r \in m.relations : ~(known(r.source) /\ known(r.target))}
  BY DEF Distilled!DraftFromMerged
<1>3. [q EXCEPT !.source = to(@), !.target = to(@)] = Link(to(q.source), q.kind, to(q.target))
  <2> DEFINE e == to(q.source)  f == to(q.target)
  <2>1. [q EXCEPT !.source = e, !.target = f] = Link(e, q.kind, f)
    <3> HIDE DEF e, f
    <3> QED
      BY LinkIs
  <2> QED
    BY <2>1
<1> HIDE DEF x, d
<1>4. CASE known(q.source) /\ known(q.target)
  <2>1. q \in held
    BY <1>4
  <2> HIDE DEF known, to, held
  <2>2. [q EXCEPT !.source = to(@), !.target = to(@)] \in d.relations
    BY <2>1, <1>1
  <2>3. Link(to(q.source), q.kind, to(q.target)) \in d.relations
    BY <2>2, <1>3
  <2> QED
    BY <2>3, <1>4 DEF known, to, d, x
<1>5. CASE ~(known(q.source) /\ known(q.target))
  <2>1. q \in d.unresolved
    BY <1>2, <1>5
  <2> QED
    BY <2>1, <1>5 DEF d, x
<1> QED
  BY <1>4, <1>5

-----------------------------------------------------------------------------
\* What a draft tells: the facts that were told, the relations between them, and what is not named.
Tells(m, d) ==
    /\ Shown(d.objects)
    /\ \A i \in 1..Len(d.objects) : d.objects[i].id \notin Existing /\ d.objects[i].size \in Nat
                                    /\ d.objects[i].kind \in Distilled!Range(Distilled!Kinds) /\ IsObject(d.objects[i])
    /\ \A f : Distilled!IsFact(f) /\ Has(m.slots, f) => Answered(d.objects, f)
    /\ OneKind(d.objects) => \A r \in m.relations : Lands(d.objects, d, r)
    /\ \A i \in 1..Len(d.objects) : \A a \in Distilled!Answers(d.objects[i]) :
          Where[a] # {} => d.objects[i].id \notin d.notNamed
    /\ d.gaps = {d.objects[i].id : i \in {i \in DOMAIN d.objects : Distilled!TooShort(d.objects[i])}}
    /\ DOMAIN d.beats = DOMAIN m.beats /\ d.quests = <<>>

LEMMA DraftTells ==
    ASSUME Named, FiniteWorld, NEW m, Facts(m)
    PROVE  Tells(m, Distilled!DraftFromMerged(Distilled!ResolveAliases(m)))
<1> DEFINE t == Distilled!ResolveAliases(m)  d == Distilled!DraftFromMerged(t)  x == Distilled!Objects(t.slots)
           u == t.slots
           now(a) == Distilled!Now(m.slots, a)
<1>1. /\ Slots(u)
      /\ \A f : Distilled!IsFact(f) /\ Has(m.slots, f) => Answered(u, f)
      /\ \A a : OneSlot(u, a, now(a))
      /\ \A r \in m.relations :
            LET q == Link(now(r.source), r.kind, now(r.target))
            IN  q.source = q.target \/ q \in t.relations
      /\ \A r \in t.relations : IsRelation(r)
      /\ DOMAIN t.beats = DOMAIN m.beats
  BY ResolvedIs
<1>2. /\ d.objects = x
      /\ d.gaps = {x[i].id : i \in {i \in DOMAIN x : Distilled!TooShort(x[i])}}
      /\ d.notNamed = Distilled!NotNamed(x)
      /\ DOMAIN d.beats = DOMAIN t.beats /\ d.quests = <<>>
  BY DEF Distilled!DraftFromMerged
<1>3. /\ IsList(x)
      /\ \A i \in 1..Len(x) : x[i].id \notin Existing /\ IsObject(x[i]) /\ \E k \in 1..Len(u) : Shows(x[i], u[k])
      /\ \A k \in 1..Len(u) : \E i \in 1..Len(x) : Shows(x[i], u[k])
      /\ \A i, j \in 1..Len(x) : x[i].id = x[j].id => i = j
      /\ \A i, j \in 1..Len(x) : x[i].kind = x[j].kind /\ x[i].name = x[j].name => i = j
  <2> HIDE DEF t
  <2> QED
    BY <1>1, ObjectsAre
<1>4. ASSUME OneKind(x), NEW r \in m.relations PROVE Lands(x, d, r)
  <2> DEFINE q == Link(now(r.source), r.kind, now(r.target))
  <2>1. Shown(x)
    BY <1>3 DEF Shown
  <2>2. ASSUME NEW a PROVE OneObject(x, a, now(a))
    <3>1. OneSlot(u, a, now(a))
      BY <1>1
    <3> HIDE DEF x, u, now
    <3>2. CASE a = now(a)
      BY <3>2 DEF OneObject
    <3>3. CASE a # now(a)
      <4>1. PICK k \in 1..Len(u) : u[k].kind # "term" /\ a \in Distilled!Answers(u[k]) /\ u[k].name = now(a)
        BY <3>1, <3>3 DEF OneSlot
      <4>2. PICK i \in 1..Len(x) : Shows(x[i], u[k])
        BY <1>3
      <4>3. x[i].kind # "term" /\ a \in Distilled!Answers(x[i]) /\ x[i].name = now(a)
        BY <4>1, <4>2 DEF Shows, Distilled!Answers
      <4> QED
        BY <4>3 DEF OneObject
    <3> QED
      BY <3>2, <3>3
  <2>3. q.source = q.target \/ q \in t.relations
    BY <1>1
  <2>4. q.source = now(r.source) /\ q.target = now(r.target) /\ q.kind = r.kind
    BY DEF Link
  <2>5. OneObject(x, r.source, q.source) /\ OneObject(x, r.target, q.target)
    BY <2>2, <2>4
  <2> HIDE DEF x, d, q, now
  <2>6. CASE q.source = q.target
    <3>1. Same(x, r.source, r.target)
      BY <1>4, <2>1, <2>5, <2>6, MergedAreSame
    <3> QED
      BY <3>1 DEF Lands
  <2>7. CASE q \in t.relations
    <3> DEFINE known(a) == Distilled!Answering(x, a) # {}
    <3>1. IF known(q.source) /\ known(q.target)
          THEN Link(Distilled!NameToId(x, q.source), q.kind, Distilled!NameToId(x, q.target)) \in d.relations
          ELSE q \in d.unresolved
      <4> HIDE DEF t
      <4> QED
        BY <1>1, <2>7, WiredIs DEF x, d
    <3>2. CASE known(q.source) /\ known(q.target)
      <4>1. PICK i \in Distilled!Answering(x, r.source) : Distilled!NameToId(x, q.source) = x[i].id
        BY <1>4, <2>1, <2>5, <3>2, MetIs
      <4>2. PICK j \in Distilled!Answering(x, r.target) : Distilled!NameToId(x, q.target) = x[j].id
        BY <1>4, <2>1, <2>5, <3>2, MetIs
      <4>3. Link(x[i].id, r.kind, x[j].id) \in d.relations
        BY <3>1, <3>2, <4>1, <4>2, <2>4
      <4> QED
        BY <4>3 DEF Lands
    <3>3. CASE ~(known(q.source) /\ known(q.target))
      <4>1. q \in d.unresolved
        BY <3>1, <3>3
      <4>2. ASSUME NEW a, NEW b, OneObject(x, a, b) PROVE Same(x, b, a)
        BY <4>2 DEF OneObject, Same, Distilled!Answers
      <4>3. Same(x, q.source, r.source) /\ Same(x, q.target, r.target)
        BY <4>2, <2>5
      <4> QED
        BY <4>1, <4>3, <2>4 DEF Lands
    <3> QED
      BY <3>2, <3>3
  <2> QED
    BY <2>3, <2>6, <2>7
<1>5. ASSUME NEW f, Distilled!IsFact(f), Has(m.slots, f) PROVE Answered(x, f)
  <2> HIDE DEF x, u
  <2>1. PICK k \in 1..Len(u) : u[k].kind = f.kind /\ f.name \in Distilled!Answers(u[k]) /\ u[k].size >= f.size
    BY <1>1, <1>5 DEF Answered, u
  <2>2. PICK i \in 1..Len(x) : Shows(x[i], u[k])
    BY <1>3
  <2> QED
    BY <2>1, <2>2 DEF Shows, Answered, Distilled!Answers
<1>6. ASSUME NEW i \in 1..Len(x)
      PROVE  x[i].id \notin Existing /\ x[i].size \in Nat /\ x[i].kind \in Distilled!Range(Distilled!Kinds) /\ IsObject(x[i])
  <2> HIDE DEF x, u
  <2>1. PICK k \in 1..Len(u) : Shows(x[i], u[k])
    BY <1>3
  <2>2. Distilled!IsFact(u[k])
    BY <1>1 DEF Slots
  <2> QED
    BY <1>3, <2>1, <2>2 DEF Shows, Distilled!IsFact
<1>7. ASSUME NEW i \in 1..Len(x), NEW a \in Distilled!Answers(x[i]), Where[a] # {}
      PROVE  x[i].id \notin d.notNamed
  <2> SUFFICES ASSUME x[i].id \in d.notNamed PROVE FALSE
    OBVIOUS
  <2> HIDE DEF x, d
  <2>1. DOMAIN x = 1..Len(x)
    BY <1>3, ListIs
  <2>2. PICK j \in DOMAIN x : x[j].id = x[i].id /\ \A b \in Distilled!Answers(x[j]) : Where[b] = {}
    BY <1>2 DEF Distilled!NotNamed
  <2>3. j = i
    BY <2>1, <2>2, <1>3
  <2> QED
    BY <2>2, <2>3, <1>7
<1>8. Shown(x)
  BY <1>3 DEF Shown
<1> HIDE DEF x, d, t
<1>9. Tells(m, d)
  BY <1>1, <1>2, <1>4, <1>5, <1>6, <1>7, <1>8 DEF Tells
<1> QED
  BY <1>9 DEF d, t

-----------------------------------------------------------------------------
\* The fields of a draft, and what is answered and filed of one.
DraftOf(o, r, u, b, g, s, n, d, a, q) ==
    [objects |-> o, relations |-> r, unresolved |-> u, beats |-> b, gaps |-> g, suggested |-> s,
     notNamed |-> n, doubted |-> d, answered |-> a, quests |-> q]
IsDraft(d) ==
    d = DraftOf(d.objects, d.relations, d.unresolved, d.beats, d.gaps, d.suggested, d.notNamed, d.doubted,
                d.answered, d.quests)

LEMMA DraftIs ==
    ASSUME NEW m
    PROVE  IsDraft(Distilled!DraftFromMerged(m))
<1> DEFINE d == Distilled!DraftFromMerged(m)
<1>1. ASSUME NEW o, NEW r, NEW u, NEW b, NEW g, NEW s, NEW n, NEW e, NEW a, NEW q
      PROVE  IsDraft(DraftOf(o, r, u, b, g, s, n, e, a, q))
  BY DEF IsDraft, DraftOf
<1>2. \E o, r, u, b, g, s, n, e, a, q : d = DraftOf(o, r, u, b, g, s, n, e, a, q)
  BY Zenon DEF Distilled!DraftFromMerged, DraftOf
<1> QED
  BY <1>1, <1>2

\* A draft with other flags or suggestions is the same otherwise.
Agree(d, e) ==
    /\ IsDraft(e) /\ e.objects = d.objects /\ e.relations = d.relations /\ e.unresolved = d.unresolved
    /\ e.beats = d.beats /\ e.gaps = d.gaps /\ e.notNamed = d.notNamed /\ e.quests = d.quests

LEMMA FlaggedAgrees ==
    ASSUME NEW d, IsDraft(d), NEW S
    PROVE  Agree(d, [d EXCEPT !.doubted = S]) /\ Agree(d, [d EXCEPT !.suggested = S])
<1>1. PICK o, r, u, b, g, s, n, e, a, q : d = DraftOf(o, r, u, b, g, s, n, e, a, q)
  BY DEF IsDraft
<1>2. /\ [d EXCEPT !.doubted = S] = DraftOf(o, r, u, b, g, s, n, S, a, q)
      /\ [d EXCEPT !.suggested = S] = DraftOf(o, r, u, b, g, S, n, e, a, q)
  BY <1>1 DEF DraftOf
<1>3. /\ Agree(d, DraftOf(o, r, u, b, g, s, n, S, a, q))
      /\ Agree(d, DraftOf(o, r, u, b, g, S, n, e, a, q))
  BY <1>1 DEF Agree, IsDraft, DraftOf
<1> QED
  BY <1>2, <1>3

LEMMA AgreeingTells ==
    ASSUME NEW m, NEW d, NEW e, Tells(m, d), Agree(d, e)
    PROVE  Tells(m, e)
BY DEF Agree, Tells, Lands

\* What is filed of a draft: its objects, that may have been described, and what it says of them.
Fills(d, f) ==
    /\ IsList(f.objects) /\ Len(f.objects) = Len(d.objects)
    /\ \A i \in 1..Len(d.objects) :
          /\ f.objects[i].kind = d.objects[i].kind /\ f.objects[i].name = d.objects[i].name
          /\ f.objects[i].aliases = d.objects[i].aliases /\ f.objects[i].id = d.objects[i].id
          /\ f.objects[i].size \in Nat /\ f.objects[i].size >= d.objects[i].size
    /\ f.relations = d.relations /\ f.unresolved = d.unresolved /\ f.notNamed = d.notNamed

\* No gap is closed but by an answer, and a quest has an id of its own.
Closes(m, f) ==
    /\ \A i \in 1..Len(f.objects) : Distilled!TooShort(f.objects[i]) => f.objects[i].id \in f.gaps \cup f.answered
    /\ f.quests = <<>> \/ /\ Len(f.quests) = Len(m.beats)
                          /\ \A i, j \in DOMAIN f.quests : f.quests[i].id = f.quests[j].id => i = j

LEMMA DraftFills ==
    ASSUME NEW m, NEW d, Tells(m, d)
    PROVE  Fills(d, d)
<1>1. IsList(d.objects) /\ \A i \in 1..Len(d.objects) : d.objects[i].size \in Nat
  BY DEF Tells, Shown
<1>2. \A n \in Nat : n >= n
  OBVIOUS
<1> QED
  BY <1>1, <1>2 DEF Fills

LEMMA QuestsAre ==
    ASSUME NEW m, IsList(m.beats), NEW d, DOMAIN d.beats = DOMAIN m.beats
    PROVE  LET q == Distilled!QuestsFromBeats(d)
           IN  Len(q) = Len(m.beats) /\ \A i, j \in DOMAIN q : q[i].id = q[j].id => i = j
<1> DEFINE n == Len(m.beats)
           named == [k \in DOMAIN d.beats |-> [kind |-> "quest", name |-> d.beats[k].title]]
           id == Distilled!Numbered(named, {})
           q == Distilled!QuestsFromBeats(d)
<1>1. n \in Nat /\ DOMAIN d.beats = 1..n
  BY ListIs
<1>2. named = [k \in 1..n |-> [kind |-> "quest", name |-> d.beats[k].title]]
  BY <1>1
<1>3. q = [k \in 1..n |-> [id |-> id[k], place |-> d.beats[k].place]]
  BY <1>1 DEF Distilled!QuestsFromBeats
<1> HIDE DEF named, q, n
<1>4. IsList(named) /\ Len(named) = n
  <2>1. named = [k \in 1..n |-> named[k]]
    BY <1>2
  <2> QED
    BY <1>1, <2>1, ListMade
<1>5. \A i, j \in 1..n : id[i] = id[j] => i = j
  BY <1>4, NumberedIs, FS_EmptySet
<1> HIDE DEF id
<1>6. Len(q) = n
  <2>1. q = [k \in 1..n |-> q[k]]
    BY <1>3
  <2> QED
    BY <1>1, <2>1, ListMade
<1>7. DOMAIN q = 1..n /\ \A k \in 1..n : q[k].id = id[k]
  BY <1>3
<1> QED
  BY <1>5, <1>6, <1>7 DEF n, q

\* An answer that is not blank closes a gap, and changes nothing but the description.
LEMMA SubmittedIs ==
    ASSUME NEW m, Facts(m), NEW d, IsDraft(d), Tells(m, d), NEW answered, NEW asQuests \in BOOLEAN
    PROVE  LET final == Distilled!ApplyGapAnswers(d, answered)
               f     == [final EXCEPT !.quests = IF asQuests THEN Distilled!QuestsFromBeats(final) ELSE <<>>]
           IN  answered \in SUBSET d.gaps => Fills(d, f) /\ Closes(m, f)
<1> SUFFICES ASSUME answered \in SUBSET d.gaps
             PROVE  LET final == Distilled!ApplyGapAnswers(d, answered)
                        f     == [final EXCEPT !.quests = IF asQuests THEN Distilled!QuestsFromBeats(final) ELSE <<>>]
                    IN  Fills(d, f) /\ Closes(m, f)
  OBVIOUS
<1> DEFINE final == Distilled!ApplyGapAnswers(d, answered)
           quests == IF asQuests THEN Distilled!QuestsFromBeats(final) ELSE <<>>
           f == [final EXCEPT !.quests = quests]
           x == d.objects
           N == Len(x)
           y == [i \in DOMAIN x |-> IF x[i].id \in answered THEN [x[i] EXCEPT !.size = 1] ELSE x[i]]
<1>1. PICK o, r, u, b, g, s, n, e, a, q : d = DraftOf(o, r, u, b, g, s, n, e, a, q)
  BY DEF IsDraft
<1>2. final = DraftOf(y, r, u, b, g \ answered, s, n, e, answered, q)
  <2> DEFINE z == [i \in DOMAIN o |-> IF o[i].id \in answered THEN [o[i] EXCEPT !.size = 1] ELSE o[i]]
  <2>1. final = [d EXCEPT !.objects = [i \in DOMAIN @ |-> IF @[i].id \in answered THEN [@[i] EXCEPT !.size = 1] ELSE @[i]],
                          !.gaps = @ \ answered, !.answered = answered]
    BY DEF Distilled!ApplyGapAnswers
  <2>2. x = o /\ d.gaps = g
    BY <1>1 DEF DraftOf
  <2>3. y = z
    BY <2>2
  <2> DEFINE h == g \ answered
  <2>4. final = [d EXCEPT !.objects = y, !.gaps = h, !.answered = answered]
    BY <2>1, <2>2
  <2> HIDE DEF final, y, z, h
  <2>5. final = DraftOf(y, r, u, b, h, s, n, e, answered, q)
    BY <2>4, <1>1 DEF DraftOf
  <2> QED
    BY <2>5 DEF h
<1> HIDE DEF final, quests, y
<1>3. f = DraftOf(y, r, u, b, g \ answered, s, n, e, answered, quests)
  BY <1>2 DEF DraftOf
<1>4. /\ f.objects = y /\ f.relations = d.relations /\ f.unresolved = d.unresolved /\ f.notNamed = d.notNamed
      /\ f.gaps = d.gaps \ answered /\ f.answered = answered /\ f.quests = quests /\ final.beats = d.beats
  BY <1>1, <1>2, <1>3 DEF DraftOf
<1>5. /\ IsList(x) /\ DOMAIN x = 1..N /\ N \in Nat
      /\ \A i \in 1..N : x[i].size \in Nat /\ IsObject(x[i])
      /\ \A i, j \in 1..N : x[i].id = x[j].id => i = j
  BY ListIs DEF Tells, Shown
<1>6. d.gaps = {x[i].id : i \in {i \in DOMAIN x : Distilled!TooShort(x[i])}} /\ DOMAIN d.beats = DOMAIN m.beats
  BY DEF Tells
<1> HIDE DEF f, x, N
<1>7. y = [i \in 1..N |-> y[i]] /\ \A i \in 1..N : y[i] = IF x[i].id \in answered THEN [x[i] EXCEPT !.size = 1] ELSE x[i]
  BY <1>5 DEF y
<1>8. IsList(y) /\ Len(y) = N
  BY <1>5, <1>7, ListMade
<1>9. \A i \in 1..N : x[i].id \in answered => Distilled!TooShort(x[i])
  BY <1>5, <1>6
<1>10. ASSUME NEW i \in 1..N
       PROVE  /\ y[i].kind = x[i].kind /\ y[i].name = x[i].name /\ y[i].aliases = x[i].aliases /\ y[i].id = x[i].id
              /\ y[i].size \in Nat /\ y[i].size >= x[i].size
              /\ x[i].id \notin answered => y[i] = x[i]
  <2>1. CASE x[i].id \in answered
    <3>1. y[i] = [x[i] EXCEPT !.size = 1]
      BY <1>7, <2>1
    <3>2. PICK k, c, v, z, w : x[i] = [kind |-> k, name |-> c, aliases |-> v, size |-> z, id |-> w]
      BY <1>5 DEF IsObject
    <3>3. y[i] = [kind |-> k, name |-> c, aliases |-> v, size |-> 1, id |-> w]
      BY <3>1, <3>2
    <3>4. x[i].size <= 1
      BY <1>5, <1>9, <2>1 DEF Distilled!TooShort
    <3> QED
      BY <3>2, <3>3, <3>4, <2>1
  <2>2. CASE x[i].id \notin answered
    <3>1. y[i] = x[i] /\ x[i].size \in Nat
      BY <1>7, <2>2, <1>5
    <3>2. x[i].size >= x[i].size
      BY <3>1
    <3> QED
      BY <3>1, <3>2
  <2> QED
    BY <2>1, <2>2
<1>11. Fills(d, f)
  BY <1>4, <1>8, <1>10 DEF Fills, x, N
<1>12. \A i \in 1..Len(f.objects) : Distilled!TooShort(f.objects[i]) => f.objects[i].id \in f.gaps \cup f.answered
  <2> SUFFICES ASSUME NEW i \in 1..N, Distilled!TooShort(y[i]) PROVE y[i].id \in (d.gaps \ answered) \cup answered
    BY <1>4, <1>8
  <2>1. CASE x[i].id \in answered
    BY <2>1, <1>10
  <2>2. CASE x[i].id \notin answered
    <3>1. y[i] = x[i]
      BY <1>10, <2>2
    <3>2. x[i].id \in d.gaps
      BY <3>1, <1>5, <1>6
    <3> QED
      BY <3>1, <3>2, <2>2
  <2> QED
    BY <2>1, <2>2
<1>13. f.quests = <<>> \/ /\ Len(f.quests) = Len(m.beats)
                          /\ \A i, j \in DOMAIN f.quests : f.quests[i].id = f.quests[j].id => i = j
  <2>1. CASE asQuests
    <3>1. f.quests = Distilled!QuestsFromBeats(final)
      BY <2>1, <1>4 DEF quests
    <3>2. IsList(m.beats) /\ DOMAIN final.beats = DOMAIN m.beats
      BY <1>4, <1>6 DEF Facts
    <3>3. LET p == Distilled!QuestsFromBeats(final)
          IN  Len(p) = Len(m.beats) /\ \A i, j \in DOMAIN p : p[i].id = p[j].id => i = j
      BY <3>2, QuestsAre
    <3> QED
      BY <3>1, <3>3
  <2>2. CASE ~asQuests
    BY <2>2, <1>4 DEF quests
  <2> QED
    BY <2>1, <2>2
<1> QED
  BY <1>11, <1>12, <1>13 DEF Closes, f, quests, final

-----------------------------------------------------------------------------
\* What was read: replies, whose facts are kept, and their names known.
Known(x) == \E i \in 1..Len(merged.slots) : merged.slots[i].name = x
HeardInv ==
    /\ heard = [all |-> heard.all, merged |-> heard.merged, chunks |-> heard.chunks]
    /\ heard.merged \subseteq heard.all /\ heard.all \subseteq Replies
    /\ Facts(merged)
    /\ \A p \in heard.merged : Keeps(merged, p)
    /\ \A p \in heard.all : \A x \in Distilled!Names(p) : Known(x)

\* If two objects of two kinds answer to a name, it is shared.
LEMMA TwoKindsShare ==
    ASSUME NEW K, K \subseteq Distilled!Range(Distilled!Kinds), NEW j \in K, NEW k \in K, j # k
    PROVE  Distilled!Cardinality(K) > 1
<1>1. IsFiniteSet(K) /\ Cardinality(K) \in Nat
  <2>1. IsFiniteSet({"npc", "location", "faction", "item", "term"})
    <3>1. {"npc", "location", "faction", "item", "term"} = {"npc", "location", "faction", "item"} \cup {"term"}
      OBVIOUS
    <3>2. IsFiniteSet({"npc", "location", "faction", "item"} \cup {"term"})
      <4>1. {"npc", "location", "faction", "item"} = {"npc", "location"} \cup {"faction", "item"}
        OBVIOUS
      <4>2. {"npc", "location"} = {"npc"} \cup {"location"} /\ {"faction", "item"} = {"faction"} \cup {"item"}
        OBVIOUS
      <4> QED
        BY <4>1, <4>2, FS_Singleton, FS_Union
    <3> QED
      BY <3>1, <3>2
  <2>2. IsFiniteSet(Distilled!Range(Distilled!Kinds))
    BY <2>1, KindsAre
  <2> QED
    BY <2>2, FS_Subset, FS_CardinalityType
<1>2. IsFiniteSet({j, k}) /\ Cardinality({j, k}) = 2
  <2>1. IsFiniteSet({j}) /\ Cardinality({j}) = 1
    BY FS_Singleton
  <2>2. Cardinality({j} \cup {k}) = Cardinality({j}) + 1 /\ IsFiniteSet({j} \cup {k})
    BY <2>1, FS_AddElement
  <2>3. {j} \cup {k} = {j, k}
    OBVIOUS
  <2> QED
    BY <2>1, <2>2, <2>3
<1>3. Cardinality({j, k}) <= Cardinality(K)
  <2>1. {j, k} \in SUBSET K
    OBVIOUS
  <2> QED
    BY <2>1, <1>1, FS_Subset
<1> QED
  BY <1>1, <1>2, <1>3, DistilledCounts

\* What is made of a draft tells what was told.
LEMMA AllIsTold ==
    ASSUME Distilled!WellFormed, HeardInv, Tells(merged, draft), Fills(draft, Distilled!Final)
    PROVE  /\ Distilled!NamesAreTold /\ Distilled!RelationsLand
           /\ \A p \in heard.merged : \A i \in DOMAIN p.facts :
                 Where[p.facts[i].name] # {} =>
                    \E o \in Distilled!Made : /\ o.kind = p.facts[i].kind /\ p.facts[i].name \in Distilled!Answers(o)
                                              /\ o.id \notin Distilled!Final.notNamed
<1> DEFINE F == Distilled!Final  x == draft.objects  y == F.objects  N == Len(x)
<1>1. /\ Shown(x)
      /\ \A i \in 1..N : x[i].id \notin Existing /\ x[i].size \in Nat /\ x[i].kind \in Distilled!Range(Distilled!Kinds)
      /\ \A f : Distilled!IsFact(f) /\ Has(merged.slots, f) => Answered(x, f)
      /\ OneKind(x) => \A r \in merged.relations : Lands(x, draft, r)
      /\ \A i \in 1..N : \A a \in Distilled!Answers(x[i]) : Where[a] # {} => x[i].id \notin draft.notNamed
  BY DEF Tells
<1>2. /\ IsList(y) /\ Len(y) = N
      /\ F.relations = draft.relations /\ F.unresolved = draft.unresolved /\ F.notNamed = draft.notNamed
      /\ \A i \in 1..N :
            /\ y[i].kind = x[i].kind /\ y[i].name = x[i].name /\ y[i].aliases = x[i].aliases /\ y[i].id = x[i].id
            /\ y[i].size \in Nat /\ y[i].size >= x[i].size
  BY DEF Fills
<1>3. Distilled!Made = {y[i] : i \in 1..N}
  <2>1. DOMAIN y = 1..Len(y)
    BY <1>2, ListIs
  <2> QED
    BY <2>1, <1>2 DEF Distilled!Made
<1>4. \A i \in 1..N : Distilled!Answers(y[i]) = Distilled!Answers(x[i])
  BY <1>2 DEF Distilled!Answers
<1> HIDE DEF F, x, y, N
<1>5. \A p \in Replies : Distilled!IsReply(p)
  BY DEF Distilled!WellFormed
<1>6. \A p \in heard.merged : p \in Replies /\ p \in heard.all
  BY DEF HeardInv
<1>7. ASSUME NEW f, Distilled!IsFact(f), Has(merged.slots, f)
      PROVE  \E i \in 1..N : x[i].kind = f.kind /\ f.name \in Distilled!Answers(x[i]) /\ y[i].size >= f.size
  <2>1. PICK i \in 1..Len(x) : x[i].kind = f.kind /\ f.name \in Distilled!Answers(x[i]) /\ x[i].size >= f.size
    BY <1>1, <1>7 DEF Answered
  <2>2. i \in 1..N
    BY DEF N
  <2>3. y[i].size >= x[i].size /\ y[i].size \in Nat /\ x[i].size \in Nat /\ f.size \in Nat
    BY <1>1, <1>2, <1>7, <2>2 DEF Distilled!IsFact
  <2>4. y[i].size >= f.size
    BY <2>1, <2>3
  <2> QED
    BY <2>1, <2>2, <2>4
<1>8. ASSUME NEW p \in heard.merged, NEW i \in DOMAIN p.facts
      PROVE  \E k \in 1..N : x[k].kind = p.facts[i].kind /\ p.facts[i].name \in Distilled!Answers(x[k])
                             /\ y[k].size >= p.facts[i].size
  <2>1. Distilled!IsFact(p.facts[i])
    BY <1>5, <1>6 DEF Distilled!IsReply, Distilled!Range
  <2>2. Has(merged.slots, p.facts[i])
    BY DEF HeardInv, Keeps
  <2> QED
    BY <2>1, <2>2, <1>7
<1>9. Distilled!NamesAreTold
  <2>1. ASSUME NEW p \in heard.all, NEW a \in Distilled!Names(p)
        PROVE  \E o \in Distilled!Made : a \in Distilled!Answers(o)
    <3>1. PICK k \in 1..Len(merged.slots) : merged.slots[k].name = a
      BY <2>1 DEF HeardInv, Known
    <3>2. Distilled!IsFact(merged.slots[k]) /\ merged.slots[k].size \in Nat
      BY DEF HeardInv, Facts, Slots, Distilled!IsFact
    <3>3. Has(merged.slots, merged.slots[k])
      BY <3>2 DEF Has
    <3>4. PICK i \in 1..N : a \in Distilled!Answers(x[i])
      BY <3>1, <3>2, <3>3, <1>7
    <3> QED
      BY <3>4, <1>3, <1>4
  <2>2. ASSUME NEW p \in heard.merged, NEW i \in DOMAIN p.facts
        PROVE  \E o \in Distilled!Made :
                  o.kind = p.facts[i].kind /\ p.facts[i].name \in Distilled!Answers(o) /\ o.size >= p.facts[i].size
    <3>1. PICK k \in 1..N : /\ x[k].kind = p.facts[i].kind /\ p.facts[i].name \in Distilled!Answers(x[k])
                            /\ y[k].size >= p.facts[i].size
      BY <1>8
    <3> QED
      BY <3>1, <1>2, <1>3, <1>4
  <2>3. ASSUME NEW o \in Distilled!Made, NEW q \in Distilled!Made, o.id = q.id PROVE o = q
    <3>1. PICK i \in 1..N : o = y[i]
      BY <1>3
    <3>2. PICK j \in 1..N : q = y[j]
      BY <1>3
    <3>3. x[i].id = x[j].id
      BY <3>1, <3>2, <2>3, <1>2
    <3>4. i = j
      BY <3>3, <1>1 DEF Shown, N
    <3> QED
      BY <3>1, <3>2, <3>4
  <2>4. \A o \in Distilled!Made : o.id \notin Existing
    BY <1>1, <1>2, <1>3
  <2> QED
    BY <2>1, <2>2, <2>3, <2>4 DEF Distilled!NamesAreTold
<1>10. ASSUME NEW p \in heard.merged, NEW i \in DOMAIN p.facts, Where[p.facts[i].name] # {}
       PROVE  \E o \in Distilled!Made : /\ o.kind = p.facts[i].kind /\ p.facts[i].name \in Distilled!Answers(o)
                                        /\ o.id \notin F.notNamed
  <2>1. PICK k \in 1..N : x[k].kind = p.facts[i].kind /\ p.facts[i].name \in Distilled!Answers(x[k])
    BY <1>8
  <2>2. x[k].id \notin draft.notNamed
    BY <2>1, <1>1, <1>10
  <2> QED
    BY <2>1, <2>2, <1>2, <1>3, <1>4
<1>11. \A a : Distilled!Answering(x, a) = {i \in 1..N : x[i].kind # "term" /\ a \in Distilled!Answers(x[i])}
  BY <1>1, AnsweringIs DEF Shown, N
<1>12. \A a : \A i \in Distilled!Answering(x, a) : y[i] \in Distilled!Called(a) /\ y[i].id = x[i].id /\ y[i].kind = x[i].kind
  BY <1>2, <1>3, <1>4, <1>11 DEF Distilled!Called
<1>13. ASSUME \A o \in Distilled!Made : \A a \in Distilled!Answers(o) : ~ Distilled!Shared(a)
       PROVE  OneKind(x)
  <2> SUFFICES ASSUME NEW a, NEW i \in Distilled!Answering(x, a), NEW j \in Distilled!Answering(x, a),
                      x[i].kind # x[j].kind
               PROVE  FALSE
    BY DEF OneKind
  <2> DEFINE K == {o.kind : o \in Distilled!Called(a)}
  <2>1. x[i].kind \in K /\ x[j].kind \in K
    <3>1. y[i] \in Distilled!Called(a) /\ y[j] \in Distilled!Called(a) /\ y[i].kind = x[i].kind /\ y[j].kind = x[j].kind
      BY <1>12
    <3> QED
      BY <3>1
  <2>2. K \subseteq Distilled!Range(Distilled!Kinds)
    BY <1>1, <1>2, <1>3 DEF Distilled!Called
  <2>3. Distilled!Shared(a) <=> Distilled!Cardinality(K) > 1
    BY DEF Distilled!Shared
  <2> HIDE DEF K
  <2>4. Distilled!Shared(a)
    BY <2>1, <2>2, <2>3, TwoKindsShare
  <2>5. i \in 1..N /\ a \in Distilled!Answers(x[i])
    BY <1>11
  <2>6. y[i] \in Distilled!Made /\ a \in Distilled!Answers(y[i])
    BY <2>5, <1>3, <1>4
  <2> QED
    BY <2>4, <2>6, <1>13
<1>14. \A a, b : Same(x, a, b) => a = b \/ \E o \in Distilled!Made : {a, b} \subseteq Distilled!Answers(o)
  <2> SUFFICES ASSUME NEW a, NEW b, Same(x, a, b), a # b PROVE \E o \in Distilled!Made : {a, b} \subseteq Distilled!Answers(o)
    OBVIOUS
  <2>1. PICK i \in 1..N : a \in Distilled!Answers(x[i]) /\ b \in Distilled!Answers(x[i])
    BY DEF Same, N
  <2>2. y[i] \in Distilled!Made /\ {a, b} \subseteq Distilled!Answers(y[i])
    BY <2>1, <1>3, <1>4
  <2> QED
    BY <2>2
<1>15. ASSUME \A o \in Distilled!Made : \A a \in Distilled!Answers(o) : ~ Distilled!Shared(a),
              NEW p \in heard.merged, NEW i \in DOMAIN p.relations
       PROVE  LET r == p.relations[i]
                  same(a, b) == a = b \/ \E o \in Distilled!Made : {a, b} \subseteq Distilled!Answers(o)
              IN  \/ same(r.source, r.target)
                  \/ \E d \in F.relations : \E s \in Distilled!Called(r.source), t \in Distilled!Called(r.target) :
                        d = [r EXCEPT !.source = s.id, !.target = t.id]
                  \/ \E u \in F.unresolved : u.kind = r.kind /\ same(u.source, r.source) /\ same(u.target, r.target)
  <2> DEFINE r == p.relations[i]
  <2>1. CASE r.source = r.target
    BY <2>1
  <2>2. CASE r.source # r.target
    <3>1. r \in merged.relations /\ IsRelation(r)
      BY <2>2 DEF HeardInv, Keeps, Facts
    <3> HIDE DEF r
    <3>2. Lands(x, draft, r)
      BY <3>1, <1>1, <1>13, <1>15
    <3>3. CASE Same(x, r.source, r.target)
      <4>1. r.source = r.target \/ \E o \in Distilled!Made : {r.source, r.target} \subseteq Distilled!Answers(o)
        BY <3>3, <1>14
      <4> QED
        BY <4>1 DEF r
    <3>4. CASE \E j \in Distilled!Answering(x, r.source), k \in Distilled!Answering(x, r.target) :
                  Link(x[j].id, r.kind, x[k].id) \in draft.relations
      <4>1. PICK j \in Distilled!Answering(x, r.source), k \in Distilled!Answering(x, r.target) :
                  Link(x[j].id, r.kind, x[k].id) \in draft.relations
        BY <3>4
      <4>2. /\ y[j] \in Distilled!Called(r.source) /\ y[k] \in Distilled!Called(r.target)
            /\ y[j].id = x[j].id /\ y[k].id = x[k].id
        BY <1>12
      <4>3. [r EXCEPT !.source = y[j].id, !.target = y[k].id] = Link(x[j].id, r.kind, x[k].id)
        <5> DEFINE e == y[j].id  f == y[k].id
        <5>1. [r EXCEPT !.source = e, !.target = f] = Link(e, r.kind, f)
          <6> HIDE DEF e, f
          <6> QED
            BY <3>1, LinkIs
        <5> QED
          BY <5>1, <4>2
      <4>4. [r EXCEPT !.source = y[j].id, !.target = y[k].id] \in F.relations
        BY <4>1, <4>3, <1>2
      <4>5. \E d \in F.relations : \E s \in Distilled!Called(r.source), t \in Distilled!Called(r.target) :
               d = [r EXCEPT !.source = s.id, !.target = t.id]
        BY <4>2, <4>4
      <4> QED
        BY <4>5 DEF r
    <3>5. CASE \E u \in draft.unresolved : u.kind = r.kind /\ Same(x, u.source, r.source) /\ Same(x, u.target, r.target)
      <4>1. PICK u \in F.unresolved : u.kind = r.kind /\ Same(x, u.source, r.source) /\ Same(x, u.target, r.target)
        BY <3>5, <1>2
      <4>2. u.source = r.source \/ \E o \in Distilled!Made : {u.source, r.source} \subseteq Distilled!Answers(o)
        BY <4>1, <1>14
      <4>3. u.target = r.target \/ \E o \in Distilled!Made : {u.target, r.target} \subseteq Distilled!Answers(o)
        BY <4>1, <1>14
      <4> QED
        BY <4>1, <4>2, <4>3 DEF r
    <3> QED
      BY <3>2, <3>3, <3>4, <3>5 DEF Lands
  <2> QED
    BY <2>1, <2>2
<1>16. Distilled!RelationsLand
  <2> SUFFICES ASSUME \A o \in Distilled!Made : \A a \in Distilled!Answers(o) : ~ Distilled!Shared(a)
               PROVE  \A p \in heard.merged : \A i \in DOMAIN p.relations :
                         LET r == p.relations[i]
                             same(a, b) == a = b \/ \E o \in Distilled!Made : {a, b} \subseteq Distilled!Answers(o)
                         IN  \/ same(r.source, r.target)
                             \/ \E d \in Distilled!Final.relations :
                                   \E s \in Distilled!Called(r.source), t \in Distilled!Called(r.target) :
                                      d = [r EXCEPT !.source = s.id, !.target = t.id]
                             \/ \E u \in Distilled!Final.unresolved :
                                   u.kind = r.kind /\ same(u.source, r.source) /\ same(u.target, r.target)
    BY DEF Distilled!RelationsLand
  <2> QED
    BY <1>15 DEF F
<1> QED
  BY <1>9, <1>10, <1>16 DEF F

-----------------------------------------------------------------------------
\* The plan is honest, and never changes.
PlanInv == Distilled!CoverageIsHonest /\ Len(plan.chunks) \in 1..Budget

\* The chunks that are done with: those before the one that is asked for, or all.
Early == {"planned", "asking", "asking again"}
ReachedTo(a, chunks) ==
    IF a.step \in Early THEN a.chunk - 1 ELSE IF a.step = "gleaning" THEN a.chunk ELSE Len(chunks)
Reported(h, f) == h.chunks \cup {f[i] : i \in DOMAIN f}
IsPlace(a) == a = Distilled!At(a.step, a.chunk, a.seen, a.left)
Placed(a, chunks) ==
    /\ IsPlace(a) /\ a.step \in Distilled!Steps /\ a.chunk \in 1..Len(chunks)
    /\ a.step = "planned" => a.chunk = 1
PlaceInv ==
    /\ Placed(at, plan.chunks) /\ IsList(failed)
    /\ Reported(heard, failed) = 1..ReachedTo(at, plan.chunks)
SeenInv == at.step = "gleaning" => \A x \in at.seen : Known(x)
DraftInv ==
    /\ at.step \in {"judging", "drafted", "filed"} => IsDraft(draft) /\ Tells(merged, draft)
    /\ at.step = "filed" => Fills(draft, filed) /\ Closes(merged, filed)

DraftingInv == PlanInv /\ PlaceInv /\ HeardInv /\ SeenInv /\ DraftInv

LEMMA DraftingTells ==
    ASSUME Distilled!WellFormed, DraftingInv
    PROVE  Distilled!DraftTellsAll /\ Distilled!TypeOK
<1>1. Distilled!TypeOK
  BY DEF DraftingInv, PlaceInv, PlanInv, HeardInv, Placed, Distilled!TypeOK, Distilled!WellFormed
<1>2. at.step = "planned" => Distilled!CoverageIsHonest
  BY DEF DraftingInv, PlanInv
<1>3. ASSUME at.step \in {"judging", "drafted", "filed"}
      PROVE  Distilled!NamesAreTold /\ Distilled!RelationsLand /\ Distilled!FlagsAreTrue /\ Distilled!GapsStayOpen
  <2>1. IsDraft(draft) /\ Tells(merged, draft)
    BY <1>3 DEF DraftingInv, DraftInv
  <2>2. Distilled!Final = IF at.step = "filed" THEN filed ELSE draft
    BY DEF Distilled!Final
  <2>3. Fills(draft, Distilled!Final)
    <3>1. CASE at.step = "filed"
      BY <3>1, <2>2 DEF DraftingInv, DraftInv
    <3>2. CASE at.step # "filed"
      BY <3>2, <2>1, <2>2, DraftFills
    <3> QED
      BY <3>1, <3>2
  <2>4. HeardInv
    BY DEF DraftingInv
  <2>5. /\ Distilled!NamesAreTold /\ Distilled!RelationsLand
        /\ \A p \in heard.merged : \A i \in DOMAIN p.facts :
              Where[p.facts[i].name] # {} =>
                 \E o \in Distilled!Made : /\ o.kind = p.facts[i].kind /\ p.facts[i].name \in Distilled!Answers(o)
                                           /\ o.id \notin Distilled!Final.notNamed
    BY <2>1, <2>3, <2>4, AllIsTold
  <2>6. heard.chunks \cup {failed[i] : i \in DOMAIN failed} = 1..Len(plan.chunks)
    BY <1>3 DEF DraftingInv, PlaceInv, ReachedTo, Reported, Early
  <2>7. Distilled!FlagsAreTrue
    BY <2>5, <2>6 DEF Distilled!FlagsAreTrue
  <2>8. Distilled!GapsStayOpen
    <3> SUFFICES ASSUME at.step = "filed" PROVE Distilled!GapsStayOpen
      BY DEF Distilled!GapsStayOpen
    <3>1. Fills(draft, filed) /\ Closes(merged, filed)
      BY DEF DraftingInv, DraftInv
    <3>2. DOMAIN filed.objects = 1..Len(filed.objects)
      BY <3>1, ListIs DEF Fills
    <3>3. Distilled!Made = {filed.objects[i] : i \in 1..Len(filed.objects)}
      BY <3>2, <2>2 DEF Distilled!Made
    <3>4. \A o \in Distilled!Made : Distilled!TooShort(o) => o.id \in filed.gaps \cup filed.answered
      BY <3>1, <3>3 DEF Closes
    <3> QED
      BY <3>1, <3>4 DEF Closes, Distilled!GapsStayOpen
  <2> QED
    BY <2>5, <2>7, <2>8
<1> QED
  BY <1>1, <1>2, <1>3 DEF Distilled!DraftTellsAll

LEMMA DraftingBegins ==
    ASSUME Distilled!WellFormed, Distilled!Init
    PROVE  DraftingInv
<1>1. PICK text \in TextsPlanned : plan = Distilled!PlanCoverage(text)
  BY DEF Distilled!Init
<1>2. Limits /\ text \in Seq(Nat \ {0}) /\ text # <<>>
  BY DEF Distilled!WellFormed, Limits
<1>3. PlanInv
  BY <1>1, <1>2, CoverageIs DEF PlanInv
<1>4. /\ at = Distilled!At("planned", 1, {}, 0) /\ merged = Distilled!NoFacts
      /\ heard = [all |-> {}, merged |-> {}, chunks |-> {}] /\ failed = <<>>
  BY DEF Distilled!Init
<1>5. at.step = "planned" /\ at.chunk = 1 /\ IsPlace(at)
  BY <1>4 DEF IsPlace, Distilled!At
<1>6. IsList(<<>>) /\ Len(<<>>) = 0 /\ DOMAIN <<>> = {}
  <2>1. <<>> \in Seq({})
    OBVIOUS
  <2>2. IsList(<<>>)
    BY <2>1, ListOf
  <2> QED
    BY <2>2
<1>7. PlaceInv
  <2>1. 1 \in 1..Len(plan.chunks)
    BY <1>3 DEF PlanInv
  <2>2. Placed(at, plan.chunks)
    BY <1>5, <2>1 DEF Placed, Distilled!Steps
  <2>3. Reported(heard, failed) = {}
    BY <1>4, <1>6 DEF Reported
  <2>4. 1..ReachedTo(at, plan.chunks) = {}
    BY <1>5 DEF ReachedTo, Early
  <2> QED
    BY <2>2, <2>3, <2>4, <1>4, <1>6 DEF PlaceInv
<1>8. HeardInv
  <2>1. merged.slots = <<>> /\ merged.relations = {} /\ merged.beats = <<>>
    BY <1>4 DEF Distilled!NoFacts
  <2>2. Facts(merged)
    BY <2>1, <1>6 DEF Facts, Slots
  <2>3. heard.all = {} /\ heard.merged = {} /\ heard.chunks = {}
    BY <1>4
  <2> QED
    BY <2>2, <2>3, <1>4 DEF HeardInv
<1>9. SeenInv /\ DraftInv
  BY <1>5 DEF SeenInv, DraftInv
<1> QED
  BY <1>3, <1>7, <1>8, <1>9 DEF DraftingInv

LEMMA StepIs ==
    ASSUME NEW a, IsPlace(a), NEW s
    PROVE  [a EXCEPT !.step = s] = Distilled!At(s, a.chunk, a.seen, a.left)
<1>1. PICK t, c, e, l : a = [step |-> t, chunk |-> c, seen |-> e, left |-> l]
  BY DEF IsPlace, Distilled!At
<1>2. [a EXCEPT !.step = s] = [step |-> s, chunk |-> c, seen |-> e, left |-> l]
  BY <1>1
<1>3. a.chunk = c /\ a.seen = e /\ a.left = l
  BY <1>1
<1> QED
  BY <1>2, <1>3 DEF Distilled!At

\* One more chunk is reported.
LEMMA OneMoreReported ==
    ASSUME NEW h, NEW f, IsList(f), NEW c \in Nat \ {0}, Reported(h, f) = 1..(c - 1), NEW g
    PROVE  /\ g.chunks = h.chunks \cup {c} => Reported(g, f) = 1..c
           /\ IsList(Append(f, c)) /\ Reported(h, Append(f, c)) = 1..c
<1>1. (1..(c - 1)) \cup {c} = 1..c
  OBVIOUS
<1>2. /\ IsList(Append(f, c)) /\ Distilled!Range(Append(f, c)) = Distilled!Range(f) \cup {c}
  BY ListAppended
<1>3. \A x : Distilled!Range(x) = {x[i] : i \in DOMAIN x}
  BY DEF Distilled!Range
<1>4. ASSUME g.chunks = h.chunks \cup {c} PROVE Reported(g, f) = Reported(h, f) \cup {c}
  BY <1>4 DEF Reported
<1>5. Reported(h, Append(f, c)) = Reported(h, f) \cup {c}
  <2> DEFINE x == Append(f, c)
  <2> HIDE DEF x
  <2>1. Reported(h, x) = h.chunks \cup Distilled!Range(x) /\ Reported(h, f) = h.chunks \cup Distilled!Range(f)
    BY <1>3 DEF Reported
  <2>2. Distilled!Range(x) = Distilled!Range(f) \cup {c}
    BY <1>2 DEF x
  <2>3. Reported(h, x) = Reported(h, f) \cup {c}
    BY <2>1, <2>2
  <2> QED
    BY <2>3 DEF x
<1> QED
  BY <1>1, <1>2, <1>4, <1>5

\* A chunk that is done with is followed by the next, or all was read.
LEMMA NextPlace ==
    ASSUME PlanInv, PlaceInv, at' = Distilled!NextChunk, plan' = plan, IsList(failed'),
           Reported(heard', failed') = 1..at.chunk
    PROVE  PlaceInv' /\ at'.step \in {"asking", "read"}
<1>1. at.chunk \in 1..Len(plan.chunks) /\ Len(plan.chunks) \in Nat
  BY DEF PlanInv, PlaceInv, Placed
<1>2. CASE at.chunk < Len(plan.chunks)
  <2>1. at' = Distilled!At("asking", at.chunk + 1, {}, 0)
    BY <1>2 DEF Distilled!NextChunk
  <2>2. at'.step = "asking" /\ at'.chunk = at.chunk + 1 /\ IsPlace(at')
    BY <2>1 DEF IsPlace, Distilled!At
  <2>3. at.chunk + 1 \in 1..Len(plan.chunks) /\ at.chunk + 1 - 1 = at.chunk
    BY <1>1, <1>2
  <2>4. Placed(at', plan.chunks)
    BY <2>2, <2>3 DEF Placed, Distilled!Steps
  <2>5. ReachedTo(at', plan.chunks) = at.chunk
    <3>1. at'.step \in Early
      BY <2>2 DEF Early
    <3>2. ReachedTo(at', plan.chunks) = at'.chunk - 1
      BY <3>1 DEF ReachedTo
    <3>3. at'.chunk - 1 = (at.chunk + 1) - 1
      BY <2>2
    <3> QED
      BY <3>2, <3>3, <1>1
  <2> QED
    BY <2>2, <2>4, <2>5 DEF PlaceInv
<1>3. CASE ~(at.chunk < Len(plan.chunks))
  <2>1. at' = Distilled!At("read", at.chunk, {}, 0)
    BY <1>3 DEF Distilled!NextChunk
  <2>2. at'.step = "read" /\ at'.chunk = at.chunk /\ IsPlace(at')
    BY <2>1 DEF IsPlace, Distilled!At
  <2>3. at.chunk = Len(plan.chunks)
    BY <1>1, <1>3
  <2>4. Placed(at', plan.chunks)
    BY <1>1, <2>2 DEF Placed, Distilled!Steps
  <2>5. ReachedTo(at', plan.chunks) = at.chunk
    BY <2>2, <2>3 DEF ReachedTo, Early
  <2> QED
    BY <2>2, <2>4, <2>5 DEF PlaceInv
<1> QED
  BY <1>2, <1>3

\* What was read is known, and stays so.
LEMMA HeardMore ==
    ASSUME Distilled!WellFormed, HeardInv, NEW p \in Replies, NEW c,
           merged' = Distilled!Add(merged, p),
           heard' = [all |-> heard.all \cup {p}, merged |-> heard.merged \cup {p}, chunks |-> c]
    PROVE  HeardInv' /\ \A x : Known(x) \/ x \in Distilled!Names(p) => Known(x)'
<1> DEFINE t == Distilled!Add(merged, p)
<1>1. \A q \in Replies : Distilled!IsReply(q)
  BY DEF Distilled!WellFormed
<1>2. /\ Facts(t) /\ Keeps(t, p) /\ (\A q : Distilled!IsReply(q) /\ Keeps(merged, q) => Keeps(t, q))
      /\ \A g : Distilled!IsFact(g) /\ Has(merged.slots, g) => Has(t.slots, g)
  BY <1>1, AddIs DEF HeardInv
<1> HIDE DEF t
<1>3. merged' = t
  BY DEF t
<1>4. ASSUME NEW x, Known(x) PROVE Known(x)'
  <2>1. PICK k \in 1..Len(merged.slots) : merged.slots[k].name = x
    BY <1>4 DEF Known
  <2>2. Distilled!IsFact(merged.slots[k]) /\ merged.slots[k].size \in Nat
    BY DEF HeardInv, Facts, Slots, Distilled!IsFact
  <2>3. Has(merged.slots, merged.slots[k])
    BY <2>2 DEF Has
  <2>4. Has(t.slots, merged.slots[k])
    BY <1>2, <2>2, <2>3
  <2> QED
    BY <1>3, <2>1, <2>4 DEF Has, Known
<1>5. ASSUME NEW x \in Distilled!Names(p) PROVE Known(x)'
  <2>1. PICK i \in DOMAIN p.facts : x = p.facts[i].name
    BY DEF Distilled!Names
  <2>2. Has(t.slots, p.facts[i])
    BY <1>2 DEF Keeps
  <2> QED
    BY <1>3, <2>1, <2>2 DEF Has, Known
<1>6. heard'.all = heard.all \cup {p} /\ heard'.merged = heard.merged \cup {p}
  OBVIOUS
<1>7. heard' = [all |-> heard'.all, merged |-> heard'.merged, chunks |-> heard'.chunks]
  OBVIOUS
<1>8. \A q \in heard'.merged : Keeps(merged', q)
  <2> SUFFICES ASSUME NEW q \in heard'.merged PROVE Keeps(t, q)
    BY <1>3
  <2>1. CASE q = p
    BY <2>1, <1>2
  <2>2. CASE q \in heard.merged
    <3>1. Distilled!IsReply(q) /\ Keeps(merged, q)
      BY <2>2, <1>1 DEF HeardInv
    <3> QED
      BY <3>1, <1>2
  <2> QED
    BY <2>1, <2>2, <1>6
<1>9. \A q \in heard'.all : \A x \in Distilled!Names(q) : Known(x)'
  <2> SUFFICES ASSUME NEW q \in heard'.all, NEW x \in Distilled!Names(q) PROVE Known(x)'
    OBVIOUS
  <2>1. CASE q = p
    BY <2>1, <1>5
  <2>2. CASE q \in heard.all
    <3>1. Known(x)
      BY <2>2 DEF HeardInv
    <3> QED
      BY <3>1, <1>4
  <2> QED
    BY <2>1, <2>2, <1>6
<1>10. heard'.merged \subseteq heard'.all /\ heard'.all \subseteq Replies
  BY <1>6 DEF HeardInv
<1>11. Facts(merged')
  BY <1>2, <1>3
<1>12. HeardInv'
  BY <1>7, <1>8, <1>9, <1>10, <1>11 DEF HeardInv
<1> QED
  BY <1>4, <1>5, <1>12

LEMMA HeardStays ==
    ASSUME HeardInv, merged' = merged, heard' = heard
    PROVE  HeardInv' /\ \A x : Known(x)' <=> Known(x)
<1>1. \A x : Known(x)' <=> Known(x)
  BY DEF Known
<1> QED
  BY <1>1 DEF HeardInv

LEMMA PlanStays ==
    ASSUME PlanInv, plan' = plan
    PROVE  PlanInv'
<1>1. Distilled!CoverageIsHonest' <=> Distilled!CoverageIsHonest
  BY DEF Distilled!CoverageIsHonest
<1> QED
  BY <1>1 DEF PlanInv

-----------------------------------------------------------------------------
LEMMA BeginKeeps ==
    ASSUME DraftingInv, Distilled!Begin
    PROVE  DraftingInv'
<1>1. /\ at.step = "planned" /\ at' = Distilled!At("asking", 1, {}, 0)
      /\ plan' = plan /\ merged' = merged /\ heard' = heard /\ failed' = failed
  BY DEF Distilled!Begin
<1>2. at'.step = "asking" /\ at'.chunk = 1 /\ IsPlace(at')
  BY <1>1 DEF IsPlace, Distilled!At
<1>3. PlanInv' /\ HeardInv'
  BY <1>1, PlanStays, HeardStays DEF DraftingInv
<1>4. PlaceInv'
  <2>1. at.chunk = 1 /\ at.chunk \in 1..Len(plan.chunks)
    BY <1>1 DEF DraftingInv, PlaceInv, Placed
  <2>2. Placed(at', plan.chunks)
    BY <1>2, <2>1 DEF Placed, Distilled!Steps
  <2>3. at.step \in Early /\ at'.step \in Early
    BY <1>1, <1>2 DEF Early
  <2>4. ReachedTo(at', plan.chunks) = ReachedTo(at, plan.chunks)
    BY <1>2, <2>1, <2>3 DEF ReachedTo
  <2> QED
    BY <1>1, <2>2, <2>4 DEF DraftingInv, PlaceInv
<1>5. SeenInv' /\ DraftInv'
  BY <1>2 DEF SeenInv, DraftInv
<1> QED
  BY <1>3, <1>4, <1>5 DEF DraftingInv

LEMMA UnreadableKeeps ==
    ASSUME DraftingInv, Distilled!Unreadable
    PROVE  DraftingInv'
<1>1. /\ at.step = "asking" /\ at' = [at EXCEPT !.step = "asking again"]
      /\ plan' = plan /\ merged' = merged /\ heard' = heard /\ failed' = failed
  BY DEF Distilled!Unreadable
<1>2. at'.step = "asking again" /\ at'.chunk = at.chunk /\ IsPlace(at')
  <2>1. at' = Distilled!At("asking again", at.chunk, at.seen, at.left)
    BY <1>1, StepIs DEF DraftingInv, PlaceInv, Placed
  <2> QED
    BY <2>1 DEF IsPlace, Distilled!At
<1>3. PlanInv' /\ HeardInv'
  BY <1>1, PlanStays, HeardStays DEF DraftingInv
<1>4. PlaceInv'
  <2>1. Placed(at', plan.chunks)
    BY <1>2 DEF DraftingInv, PlaceInv, Placed, Distilled!Steps
  <2>2. at.step \in Early /\ at'.step \in Early
    BY <1>1, <1>2 DEF Early
  <2>3. ReachedTo(at', plan.chunks) = ReachedTo(at, plan.chunks)
    BY <1>2, <2>2 DEF ReachedTo
  <2> QED
    BY <1>1, <2>1, <2>3 DEF DraftingInv, PlaceInv
<1>5. SeenInv' /\ DraftInv'
  BY <1>2 DEF SeenInv, DraftInv
<1> QED
  BY <1>3, <1>4, <1>5 DEF DraftingInv

LEMMA GiveUpKeeps ==
    ASSUME DraftingInv, Distilled!GiveUp
    PROVE  DraftingInv'
<1>1. /\ at.step = "asking again" /\ at' = Distilled!NextChunk /\ failed' = Append(failed, at.chunk)
      /\ plan' = plan /\ merged' = merged /\ heard' = heard
  BY DEF Distilled!GiveUp
<1>2. PlanInv' /\ HeardInv'
  BY <1>1, PlanStays, HeardStays DEF DraftingInv
<1>3. at.chunk \in Nat \ {0} /\ IsList(failed) /\ Reported(heard, failed) = 1..(at.chunk - 1)
  <2>1. at.step \in Early
    BY <1>1 DEF Early
  <2> QED
    BY <2>1 DEF DraftingInv, PlanInv, PlaceInv, Placed, ReachedTo
<1>4. IsList(failed') /\ Reported(heard', failed') = 1..at.chunk
  <2>1. IsList(Append(failed, at.chunk)) /\ Reported(heard, Append(failed, at.chunk)) = 1..at.chunk
    BY ONLY <1>3, OneMoreReported
  <2> QED
    BY <1>1, <2>1
<1>5. PlaceInv' /\ at'.step \in {"asking", "read"}
  BY <1>1, <1>4, NextPlace DEF DraftingInv
<1>6. SeenInv' /\ DraftInv'
  BY <1>5 DEF SeenInv, DraftInv
<1> QED
  BY <1>2, <1>5, <1>6 DEF DraftingInv

LEMMA GleanUnreadableKeeps ==
    ASSUME DraftingInv, Distilled!GleanUnreadable
    PROVE  DraftingInv'
<1>1. /\ at.step = "gleaning" /\ at' = Distilled!NextChunk
      /\ plan' = plan /\ merged' = merged /\ heard' = heard /\ failed' = failed
  BY DEF Distilled!GleanUnreadable
<1>2. PlanInv' /\ HeardInv'
  BY <1>1, PlanStays, HeardStays DEF DraftingInv
<1>3. IsList(failed) /\ Reported(heard, failed) = 1..at.chunk
  BY <1>1 DEF DraftingInv, PlaceInv, ReachedTo, Early
<1>4. PlaceInv' /\ at'.step \in {"asking", "read"}
  BY <1>1, <1>3, NextPlace DEF DraftingInv
<1>5. SeenInv' /\ DraftInv'
  BY <1>4 DEF SeenInv, DraftInv
<1> QED
  BY <1>2, <1>4, <1>5 DEF DraftingInv

\* A chunk that is to be gleaned.
LEMMA GleaningPlace ==
    ASSUME PlanInv, PlaceInv, NEW seen, NEW n, at' = Distilled!At("gleaning", at.chunk, seen, n),
           plan' = plan, IsList(failed'), Reported(heard', failed') = 1..at.chunk,
           \A x \in seen : Known(x)'
    PROVE  PlaceInv' /\ SeenInv' /\ DraftInv'
<1>1. at'.step = "gleaning" /\ at'.chunk = at.chunk /\ at'.seen = seen /\ IsPlace(at')
  BY DEF IsPlace, Distilled!At
<1>2. Placed(at', plan.chunks)
  BY <1>1 DEF PlaceInv, Placed, Distilled!Steps
<1>3. ReachedTo(at', plan.chunks) = at.chunk
  BY <1>1 DEF ReachedTo, Early
<1>4. PlaceInv'
  BY <1>2, <1>3 DEF PlaceInv
<1>5. SeenInv'
  BY <1>1 DEF SeenInv
<1>6. DraftInv'
  BY <1>1 DEF DraftInv
<1> QED
  BY <1>4, <1>5, <1>6

LEMMA ToldKeeps ==
    ASSUME Distilled!WellFormed, DraftingInv, NEW p \in Replies, Distilled!Told(p)
    PROVE  DraftingInv'
<1>1. /\ at.step \in {"asking", "asking again"} /\ merged' = Distilled!Add(merged, p)
      /\ heard' = [all |-> heard.all \cup {p}, merged |-> heard.merged \cup {p}, chunks |-> heard.chunks \cup {at.chunk}]
      /\ at' = IF GleanRounds = 0 THEN Distilled!NextChunk
               ELSE Distilled!At("gleaning", at.chunk, Distilled!Names(p), GleanRounds)
      /\ plan' = plan /\ failed' = failed
  BY DEF Distilled!Told
<1>2. HeardInv' /\ \A x : Known(x) \/ x \in Distilled!Names(p) => Known(x)'
  BY <1>1, HeardMore DEF DraftingInv
<1>3. PlanInv'
  BY <1>1, PlanStays DEF DraftingInv
<1>4. at.chunk \in Nat \ {0} /\ IsList(failed) /\ Reported(heard, failed) = 1..(at.chunk - 1)
  <2>1. at.step \in Early
    BY <1>1 DEF Early
  <2> QED
    BY <2>1 DEF DraftingInv, PlanInv, PlaceInv, Placed, ReachedTo
<1>5. IsList(failed') /\ Reported(heard', failed') = 1..at.chunk
  <2>1. heard'.chunks = heard.chunks \cup {at.chunk}
    BY <1>1
  <2>2. Reported(heard', failed) = 1..at.chunk
    BY <2>1, <1>4, OneMoreReported
  <2> QED
    BY <2>2, <1>1, <1>4
<1>6. CASE GleanRounds = 0
  <2>1. PlaceInv' /\ at'.step \in {"asking", "read"}
    BY <1>1, <1>5, <1>6, NextPlace DEF DraftingInv
  <2>2. SeenInv' /\ DraftInv'
    BY <2>1 DEF SeenInv, DraftInv
  <2> QED
    BY <2>1, <2>2, <1>2, <1>3 DEF DraftingInv
<1>7. CASE GleanRounds # 0
  <2>1. at' = Distilled!At("gleaning", at.chunk, Distilled!Names(p), GleanRounds)
    BY <1>1, <1>7
  <2>2. \A x \in Distilled!Names(p) : Known(x)'
    BY <1>2
  <2>3. PlaceInv' /\ SeenInv' /\ DraftInv'
    BY <2>1, <2>2, <1>1, <1>5, GleaningPlace DEF DraftingInv
  <2> QED
    BY <2>3, <1>2, <1>3 DEF DraftingInv
<1> QED
  BY <1>6, <1>7

LEMMA GleanedKeeps ==
    ASSUME Distilled!WellFormed, DraftingInv, NEW p \in Replies, Distilled!Gleaned(p)
    PROVE  DraftingInv'
<1> DEFINE new == Distilled!Names(p) \ at.seen
<1>1. at.step = "gleaning" /\ plan' = plan /\ failed' = failed
  BY DEF Distilled!Gleaned
<1>2. PlanInv'
  BY <1>1, PlanStays DEF DraftingInv
<1>3. PICK a, m, c : heard = [all |-> a, merged |-> m, chunks |-> c]
  BY DEF DraftingInv, HeardInv
<1>4. heard.all = a /\ heard.merged = m /\ heard.chunks = c
  BY <1>3
<1>5. IsList(failed) /\ Reported(heard, failed) = 1..at.chunk
  BY <1>1 DEF DraftingInv, PlaceInv, ReachedTo, Early
<1>6. \A x \in at.seen : Known(x)
  BY <1>1 DEF DraftingInv, SeenInv
<1>7. CASE new = {}
  <2>1. at' = Distilled!NextChunk /\ heard' = [heard EXCEPT !.all = @ \cup {p}] /\ merged' = merged
    BY <1>7 DEF Distilled!Gleaned
  <2>2. heard' = [all |-> a \cup {p}, merged |-> m, chunks |-> c]
    BY <1>3, <2>1
  <2>3. heard'.all = heard.all \cup {p} /\ heard'.merged = heard.merged /\ heard'.chunks = heard.chunks
    BY <1>4, <2>2
  <2>4. Reported(heard', failed') = 1..at.chunk
    BY <1>1, <1>5, <2>3 DEF Reported
  <2>5. PlaceInv' /\ at'.step \in {"asking", "read"}
    BY <1>1, <1>5, <2>1, <2>4, NextPlace DEF DraftingInv
  <2>6. SeenInv' /\ DraftInv'
    BY <2>5 DEF SeenInv, DraftInv
  <2>7. \A x : Known(x)' <=> Known(x)
    BY <2>1 DEF Known
  <2>8. \A x \in Distilled!Names(p) : Known(x)
    BY <1>6, <1>7
  <2>9. \A q \in heard'.all : \A x \in Distilled!Names(q) : Known(x)'
    BY <2>3, <2>7, <2>8 DEF DraftingInv, HeardInv
  <2>10. heard'.merged \subseteq heard'.all /\ heard'.all \subseteq Replies
    BY <2>3 DEF DraftingInv, HeardInv
  <2>11. heard' = [all |-> heard'.all, merged |-> heard'.merged, chunks |-> heard'.chunks]
    BY <2>2
  <2>12. HeardInv'
    BY <2>1, <2>3, <2>9, <2>10, <2>11 DEF DraftingInv, HeardInv
  <2> QED
    BY <1>2, <2>5, <2>6, <2>12 DEF DraftingInv
<1>8. CASE new # {}
  <2>1. /\ merged' = Distilled!Add(merged, p)
        /\ heard' = [heard EXCEPT !.all = @ \cup {p}, !.merged = @ \cup {p}]
        /\ at' = IF at.left = 1 THEN Distilled!NextChunk
                 ELSE Distilled!At("gleaning", at.chunk, at.seen \cup new, at.left - 1)
    BY <1>8 DEF Distilled!Gleaned
  <2>2. heard' = [all |-> a \cup {p}, merged |-> m \cup {p}, chunks |-> c]
    <3> DEFINE h == a \cup {p}  k == m \cup {p}
    <3>1. heard' = [heard EXCEPT !.all = h, !.merged = k]
      BY <2>1, <1>4
    <3> HIDE DEF h, k
    <3>2. heard' = [all |-> h, merged |-> k, chunks |-> c]
      BY <1>3, <3>1
    <3> QED
      BY <3>2 DEF h, k
  <2>3. heard' = [all |-> heard.all \cup {p}, merged |-> heard.merged \cup {p}, chunks |-> c] /\ heard'.chunks = heard.chunks
    BY <1>4, <2>2
  <2>4. HeardInv' /\ \A x : Known(x) \/ x \in Distilled!Names(p) => Known(x)'
    BY <2>1, <2>3, HeardMore DEF DraftingInv
  <2>5. Reported(heard', failed') = 1..at.chunk
    BY <1>1, <1>5, <2>3 DEF Reported
  <2>6. CASE at.left = 1
    <3>1. at' = Distilled!NextChunk
      BY <2>1, <2>6
    <3>2. PlaceInv' /\ at'.step \in {"asking", "read"}
      BY <1>1, <1>5, <2>5, <3>1, NextPlace DEF DraftingInv
    <3>3. SeenInv' /\ DraftInv'
      BY <3>2 DEF SeenInv, DraftInv
    <3> QED
      BY <1>2, <2>4, <3>2, <3>3 DEF DraftingInv
  <2>7. CASE at.left # 1
    <3> DEFINE seen == at.seen \cup new  n == at.left - 1
    <3>1. at' = Distilled!At("gleaning", at.chunk, seen, n)
      BY <2>1, <2>7
    <3>2. \A x \in seen : Known(x)'
      BY <1>6, <2>4
    <3> HIDE DEF seen, n
    <3>3. PlaceInv' /\ SeenInv' /\ DraftInv'
      BY <3>1, <3>2, <1>1, <1>5, <2>5, GleaningPlace DEF DraftingInv
    <3> QED
      BY <1>2, <2>4, <3>3 DEF DraftingInv
  <2> QED
    BY <2>6, <2>7
<1> QED
  BY <1>7, <1>8

\* Once everything was read the place changes only in its step.
LEMMA LatePlace ==
    ASSUME PlaceInv, NEW s, s \in {"judging", "drafted", "filed", "lost"},
           at.step \in {"read", "judging", "drafted"}, at' = [at EXCEPT !.step = s],
           UNCHANGED <<plan, merged, heard, failed>>
    PROVE  PlaceInv' /\ SeenInv' /\ at'.step = s
<1>1. plan' = plan /\ heard' = heard /\ failed' = failed
  OBVIOUS
<1>2. at'.step = s /\ at'.chunk = at.chunk /\ IsPlace(at')
  <2>1. at' = Distilled!At(s, at.chunk, at.seen, at.left)
    BY StepIs DEF PlaceInv, Placed
  <2> QED
    BY <2>1 DEF IsPlace, Distilled!At
<1>3. Placed(at', plan.chunks)
  BY <1>2 DEF PlaceInv, Placed, Distilled!Steps
<1>4. ReachedTo(at', plan.chunks) = ReachedTo(at, plan.chunks)
  BY <1>2 DEF ReachedTo, Early
<1>5. PlaceInv'
  BY <1>1, <1>3, <1>4 DEF PlaceInv
<1>6. SeenInv'
  BY <1>2 DEF SeenInv
<1> QED
  BY <1>2, <1>5, <1>6

LEMMA MakeDraftKeeps ==
    ASSUME Distilled!WellFormed, DraftingInv, Distilled!MakeDraft
    PROVE  DraftingInv'
<1>1. /\ at.step = "read" /\ UNCHANGED <<plan, merged, heard, failed>>
      /\ draft' = Distilled!DraftFromMerged(Distilled!ResolveAliases(merged))
  BY DEF Distilled!MakeDraft
<1>2. PICK s \in {"judging", "drafted"} : at' = [at EXCEPT !.step = s]
  BY DEF Distilled!MakeDraft
<1>3. PlaceInv' /\ SeenInv' /\ at'.step = s
  BY <1>1, <1>2, LatePlace DEF DraftingInv
<1>4. PlanInv' /\ HeardInv'
  BY <1>1, PlanStays, HeardStays DEF DraftingInv
<1>5. Named /\ FiniteWorld /\ Facts(merged)
  BY DEF Distilled!WellFormed, Named, FiniteWorld, DraftingInv, HeardInv, IsFiniteSet, Distilled!IsFiniteSet
<1>6. IsDraft(draft') /\ Tells(merged, draft')
  BY <1>1, <1>5, DraftTells, DraftIs
<1>7. DraftInv'
  BY <1>1, <1>3, <1>6 DEF DraftInv
<1> QED
  BY <1>3, <1>4, <1>7 DEF DraftingInv

LEMMA JudgedKeeps ==
    ASSUME DraftingInv, NEW against, Distilled!Judged(against) \/ Distilled!JudgedBadly
    PROVE  DraftingInv'
<1>1. at.step = "judging" /\ UNCHANGED <<plan, merged, heard, failed>>
  BY DEF Distilled!Judged, Distilled!JudgedBadly
<1>2. PlanInv' /\ HeardInv'
  BY <1>1, PlanStays, HeardStays DEF DraftingInv
<1>3. CASE Distilled!Judged(against)
  <2>1. at' = [at EXCEPT !.step = "drafted"] /\ draft' = [draft EXCEPT !.doubted = @ \cup against]
    BY <1>3 DEF Distilled!Judged
  <2>2. PlaceInv' /\ SeenInv' /\ at'.step = "drafted"
    BY <1>1, <2>1, LatePlace DEF DraftingInv
  <2>3. IsDraft(draft) /\ Tells(merged, draft)
    BY <1>1 DEF DraftingInv, DraftInv
  <2>4. Agree(draft, draft')
    <3> DEFINE S == draft.doubted \cup against
    <3>1. draft' = [draft EXCEPT !.doubted = S]
      BY <2>1
    <3> HIDE DEF S
    <3> QED
      BY <2>3, <3>1, FlaggedAgrees
  <2>5. IsDraft(draft') /\ Tells(merged', draft')
    BY <1>1, <2>3, <2>4, AgreeingTells DEF Agree
  <2> QED
    BY <1>2, <2>2, <2>5 DEF DraftingInv, DraftInv
<1>4. CASE Distilled!JudgedBadly
  <2>1. at' = [at EXCEPT !.step = "lost"]
    BY <1>4 DEF Distilled!JudgedBadly
  <2>2. PlaceInv' /\ SeenInv' /\ at'.step = "lost"
    BY <1>1, <2>1, LatePlace DEF DraftingInv
  <2> QED
    BY <1>2, <2>2 DEF DraftingInv, DraftInv
<1> QED
  BY <1>3, <1>4

LEMMA FillGapsKeeps ==
    ASSUME DraftingInv, NEW refs, Distilled!FillGaps(refs)
    PROVE  DraftingInv'
<1>1. /\ at.step = "drafted" /\ draft' = [draft EXCEPT !.suggested = refs \cap draft.gaps]
      /\ UNCHANGED <<plan, at, merged, heard, failed>>
  BY DEF Distilled!FillGaps
<1>2. PlanInv' /\ HeardInv'
  BY <1>1, PlanStays, HeardStays DEF DraftingInv
<1>3. PlaceInv' /\ SeenInv'
  BY <1>1 DEF DraftingInv, PlaceInv, SeenInv
<1>4. IsDraft(draft) /\ Tells(merged, draft)
  BY <1>1 DEF DraftingInv, DraftInv
<1>5. Agree(draft, draft')
  <2> DEFINE S == refs \cap draft.gaps
  <2>1. draft' = [draft EXCEPT !.suggested = S]
    BY <1>1
  <2> HIDE DEF S
  <2> QED
    BY <1>4, <2>1, FlaggedAgrees
<1>6. IsDraft(draft') /\ Tells(merged', draft')
  BY <1>1, <1>4, <1>5, AgreeingTells DEF Agree
<1>7. at'.step = "drafted"
  BY <1>1
<1> QED
  BY <1>2, <1>3, <1>6, <1>7 DEF DraftingInv, DraftInv

LEMMA SubmitKeeps ==
    ASSUME DraftingInv, NEW answered \in SUBSET draft.gaps, NEW asQuests \in BOOLEAN, Distilled!Submit(answered, asQuests)
    PROVE  DraftingInv'
<1> DEFINE final == Distilled!ApplyGapAnswers(draft, answered)
           f == [final EXCEPT !.quests = IF asQuests THEN Distilled!QuestsFromBeats(final) ELSE <<>>]
<1>1. /\ at.step = "drafted" /\ at' = [at EXCEPT !.step = "filed"] /\ filed' = f /\ draft' = draft
      /\ UNCHANGED <<plan, merged, heard, failed>>
  BY DEF Distilled!Submit
<1>2. PlanInv' /\ HeardInv'
  BY <1>1, PlanStays, HeardStays DEF DraftingInv
<1>3. PlaceInv' /\ SeenInv' /\ at'.step = "filed"
  BY <1>1, LatePlace DEF DraftingInv
<1>4. IsDraft(draft) /\ Tells(merged, draft) /\ Facts(merged)
  BY <1>1 DEF DraftingInv, DraftInv, HeardInv
<1>5. Fills(draft, f) /\ Closes(merged, f)
  BY <1>4, SubmittedIs
<1> HIDE DEF f
<1>6. Fills(draft', filed') /\ Closes(merged', filed') /\ IsDraft(draft') /\ Tells(merged', draft')
  BY <1>1, <1>4, <1>5
<1> QED
  BY <1>2, <1>3, <1>6 DEF DraftingInv, DraftInv

LEMMA DraftingSteps ==
    ASSUME Distilled!WellFormed, DraftingInv, [Distilled!Next]_Distilled!vars
    PROVE  DraftingInv'
<1>1. CASE UNCHANGED Distilled!vars
  <2>1. UNCHANGED <<plan, at, merged, heard, failed, draft, filed>>
    BY <1>1 DEF Distilled!vars
  <2>2. PlanInv' /\ HeardInv'
    BY <2>1, PlanStays, HeardStays DEF DraftingInv
  <2>3. PlaceInv'
    BY <2>1 DEF DraftingInv, PlaceInv
  <2>4. SeenInv'
    BY <2>1 DEF DraftingInv, SeenInv, Known
  <2>5. DraftInv'
    BY <2>1 DEF DraftingInv, DraftInv
  <2> QED
    BY <2>2, <2>3, <2>4, <2>5 DEF DraftingInv
<1>2. CASE Distilled!Begin
  BY <1>2, BeginKeeps
<1>3. CASE Distilled!Unreadable
  BY <1>3, UnreadableKeeps
<1>4. CASE Distilled!GiveUp
  BY <1>4, GiveUpKeeps
<1>5. CASE Distilled!GleanUnreadable
  BY <1>5, GleanUnreadableKeeps
<1>6. CASE Distilled!MakeDraft
  BY <1>6, MakeDraftKeeps
<1>7. CASE Distilled!JudgedBadly
  BY <1>7, JudgedKeeps
<1>8. ASSUME NEW p \in Replies, Distilled!Told(p) \/ Distilled!Gleaned(p) PROVE DraftingInv'
  BY <1>8, ToldKeeps, GleanedKeeps
<1>9. ASSUME NEW against, Distilled!Judged(against) PROVE DraftingInv'
  BY <1>9, JudgedKeeps
<1>10. ASSUME NEW refs \in SUBSET draft.gaps, Distilled!FillGaps(refs) PROVE DraftingInv'
  BY <1>10, FillGapsKeeps
<1>11. ASSUME NEW refs \in SUBSET draft.gaps, NEW asQuests \in BOOLEAN, Distilled!Submit(refs, asQuests) PROVE DraftingInv'
  BY <1>11, SubmitKeeps
<1> QED
  BY <1>1, <1>2, <1>3, <1>4, <1>5, <1>6, <1>7, <1>8, <1>9, <1>10, <1>11 DEF Distilled!Next

LEMMA DraftingInvAlways ==
    ASSUME Distilled!WellFormed
    PROVE  Distilled!Spec => []DraftingInv
<1>1. Distilled!Init => DraftingInv
  BY DraftingBegins
<1>2. DraftingInv /\ [Distilled!Next]_Distilled!vars => DraftingInv'
  BY DraftingSteps
<1> QED
  BY <1>1, <1>2, PTL DEF Distilled!Spec

\* ExtractionService.extract, for every manuscript, however it is cut, and whatever the models answer:
\* the plan reads everything or says how much of it, and within the budget; what was told is in the
\* draft, under each of the names it had; a relation that was told is in it, or is open, unless its ends
\* turned out to be one; nothing that is there is flagged as missing, each chunk is accounted for, and
\* what was filed without a description has an open gap unless somebody answered it.
THEOREM DraftsTellAll ==
    ASSUME Distilled!WellFormed
    PROVE  Distilled!Spec => []Distilled!DraftTellsAll
<1>1. DraftingInv => Distilled!DraftTellsAll
  BY DraftingTells
<1> QED
  BY <1>1, DraftingInvAlways, PTL

\* The same: the run is at one of its steps, at a chunk within the budget.
THEOREM DraftsKeepTypes ==
    ASSUME Distilled!WellFormed
    PROVE  Distilled!Spec => []Distilled!TypeOK
<1>1. DraftingInv => Distilled!TypeOK
  BY DraftingTells
<1> QED
  BY <1>1, DraftingInvAlways, PTL
=============================================================================
