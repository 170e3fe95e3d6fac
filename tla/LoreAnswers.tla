---------------------------- MODULE LoreAnswers ----------------------------
(***************************************************************************)
(* Questions about a world.  Every request opens the project              *)
(* (pipeline/project.py): it loads the bundle, replaces the search index   *)
(* in the runtime database that all requests share, and embeds what has no *)
(* vector yet.  A question (qa/service.py) is then answered from what      *)
(* retrieval finds (retrieval/), an overview (qa/community_index.py) is    *)
(* summarised from the bundle, an inspiration search reads the chunks of   *)
(* the reference library (inspiration/).                                   *)
(***************************************************************************)
EXTENDS LoreGraph

CONSTANTS
    Requests,
    Worlds,         \* the bundles that other requests save
    FirstWorld,
    Questions,      \* the ids that a question, or a rewording of it, mentions
    Sources,        \* the texts that may be added to the library
    Models,         \* the embedder configured: "st", the semantic one, or "hashing"
    MaxEdits, MaxServed     \* bounds

VARIABLES
    world,          \* the bundle on disk
    library,        \* the chunks of the sources on disk
    index,          \* the rows of content_index and content_fts, and of reference_chunks
    vectors,        \* content_vectors and reference_vectors
    reports,        \* community_reports, by id
    reqs,           \* the requests in progress
    spent           \* edits made and requests served

vars == <<world, library, index, vectors, reports, reqs, spent>>

-----------------------------------------------------------------------------
(* What is indexed.  A row names the ids in its title and body. *)

Row(ref, text, names) == [ref |-> ref, text |-> text, names |-> names]

\* The kind of an object is among its words.
Words(b, o) == b.kind[o] \o " " \o b.text[o]

ContentRows(b) ==
    {Row(o, Words(b, o), {o[2]} \cup {u.id : u \in {u \in b.uses : u.owner = o}}) : o \in {o \in Objects(b) : o[1] # "style_guide"}}
    \cup {Row(RelationRef(b, i), "related", {b.rels[i].from, b.rels[i].to}) : i \in DOMAIN b.rels}

IsChunk(ref)   == ref[1] = "reference_chunk"
ChunkRows(lib) == {Row(<<"reference_chunk", c[1], c[2]>>, lib[c], {}) : c \in DOMAIN lib}

Contents(rows) == {r \in rows : ~IsChunk(r.ref)}
Chunks(rows)   == {r \in rows : IsChunk(r.ref)}

\* replace_content_index and sync_index delete all rows before they insert.
ReplaceContentIndex(rows, b)     == ContentRows(b) \cup Chunks(rows)
ReplaceReferenceIndex(rows, lib) == Contents(rows) \cup ChunkRows(lib)

\* A stored vector: of which text of a row, under which model's key, and which model computed it.
Vector(row, key, space) == [ref |-> row.ref, text |-> row.text, key |-> key, space |-> space]

\* Rows without a vector of their text under the key.
ToEmbed(vs, rows, key) ==
    {row \in rows : ~\E v \in vs : v.ref = row.ref /\ v.key = key /\ v.text = row.text}

Upserted(vs, new) == {v \in vs : \A n \in new : ~(n.ref = v.ref /\ n.key = v.key)} \cup new

\* Only vectors of the same table and key are pruned.
Pruned(vs, rows, key, chunks) ==
    {v \in vs : v.key = key /\ IsChunk(v.ref) = chunks => \E row \in rows : row.ref = v.ref}

\* _reindex, when the lookup was made under key and the embedder turned out to be model.
Reindexed(vs, rows, chunks, key, model) ==
    IF rows = {} THEN vs
    ELSE Pruned(Upserted(vs, {Vector(row, model, model) : row \in ToEmbed(vs, rows, model)}), rows, model, chunks)

Idle == [at |-> "idle"]

Init ==
    /\ world = FirstWorld
    /\ library = <<>>
    /\ index = {}
    /\ vectors = {}
    /\ reports = <<>>
    /\ reqs = [r \in Requests |-> Idle]
    /\ spent = [edits |-> 0, served |-> 0]

-----------------------------------------------------------------------------
(* The world and the library change beside the requests. *)

\* Another request saves a bundle.
Edit(b) ==
    /\ spent.edits < MaxEdits
    /\ b # world
    /\ world' = b
    /\ spent' = [spent EXCEPT !.edits = @ + 1]
    /\ UNCHANGED <<library, index, vectors, reports, reqs>>

-----------------------------------------------------------------------------
(* Opening the project. *)

\* The uses: a question, an overview, an inspiration search, a text for the library.
Uses == {"ask", "overview", "references", "add"}

Open(r, use) ==
    /\ reqs[r].at = "idle"
    /\ spent.served < MaxServed
    /\ spent' = [spent EXCEPT !.served = @ + 1]
    /\ \E m \in Models :
         reqs' = [q \in Requests |->
                    IF q = r THEN [at |-> "index", use |-> use, bundle |-> world, model |-> m, loaded |-> m = "hashing",
                                   dense |-> {}, space |-> m, pack |-> {},
                                   crossed |-> FALSE, beside |-> \E p \in Requests \ {r} : reqs[p].at # "idle"]
                    ELSE IF reqs[q].at \in {"idle", "answered"} THEN reqs[q]
                    ELSE [reqs[q] EXCEPT !.beside = TRUE]]
    /\ UNCHANGED <<world, library, index, vectors, reports>>

\* Who works on another version of the world now finds rows that are not of its bundle.
Crossed(r) ==
    [q \in Requests |->
        IF q # r /\ reqs[q].at \in {"sync", "embed", "embed chunks", "recall"} /\ reqs[q].bundle # reqs[r].bundle
        THEN [reqs[q] EXCEPT !.crossed = TRUE] ELSE reqs[q]]

IndexContent(r) ==
    /\ reqs[r].at = "index"
    /\ index' = ReplaceContentIndex(index, reqs[r].bundle)
    /\ reqs' = [Crossed(r) EXCEPT ![r].at = "sync"]
    /\ UNCHANGED <<world, library, vectors, reports, spent>>

SyncReferences(r) ==
    /\ reqs[r].at = "sync"
    /\ index' = ReplaceReferenceIndex(index, library)
    /\ reqs' = [reqs EXCEPT ![r].at = "embed"]
    /\ UNCHANGED <<world, library, vectors, reports, spent>>

\* The model loads when something is embedded, or cannot be loaded: the stub then stands in.
Settled(req, embeds) ==
    IF req.loaded \/ ~embeds THEN {req}
    ELSE {[req EXCEPT !.loaded = TRUE], [req EXCEPT !.loaded = TRUE, !.model = "hashing"]}

\* VectorRetriever._reindex, for the content and then for the chunks.
Embed(r) ==
    /\ reqs[r].at \in {"embed", "embed chunks"}
    /\ LET chunks == reqs[r].at = "embed chunks"
           rows   == IF chunks THEN Chunks(index) ELSE Contents(index)
           key    == reqs[r].model
       IN  \E settled \in Settled(reqs[r], ToEmbed(vectors, rows, key) # {}) :
             /\ vectors' = Reindexed(vectors, rows, chunks, key, settled.model)
             /\ reqs' = [reqs EXCEPT ![r] =
                   [settled EXCEPT !.at = IF chunks THEN "recall" ELSE "embed chunks",
                                   !.dense = @ \cup rows, !.space = settled.model]]
    /\ UNCHANGED <<world, library, index, reports, spent>>

-----------------------------------------------------------------------------
(* Retrieval: what the legs find is fused by ref, ranked, and cut to the budget. *)

Hit(ref, text) == [ref |-> ref, text |-> text]
Hits(rows)     == {Hit(row.ref, row.text) : row \in rows}

Mentioning(rows, asked) == {row \in rows : row.names \cap asked # {}}

\* The vectors are of another space when the model fails on the question only.
DenseRows(req) == IF req.model = req.space THEN req.dense ELSE {}

Shown == {"entity", "quest", "region", "poi", "term"}

\* GraphExpansionRetriever, on the bundle of the request.
GraphHits(b, asked) ==
    LET shown == {o \in Objects(b) : o[1] \in Shown}
        seeds == {o \in shown : o[2] \in asked}
    IN  {Hit(o, Words(b, o)) : o \in shown \cap UNION {Neighbors(b, seed, 2) : seed \in seeds}}

CommunityHits == {Hit(<<"community", id>>, "summary") : id \in DOMAIN reports}

\* The relations of every entity found.
RelationRows(rows, found) ==
    LET ids == {h.ref[2] : h \in {h \in found : h.ref[1] = "entity"}}
    IN  {row \in rows : row.ref[1] = "relation" /\ {row.ref[2], row.ref[4]} \cap ids # {}}

Recalled(req, asked) ==
    LET rows  == Contents(index)
        found == Hits(Mentioning(rows, asked)) \cup Hits(Contents(DenseRows(req)))
                 \cup GraphHits(req.bundle, asked) \cup CommunityHits
    IN  found \cup Hits(RelationRows(rows, found))

\* The texts of one ref are put together; the first is kept whatever it costs.
Fuse(hits) == {[ref |-> ref, texts |-> {h.text : h \in {h \in hits : h.ref = ref}}] : ref \in {h.ref : h \in hits}}
Packs(fused) == IF fused = {} THEN {{}} ELSE {fused} \cup {{best} : best \in fused}

\* The question is embedded by the dense leg if there are vectors.
Recall(r) ==
    /\ reqs[r].at = "recall" /\ reqs[r].use = "ask"
    /\ \E settled \in Settled(reqs[r], Contents(reqs[r].dense) # {}), asked \in SUBSET Questions :
         \E pack \in Packs(Fuse(Recalled(settled, asked))) :
           reqs' = [reqs EXCEPT ![r] = [settled EXCEPT !.at = "prompted", !.pack = pack, !.dense = {}]]
    /\ UNCHANGED <<world, library, index, vectors, reports, spent>>

\* The library is searched in the same way; what is shown is read from the chunks again.
SearchReferences(r) ==
    /\ reqs[r].at = "recall" /\ reqs[r].use = "references"
    /\ \E settled \in Settled(reqs[r], Chunks(reqs[r].dense) # {}) :
         LET chunks == Chunks(index)
             found  == Hits(chunks) \cup Hits(Chunks(DenseRows(settled)))
         IN  \E pack \in Packs(Fuse({h \in found : \E row \in chunks : row.ref = h.ref})) :
               reqs' = [reqs EXCEPT ![r] = [settled EXCEPT !.at = "shown", !.pack = pack, !.dense = {}]]
    /\ UNCHANGED <<world, library, index, vectors, reports, spent>>

\* A text is stored under a new id, and the index is synced once more.
AddText(r) ==
    /\ reqs[r].at = "recall" /\ reqs[r].use = "add"
    /\ \E source \in Sources, n \in 1..MaxServed :
         LET id == <<source, n>>
         IN  /\ id \notin DOMAIN library /\ \A k \in 1..(n - 1) : <<source, k>> \in DOMAIN library
             /\ library' = [i \in DOMAIN library \cup {id} |-> i[1]]
    /\ reqs' = [reqs EXCEPT ![r].at = "resync"]
    /\ UNCHANGED <<world, index, vectors, reports, spent>>

Resync(r) ==
    /\ reqs[r].at = "resync"
    /\ index' = ReplaceReferenceIndex(index, library)
    /\ reqs' = [reqs EXCEPT ![r] = Idle]
    /\ UNCHANGED <<world, library, vectors, reports, spent>>

-----------------------------------------------------------------------------
(* The answer. *)

Nowhere == <<"npc", "nowhere">>

\* What the model may cite for a hit: its ref, or the id under a type of the model's own.
Citable(ref) == {ref, <<"npc", ref[2]>>}

\* The ref itself, or else the only one with that id; none has Nowhere's.
Canonical(raw, refs) ==
    IF raw \in refs THEN {raw}
    ELSE LET same == {ref \in refs : Len(ref) = 2 /\ ref[2] = raw[2]}
         IN  IF Cardinality(same) = 1 THEN same ELSE {}

Known(b, id) == \E o \in Objects(b) : o[1] # "style_guide" /\ o[2] = id

\* verify_qa_answer: the citations exist, and who is mentioned in the text is known.
Valid(req, cites, mentioned) ==
    /\ cites # {}
    /\ \A raw \in cites : Canonical(raw, {h.ref : h \in req.pack}) # {}
    /\ \A id \in mentioned : Known(req.bundle, id)

Cited(req, cites) ==
    LET refs == UNION {Canonical(raw, {h.ref : h \in req.pack}) : raw \in cites}
    IN  {h \in req.pack : h.ref \in refs}

\* Nothing was found: the model is not asked.
RefuseEmpty(r) ==
    /\ reqs[r].at = "prompted" /\ reqs[r].pack = {}
    /\ reqs' = [reqs EXCEPT ![r].at = "refused"]
    /\ UNCHANGED <<world, library, index, vectors, reports, spent>>

\* The model may cite anything, and what it names in its text may be unknown.  An answer that
\* cannot be parsed, that refuses or that is not valid is a refusal.
Answer(r) ==
    /\ reqs[r].at = "prompted" /\ reqs[r].pack # {}
    /\ \/ reqs' = [reqs EXCEPT ![r].at = "refused"]
       \/ \E h \in reqs[r].pack : \E raw \in Citable(h.ref) :
            \E cites \in {{}, {raw}, {raw, Nowhere}}, mentioned \in SUBSET {"nobody", h.ref[2]} :
              /\ Valid(reqs[r], cites, mentioned)
              /\ reqs' = [reqs EXCEPT ![r].at = "answered", ![r].pack = Cited(reqs[r], cites)]
    /\ UNCHANGED <<world, library, index, vectors, reports, spent>>

\* The response is sent; or the request ended with an exception of the model's.
Close(r) ==
    /\ reqs[r].at \in {"prompted", "answered", "refused", "shown", "report", "built"}
    /\ reqs' = [reqs EXCEPT ![r] = Idle]
    /\ UNCHANGED <<world, library, index, vectors, reports, spent>>

-----------------------------------------------------------------------------
(* The overview: a report on each community, and one on the reports. *)

TextOf(b, n) == IF n \in Objects(b) THEN b.text[n] ELSE ""

KindOf(b, n) == IF n \in Objects(b) THEN b.kind[n] ELSE n[1]

\* What the prompt, or the roster that replaces an answer that cannot be parsed, is made of.
Told(b, g) == [members |-> [n \in g |-> TextOf(b, n)], kinds |-> [n \in g |-> KindOf(b, n)],
               ties |-> IntraRelations(b, g)]

\* (wrong: of the refs and ties alone)
FingerprintOfRefs(b, g) == [members |-> [n \in g |-> ""], ties |-> IntraRelations(b, g)]

\* _fingerprint: of the refs, names and texts, and of the ties; not of the kinds.
Fingerprint(b, g) == [members |-> [n \in g |-> TextOf(b, n)], ties |-> IntraRelations(b, g)]

CommunityReport(b, g) == [told |-> Told(b, g), fingerprint |-> Fingerprint(b, g)]

GlobalReport(b, gs, done) ==
    [told        |-> [reports |-> [k \in DOMAIN done |-> done[k].told], crosses |-> CrossRelations(b, gs)],
     fingerprint |-> [reports |-> [k \in DOMAIN done |-> done[k].fingerprint], crosses |-> CrossRelations(b, gs)]]

CommunityId(k) == "c" \o ToString(k - 1)
GlobalId       == "_global"

Put(table, id, report) == [i \in DOMAIN table \cup {id} |-> IF i = id THEN report ELSE table[i]]

Cached(id, fingerprint) == id \in DOMAIN reports /\ reports[id].fingerprint = fingerprint

StartOverview(r) ==
    /\ reqs[r].at = "recall" /\ reqs[r].use = "overview"
    /\ reqs' = [reqs EXCEPT ![r] =
           [at |-> "community", use |-> "overview", bundle |-> @.bundle, beside |-> @.beside, done |-> <<>>]]
    /\ UNCHANGED <<world, library, index, vectors, reports, spent>>

Todo(r) == DetectCommunities(reqs[r].bundle)
Kth(r)  == Len(reqs[r].done) + 1

\* A report of the community that is still true is kept; another is asked for.
ReuseReport(r) ==
    /\ reqs[r].at = "community" /\ Kth(r) <= Len(Todo(r))
    /\ reqs' = [reqs EXCEPT ![r] =
           IF Cached(CommunityId(Kth(r)), Fingerprint(@.bundle, Todo(r)[Kth(r)]))
           THEN [@ EXCEPT !.done = Append(reqs[r].done, reports[CommunityId(Kth(r))])]
           ELSE [@ EXCEPT !.at = "report"]]
    /\ UNCHANGED <<world, library, index, vectors, reports, spent>>

SaveReport(r) ==
    /\ reqs[r].at = "report"
    /\ LET report == CommunityReport(reqs[r].bundle, Todo(r)[Kth(r)])
       IN  /\ reports' = Put(reports, CommunityId(Kth(r)), report)
           /\ reqs' = [reqs EXCEPT ![r] = [@ EXCEPT !.at = "community", !.done = Append(reqs[r].done, report)]]
    /\ UNCHANGED <<world, library, index, vectors, spent>>

\* The report on the whole is asked for before it is looked up.
SaveGlobal(r) ==
    /\ reqs[r].at = "community" /\ Kth(r) > Len(Todo(r))
    /\ LET report == GlobalReport(reqs[r].bundle, Todo(r), reqs[r].done)
       IN  reports' = IF Cached(GlobalId, report.fingerprint) THEN reports ELSE Put(reports, GlobalId, report)
    /\ reqs' = [reqs EXCEPT ![r].at = "prune"]
    /\ UNCHANGED <<world, library, index, vectors, spent>>

PruneReports(r) ==
    /\ reqs[r].at = "prune"
    /\ LET keep == {GlobalId} \cup {CommunityId(k) : k \in DOMAIN reqs[r].done}
       IN  reports' = [id \in DOMAIN reports \cap keep |-> reports[id]]
    /\ reqs' = [reqs EXCEPT ![r].at = "built"]
    /\ UNCHANGED <<world, library, index, vectors, spent>>

Next ==
    \/ \E b \in Worlds : Edit(b)
    \/ \E r \in Requests :
         \/ \E use \in Uses : Open(r, use)
         \/ IndexContent(r) \/ SyncReferences(r) \/ Embed(r)
         \/ Recall(r) \/ SearchReferences(r) \/ AddText(r) \/ Resync(r)
         \/ RefuseEmpty(r) \/ Answer(r) \/ Close(r)
         \/ StartOverview(r) \/ ReuseReport(r) \/ SaveReport(r) \/ SaveGlobal(r) \/ PruneReports(r)

Spec == Init /\ [][Next]_vars

-----------------------------------------------------------------------------
\* What the proofs need of the constants: worlds are finite, the type of an object is not one of the other
\* things that are indexed, and the communities of a world are stored under different ids.
WellFormed ==
    /\ FirstWorld \in Worlds /\ Models \subseteq {"st", "hashing"}
    /\ MaxEdits \in Nat /\ MaxServed \in Nat
    /\ \A b \in Worlds :
         /\ IsFiniteSet(Objects(b)) /\ IsFiniteSet(b.uses) /\ b.rels \in Seq(Range(b.rels))
         /\ \A o \in Objects(b) : o = <<o[1], o[2]>> /\ o[1] \notin {"relation", "community", "reference_chunk"}
         /\ \A j, k \in DOMAIN DetectCommunities(b) :
              CommunityId(k) # GlobalId /\ (CommunityId(j) = CommunityId(k) => j = k)

TypeOK ==
    /\ world \in Worlds
    /\ \A c \in DOMAIN library : library[c] \in Sources
    /\ \A v \in vectors : v.key \in {"st", "hashing"}
    /\ \A r \in Requests : reqs[r].at = "idle" \/ reqs[r].use \in Uses
    /\ spent.edits \in 0..MaxEdits /\ spent.served \in 0..MaxServed

\* An answer that is served as grounded (LoreQAService.ask) cites something, and, unless another
\* request indexed another version of the world meanwhile, only objects and relations of the
\* world that it loaded, with the text they have there, or a report of the overview; nothing of
\* the inspiration library.
GroundedInCanon ==
    \A r \in Requests : reqs[r].at = "answered" =>
        /\ reqs[r].pack # {}
        /\ \A h \in reqs[r].pack : ~IsChunk(h.ref)
        /\ ~reqs[r].crossed =>
              \A h \in reqs[r].pack :
                h.ref[1] = "community" \/ \E row \in ContentRows(reqs[r].bundle) :
                                             row.ref = h.ref /\ h.texts = {row.text}

\* What an inspiration search shows is the text of the library.
InspirationIsFiled ==
    \A r \in Requests : reqs[r].at = "shown" =>
        \A h \in reqs[r].pack : h.texts = {library[<<h.ref[2], h.ref[3]>>]}

\* No vector is stored under the key of a model that did not compute it (retrieval/vector.py), so
\* that a later request in which the model loads never compares vectors of two spaces.
VectorsAreHonest == \A v \in vectors : v.key = v.space

\* What is told of g is true of it in b, but for the kinds of its members, which are those of some world.
StillTells(told, b, g) ==
    /\ \E w \in Worlds : told = Told(w, g)
    /\ told.members = Told(b, g).members /\ told.ties = Told(b, g).ties

\* When an overview ends and no request ran beside it, the stored reports are those of its world:
\* each told of the communities as they are, but for the kinds of their members, which may be those of
\* an earlier world, those that are gone are forgotten, and the report on the whole told of them all
\* (CommunityIndexService.build).
OverviewIsCurrent ==
    \A r \in Requests : reqs[r].at = "built" /\ ~reqs[r].beside =>
        LET b     == reqs[r].bundle
            gs    == DetectCommunities(b)
            whole == reports[GlobalId].told
        IN  /\ DOMAIN reports = {GlobalId} \cup {CommunityId(k) : k \in DOMAIN gs}
            /\ \A k \in DOMAIN gs : StillTells(reports[CommunityId(k)].told, b, gs[k])
            /\ DOMAIN whole.reports = DOMAIN gs
            /\ \A k \in DOMAIN gs : StillTells(whole.reports[k], b, gs[k])
            /\ whole.crosses = CrossRelations(b, gs)

\* Whoever refers to an object must be changed with it, by the impact analysis of the object.
ImpactNamesReferrers ==
    \A u \in world.uses : Target(world, u) # u.owner =>
        Impact(world, {Target(world, u)}, 2)[u.owner] = "must_change"

AnswersHold ==
    GroundedInCanon /\ InspirationIsFiled /\ VectorsAreHonest /\ OverviewIsCurrent /\ ImpactNamesReferrers

\* What that rests on.  A request that looks something up, and one that makes an overview:
Looking  == {"index", "sync", "embed", "embed chunks", "recall", "resync", "prompted", "answered", "refused", "shown"}
Telling  == {"community", "report", "prune", "built"}
Steps(q) ==
    \/ q = Idle
    \/ /\ DOMAIN q = {"at", "use", "bundle", "model", "loaded", "dense", "space", "pack", "crossed", "beside"}
       /\ q.at \in Looking /\ q.use \in Uses /\ q.model \in {"st", "hashing"}
    \/ /\ DOMAIN q = {"at", "use", "bundle", "beside", "done"}
       /\ q.at \in Telling /\ q.use \in Uses
RequestsStep ==
    /\ DOMAIN reqs = Requests
    /\ \A r \in Requests : Steps(reqs[r]) /\ (reqs[r].at # "idle" => reqs[r].bundle \in Worlds)

\* The library only grows, so that what was read of it is what it holds.
ChunksAreFiled ==
    /\ \A c \in DOMAIN library : c = <<c[1], c[2]>> /\ library[c] = c[1]
    /\ Chunks(index) \subseteq ChunkRows(library)
    /\ \A r \in Requests :
         /\ reqs[r].at \in Looking => Chunks(reqs[r].dense) \subseteq ChunkRows(library)
         /\ reqs[r].at = "shown" => \A h \in reqs[r].pack : <<h.ref[2], h.ref[3]>> \in DOMAIN library

\* Between indexing its world and asking the model, whom nobody crossed finds its own rows.
Canonic(b, h) ==
    /\ ~IsChunk(h.ref)
    /\ h.ref[1] = "community" \/ \E row \in ContentRows(b) : row.ref = h.ref /\ h.texts = {row.text}
RowsAreMine ==
    \A r \in Requests :
        /\ reqs[r].at \in {"sync", "embed", "embed chunks", "recall"} /\ ~reqs[r].crossed =>
              Contents(index) = ContentRows(reqs[r].bundle) /\ Contents(reqs[r].dense) \subseteq ContentRows(reqs[r].bundle)
        /\ reqs[r].at = "index" => reqs[r].dense = {}
        /\ reqs[r].at = "prompted" =>
              \A h \in reqs[r].pack : ~IsChunk(h.ref) /\ (~reqs[r].crossed => Canonic(reqs[r].bundle, h))

\* Who has met nobody is alone.
Alone ==
    \A r \in Requests : reqs[r].at \notin {"idle", "answered"} /\ ~reqs[r].beside =>
        \A p \in Requests \ {r} : reqs[p].at = "idle"

\* A report was written of some world, and its fingerprint taken of that; the report on the whole, of such.
ReportOf(told, fingerprint) ==
    LET g == DOMAIN told.members
    IN  \E w \in Worlds : told = Told(w, g) /\ fingerprint = Fingerprint(w, g)
OverviewOf(told, fingerprint) ==
    /\ DOMAIN told.reports = DOMAIN fingerprint.reports
    /\ \A k \in DOMAIN told.reports : ReportOf(told.reports[k], fingerprint.reports[k])
    /\ told.crosses = fingerprint.crosses

\* An overview has come as far as its reports are of its communities, and has them stored if it is alone.
ReportsTell ==
    /\ \A id \in DOMAIN reports : IF id = GlobalId THEN OverviewOf(reports[id].told, reports[id].fingerprint)
                                   ELSE ReportOf(reports[id].told, reports[id].fingerprint)
    /\ \A r \in Requests : reqs[r].at \in Telling =>
         LET gs   == DetectCommunities(reqs[r].bundle)
             done == reqs[r].done
         IN  /\ done \in Seq(Range(done)) /\ Len(done) <= Len(gs)
             /\ reqs[r].at = "report" => Len(done) < Len(gs)
             /\ reqs[r].at \in {"prune", "built"} => Len(done) = Len(gs)
             /\ \A k \in 1..Len(done) : /\ StillTells(done[k].told, reqs[r].bundle, gs[k])
                                        /\ done[k].fingerprint = Fingerprint(reqs[r].bundle, gs[k])
             /\ ~reqs[r].beside =>
                  /\ \A k \in 1..Len(done) : /\ CommunityId(k) \in DOMAIN reports
                                             /\ reports[CommunityId(k)].told = done[k].told
                  /\ reqs[r].at \in {"prune", "built"} =>
                       /\ GlobalId \in DOMAIN reports
                       /\ reports[GlobalId].fingerprint = GlobalReport(reqs[r].bundle, gs, done).fingerprint
                  /\ reqs[r].at = "built" =>
                       DOMAIN reports = {GlobalId} \cup {CommunityId(k) : k \in 1..Len(done)}

LoreInv ==
    /\ TypeOK /\ RequestsStep /\ ChunksAreFiled /\ RowsAreMine /\ Alone /\ ReportsTell
    /\ GroundedInCanon /\ InspirationIsFiled /\ VectorsAreHonest
=============================================================================
