----------------------------- MODULE Manuscript -----------------------------
(***************************************************************************)
(* One run of an extraction (ExtractionService.extract) and what becomes   *)
(* of its draft: a model tells the facts of each chunk, is asked again if  *)
(* its reply cannot be read, and may add what it missed; the draft is      *)
(* judged, its gaps are filled or answered, and it is filed for review.    *)
(***************************************************************************)
EXTENDS Extraction

CONSTANTS
    TextsPlanned, TextsRead,  \* the manuscripts planned, and those of them that are read
    Replies,                \* the payloads that a model may tell of a chunk
    GleanRounds,
    MaxVerdicts             \* how many relations a judge may doubt

VARIABLES
    plan,       \* the manuscript, and how it is read: computed once, before anything is asked
    at,         \* where the run is: [step, chunk], with the names seen in the chunk and passes left
    merged,     \* the facts so far
    heard,      \* for the properties: the payloads that were read, and those of them that were merged
    failed,     \* the chunks that were given up
    draft, filed

vars == <<plan, at, merged, heard, failed, draft, filed>>

At(step, chunk, seen, left) == [step |-> step, chunk |-> chunk, seen |-> seen, left |-> left]
Nothing == [objects |-> <<>>]

Init ==
    /\ plan \in {PlanCoverage(text) : text \in TextsPlanned}
    /\ at = At("planned", 1, {}, 0)
    /\ merged = NoFacts
    /\ heard = [all |-> {}, merged |-> {}, chunks |-> {}]
    /\ failed = <<>> /\ draft = Nothing /\ filed = Nothing

Begin ==
    /\ at.step = "planned" /\ plan.text \in TextsRead
    /\ at' = At("asking", 1, {}, 0)
    /\ UNCHANGED <<plan, merged, heard, failed, draft, filed>>

NextChunk == IF at.chunk < Len(plan.chunks) THEN At("asking", at.chunk + 1, {}, 0) ELSE At("read", at.chunk, {}, 0)

\* The first reply that can be read, of two, is merged; then the model is asked what it missed.
Told(payload) ==
    /\ at.step \in {"asking", "asking again"}
    /\ merged' = Add(merged, payload)
    /\ heard' = [all |-> heard.all \cup {payload}, merged |-> heard.merged \cup {payload},
                 chunks |-> heard.chunks \cup {at.chunk}]
    /\ at' = IF GleanRounds = 0 THEN NextChunk ELSE At("gleaning", at.chunk, Names(payload), GleanRounds)
    /\ UNCHANGED <<plan, failed, draft, filed>>

Unreadable ==
    /\ at.step = "asking"
    /\ at' = [at EXCEPT !.step = "asking again"]
    /\ UNCHANGED <<plan, merged, heard, failed, draft, filed>>

\* A chunk that cannot be read is reported, and the others go on.
GiveUp ==
    /\ at.step = "asking again"
    /\ failed' = Append(failed, at.chunk)
    /\ at' = NextChunk
    /\ UNCHANGED <<plan, merged, heard, draft, filed>>

\* What was missed counts only if it has a new name.
Gleaned(payload) ==
    /\ at.step = "gleaning"
    /\ LET new == Names(payload) \ at.seen
       IN  IF new = {}
           THEN /\ at' = NextChunk /\ heard' = [heard EXCEPT !.all = @ \cup {payload}]
                /\ UNCHANGED merged
           ELSE /\ merged' = Add(merged, payload)
                /\ heard' = [heard EXCEPT !.all = @ \cup {payload}, !.merged = @ \cup {payload}]
                /\ at' = IF at.left = 1 THEN NextChunk
                         ELSE At("gleaning", at.chunk, at.seen \cup new, at.left - 1)
    /\ UNCHANGED <<plan, failed, draft, filed>>

GleanUnreadable ==
    /\ at.step = "gleaning"
    /\ at' = NextChunk
    /\ UNCHANGED <<plan, merged, heard, failed, draft, filed>>

MakeDraft ==
    /\ at.step = "read"
    /\ draft' = DraftFromMerged(ResolveAliases(merged))
    /\ \E verify \in BOOLEAN : at' = [at EXCEPT !.step = IF verify THEN "judging" ELSE "drafted"]
    /\ UNCHANGED <<plan, merged, heard, failed, filed>>

\* The judge's verdicts add flags; a reply that cannot be read adds none, and one that names a
\* relation in another form ends the run without a draft.
Judged(against) ==
    /\ at.step = "judging"
    /\ draft' = [draft EXCEPT !.doubted = @ \cup against]
    /\ at' = [at EXCEPT !.step = "drafted"]
    /\ UNCHANGED <<plan, merged, heard, failed, filed>>
JudgedBadly ==
    /\ at.step = "judging"
    /\ at' = [at EXCEPT !.step = "lost"] /\ draft' = Nothing
    /\ UNCHANGED <<plan, merged, heard, failed, filed>>

\* Suggestions are shown, and change nothing else.
FillGaps(refs) ==
    /\ at.step = "drafted" /\ draft.gaps # {} /\ draft.suggested = {}
    /\ draft' = [draft EXCEPT !.suggested = refs \cap draft.gaps]
    /\ UNCHANGED <<plan, at, merged, heard, failed, filed>>

Submit(answered, asQuests) ==
    /\ at.step = "drafted"
    /\ LET final == ApplyGapAnswers(draft, answered)
       IN  filed' = [final EXCEPT !.quests = IF asQuests THEN QuestsFromBeats(final) ELSE <<>>]
    /\ at' = [at EXCEPT !.step = "filed"]
    /\ UNCHANGED <<plan, merged, heard, failed, draft>>

Next ==
    \/ Begin \/ Unreadable \/ GiveUp \/ GleanUnreadable \/ MakeDraft \/ JudgedBadly
    \/ \E payload \in Replies : Told(payload) \/ Gleaned(payload)
    \/ at.step = "judging" /\ \E against \in SUBSET draft.relations :
          Cardinality(against) <= MaxVerdicts /\ Judged(against)
    \/ at.step = "drafted" /\ \E refs \in SUBSET draft.gaps :
          \/ FillGaps(refs)
          \/ \E asQuests \in BOOLEAN : Submit(refs, asQuests)

Spec == Init /\ [][Next]_vars

-----------------------------------------------------------------------------
\* What the proofs need of the constants: chunks can grow, and replies are lists of facts,
\* relations and beats.
IsFact(f) ==
    /\ f = [kind |-> f.kind, name |-> f.name, aliases |-> f.aliases, size |-> f.size]
    /\ f.kind \in Range(Kinds) /\ f.name \in Range(NameOrder) /\ f.size \in Nat
IsReply(p) ==
    /\ p.facts \in Seq(Range(p.facts)) /\ p.beats \in Seq(Range(p.beats))
    /\ \A f \in Range(p.facts) : IsFact(f)
    /\ \A r \in Range(p.relations) : r = [source |-> r.source, kind |-> r.kind, target |-> r.target]
WellFormed ==
    /\ Base \in Nat /\ Most \in Nat /\ Budget \in Nat /\ Overlap \in Nat /\ Grow \in Nat
    /\ Overlap < Base /\ Base <= Most /\ 0 < Budget /\ 0 < Grow
    /\ NameOrder \in Seq(Range(NameOrder)) /\ IsFiniteSet(Existing)
    /\ \A text \in TextsPlanned : text # <<>> /\ text \in Seq(Nat \ {0})
    /\ \A p \in Replies : IsReply(p)

Steps == {"planned", "asking", "asking again", "gleaning", "read", "judging", "drafted", "filed", "lost"}
TypeOK ==
    /\ at.step \in Steps /\ at.chunk \in 1 .. Budget
    /\ heard.merged \subseteq heard.all /\ heard.all \subseteq Replies

Owns(chunks) == [k \in DOMAIN chunks |-> chunks[k].own]

\* No more calls than the budget, everything is read unless the plan says that it is partial, and
\* then no more is said to be read than is.
CoverageIsHonest ==
    /\ Len(plan.chunks) <= Budget
    /\ IF plan.granularity = "partial"
       THEN plan.size = Most /\ plan.covered <= Sum(Owns(plan.chunks))
       ELSE \E edges \in 0 .. Len(plan.text) - 1 : Sum(Owns(plan.chunks)) + Separator * edges = plan.total

Final == IF at.step = "filed" THEN filed ELSE draft
Made  == {Final.objects[i] : i \in DOMAIN Final.objects}
Called(name) == {o \in Made : o.kind # "term" /\ name \in Answers(o)}

\* Whatever was told of has an object that answers to its name, of its kind if it was merged; and
\* no id is used twice or is of the world.
NamesAreTold ==
    /\ \A p \in heard.all : \A x \in Names(p) : \E o \in Made : x \in Answers(o)
    /\ \A p \in heard.merged : \A i \in DOMAIN p.facts :
          \E o \in Made : o.kind = p.facts[i].kind /\ p.facts[i].name \in Answers(o) /\ o.size >= p.facts[i].size
    /\ \A o, q \in Made : o.id = q.id => o = q
    /\ \A o \in Made : o.id \notin Existing

\* A name, or an alias, that was told for two kinds.
Shared(x) == Cardinality({o.kind : o \in Called(x)}) > 1

\* A relation that was merged is in the draft or among those that are left open, between objects
\* that answer to its ends, unless these turned out to be one; if no name is shared by two kinds.
RelationsLand ==
    (\A o \in Made : \A x \in Answers(o) : ~ Shared(x)) =>
    \A p \in heard.merged : \A i \in DOMAIN p.relations :
        LET r == p.relations[i]
            same(x, y) == x = y \/ \E o \in Made : {x, y} \subseteq Answers(o)
        IN  \/ same(r.source, r.target)
            \/ \E d \in Final.relations : \E s \in Called(r.source), t \in Called(r.target) :
                   d = [r EXCEPT !.source = s.id, !.target = t.id]
            \/ \E u \in Final.unresolved : u.kind = r.kind /\ same(u.source, r.source) /\ same(u.target, r.target)

\* Each chunk was heard of or is reported, and nothing that is named in the manuscript, by any of
\* the names told of it, is flagged as not being there.
FlagsAreTrue ==
    /\ heard.chunks \cup {failed[i] : i \in DOMAIN failed} = 1 .. Len(plan.chunks)
    /\ \A p \in heard.merged : \A i \in DOMAIN p.facts :
          Where[p.facts[i].name] # {} =>
              \E o \in Made : o.kind = p.facts[i].kind /\ p.facts[i].name \in Answers(o) /\ o.id \notin Final.notNamed

\* What is filed without a description has an open gap, if nobody answered it, and as many quests
\* as the story has beats, each with an id of its own.
GapsStayOpen ==
    at.step = "filed" =>
        /\ \A o \in Made : TooShort(o) => o.id \in filed.gaps \cup filed.answered
        /\ filed.quests = <<>> \/ /\ Len(filed.quests) = Len(merged.beats)
                                  /\ \A i, j \in DOMAIN filed.quests : filed.quests[i].id = filed.quests[j].id => i = j

DraftTellsAll ==
    /\ at.step = "planned" => CoverageIsHonest
    /\ at.step \in {"judging", "drafted", "filed"} => NamesAreTold /\ RelationsLand /\ FlagsAreTrue /\ GapsStayOpen
=============================================================================
