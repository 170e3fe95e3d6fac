----------------------------- MODULE ReactAgent -----------------------------
(***************************************************************************)
(* One run of the ReAct agent (agent/react.py): the loop of planning calls *)
(* and tool calls, as text or as native tool calls, with the compression   *)
(* of the transcript that every text prompt is built from                  *)
(* (agent/context_compressor.py).  The transcript itself only grows.       *)
(***************************************************************************)
EXTENDS Integers, Sequences, FiniteSets, SequencesExt

CONSTANTS
    Registered,     \* the skills of the registry
    CanonWriting,   \* those declared to write canon
    Scope,          \* the skills the scoped registry lets through
    MaxSteps,       \* planning calls of a run
    MaxCalls,       \* bound on the turns of a native run
    KeepRecent,     \* turns never compressed
    Budget,         \* tokens of a prompt's transcript
    Trigger,        \* tokens above which it is compressed
    Sizes           \* tokens of a turn or a summary

VARIABLES
    mode,           \* "text" or "native", as the provider supports tools
    transcript,     \* the turns, oldest first
    cache,          \* the turns the cached summary stands for, and the summary
    prompt,         \* what the last planning call was shown, and how many entries it says are omitted
    planned,        \* planning calls made
    stop            \* "plan", "act", or why the run is over

vars == <<mode, transcript, cache, prompt, planned, stop>>

Unknown == "unknown skill"
Skills == Registered \cup {Unknown}

\* An entry of a prompt: a turn as it was, or a summary of the turns it was made from.
Verbatim(i)      == [of |-> <<i>>, summary |-> FALSE, size |-> transcript[i].size]
Summary(of, k)   == [of |-> of, summary |-> TRUE, size |-> k]
NoSummary        == Summary(<<>>, 0)
Turns(s)         == [k \in DOMAIN s |-> Verbatim(s[k])]
Tokens(entries)  == FoldLeft(LAMBDA n, e : n + e.size, 0, entries)

\* The sections of a model's answer that the parser tells apart.
Sections == {"action", "final", "observation"}
Answers  == UNION {[1..n -> Sections] : n \in 0..2}
Raised   == "raised"

Init ==
    /\ mode \in {"text", "native"}
    /\ transcript = <<>>
    /\ cache = [turns |-> <<>>, summary |-> NoSummary]
    /\ prompt = [entries |-> <<>>, omitted |-> 0]
    /\ planned = 0
    /\ stop = "plan"

-----------------------------------------------------------------------------
(* Reading an answer, and running a skill. *)

\* What the model wrote after its own "Observation:" is cut; a final answer wins over an action.
Before(answer) ==
    {answer[k] : k \in {k \in DOMAIN answer : \A j \in 1..k : answer[j] # "observation"}}
Parse(answer) ==
    IF "final" \in Before(answer) THEN "finish"
    ELSE IF "action" \in Before(answer) THEN "call" ELSE "nudge"

\* A skill runs if the scope lets it through, it is registered, it does not write canon and
\* its required arguments are there.
Runs(skill, complete) ==
    /\ skill \in Scope
    /\ skill \in Registered \ CanonWriting
    /\ complete

\* A turn is never compressed when its text has "Error:" or "Final Answer:" in it (a nudge
\* quotes both markers), or, for a turn that went well, when its wording happens to.
Observed(ok, worded, k) == [ok |-> ok, checkpoint |-> ~ok \/ worded, size |-> k]

-----------------------------------------------------------------------------
(* Compression: the view of the transcript for the next prompt. *)

Upto(n) == [i \in 1..n |-> i]
Recent  == IF KeepRecent > Len(transcript) THEN Len(transcript) ELSE IF KeepRecent < 1 THEN 1 ELSE KeepRecent
Older   == 1..(Len(transcript) - Recent)
Newer   == [k \in 1..Recent |-> Len(transcript) - Recent + k]

\* The members of a set of positions, in their order.
InOrder(S)  == [k \in 1..Cardinality(S) |-> CHOOSE i \in S : Cardinality({j \in S : j <= i}) = k]
Checkpoints == InOrder({i \in Older : transcript[i].checkpoint})
Compactable == InOrder({i \in Older : ~transcript[i].checkpoint})

\* The gate: too many tokens, and something to compress.
Compresses ==
    /\ Tokens(Turns(Upto(Len(transcript)))) > Trigger
    /\ Compactable # <<>>

\* (wrong: the extended summary is told the old turns again)
LookupUnfolded(turns) ==
    IF cache.turns # <<>> /\ IsPrefix(cache.turns, turns)
    THEN [reuse |-> cache.summary, fold |-> turns]
    ELSE [reuse |-> NoSummary, fold |-> turns]

\* What the cache spares: the summary to extend, and the turns still to be told.
Lookup(turns) ==
    IF cache.turns # <<>> /\ IsPrefix(cache.turns, turns)
    THEN [reuse |-> cache.summary, fold |-> SubSeq(turns, Len(cache.turns) + 1, Len(turns))]
    ELSE [reuse |-> NoSummary, fold |-> turns]
Compacted(summary) == Turns(Checkpoints) \o <<summary>> \o Turns(Newer)

\* The safety net: the newest entries that fit, and the newest one in any case.
Trim(view) ==
    LET From(k) == SubSeq(view, k, Len(view))
        fits    == {k \in DOMAIN view : Tokens(From(k)) <= Budget} \cup {Len(view)}
        first   == CHOOSE k \in fits : \A j \in fits : k <= j
    IN  IF view = <<>> THEN [entries |-> view, omitted |-> 0]
                       ELSE [entries |-> From(first), omitted |-> first - 1]

Show(view) == prompt' = Trim(view)

View ==
    \/ ~Compresses /\ Show(Turns(Upto(Len(transcript)))) /\ UNCHANGED cache
    \/ /\ Compresses
       /\ LET found == Lookup(Compactable)
          IN  \/ \* the same head again: no call
                 /\ found.fold = <<>>
                 /\ Show(Compacted(found.reuse))
                 /\ UNCHANGED cache
              \/ \* the call succeeds
                 /\ found.fold # <<>>
                 /\ \E k \in Sizes :
                      LET summary == Summary(found.reuse.of \o found.fold, k)
                      IN  Show(Compacted(summary)) /\ cache' = [turns |-> Compactable, summary |-> summary]
              \/ \* the call fails: the view is not compressed
                 /\ found.fold # <<>>
                 /\ Show(Turns(Upto(Len(transcript))))
                 /\ UNCHANGED cache

-----------------------------------------------------------------------------
(* The loop. *)

\* The prompt of a planning call; a call that raises ends the run.
Plan ==
    /\ stop = "plan"
    /\ planned' = planned + 1
    /\ IF mode = "text" THEN View ELSE /\ prompt' = [entries |-> Turns(Upto(Len(transcript))), omitted |-> 0]
                                         /\ UNCHANGED cache
    /\ stop' \in {"act", Raised}
    /\ UNCHANGED <<mode, transcript>>

Continue == stop' = IF planned = MaxSteps THEN "max_steps" ELSE "plan"

Finish ==
    /\ stop = "act"
    /\ mode = "native" \/ \E answer \in Answers : Parse(answer) = "finish"
    /\ stop' = "finished"
    /\ UNCHANGED <<mode, transcript, cache, prompt, planned>>

\* An answer without action or final answer costs a step.
Nudge ==
    /\ stop = "act" /\ mode = "text"
    /\ \E answer \in Answers : Parse(answer) = "nudge"
    /\ \E k \in Sizes : transcript' = Append(transcript, Observed(FALSE, TRUE, k))
    /\ Continue
    /\ UNCHANGED <<mode, cache, prompt, planned>>

\* The observation of one call: any exception of the skill becomes an error observation.
Observations ==
    {Observed(ok, worded, k) : ok \in {Runs(s, c) /\ up : s \in Skills, c \in BOOLEAN, up \in BOOLEAN},
                               worded \in BOOLEAN, k \in Sizes}

Call ==
    /\ stop = "act" /\ mode = "text"
    /\ \E answer \in Answers : Parse(answer) = "call"
    /\ \E turn \in Observations : transcript' = Append(transcript, turn)
    /\ Continue
    /\ UNCHANGED <<mode, cache, prompt, planned>>

\* A native answer may ask for several calls: one message each, in their order.
NativeCalls ==
    /\ stop = "act" /\ mode = "native"
    /\ \E n \in 1..(MaxCalls - Len(transcript)) : \E turns \in [1..n -> Observations] : transcript' = transcript \o turns
    /\ Continue
    /\ UNCHANGED <<mode, cache, prompt, planned>>

Next == Plan \/ Finish \/ Nudge \/ Call \/ NativeCalls

Spec == Init /\ [][Next]_vars

-----------------------------------------------------------------------------
\* What the proofs need of the constants; ReActAgent refuses a run without a step.
WellFormed ==
    /\ MaxSteps \in Nat \ {0}
    /\ KeepRecent \in Int
    /\ MaxCalls \in Nat

TypeOK ==
    /\ mode \in {"text", "native"}
    /\ transcript \in Seq([ok : BOOLEAN, checkpoint : BOOLEAN, size : Sizes])
    /\ stop \in {"plan", "act", "finished", "max_steps", Raised}
    /\ planned \in 0..MaxSteps

\* The turns that a view shows or sums up; nothing is in it twice; no error is summed up.
Told(view)    == UNION {Range(view[k].of) : k \in DOMAIN view}
Once(view)    == \A j, k \in DOMAIN view : \A a \in DOMAIN view[j].of, b \in DOMAIN view[k].of :
                    view[j].of[a] = view[k].of[b] => j = k /\ a = b
ErrorsKept(view) == \A k \in DOMAIN view : view[k].summary => \A i \in Range(view[k].of) : transcript[i].ok

\* The compressor and the trim, as a planning call sees them: the newest turn is there as it
\* was; no turn is there twice or was told to the summary twice; an error is never summarised;
\* when the prompt says that nothing is omitted every turn is there or in the summary; and it
\* fits its budget, unless the newest turn alone does not.
PromptTellsAll ==
    stop = "act" /\ transcript # <<>> =>
        LET shown == prompt.entries
        IN  /\ Last(shown) = Verbatim(Len(transcript))
            /\ Once(shown)
            /\ ErrorsKept(shown)
            /\ prompt.omitted = 0 => Told(shown) = DOMAIN transcript
            /\ mode = "native" \/ Len(shown) = 1 \/ Tokens(shown) <= Budget

\* What that rests on: the cached summary stands for the turns it is kept under, each told once; and what
\* went wrong is a checkpoint.
CacheInv      == /\ cache.turns \in Seq(Nat)
                 /\ cache.summary.of = cache.turns /\ cache.summary.summary
ErrorsChecked == \A i \in DOMAIN transcript : transcript[i].ok \/ transcript[i].checkpoint
StepsLeft     == /\ stop = "plan" => planned < MaxSteps
                 /\ stop = "act" => planned > 0

AgentInv == TypeOK /\ CacheInv /\ ErrorsChecked /\ StepsLeft /\ PromptTellsAll
=============================================================================
