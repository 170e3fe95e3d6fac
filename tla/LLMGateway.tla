----------------------------- MODULE LLMGateway -----------------------------
(***************************************************************************)
(* The chokepoint of every model call, llm/gateway.py: lookup in the       *)
(* layered cache, the attempts at the provider chain (a circuit breaker    *)
(* around a failover from a primary to a secondary provider), and the      *)
(* write to the cache.  Every request builds a gateway of its own, with a  *)
(* breaker of its own; all of them share the cache of the process, each    *)
(* layer of which has its own lock.                                        *)
(***************************************************************************)
EXTENDS Integers, FiniteSets

CONSTANTS
    Gateways,    \* one per request
    Namespaces,  \* projects
    Models,      \* model ids a request can ask for
    Secondary,   \* the model of the fallback provider, or NoModel
    NoModel,
    Prompts,     \* (tier, system, user) with one tier and system: the user message
    Near,        \* pairs of prompts with a cosine similarity over the threshold
    Attempts,    \* max_retries + 1
    Threshold,   \* failure_threshold
    MaxCalls,    \* bound: completions asked of one gateway
    None,
    Empty,       \* a completion without text
    Error        \* an LLMGatewayError

Key == [ns : Namespaces, model : Models, prompt : Prompts]
\* A text: the key it was computed for, and the model that answered.
Answer == [for : Key, by : Models]

ASSUME GatewayAssumption ==
    /\ {None, Empty, Error} \cap (Answer \cup Key) = {}
    /\ Empty # None /\ Error # None /\ Empty # Error
    /\ NoModel \notin Models /\ Secondary \in Models \cup {NoModel}
    /\ Near \subseteq Prompts \X Prompts
    /\ \A p \in Prompts : <<p, p>> \in Near
    /\ Attempts \in Nat \ {0} /\ Threshold \in Nat \ {0} /\ MaxCalls \in Nat

VARIABLES
    exact,     \* L1: key -> answer
    semantic,  \* L2: the entries, as (key, answer)
    gw         \* the gateways and their provider chains

vars == <<exact, semantic, gw>>

\* _classify_provider_error, as far as it matters.
Category == {"auth", "unavailable"}

\* A gateway that no request has built yet; one that is in the middle of a completion.
Unbuilt == [pc |-> "unbuilt"]
Busy == {"lookup", "similar", "promote", "attempt", "failover", "store", "index"}

Init ==
    /\ exact = [k \in Key |-> None]
    /\ semantic = {}
    /\ gw = [g \in Gateways |-> Unbuilt]

\* build_real_provider and LLMGateway(): circuit "closed" is _opened_at = None, "open" is
\* within the cooldown, "cooled" after it.
Build(g, ns, m) ==
    /\ gw[g] = Unbuilt
    /\ gw' = [gw EXCEPT ![g] =
                [pc |-> "ready", ns |-> ns, model |-> m, key |-> None, answer |-> None,
                 calls |-> 0, attempt |-> 0, circuit |-> "closed", failures |-> 0,
                 streak |-> 0, cooldowns |-> 0]]
    /\ UNCHANGED <<exact, semantic>>

\* complete: the key, with the namespace of the gateway and the model the chain tries first.
Complete(g, p) ==
    /\ gw[g].pc = "ready" /\ gw[g].calls < MaxCalls
    /\ gw' = [gw EXCEPT ![g].pc = "lookup", ![g].calls = @ + 1, ![g].attempt = 0,
                        ![g].answer = None,
                        ![g].key = [ns |-> gw[g].ns, model |-> gw[g].model, prompt |-> p]]
    /\ UNCHANGED <<exact, semantic>>

\* ExactCache.get.
Lookup(g) ==
    /\ gw[g].pc = "lookup"
    /\ LET hit == exact[gw[g].key] IN
       gw' = [gw EXCEPT ![g].answer = hit,
                        ![g].pc = IF hit = None THEN "similar" ELSE "ready"]
    /\ UNCHANGED <<exact, semantic>>

\* The entries of the same scope that are similar enough; an identical prompt is the nearest.
Matches(k) ==
    LET close == {e \in semantic : /\ e[1].ns = k.ns /\ e[1].model = k.model
                                   /\ <<e[1].prompt, k.prompt>> \in Near}
        same  == {e \in close : e[1].prompt = k.prompt}
    IN  IF same # {} THEN same ELSE close

\* SemanticCache.get.
Similar(g) ==
    /\ gw[g].pc = "similar"
    /\ IF Matches(gw[g].key) = {}
       THEN gw' = [gw EXCEPT ![g].pc = "attempt", ![g].attempt = 1]
       ELSE \E e \in Matches(gw[g].key) :
               gw' = [gw EXCEPT ![g].pc = "promote", ![g].answer = e[2]]
    /\ UNCHANGED <<exact, semantic>>

\* A bug: a hit is written through every layer, so that paraphrases of paraphrases match.
PromoteThrough(g) ==
    /\ gw[g].pc = "promote"
    /\ exact' = [exact EXCEPT ![gw[g].key] = gw[g].answer]
    /\ semantic' = semantic \cup {<<gw[g].key, gw[g].answer>>}
    /\ gw' = [gw EXCEPT ![g].pc = "ready"]

\* LayeredCache.get promotes the hit into the layers above, ExactCache.set.
Promote(g) ==
    /\ gw[g].pc = "promote"
    /\ exact' = [exact EXCEPT ![gw[g].key] = gw[g].answer]
    /\ gw' = [gw EXCEPT ![g].pc = "ready"]
    /\ UNCHANGED semantic

\* A bug: opening the circuit starts a new count.
RaisedFromZero(g, counted) ==
    LET failures == IF counted THEN gw[g].failures + 1 ELSE gw[g].failures IN
    gw' = [gw EXCEPT
             ![g].failures = IF failures >= Threshold THEN 0 ELSE failures,
             ![g].streak   = IF counted THEN @ + 1 ELSE @,
             ![g].circuit  = IF counted /\ failures >= Threshold THEN "open" ELSE @,
             ![g].pc       = IF gw[g].attempt < Attempts THEN "attempt" ELSE "ready",
             ![g].attempt  = IF gw[g].attempt < Attempts THEN @ + 1 ELSE @,
             ![g].answer   = IF gw[g].attempt < Attempts THEN None ELSE Error]

\* An attempt raised: the breaker counts it unless it was the breaker itself that raised;
\* then the next attempt, or an LLMGatewayError.
Raised(g, counted) ==
    LET failures == IF counted THEN gw[g].failures + 1 ELSE gw[g].failures IN
    gw' = [gw EXCEPT
             ![g].failures = failures,
             ![g].streak   = IF counted THEN @ + 1 ELSE @,
             ![g].circuit  = IF counted /\ failures >= Threshold THEN "open" ELSE @,
             ![g].pc       = IF gw[g].attempt < Attempts THEN "attempt" ELSE "ready",
             ![g].attempt  = IF gw[g].attempt < Attempts THEN @ + 1 ELSE @,
             ![g].answer   = IF gw[g].attempt < Attempts THEN None ELSE Error]

\* A bug: an empty completion is memoized as well.
AnsweredAnything(g, m) ==
    \E text \in {[for |-> gw[g].key, by |-> m], Empty} :
        gw' = [gw EXCEPT ![g].failures = 0, ![g].streak = 0, ![g].circuit = "closed",
                         ![g].answer = text, ![g].pc = "store"]

\* A provider answered, with or without text: the circuit closes.
Answered(g, m) ==
    \E text \in {[for |-> gw[g].key, by |-> m], Empty} :
        gw' = [gw EXCEPT ![g].failures = 0, ![g].streak = 0, ![g].circuit = "closed",
                         ![g].answer = text, ![g].pc = IF text = Empty THEN "ready" ELSE "store"]

\* CircuitBreakerProvider.complete, and FailoverProvider.complete with the primary.
Attempt(g) ==
    /\ gw[g].pc = "attempt"
    /\ \/ gw[g].circuit = "open" /\ Raised(g, FALSE)
       \/ gw[g].circuit # "open" /\ Answered(g, gw[g].model)
       \/ /\ gw[g].circuit # "open"
          /\ \E c \in Category :
                IF Secondary = NoModel \/ c = "auth"
                THEN Raised(g, TRUE)
                ELSE gw' = [gw EXCEPT ![g].pc = "failover"]
    /\ UNCHANGED <<exact, semantic>>

\* ... and with the secondary.
Failover(g) ==
    /\ gw[g].pc = "failover"
    /\ Answered(g, Secondary) \/ Raised(g, TRUE)
    /\ UNCHANGED <<exact, semantic>>

\* LayeredCache.set writes through the layers, one after the other.
Store(g) ==
    /\ gw[g].pc = "store"
    /\ exact' = [exact EXCEPT ![gw[g].key] = gw[g].answer]
    /\ gw' = [gw EXCEPT ![g].pc = "index"]
    /\ UNCHANGED semantic

Index(g) ==
    /\ gw[g].pc = "index"
    /\ semantic' = semantic \cup {<<gw[g].key, gw[g].answer>>}
    /\ gw' = [gw EXCEPT ![g].pc = "ready"]
    /\ UNCHANGED exact

\* reset_timeout_seconds have passed since the circuit opened.
Cooldown(g) ==
    /\ gw[g].pc \in Busy \cup {"ready"}
    /\ gw[g].circuit = "open"
    /\ gw' = [gw EXCEPT ![g].circuit = "cooled", ![g].cooldowns = @ + 1]
    /\ UNCHANGED <<exact, semantic>>

Next ==
    \E g \in Gateways :
        \/ \E ns \in Namespaces, m \in Models : Build(g, ns, m)
        \/ \E p \in Prompts : Complete(g, p)
        \/ Lookup(g) \/ Similar(g) \/ Promote(g)
        \/ Attempt(g) \/ Failover(g) \/ Store(g) \/ Index(g)
        \/ Cooldown(g)

Spec == Init /\ [][Next]_vars
-----------------------------------------------------------------------------
Built(g) == gw[g] # Unbuilt

Gateway ==
    [pc : Busy \cup {"ready"}, ns : Namespaces, model : Models, key : Key \cup {None},
     answer : Answer \cup {None, Empty, Error}, calls : 0..MaxCalls, attempt : 0..Attempts,
     circuit : {"closed", "open", "cooled"}, failures : Nat, streak : Nat, cooldowns : Nat]

\* The caches hold texts only: an empty completion is never memoized.
TypeOK ==
    /\ exact \in [Key -> Answer \cup {None}]
    /\ semantic \subseteq Key \X Answer
    /\ DOMAIN gw = Gateways
    /\ \A g \in Gateways : gw[g] \in {Unbuilt} \cup Gateway

\* A text that a request gets, from whatever layer of the cache and however it came there,
\* was computed for its own project, for a request for the same model, and for a prompt
\* that is similar to its own: similarity does not add up over promotions.  That model or the
\* fallback wrote it ("a different model must miss, not reuse", says the comment on
\* CacheKey.model; a text of the fallback does not).
AnswersTheRequest ==
    \A g \in Gateways : Built(g) /\ gw[g].answer \in Answer =>
        /\ gw[g].answer.for.ns = gw[g].ns
        /\ gw[g].answer.for.model = gw[g].model
        /\ <<gw[g].answer.for.prompt, gw[g].key.prompt>> \in Near
        /\ gw[g].answer.by \in {gw[g].model, Secondary}

\* A provider that is down is left alone: however many completions and retries ask for it,
\* it fails at most Threshold times, and once more for every cooldown.
ProviderSpared ==
    \A g \in Gateways : Built(g) => gw[g].streak <= Threshold + gw[g].cooldowns

\* The strengthenings that the proofs use.  The text a is one that a request for k may get.
Suits(a, k) ==
    /\ a.for.ns = k.ns /\ a.for.model = k.model /\ <<a.for.prompt, k.prompt>> \in Near
    /\ a.by \in {k.model, Secondary}

\* An exact entry may hold the answer to a similar prompt, an entry of the similarity index
\* only the answer to its own.
CacheInv ==
    /\ exact \in [Key -> Answer \cup {None}]
    /\ \A k \in Key : exact[k] \in Answer => Suits(exact[k], k)
    /\ semantic \subseteq Key \X Answer
    /\ \A e \in semantic : e[2].for = e[1] /\ Suits(e[2], e[1])

\* A gateway s: its key is its own project's and model's, and what it is about to write to
\* the cache was computed for that key.
RequestInv(s) ==
    /\ s \in Gateway
    /\ s.pc \in Busy => s.key \in Key
    /\ s.key \in Key => s.key.ns = s.ns /\ s.key.model = s.model
    /\ s.pc \in {"promote", "store", "index"} => s.answer \in Answer
    /\ s.answer \in Answer => s.key \in Key /\ Suits(s.answer, s.key)
    /\ s.pc \in {"store", "index"} => s.answer.for = s.key
    /\ s.pc = "failover" => Secondary # NoModel

\* Its breaker: a circuit that is not closed has counted to Threshold, and stays at most one
\* failure ahead of its cooldowns.
BreakerInv(s) ==
    /\ s.failures = s.streak
    /\ s.circuit = "closed" => s.failures < Threshold
    /\ s.circuit # "closed" => s.failures >= Threshold
    /\ s.circuit = "open" => s.streak <= Threshold + s.cooldowns /\ s.pc # "failover"
    /\ s.circuit = "cooled" => s.streak < Threshold + s.cooldowns

GatewayInv ==
    /\ CacheInv
    /\ DOMAIN gw = Gateways
    /\ \A g \in Gateways : Built(g) => RequestInv(gw[g]) /\ BreakerInv(gw[g])
=============================================================================
