------------------------- MODULE LLMGateway_proofs -------------------------
(***************************************************************************)
(* Theorems about LLMGateway, for every number of gateways, retries and    *)
(* completions, every cache content and every relation of similarity.      *)
(***************************************************************************)
EXTENDS LLMGateway, TLAPS

\* What is not an answer, and what is not a key.
LEMMA Distinct ==
    /\ None \notin Answer /\ Empty \notin Answer /\ Error \notin Answer
    /\ None \notin Key
BY GatewayAssumption

\* An unbuilt gateway is in the middle of nothing.
LEMMA BuiltWhen ==
    ASSUME NEW g \in Gateways, gw[g].pc \in Busy \cup {"ready"}
    PROVE  Built(g)
BY DEF Built, Unbuilt, Busy

\* A text suits the key it was computed for, if the key's model or the fallback wrote it.
LEMMA SuitsOwnKey ==
    ASSUME NEW a \in Answer, a.by \in {a.for.model, Secondary}
    PROVE  Suits(a, a.for)
BY GatewayAssumption DEF Suits, Answer, Key

\* A gateway that moves on and keeps its request and its breaker keeps both invariants.
LEMMA MovesOn ==
    ASSUME NEW s, RequestInv(s), BreakerInv(s), s.key \in Key,
           NEW pc \in Busy \cup {"ready"}, NEW a \in Answer \cup {None, Empty, Error},
           pc \in {"promote", "store", "index"} => a \in Answer,
           a \in Answer => Suits(a, s.key),
           pc \in {"store", "index"} => a.for = s.key,
           pc = "failover" => s.circuit # "open" /\ Secondary # NoModel,
           NEW n \in 0..Attempts
    PROVE  LET t == [s EXCEPT !.pc = pc, !.answer = a, !.attempt = n] IN
           RequestInv(t) /\ BreakerInv(t)
<1> DEFINE t == [s EXCEPT !.pc = pc, !.answer = a, !.attempt = n]
<1>1. t \in Gateway
  BY DEF RequestInv, Gateway
<1>2. /\ t.pc = pc /\ t.answer = a /\ t.key = s.key /\ t.ns = s.ns /\ t.model = s.model
      /\ t.circuit = s.circuit /\ t.failures = s.failures /\ t.streak = s.streak
      /\ t.cooldowns = s.cooldowns
  BY DEF RequestInv, Gateway
<1>3. RequestInv(t)
  BY <1>1, <1>2 DEF RequestInv
<1>4. BreakerInv(t)
  BY <1>2 DEF BreakerInv
<1> QED
  BY <1>3, <1>4

\* An attempt that raised keeps both invariants: the circuit is open, or the failure counts.
LEMMA RaisedKeeps ==
    ASSUME GatewayInv, NEW g \in Gateways, gw[g].pc \in {"attempt", "failover"},
           NEW counted \in BOOLEAN, counted <=> gw[g].circuit # "open",
           Raised(g, counted)
    PROVE  RequestInv(gw'[g]) /\ BreakerInv(gw'[g])
<1> DEFINE s == gw[g]
           failures == IF counted THEN s.failures + 1 ELSE s.failures
           circuit == IF counted /\ failures >= Threshold THEN "open" ELSE s.circuit
           streak == IF counted THEN s.streak + 1 ELSE s.streak
           pc == IF s.attempt < Attempts THEN "attempt" ELSE "ready"
           answer == IF s.attempt < Attempts THEN None ELSE Error
           attempt == IF s.attempt < Attempts THEN s.attempt + 1 ELSE s.attempt
           t == [s EXCEPT !.failures = failures, !.streak = streak, !.circuit = circuit,
                          !.pc = pc, !.attempt = attempt, !.answer = answer]
<1>1. RequestInv(s) /\ BreakerInv(s)
  BY BuiltWhen DEF GatewayInv, Busy
<1>2. gw'[g] = t
  BY DEF Raised, GatewayInv
<1>3. s \in Gateway
  BY <1>1 DEF RequestInv
<1>4. /\ t.pc = pc /\ t.answer = answer /\ t.circuit = circuit /\ t.failures = failures
      /\ t.streak = streak /\ t.cooldowns = s.cooldowns /\ t.key = s.key
      /\ t.ns = s.ns /\ t.model = s.model
  BY <1>3 DEF Gateway
<1>5. failures \in Nat /\ streak \in Nat /\ attempt \in 0..Attempts
  BY <1>3, GatewayAssumption DEF Gateway
<1>6. t \in Gateway
  BY <1>3, <1>5 DEF Gateway, Busy
<1>7. RequestInv(t)
  <2>1. t.answer \notin Answer /\ t.pc \notin {"promote", "store", "index"}
    BY <1>4, Distinct
  <2>2. t.key \in Key
    BY <1>1, <1>4 DEF RequestInv, Busy
  <2> QED
    BY <1>1, <1>4, <1>6, <2>1, <2>2 DEF RequestInv
<1>8. BreakerInv(t)
  <2>1. CASE counted
    <3>1. s.failures \in Nat /\ s.streak \in Nat /\ s.cooldowns \in Nat /\ Threshold \in Nat
      BY <1>3, GatewayAssumption DEF Gateway
    <3>2. s.circuit \in {"closed", "cooled"}
      BY <2>1, <1>3 DEF Gateway
    <3> QED
      BY <1>1, <1>4, <2>1, <3>1, <3>2 DEF BreakerInv
  <2>2. CASE ~ counted
    BY <1>1, <1>4, <2>2 DEF BreakerInv
  <2> QED
    BY <2>1, <2>2
<1> QED
  BY <1>2, <1>7, <1>8

\* An answer, with or without text, keeps both invariants.
LEMMA AnsweredKeeps ==
    ASSUME GatewayInv, NEW g \in Gateways, gw[g].pc \in {"attempt", "failover"},
           NEW m \in Models \cap {gw[g].model, Secondary}, Answered(g, m)
    PROVE  RequestInv(gw'[g]) /\ BreakerInv(gw'[g])
<1> DEFINE s == gw[g]
<1>1. RequestInv(s) /\ BreakerInv(s)
  BY BuiltWhen DEF GatewayInv, Busy
<1>2. s \in Gateway /\ s.key \in Key
  BY <1>1 DEF RequestInv, Busy
<1>3. PICK text \in {[for |-> s.key, by |-> m], Empty} :
         gw' = [gw EXCEPT ![g].failures = 0, ![g].streak = 0, ![g].circuit = "closed",
                          ![g].answer = text, ![g].pc = IF text = Empty THEN "ready" ELSE "store"]
  BY DEF Answered
<1> DEFINE pc == IF text = Empty THEN "ready" ELSE "store"
           t == [s EXCEPT !.failures = 0, !.streak = 0, !.circuit = "closed",
                          !.answer = text, !.pc = pc]
<1>4. gw'[g] = t
  BY <1>3 DEF GatewayInv
<1>5. /\ t.pc = pc /\ t.answer = text /\ t.circuit = "closed" /\ t.failures = 0
      /\ t.streak = 0 /\ t.key = s.key /\ t.ns = s.ns /\ t.model = s.model
  BY <1>2 DEF Gateway
<1>6. text = Empty \/ (text \in Answer /\ text.for = s.key /\ text.by \in {s.key.model, Secondary})
  BY <1>1, <1>2, <1>3 DEF Answer, RequestInv
<1>7. t \in Gateway
  BY <1>2, <1>6 DEF Gateway, Busy
<1>8. RequestInv(t)
  <2>1. CASE text = Empty
    BY <1>1, <1>2, <1>5, <1>7, <2>1, Distinct DEF RequestInv
  <2>2. CASE text # Empty
    BY <1>1, <1>2, <1>5, <1>6, <1>7, <2>2, SuitsOwnKey DEF RequestInv
  <2> QED
    BY <2>1, <2>2
<1>9. BreakerInv(t)
  BY <1>5, GatewayAssumption DEF BreakerInv
<1> QED
  BY <1>4, <1>8, <1>9
\* The actions that do not call a provider write the one gateway with a new state t.
LEMMA Replaced ==
    ASSUME GatewayInv, CacheInv', NEW g \in Gateways, NEW t,
           gw' = [gw EXCEPT ![g] = t], RequestInv(t), BreakerInv(t)
    PROVE  GatewayInv'
<1>1. DOMAIN gw' = Gateways /\ gw'[g] = t /\ \A h \in Gateways \ {g} : gw'[h] = gw[h]
  BY DEF GatewayInv
<1>2. \A h \in Gateways : gw'[h] # Unbuilt => RequestInv(gw'[h]) /\ BreakerInv(gw'[h])
  BY <1>1 DEF GatewayInv, Built
<1> QED
  BY <1>1, <1>2 DEF GatewayInv, Built

\* A provider call changes the one gateway and not the cache.
LEMMA Called ==
    ASSUME GatewayInv, UNCHANGED <<exact, semantic>>, NEW g \in Gateways,
           DOMAIN gw' = DOMAIN gw, \A h \in Gateways \ {g} : gw'[h] = gw[h],
           RequestInv(gw'[g]), BreakerInv(gw'[g])
    PROVE  GatewayInv'
<1>1. CacheInv'
  BY DEF GatewayInv, CacheInv
<1>2. \A h \in Gateways : gw'[h] # Unbuilt => RequestInv(gw'[h]) /\ BreakerInv(gw'[h])
  BY DEF GatewayInv, Built
<1> QED
  BY <1>1, <1>2 DEF GatewayInv, Built

\* Writing a text that suits its key keeps the layers of the cache sound.
LEMMA CacheWrite ==
    ASSUME CacheInv, NEW k \in Key, NEW a \in Answer, Suits(a, k),
           exact' = [exact EXCEPT ![k] = a], UNCHANGED semantic
    PROVE  CacheInv'
<1>1. exact' \in [Key -> Answer \cup {None}]
  BY DEF CacheInv
<1>2. \A j \in Key : exact'[j] \in Answer => Suits(exact'[j], j)
  BY DEF CacheInv
<1> QED
  BY <1>1, <1>2 DEF CacheInv

\* The invariant is inductive: what the cache holds suits its key, and the breaker has
\* counted every failure.
THEOREM GatewayInvariant == Spec => []GatewayInv
<1>1. Init => GatewayInv
  BY Distinct DEF Init, GatewayInv, CacheInv, Built
<1>2. GatewayInv /\ [Next]_vars => GatewayInv'
  <2> SUFFICES ASSUME GatewayInv, [Next]_vars PROVE GatewayInv'
    OBVIOUS
  <2>1. CASE UNCHANGED vars
    BY <2>1 DEF vars, GatewayInv, CacheInv, Built
  <2>2. CASE Next
    <3> PICK g \in Gateways :
            \/ \E ns \in Namespaces, m \in Models : Build(g, ns, m)
            \/ \E p \in Prompts : Complete(g, p)
            \/ Lookup(g) \/ Similar(g) \/ Promote(g)
            \/ Attempt(g) \/ Failover(g) \/ Store(g) \/ Index(g)
            \/ Cooldown(g)
      BY <2>2 DEF Next
    <3> DEFINE s == gw[g]
    <3>a. s.pc \in Busy \cup {"ready"} => RequestInv(s) /\ BreakerInv(s) /\ s \in Gateway
      BY BuiltWhen DEF GatewayInv, RequestInv
    <3>b. UNCHANGED <<exact, semantic>> => CacheInv'
      BY DEF GatewayInv, CacheInv
    <3>1. ASSUME NEW ns \in Namespaces, NEW m \in Models, Build(g, ns, m) PROVE GatewayInv'
      <4> DEFINE t == [pc |-> "ready", ns |-> ns, model |-> m, key |-> None, answer |-> None,
                       calls |-> 0, attempt |-> 0, circuit |-> "closed", failures |-> 0,
                       streak |-> 0, cooldowns |-> 0]
      <4>1. t \in Gateway
        BY GatewayAssumption DEF Gateway
      <4>2. RequestInv(t) /\ BreakerInv(t)
        BY <4>1, Distinct, GatewayAssumption DEF RequestInv, BreakerInv, Busy
      <4>3. CacheInv' /\ gw' = [gw EXCEPT ![g] = t]
        BY <3>1, <3>b DEF Build
      <4> QED
        BY <4>2, <4>3, Replaced
    <3>2. ASSUME NEW p \in Prompts, Complete(g, p) PROVE GatewayInv'
      <4> DEFINE k == [ns |-> s.ns, model |-> s.model, prompt |-> p]
                 t == [s EXCEPT !.pc = "lookup", !.calls = s.calls + 1, !.attempt = 0,
                                !.answer = None, !.key = k]
      <4>0. RequestInv(s) /\ BreakerInv(s) /\ s \in Gateway /\ s.calls < MaxCalls
        BY <3>2, <3>a DEF Complete
      <4>1. k \in Key
        BY <4>0 DEF Gateway, Key
      <4>2. t \in Gateway
        <5>1. s.calls + 1 \in 0..MaxCalls /\ 0 \in 0..Attempts
          BY <4>0, GatewayAssumption DEF Gateway
        <5> QED
          BY <4>0, <4>1, <5>1 DEF Gateway, Busy
      <4>3. /\ t.pc = "lookup" /\ t.answer = None /\ t.key = k /\ t.ns = s.ns
            /\ t.model = s.model /\ t.circuit = s.circuit /\ t.failures = s.failures
            /\ t.streak = s.streak /\ t.cooldowns = s.cooldowns
        BY <4>0 DEF Gateway
      <4>4. RequestInv(t)
        BY <4>1, <4>2, <4>3, Distinct DEF RequestInv
      <4>5. BreakerInv(t)
        BY <4>0, <4>3 DEF BreakerInv
      <4>6. CacheInv' /\ gw' = [gw EXCEPT ![g] = t]
        BY <3>2, <3>b DEF Complete
      <4> QED
        BY <4>4, <4>5, <4>6, Replaced
    <3>3. CASE Lookup(g)
      <4> DEFINE hit == exact[s.key]
                 pc == IF hit = None THEN "similar" ELSE "ready"
                 t == [s EXCEPT !.pc = pc, !.answer = hit, !.attempt = s.attempt]
      <4>0. s.pc = "lookup" /\ RequestInv(s) /\ BreakerInv(s) /\ s \in Gateway /\ s.key \in Key
        BY <3>3, <3>a DEF Lookup, Busy, RequestInv
      <4>1. hit \in Answer \cup {None} /\ (hit \in Answer => Suits(hit, s.key))
        BY <4>0 DEF GatewayInv, CacheInv
      <4>2. RequestInv(t) /\ BreakerInv(t)
        <5>1. pc \in {"similar", "ready"} /\ s.attempt \in 0..Attempts
          BY <4>0 DEF Gateway
        <5> HIDE DEF hit, pc
        <5> QED
          BY <4>0, <4>1, <5>1, MovesOn DEF Busy
      <4>3. CacheInv' /\ gw' = [gw EXCEPT ![g] = t]
        BY <3>3, <3>b, <4>0 DEF Lookup, Gateway, GatewayInv
      <4> QED
        BY <4>2, <4>3, Replaced
    <3>4. CASE Similar(g)
      <4>0. s.pc = "similar" /\ RequestInv(s) /\ BreakerInv(s) /\ s \in Gateway /\ s.key \in Key
        BY <3>4, <3>a DEF Similar, Busy, RequestInv
      <4>1. CASE Matches(s.key) = {}
        <5> DEFINE t == [s EXCEPT !.pc = "attempt", !.answer = s.answer, !.attempt = 1]
        <5>1. RequestInv(t) /\ BreakerInv(t)
          <6>1. s.answer \in Answer \cup {None, Empty, Error} /\ 1 \in 0..Attempts
            BY <4>0, GatewayAssumption DEF Gateway
          <6>2. s.answer \in Answer => Suits(s.answer, s.key)
            BY <4>0 DEF RequestInv
          <6> QED
            BY <4>0, <6>1, <6>2, MovesOn DEF Busy
        <5>2. CacheInv' /\ gw' = [gw EXCEPT ![g] = t]
          BY <3>4, <3>b, <4>0, <4>1 DEF Similar, Gateway, GatewayInv
        <5> QED
          BY <5>1, <5>2, Replaced
      <4>2. CASE Matches(s.key) # {}
        <5>1. PICK e \in Matches(s.key) :
                gw' = [gw EXCEPT ![g].pc = "promote", ![g].answer = e[2]]
          BY <3>4, <4>2 DEF Similar
        <5>2. /\ e \in semantic /\ e[1].ns = s.key.ns /\ e[1].model = s.key.model
              /\ <<e[1].prompt, s.key.prompt>> \in Near
          BY <5>1 DEF Matches
        <5>3. e[2] \in Answer /\ e[2].for = e[1] /\ Suits(e[2], e[1])
          BY <5>2 DEF GatewayInv, CacheInv
        <5>4. Suits(e[2], s.key)
          BY <5>2, <5>3 DEF Suits
        <5> DEFINE t == [s EXCEPT !.pc = "promote", !.answer = e[2], !.attempt = s.attempt]
        <5>5. RequestInv(t) /\ BreakerInv(t)
          <6>1. s.attempt \in 0..Attempts
            BY <4>0 DEF Gateway
          <6> QED
            BY <4>0, <5>3, <5>4, <6>1, MovesOn DEF Busy
        <5>6. CacheInv' /\ gw' = [gw EXCEPT ![g] = t]
          BY <3>4, <3>b, <4>0, <5>1 DEF Similar, Gateway, GatewayInv
        <5> QED
          BY <5>5, <5>6, Replaced
      <4> QED
        BY <4>1, <4>2
    <3>5. CASE Promote(g) \/ Store(g)
      <4> DEFINE pc == IF s.pc = "promote" THEN "ready" ELSE "index"
                 t == [s EXCEPT !.pc = pc, !.answer = s.answer, !.attempt = s.attempt]
      <4>0. /\ s.pc \in {"promote", "store"} /\ RequestInv(s) /\ BreakerInv(s) /\ s \in Gateway
            /\ s.key \in Key /\ s.answer \in Answer /\ Suits(s.answer, s.key)
            /\ (s.pc = "store" => s.answer.for = s.key)
        BY <3>5, <3>a DEF Promote, Store, Busy, RequestInv
      <4>1. RequestInv(t) /\ BreakerInv(t)
        <5>1. pc \in {"ready", "index"} /\ s.attempt \in 0..Attempts
              /\ (pc = "index" => s.answer.for = s.key)
          BY <4>0 DEF Gateway
        <5> HIDE DEF pc
        <5> QED
          BY <4>0, <5>1, MovesOn DEF Busy
      <4>2. CacheInv'
        BY <3>5, <4>0, CacheWrite DEF Promote, Store, GatewayInv
      <4>3. gw' = [gw EXCEPT ![g] = t]
        BY <3>5, <4>0 DEF Promote, Store, Gateway, GatewayInv
      <4> QED
        BY <4>1, <4>2, <4>3, Replaced
    <3>6. CASE Index(g)
      <4> DEFINE t == [s EXCEPT !.pc = "ready", !.answer = s.answer, !.attempt = s.attempt]
      <4>0. /\ s.pc = "index" /\ RequestInv(s) /\ BreakerInv(s) /\ s \in Gateway
            /\ s.key \in Key /\ s.answer \in Answer /\ Suits(s.answer, s.key)
            /\ s.answer.for = s.key
        BY <3>6, <3>a DEF Index, Busy, RequestInv
      <4>1. RequestInv(t) /\ BreakerInv(t)
        <5>1. s.attempt \in 0..Attempts
          BY <4>0 DEF Gateway
        <5> QED
          BY <4>0, <5>1, MovesOn DEF Busy
      <4>2. CacheInv'
        BY <3>6, <4>0 DEF Index, GatewayInv, CacheInv
      <4>3. gw' = [gw EXCEPT ![g] = t]
        BY <3>6, <4>0 DEF Index, Gateway, GatewayInv
      <4> QED
        BY <4>1, <4>2, <4>3, Replaced
    <3>7. CASE Attempt(g)
      <4>0. s.pc = "attempt" /\ RequestInv(s) /\ BreakerInv(s) /\ s \in Gateway /\ s.key \in Key
        BY <3>7, <3>a DEF Attempt, Busy, RequestInv
      <4>1. ASSUME NEW counted \in BOOLEAN, counted <=> s.circuit # "open", Raised(g, counted)
            PROVE  GatewayInv'
        <5>1. RequestInv(gw'[g]) /\ BreakerInv(gw'[g])
          BY <4>0, <4>1, RaisedKeeps
        <5>2. DOMAIN gw' = DOMAIN gw /\ \A h \in Gateways \ {g} : gw'[h] = gw[h]
          BY <4>1 DEF Raised, GatewayInv
        <5> QED
          BY <3>7, <5>1, <5>2, Called DEF Attempt
      <4>2. ASSUME Answered(g, s.model) PROVE GatewayInv'
        <5>1. s.model \in Models
          BY <4>0 DEF Gateway
        <5>2. RequestInv(gw'[g]) /\ BreakerInv(gw'[g])
          BY <4>0, <4>2, <5>1, AnsweredKeeps
        <5>3. DOMAIN gw' = DOMAIN gw /\ \A h \in Gateways \ {g} : gw'[h] = gw[h]
          BY <4>2 DEF Answered, GatewayInv
        <5> QED
          BY <3>7, <5>2, <5>3, Called DEF Attempt
      <4>3. ASSUME s.circuit # "open", Secondary # NoModel,
                   gw' = [gw EXCEPT ![g].pc = "failover"]
            PROVE  GatewayInv'
        <5> DEFINE t == [s EXCEPT !.pc = "failover", !.answer = s.answer, !.attempt = s.attempt]
        <5>1. RequestInv(t) /\ BreakerInv(t)
          <6>1. s.answer \in Answer \cup {None, Empty, Error} /\ s.attempt \in 0..Attempts
            BY <4>0 DEF Gateway
          <6>2. s.answer \in Answer => Suits(s.answer, s.key)
            BY <4>0 DEF RequestInv
          <6> QED
            BY <4>0, <4>3, <6>1, <6>2, MovesOn DEF Busy
        <5>2. CacheInv' /\ gw' = [gw EXCEPT ![g] = t]
          BY <3>7, <3>b, <4>0, <4>3 DEF Attempt, Gateway, GatewayInv
        <5> QED
          BY <5>1, <5>2, Replaced
      <4> QED
        BY <3>7, <4>1, <4>2, <4>3 DEF Attempt
    <3>8. CASE Failover(g)
      <4>0. s.pc = "failover" /\ s.circuit # "open" /\ Secondary # NoModel
        BY <3>8, <3>a DEF Failover, Busy, BreakerInv, RequestInv
      <4>1. CASE Raised(g, TRUE)
        <5>1. RequestInv(gw'[g]) /\ BreakerInv(gw'[g])
          BY <4>0, <4>1, RaisedKeeps
        <5>2. DOMAIN gw' = DOMAIN gw /\ \A h \in Gateways \ {g} : gw'[h] = gw[h]
          BY <4>1 DEF Raised, GatewayInv
        <5> QED
          BY <3>8, <5>1, <5>2, Called DEF Failover
      <4>2. CASE Answered(g, Secondary)
        <5>1. RequestInv(gw'[g]) /\ BreakerInv(gw'[g])
          BY <4>0, <4>2, AnsweredKeeps, GatewayAssumption
        <5>2. DOMAIN gw' = DOMAIN gw /\ \A h \in Gateways \ {g} : gw'[h] = gw[h]
          BY <4>2 DEF Answered, GatewayInv
        <5> QED
          BY <3>8, <5>1, <5>2, Called DEF Failover
      <4> QED
        BY <3>8, <4>1, <4>2 DEF Failover
    <3>9. CASE Cooldown(g)
      <4> DEFINE t == [s EXCEPT !.circuit = "cooled", !.cooldowns = s.cooldowns + 1]
      <4>0. s.circuit = "open" /\ RequestInv(s) /\ BreakerInv(s) /\ s \in Gateway
        BY <3>9, <3>a DEF Cooldown
      <4>a. s.cooldowns + 1 \in Nat
        BY <4>0 DEF Gateway
      <4>b. t \in Gateway
        BY <4>0, <4>a DEF Gateway
      <4>1. /\ t.pc = s.pc /\ t.answer = s.answer /\ t.key = s.key
            /\ t.ns = s.ns /\ t.model = s.model /\ t.circuit = "cooled"
            /\ t.failures = s.failures /\ t.streak = s.streak /\ t.cooldowns = s.cooldowns + 1
        BY <4>0 DEF Gateway
      <4>2. RequestInv(t)
        BY <4>0, <4>b, <4>1 DEF RequestInv
      <4>3. BreakerInv(t)
        <5>1. s.streak \in Nat /\ s.cooldowns \in Nat /\ Threshold \in Nat
          BY <4>0, GatewayAssumption DEF Gateway
        <5> QED
          BY <4>0, <4>1, <5>1 DEF BreakerInv
      <4>4. CacheInv' /\ gw' = [gw EXCEPT ![g] = t]
        BY <3>9, <3>b DEF Cooldown
      <4> QED
        BY <4>2, <4>3, <4>4, Replaced
    <3> QED
      BY <3>1, <3>2, <3>3, <3>4, <3>5, <3>6, <3>7, <3>8, <3>9
  <2> QED
    BY <2>1, <2>2
<1> QED
  BY <1>1, <1>2, PTL DEF Spec

\* The caches hold texts only, and gateways keep their types.
THEOREM TypeCorrect == Spec => []TypeOK
<1>1. GatewayInv => TypeOK
  BY DEF GatewayInv, CacheInv, RequestInv, Built, TypeOK
<1> QED
  BY <1>1, GatewayInvariant, PTL

\* A text that a request gets was computed for its project, its model and a similar prompt.
THEOREM RightAnswer == Spec => []AnswersTheRequest
<1>1. GatewayInv => AnswersTheRequest
  BY DEF GatewayInv, RequestInv, Suits, AnswersTheRequest
<1> QED
  BY <1>1, GatewayInvariant, PTL

\* A dead provider fails at most Threshold times, and once more for every cooldown.
THEOREM SparedProvider == Spec => []ProviderSpared
<1>1. GatewayInv => ProviderSpared
  <2> SUFFICES ASSUME GatewayInv, NEW g \in Gateways, Built(g)
               PROVE  gw[g].streak <= Threshold + gw[g].cooldowns
    BY DEF ProviderSpared
  <2>1. RequestInv(gw[g]) /\ BreakerInv(gw[g]) /\ gw[g] \in Gateway
    BY DEF GatewayInv, RequestInv
  <2>2. /\ gw[g].circuit \in {"closed", "open", "cooled"} /\ gw[g].streak \in Nat
        /\ gw[g].cooldowns \in Nat /\ Threshold \in Nat
    BY <2>1, GatewayAssumption DEF Gateway
  <2> QED
    BY <2>1, <2>2 DEF BreakerInv
<1> QED
  BY <1>1, GatewayInvariant, PTL
=============================================================================
