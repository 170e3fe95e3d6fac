------------------------ MODULE ComplianceCases_proofs ------------------------
(***************************************************************************)
(* Theorems about ComplianceCases, for every set of objects and requests   *)
(* and every length of trails; and, at the end, about ReleaseGate, for     *)
(* every set of requests and of worlds with finitely many quests.          *)
(***************************************************************************)
EXTENDS ComplianceCases, FiniteSetTheorems, TLAPS

Authors == {"human", "rescan", "system"}
Event(x, s, by) == [by |-> by, from |-> x.status, to |-> s]

\* A step of a case is a case with a longer trail and the status of its last event.
LEMMA ToIs ==
    ASSUME NEW x \in Case, NEW s \in Statuses, NEW by \in Authors
    PROVE  /\ To(x, s, by) \in Case
           /\ To(x, s, by).status = s
           /\ To(x, s, by).trail = Append(x.trail, Event(x, s, by))
           /\ Len(To(x, s, by).trail) = Len(x.trail) + 1
<1> DEFINE e == Event(x, s, by)
           E == [by : Authors, from : Statuses, to : Statuses]
<1>1. x.status \in Statuses /\ x.trail \in Seq(E)
  BY DEF Case, Authors
<1>2. e \in E
  BY <1>1 DEF Event
<1> HIDE DEF e, E
<1>3. Append(x.trail, e) \in Seq(E) /\ Len(Append(x.trail, e)) = Len(x.trail) + 1
  BY <1>1, <1>2
<1>4. To(x, s, by) = [status |-> s, trail |-> Append(x.trail, e)]
  BY DEF To, e, Event
<1> QED
  BY <1>3, <1>4 DEF Case, e, E, Authors

\* A legal step keeps a trail an explanation of the status.
LEMMA ToExplained ==
    ASSUME NEW x \in Case, NEW s \in Statuses, NEW by \in Authors,
           Explained(x), LegalEvent(Event(x, s, by))
    PROVE  Explained(To(x, s, by))
<1> DEFINE e == Event(x, s, by)
           t == x.trail
           n == Len(x.trail)
           u == Append(x.trail, e)
<1>1. /\ t \in Seq([by : Authors, from : Statuses, to : Statuses])
      /\ n \in Nat
  BY DEF Case, Authors
<1>2. Len(u) = n + 1 /\ u[n + 1] = e /\ \A k \in 1..n : u[k] = t[k]
  BY <1>1
<1>3. To(x, s, by).trail = u /\ To(x, s, by).status = s
  BY ToIs
<1>4. e.from = x.status /\ e.to = s
  BY DEF Event
<1>5. /\ \A k \in 1..n : LegalEvent(t[k])
      /\ \A k \in 1..n : t[k].from = IF k = 1 THEN "flagged" ELSE t[k-1].to
      /\ x.status = IF t = <<>> THEN "flagged" ELSE t[n].to
  BY DEF Explained
<1>6. t = <<>> <=> n = 0
  BY <1>1
<1>l. LegalEvent(e)
  OBVIOUS
<1> HIDE DEF e, t, n, u
<1>7. ASSUME NEW k \in 1..(n + 1) PROVE LegalEvent(u[k])
  BY <1>1, <1>2, <1>5, <1>7, <1>l
<1>8. ASSUME NEW k \in 1..(n + 1) PROVE u[k].from = IF k = 1 THEN "flagged" ELSE u[k-1].to
  <2>1. CASE k = n + 1
    <3>1. CASE n = 0
      BY <2>1, <3>1, <1>2, <1>4, <1>5, <1>6
    <3>2. CASE n # 0
      <4>1. k # 1 /\ k - 1 = n /\ n \in 1..n
        BY <2>1, <3>2, <1>1
      <4> QED
        BY <2>1, <3>2, <4>1, <1>2, <1>4, <1>5, <1>6
    <3> QED
      BY <3>1, <3>2
  <2>2. CASE k # n + 1
    <3>1. k \in 1..n /\ (k # 1 => k - 1 \in 1..n)
      BY <2>2, <1>8, <1>1
    <3> QED
      BY <3>1, <1>2, <1>5
  <2> QED
    BY <2>1, <2>2
<1>9. s = IF u = <<>> THEN "flagged" ELSE u[n + 1].to
  <2>1. u # <<>>
    BY <1>1, <1>2
  <2> QED
    BY <2>1, <1>2, <1>4
<1> QED
  BY <1>2, <1>3, <1>7, <1>8, <1>9 DEF Explained

\* A trail is a prefix of itself and of what is appended to it.
LEMMA PrefixOfTo ==
    ASSUME NEW x \in Case
    PROVE  /\ IsPrefix(x.trail, x.trail)
           /\ \A s \in Statuses, by \in Authors : IsPrefix(x.trail, To(x, s, by).trail)
<1> DEFINE E == [by : Authors, from : Statuses, to : Statuses]
           t == x.trail
<1>1. t \in Seq(E)
  BY DEF Case, Authors
<1>2. ASSUME NEW s \in Statuses, NEW by \in Authors PROVE IsPrefix(t, To(x, s, by).trail)
  <2> DEFINE e == Event(x, s, by)
  <2>1. To(x, s, by).trail = Append(t, e) /\ e \in E
    BY ToIs, <1>2 DEF Event, Case
  <2> HIDE DEF e, t, E
  <2>2. /\ Append(t, e) \in Seq(E) /\ Len(Append(t, e)) = Len(t) + 1 /\ Len(t) \in Nat
        /\ \A k \in 1..Len(t) : Append(t, e)[k] = t[k]
    BY <2>1, <1>1
  <2>3. SubSeq(t, 1, Len(t)) = SubSeq(Append(t, e), 1, Len(t))
    BY <2>2, <1>1
  <2> QED
    BY <2>1, <2>2, <2>3 DEF IsPrefix
<1> HIDE DEF E
<1>3. IsPrefix(t, t)
  BY <1>1 DEF IsPrefix
<1> QED
  BY <1>2, <1>3
-----------------------------------------------------------------------------
\* By hand a case is signed off only after a rescan passed it, and no hand passes it.
LEMMA ByHand ==
    ASSUME NEW s \in Statuses
    PROVE  /\ "signed_off" \in MANUAL_TRANSITIONS[s] => s = "rescan_passed"
           /\ "rescan_passed" \notin MANUAL_TRANSITIONS[s]
BY DEF Statuses, MANUAL_TRANSITIONS

\* What the ledger that a legal request computes holds for case c: the case as it is, a new
\* case, or the case after one legal step.
Stepped(c, q, view, x) ==
    \/ x = cases[c]
    \/ cases[c] = NoCase /\ x = Opened
    \/ /\ cases[c] \in Case
       /\ \E s \in Statuses, by \in Authors :
             /\ x = To(cases[c], s, by)
             /\ LegalEvent(Event(cases[c], s, by))
             /\ s = "signed_off" => cases[c].status = "rescan_passed" /\ q.op = "transition"
             /\ s = "rescan_passed" => q.op = "rescan" /\ q.case = c /\ view[c[1]] # "word"

LEMMA LedgerSteps ==
    ASSUME cases \in Cases, NEW q \in Sweeps \cup Transitions, NEW view \in [Objects -> Text],
           Legal(q), NEW c \in CaseIds
    PROVE  Stepped(c, q, view, Ledger(q, view)[c])
<1>0. cases[c] \in Case \cup {NoCase} /\ (cases[c] \in Case => cases[c].status \in Statuses)
  BY DEF Cases, Case
<1>1. CASE q.op = "scan"
  <2>1. Ledger(q, view)[c] = IF c \notin Hits(view, q.judged) THEN cases[c]
                             ELSE IF cases[c] = NoCase THEN Opened
                             ELSE IF cases[c].status = "signed_off" THEN To(cases[c], "flagged", "system")
                             ELSE cases[c]
    BY <1>1 DEF Ledger, Merge
  <2>2. CASE cases[c] # NoCase /\ cases[c].status = "signed_off"
    <3>1. LegalEvent(Event(cases[c], "flagged", "system"))
      BY <2>2 DEF LegalEvent, Event
    <3>2. "flagged" \in Statuses /\ "system" \in Authors
      BY DEF Statuses, Authors
    <3> QED
      BY <2>1, <2>2, <3>1, <3>2, <1>0 DEF Stepped
  <2>3. CASE ~ (cases[c] # NoCase /\ cases[c].status = "signed_off")
    BY <2>1, <2>3, <1>0 DEF Stepped
  <2> QED
    BY <2>2, <2>3
<1>2. CASE q.op = "transition"
  <2>1. /\ q.case \in CaseIds /\ q.to \in Statuses /\ cases[q.case] # NoCase
        /\ q.to \in MANUAL_TRANSITIONS[cases[q.case].status]
    BY <1>2 DEF Sweeps, Transitions, Legal
  <2>2. Ledger(q, view) = [cases EXCEPT ![q.case] = To(cases[q.case], q.to, "human")]
    BY <1>2 DEF Ledger
  <2>3. CASE c = q.case
    <3>1. Ledger(q, view)[c] = To(cases[c], q.to, "human") /\ cases[c] \in Case
      BY <2>1, <2>2, <2>3, <1>0 DEF Cases
    <3>2. LegalEvent(Event(cases[c], q.to, "human"))
      BY <2>1, <2>3 DEF LegalEvent, Event
    <3>3. /\ q.to = "signed_off" => cases[c].status = "rescan_passed"
          /\ q.to # "rescan_passed"
      BY <2>1, <2>3, <3>1, <1>0, ByHand
    <3> QED
      BY <1>2, <2>1, <3>1, <3>2, <3>3 DEF Stepped, Authors
  <2>4. CASE c # q.case
    BY <2>2, <2>4 DEF Stepped, Cases
  <2> QED
    BY <2>3, <2>4
<1>3. CASE q.op = "rescan"
  <2> DEFINE s == IF StillHit(q, view) THEN "fixing" ELSE "rescan_passed"
  <2>1. /\ q.case \in CaseIds /\ cases[q.case] # NoCase
        /\ cases[q.case].status \in {"fixing", "rescan_passed"}
    BY <1>3 DEF Sweeps, Transitions, Legal
  <2>2. Ledger(q, view) = [cases EXCEPT ![q.case] = To(cases[q.case], s, "rescan")]
    BY <1>3 DEF Ledger
  <2>3. CASE c = q.case
    <3>1. Ledger(q, view)[c] = To(cases[c], s, "rescan") /\ cases[c] \in Case
      BY <2>1, <2>2, <2>3, <1>0 DEF Cases
    <3>2. s \in Statuses /\ s \in {"fixing", "rescan_passed"} /\ "rescan" \in Authors
      BY DEF Statuses, Authors
    <3>3. LegalEvent(Event(cases[c], s, "rescan"))
      BY <2>1, <2>3, <3>2 DEF LegalEvent, Event
    <3>4. s = "rescan_passed" => view[c[1]] # "word"
      <4> SUFFICES ASSUME view[c[1]] = "word" PROVE StillHit(q, view)
        OBVIOUS
      <4>1. <<c[1], "term">> \in Hits(view, q.judged)
        BY DEF Hits, CaseIds, Layers
      <4> QED
        BY <4>1, <2>3 DEF StillHit
    <3> HIDE DEF s
    <3> QED
      BY <1>3, <2>3, <3>1, <3>2, <3>3, <3>4 DEF Stepped
  <2>4. CASE c # q.case
    BY <2>2, <2>4 DEF Stepped, Cases
  <2> QED
    BY <2>3, <2>4
<1> QED
  BY <1>1, <1>2, <1>3 DEF Sweeps, Transitions

\* The ledger computed is a ledger, for all cases alike.
LEMMA SteppedType ==
    ASSUME cases \in Cases, NEW c \in CaseIds, NEW q, NEW view, NEW x, Stepped(c, q, view, x)
    PROVE  x \in Case \cup {NoCase}
<1>1. Opened \in Case
  BY DEF Opened, Case, Statuses
<1> QED
  BY <1>1, ToIs DEF Stepped, Cases

LEMMA LedgerType ==
    ASSUME cases \in Cases, NEW q \in Sweeps \cup Transitions, NEW view \in [Objects -> Text], Legal(q)
    PROVE  Ledger(q, view) \in Cases
<1>1. Ledger(q, view) = [c \in CaseIds |-> Ledger(q, view)[c]]
  <2>1. CASE q.op = "scan"
    BY <2>1 DEF Ledger, Merge
  <2>2. CASE q.op # "scan"
    BY <2>2 DEF Ledger, Sweeps, Transitions, Cases
  <2> QED
    BY <2>1, <2>2
<1>2. \A c \in CaseIds : Ledger(q, view)[c] \in Case \cup {NoCase}
  BY LedgerSteps, SteppedType
<1> QED
  BY <1>1, <1>2 DEF Cases
-----------------------------------------------------------------------------
\* The steps of a request.

ReadOf(q, view) == IF q.op = "rescan" THEN {<<q.case, view[q.case[1]]>>} ELSE {}

LEMMA ClerkKinds ==
    ASSUME TypeOK, NEW r \in Clerks
    PROVE  /\ clerk[r] \in ClerkStates
           /\ clerk[r].pc \in {"idle", "open", "save"}
           /\ clerk[r].pc = "open" => clerk[r].q \in Sweeps /\ clerk[r].view \in [Objects -> Text]
           /\ clerk[r].pc = "save" =>
                 clerk[r].ledger \in Cases /\ clerk[r].read \subseteq CaseIds \X Text
BY DEF TypeOK, ClerkStates

\* A request that loads the ledger is refused, or goes on with the ledger it computed.
LEMMA LoadIs ==
    ASSUME TypeOK, NEW r \in Clerks, NEW q \in Sweeps \cup Transitions,
           NEW view \in [Objects -> Text], Load(r, q, view)
    PROVE  /\ \A s \in Clerks : s # r => clerk'[s] = clerk[s]
           /\ \/ clerk'[r] = [pc |-> "idle"]
              \/ /\ Legal(q)
                 /\ clerk'[r] = [pc |-> "save", ledger |-> Ledger(q, view), read |-> ReadOf(q, view)]
           /\ clerk' = [clerk EXCEPT ![r] = clerk'[r]]
BY DEF TypeOK, Load, ReadOf

LEMMA ReadType ==
    ASSUME NEW q \in Sweeps \cup Transitions, NEW view \in [Objects -> Text]
    PROVE  ReadOf(q, view) \subseteq CaseIds \X Text
<1>1. CASE q.op = "rescan"
  <2>1. q.case \in CaseIds
    BY <1>1 DEF Sweeps, Transitions
  <2> QED
    BY <1>1, <2>1 DEF ReadOf, CaseIds
<1>2. CASE q.op # "rescan"
  BY <1>2 DEF ReadOf
<1> QED
  BY <1>1, <1>2

\* Every step is one of a request, or rewrites an object.  A step that loads has a request and a
\* view: the texts of its open for a sweep, the texts as they are for a transition.
Loads(r, q, view) ==
    /\ q \in Sweeps \cup Transitions /\ view \in [Objects -> Text]
    /\ Load(r, q, view)
    /\ UNCHANGED <<text, cases, touched, rewrites>>
    /\ \/ clerk[r].pc = "open" /\ q = clerk[r].q /\ view = clerk[r].view
       \/ /\ clerk[r].pc = "idle" /\ Cardinality(Active) < MaxActive
          /\ q \in Transitions /\ view = text

LEMMA StepIs ==
    ASSUME TypeOK, [Next]_vars
    PROVE  \/ \E r \in Clerks :
                 \/ \E q \in Sweeps : Open(r, q)
                 \/ \E q, view : Loads(r, q, view)
                 \/ Save(r) \/ Fail(r)
           \/ \E o \in Objects, t \in Text : Rewrite(o, t)
           \/ UNCHANGED vars
<1>1. ASSUME NEW r \in Clerks, NEW q \in Transitions, LoadTransition(r, q) PROVE Loads(r, q, text)
  BY <1>1 DEF LoadTransition, Loads, TypeOK
<1>2. ASSUME NEW r \in Clerks, LoadAfterOpen(r) PROVE Loads(r, clerk[r].q, clerk[r].view)
  BY <1>2, ClerkKinds DEF LoadAfterOpen, Loads
<1> QED
  BY <1>1, <1>2 DEF Next

\* The file, the texts and the requests keep their types, whatever overlaps or fails.
THEOREM TypeCorrect == WellFormed /\ Spec => []TypeOK
<1> SUFFICES ASSUME WellFormed PROVE Spec => []TypeOK
  OBVIOUS
<1>1. Init => TypeOK
  BY DEF Init, TypeOK, Cases, ClerkStates, WellFormed
<1>2. TypeOK /\ [Next]_vars => TypeOK'
  <2> SUFFICES ASSUME TypeOK, [Next]_vars PROVE TypeOK'
    OBVIOUS
  <2>t. /\ text \in [Objects -> Text] /\ cases \in Cases /\ clerk \in [Clerks -> ClerkStates]
        /\ touched \subseteq CaseIds /\ rewrites \in 0..MaxRewrites
    BY DEF TypeOK
  <2>0. [pc |-> "idle"] \in ClerkStates
    BY DEF ClerkStates
  <2>1. ASSUME NEW r \in Clerks, NEW q \in Sweeps, Open(r, q) PROVE TypeOK'
    <3>1. [pc |-> "open", q |-> q, view |-> text] \in ClerkStates
      BY <2>t DEF ClerkStates
    <3> QED
      BY <2>1, <2>t, <3>1 DEF Open, TypeOK
  <2>2. ASSUME NEW r \in Clerks, NEW q, NEW view, Loads(r, q, view) PROVE TypeOK'
    <3>1. Legal(q) => [pc |-> "save", ledger |-> Ledger(q, view), read |-> ReadOf(q, view)] \in ClerkStates
      BY <2>2, <2>t, LedgerType, ReadType DEF ClerkStates, Loads
    <3>2. clerk'[r] \in ClerkStates /\ clerk' = [clerk EXCEPT ![r] = clerk'[r]]
      BY <2>2, <2>0, <3>1, LoadIs DEF Loads
    <3> QED
      BY <2>2, <2>t, <3>2 DEF Loads, TypeOK
  <2>3. ASSUME NEW r \in Clerks, Save(r) PROVE TypeOK'
    BY <2>3, <2>t, <2>0, ClerkKinds DEF Save, TypeOK
  <2>4. ASSUME NEW r \in Clerks, Fail(r) PROVE TypeOK'
    BY <2>4, <2>t, <2>0 DEF Fail, TypeOK
  <2>5. ASSUME NEW o \in Objects, NEW t \in Text, Rewrite(o, t) PROVE TypeOK'
    BY <2>5, <2>t DEF Rewrite, TypeOK, WellFormed
  <2>6. CASE UNCHANGED vars
    BY <2>6, <2>t DEF vars, TypeOK
  <2> QED
    BY <2>1, <2>2, <2>3, <2>4, <2>5, <2>6, StepIs
<1> QED
  BY <1>1, <1>2, PTL DEF Spec
-----------------------------------------------------------------------------
\* A legal ledger explains every case that is explained now.
LEMMA LedgerExplained ==
    ASSUME WellFormed, TypeOK, TrailExplainsStatus, NEW q \in Sweeps \cup Transitions,
           NEW view \in [Objects -> Text], Legal(q), NEW c \in CaseIds, Ledger(q, view)[c] # NoCase
    PROVE  Explained(Ledger(q, view)[c])
<1>1. Stepped(c, q, view, Ledger(q, view)[c])
  BY LedgerSteps DEF TypeOK
<1>2. cases[c] # NoCase => Explained(cases[c])
  BY DEF TrailExplainsStatus
<1>3. Explained(Opened)
  BY DEF Explained, Opened
<1>4. cases[c] \in Case \cup {NoCase}
  BY DEF TypeOK, Cases
<1>5. ASSUME NEW s \in Statuses, NEW by \in Authors, cases[c] \in Case, Explained(cases[c]),
             LegalEvent(Event(cases[c], s, by))
      PROVE  Explained(To(cases[c], s, by))
  BY <1>5, ToExplained
<1>6. CASE cases[c] = NoCase
  BY <1>1, <1>3, <1>6 DEF Stepped, WellFormed
<1> QED
  BY <1>1, <1>2, <1>3, <1>5, <1>6 DEF Stepped

\* However requests overlap and overwrite each other's ledgers, the trail of every case is an
\* unbroken legal path to its status: a case is signed off only after a rescan passed it.
THEOREM TrailsExplain == WellFormed /\ Spec => []TrailExplainsStatus
<1> SUFFICES ASSUME WellFormed PROVE Spec => []TrailExplainsStatus
  OBVIOUS
<1>1. Init => TrailInv
  BY DEF Init, TrailInv, TrailExplainsStatus
<1>2. TypeOK /\ TrailInv /\ [Next]_vars => TrailInv'
  <2> SUFFICES ASSUME TypeOK, TrailInv, [Next]_vars, NEW c \in CaseIds
               PROVE  /\ cases'[c] # NoCase => Explained(cases'[c])
                      /\ \A s \in Clerks : clerk'[s].pc = "save" /\ clerk'[s].ledger[c] # NoCase =>
                            Explained(clerk'[s].ledger[c])
    BY DEF TrailInv, TrailExplainsStatus
  <2>i. /\ TrailExplainsStatus /\ (cases[c] # NoCase => Explained(cases[c]))
        /\ \A s \in Clerks : clerk[s].pc = "save" /\ clerk[s].ledger[c] # NoCase =>
              Explained(clerk[s].ledger[c])
        /\ clerk \in [Clerks -> ClerkStates]
    BY DEF TrailInv, TrailExplainsStatus, TypeOK
  <2>1. ASSUME NEW r \in Clerks, NEW q \in Sweeps, Open(r, q)
        PROVE  cases' = cases /\ \A s \in Clerks : clerk'[s].pc = "save" => clerk'[s] = clerk[s]
    BY <2>1, <2>i DEF Open
  <2>2. ASSUME NEW r \in Clerks, NEW q, NEW view, Loads(r, q, view)
        PROVE  /\ cases' = cases
               /\ \A s \in Clerks : clerk'[s].pc = "save" =>
                     \/ clerk'[s] = clerk[s]
                     \/ clerk'[s].ledger[c] # NoCase => Explained(clerk'[s].ledger[c])
    <3>1. Legal(q) /\ Ledger(q, view)[c] # NoCase => Explained(Ledger(q, view)[c])
      BY <2>2, <2>i, LedgerExplained DEF Loads
    <3>2. /\ \A s \in Clerks : s # r => clerk'[s] = clerk[s]
          /\ clerk'[r].pc = "save" => Legal(q) /\ clerk'[r].ledger = Ledger(q, view)
      <4>0. \A s \in Clerks : s # r => clerk'[s] = clerk[s]
        BY <2>2, LoadIs DEF Loads
      <4>1. CASE clerk'[r] = [pc |-> "idle"]
        BY <4>0, <4>1
      <4>2. CASE /\ Legal(q)
                 /\ clerk'[r] = [pc |-> "save", ledger |-> Ledger(q, view), read |-> ReadOf(q, view)]
        BY <4>0, <4>2
      <4> QED
        BY <2>2, <4>1, <4>2, LoadIs DEF Loads
    <3> QED
      BY <2>2, <3>1, <3>2 DEF Loads
  <2>3. ASSUME NEW r \in Clerks, Save(r)
        PROVE  /\ cases' = clerk[r].ledger /\ clerk[r].pc = "save"
               /\ \A s \in Clerks : clerk'[s].pc = "save" => clerk'[s] = clerk[s]
    BY <2>3, <2>i DEF Save
  <2>4. ASSUME NEW r \in Clerks, Fail(r)
        PROVE  cases' = cases /\ \A s \in Clerks : clerk'[s].pc = "save" => clerk'[s] = clerk[s]
    BY <2>4, <2>i DEF Fail
  <2>5. CASE \/ \E o \in Objects, t \in Text : Rewrite(o, t)
             \/ UNCHANGED vars
    BY <2>5, <2>i DEF Rewrite, vars
  <2> QED
    BY <2>i, <2>1, <2>2, <2>3, <2>4, <2>5, StepIs
<1>3. TrailInv => TrailExplainsStatus
  BY DEF TrailInv
<1> QED
  BY <1>1, <1>2, <1>3, TypeCorrect, PTL DEF Spec
-----------------------------------------------------------------------------
\* One request at a time.

Moves(r) ==
    \/ \E q \in Sweeps : Open(r, q)
    \/ \E q, view : Loads(r, q, view)
    \/ Save(r) \/ Fail(r)

\* While a request is served every other one is idle.
LEMMA Alone ==
    ASSUME WellFormed, MaxActive = 1, TypeOK, OneClerk, NEW r \in Clerks, Moves(r)
    PROVE  \A s \in Clerks : s # r => clerk[s].pc = "idle" /\ clerk'[s] = clerk[s]
<1>1. \A s \in Clerks : s # r => clerk'[s] = clerk[s]
  <2>1. ASSUME NEW q, NEW view, Loads(r, q, view) PROVE \A s \in Clerks : s # r => clerk'[s] = clerk[s]
    BY <2>1, LoadIs DEF Loads
  <2> QED
    BY <2>1 DEF Moves, Open, Save, Fail, TypeOK
<1>2. CASE clerk[r].pc # "idle"
  BY <1>1, <1>2 DEF OneClerk, Active
<1>3. CASE clerk[r].pc = "idle"
  <2>1. Cardinality(Active) < 1
    BY <1>3 DEF Moves, Open, Loads, Save, Fail
  <2>2. IsFiniteSet(Active)
    BY FS_Subset DEF WellFormed, Active
  <2>3. Active = {}
    BY <2>1, <2>2, FS_CardinalityType, FS_EmptySet
  <2> QED
    BY <1>1, <2>3 DEF Active
<1> QED
  BY <1>2, <1>3

\* Loading keeps what is true of a request served alone: the ledger it computes appends one
\* event at most, and passes or signs off a case only as the texts allow.
LEMMA LoadsKeep ==
    ASSUME WellFormed, TypeOK, SerialInv, NEW r \in Clerks, NEW q, NEW view, Loads(r, q, view),
           clerk'[r].pc = "save"
    PROVE  /\ \A c \in CaseIds : cases[c] # NoCase =>
                 clerk'[r].ledger[c] # NoCase /\ IsPrefix(cases[c].trail, clerk'[r].ledger[c].trail)
           /\ \A e \in clerk'[r].read : e[2] # text[e[1][1]] => e[1] \in touched
           /\ \A c \in CaseIds : clerk'[r].ledger[c] # NoCase =>
                 LET x == clerk'[r].ledger[c] IN
                 /\ x.status = "rescan_passed" => <<c, "word">> \notin clerk'[r].read
                 /\ HasWord(c) /\ (x.status = "rescan_passed" \/ (x.status = "signed_off" /\ x # cases[c]))
                       => c \in touched
<1>1. Legal(q) /\ clerk'[r].ledger = Ledger(q, view) /\ clerk'[r].read = ReadOf(q, view)
  <2>1. CASE clerk'[r] = [pc |-> "idle"]
    BY <2>1
  <2>2. CASE /\ Legal(q)
             /\ clerk'[r] = [pc |-> "save", ledger |-> Ledger(q, view), read |-> ReadOf(q, view)]
    BY <2>2
  <2> QED
    BY <2>1, <2>2, LoadIs DEF Loads
<1>t. /\ q \in Sweeps \cup Transitions /\ view \in [Objects -> Text]
      /\ cases \in Cases /\ text \in [Objects -> Text]
  BY DEF Loads, TypeOK
<1>2. ASSUME q.op = "rescan"
      PROVE  q.case \in CaseIds /\ (view[q.case[1]] # text[q.case[1]] => q.case \in touched)
  <2>1. clerk[r].pc = "open" /\ q = clerk[r].q /\ view = clerk[r].view
    BY <1>2 DEF Loads, Transitions
  <2>2. q.case \in CaseIds
    BY <1>2, <1>t DEF Sweeps, Transitions
  <2> QED
    BY <1>2, <2>1, <2>2 DEF SerialInv, ReadsAreTracked
<1>3. ASSUME NEW c \in CaseIds, cases[c] # NoCase
      PROVE  Ledger(q, view)[c] # NoCase /\ IsPrefix(cases[c].trail, Ledger(q, view)[c].trail)
  <2>1. Stepped(c, q, view, Ledger(q, view)[c]) /\ cases[c] \in Case
    BY <1>1, <1>3, <1>t, LedgerSteps DEF Cases
  <2>2. CASE Ledger(q, view)[c] = cases[c]
    BY <2>1, <2>2, <1>3, PrefixOfTo
  <2>3. ASSUME NEW s \in Statuses, NEW by \in Authors, Ledger(q, view)[c] = To(cases[c], s, by)
        PROVE  Ledger(q, view)[c] # NoCase /\ IsPrefix(cases[c].trail, Ledger(q, view)[c].trail)
    BY <2>1, <2>3, ToIs, PrefixOfTo DEF WellFormed
  <2> QED
    BY <2>1, <2>2, <2>3, <1>3 DEF Stepped
<1>4. ASSUME NEW e \in ReadOf(q, view), e[2] # text[e[1][1]] PROVE e[1] \in touched
  BY <1>2, <1>4 DEF ReadOf
<1>5. ASSUME NEW c \in CaseIds, Ledger(q, view)[c] # NoCase
      PROVE  LET x == Ledger(q, view)[c] IN
             /\ x.status = "rescan_passed" => <<c, "word">> \notin ReadOf(q, view)
             /\ HasWord(c) /\ (x.status = "rescan_passed" \/ (x.status = "signed_off" /\ x # cases[c]))
                   => c \in touched
  <2> DEFINE x == Ledger(q, view)[c]
  <2>1. Stepped(c, q, view, x)
    BY <1>1, <1>t, LedgerSteps
  <2>p. cases[c] # NoCase /\ cases[c].status = "rescan_passed" /\ HasWord(c) => c \in touched
    BY DEF SerialInv, PassedIsTracked
  <2>r. q.op = "rescan" /\ q.case = c => x # cases[c]
    <3> SUFFICES ASSUME q.op = "rescan", q.case = c PROVE x # cases[c]
      OBVIOUS
    <3>1. cases[c] \in Case
      BY <1>1, <1>t DEF Legal, Cases
    <3>2. PICK s \in Statuses : x = To(cases[c], s, "rescan")
      BY <1>t DEF Ledger, Cases, Statuses
    <3>3. Len(x.trail) = Len(cases[c].trail) + 1 /\ Len(cases[c].trail) \in Nat
      <4>1. "rescan" \in Authors /\ cases[c].trail \in Seq([by : Authors, from : Statuses, to : Statuses])
        BY <3>1 DEF Case, Authors
      <4>2. Len(x.trail) = Len(cases[c].trail) + 1
        BY <3>1, <3>2, <4>1, ToIs
      <4> QED
        BY <4>1, <4>2
    <3> QED
      BY <3>3
  <2>2. CASE x = cases[c]
    <3>1. ~ (q.op = "rescan" /\ q.case = c)
      BY <2>2, <2>r
    <3>2. <<c, "word">> \notin ReadOf(q, view)
      BY <3>1 DEF ReadOf
    <3> QED
      BY <2>2, <2>p, <3>2, <1>5
  <2>3. CASE x = Opened
    BY <2>3 DEF Opened
  <2>4. ASSUME NEW s \in Statuses, NEW by \in Authors, cases[c] \in Case, x = To(cases[c], s, by),
               s = "signed_off" => cases[c].status = "rescan_passed" /\ q.op = "transition",
               s = "rescan_passed" => q.op = "rescan" /\ q.case = c /\ view[c[1]] # "word"
        PROVE  /\ x.status = "rescan_passed" => <<c, "word">> \notin ReadOf(q, view)
               /\ HasWord(c) /\ (x.status = "rescan_passed" \/ x.status = "signed_off") => c \in touched
    <3>1. x.status = s
      BY <2>4, ToIs
    <3>2. CASE s = "rescan_passed"
      BY <3>1, <3>2, <2>4, <1>2 DEF ReadOf, HasWord
    <3>3. CASE s = "signed_off"
      BY <3>1, <3>3, <2>4, <2>p DEF WellFormed
    <3> QED
      BY <3>1, <3>2, <3>3
  <2> QED
    BY <2>1, <2>2, <2>3, <2>4 DEF Stepped
<1> QED
  BY <1>1, <1>3, <1>4, <1>5

LEMMA SerialKept ==
    ASSUME WellFormed, MaxActive = 1, TypeOK, SerialInv, [Next]_vars
    PROVE  SerialInv'
<1>t. /\ text \in [Objects -> Text] /\ cases \in Cases /\ clerk \in [Clerks -> ClerkStates]
      /\ touched \subseteq CaseIds
  BY DEF TypeOK
<1>i. OneClerk /\ AppendsOnly /\ ReadsAreTracked /\ PassedIsTracked
  BY DEF SerialInv
<1>1. ASSUME NEW r \in Clerks, Moves(r) PROVE OneClerk'
  <2>1. \A s \in Clerks : s # r => clerk'[s].pc = "idle"
    BY <1>1, <1>i, Alone
  <2> QED
    BY <2>1 DEF OneClerk, Active
\* What is true of the file alone, when the file and the texts stay as they are.
<1>p. ASSUME UNCHANGED <<text, cases, touched>>
      PROVE  \A c \in CaseIds :
                HasWord(c)' /\ cases'[c] # NoCase /\ cases'[c].status = "rescan_passed" => c \in touched'
  BY <1>p, <1>i DEF PassedIsTracked, HasWord
<1>q. ASSUME NEW r \in Clerks, Moves(r), clerk'[r].pc # "save", clerk'[r].pc # "open"
      PROVE  AppendsOnly' /\ ReadsAreTracked'
  <2>1. \A s \in Clerks : clerk'[s].pc # "save" /\ clerk'[s].pc # "open"
    BY <1>q, <1>i, Alone
  <2> QED
    BY <2>1 DEF AppendsOnly, ReadsAreTracked
<1>2. ASSUME NEW r \in Clerks, NEW q \in Sweeps, Open(r, q)
      PROVE  AppendsOnly' /\ ReadsAreTracked' /\ PassedIsTracked'
  <2>1. clerk'[r] = [pc |-> "open", q |-> q, view |-> text] /\ UNCHANGED <<text, cases, touched>>
    BY <1>2, <1>t DEF Open
  <2>2. \A s \in Clerks : s # r => clerk'[s].pc = "idle"
    BY <1>2, <1>i, Alone DEF Moves
  <2>3. \A s \in Clerks : clerk'[s].pc # "save"
    BY <2>1, <2>2
  <2>4. ReadsAreTracked'
    <3> SUFFICES ASSUME NEW s \in Clerks, clerk'[s].pc = "open"
                 PROVE  clerk'[s].view = text'
      BY <2>3 DEF ReadsAreTracked
    <3> QED
      BY <2>1, <2>2
  <2> QED
    BY <2>1, <2>3, <2>4, <1>p DEF AppendsOnly, PassedIsTracked
<1>3. ASSUME NEW r \in Clerks, NEW q, NEW view, Loads(r, q, view)
      PROVE  AppendsOnly' /\ ReadsAreTracked' /\ PassedIsTracked'
  <2>1. UNCHANGED <<text, cases, touched>> /\ Moves(r)
    BY <1>3 DEF Loads, Moves
  <2>2. \A s \in Clerks : s # r => clerk'[s].pc = "idle"
    BY <2>1, <1>i, Alone
  <2>3. clerk'[r].pc \in {"idle", "save"}
    <3>1. CASE clerk'[r] = [pc |-> "idle"]
      BY <3>1
    <3>2. CASE clerk'[r] = [pc |-> "save", ledger |-> Ledger(q, view), read |-> ReadOf(q, view)]
      BY <3>2
    <3> QED
      BY <1>3, <3>1, <3>2, LoadIs DEF Loads
  <2>4. CASE clerk'[r].pc = "save"
    <3>1. \A s \in Clerks : clerk'[s].pc # "open" /\ (clerk'[s].pc = "save" => s = r)
      BY <2>2, <2>4
    <3>2. AppendsOnly'
      BY <1>3, <2>1, <2>4, <3>1, LoadsKeep DEF AppendsOnly
    <3>3. ReadsAreTracked'
      BY <1>3, <2>1, <2>4, <3>1, LoadsKeep DEF ReadsAreTracked
    <3>4. PassedIsTracked'
      BY <1>3, <1>p, <2>1, <2>4, <3>1, LoadsKeep DEF PassedIsTracked, HasWord
    <3> QED
      BY <3>2, <3>3, <3>4
  <2>5. CASE clerk'[r].pc = "idle"
    <3>1. \A s \in Clerks : clerk'[s].pc # "save"
      BY <2>2, <2>5
    <3> QED
      BY <1>p, <1>q, <2>1, <2>5, <3>1 DEF PassedIsTracked
  <2> QED
    BY <2>3, <2>4, <2>5
<1>4. ASSUME NEW r \in Clerks, Save(r)
      PROVE  AppendsOnly' /\ ReadsAreTracked' /\ PassedIsTracked'
  <2>1. /\ clerk[r].pc = "save" /\ cases' = clerk[r].ledger /\ text' = text
        /\ touched' = touched \ {c \in CaseIds : <<c, text[c[1]]>> \in clerk[r].read}
        /\ clerk'[r] = [pc |-> "idle"]
    BY <1>4, <1>t DEF Save
  <2>2. \A s \in Clerks : clerk'[s].pc = "idle"
    BY <1>4, <1>i, <2>1, Alone DEF Moves
  <2>3. ASSUME NEW c \in CaseIds, HasWord(c)', cases'[c] # NoCase, cases'[c].status = "rescan_passed"
        PROVE  c \in touched'
    BY <2>1, <2>3, <1>i DEF PassedIsTracked, HasWord
  <2> QED
    BY <2>2, <2>3 DEF AppendsOnly, ReadsAreTracked, PassedIsTracked
<1>5. ASSUME NEW r \in Clerks, Fail(r)
      PROVE  AppendsOnly' /\ ReadsAreTracked' /\ PassedIsTracked'
  <2>1. clerk'[r] = [pc |-> "idle"] /\ UNCHANGED <<text, cases, touched>>
    BY <1>5, <1>t DEF Fail
  <2>2. \A s \in Clerks : clerk'[s].pc = "idle"
    BY <1>5, <1>i, <2>1, Alone DEF Moves
  <2> QED
    BY <2>1, <2>2, <1>p DEF AppendsOnly, ReadsAreTracked, PassedIsTracked
<1>6. ASSUME NEW o \in Objects, NEW t \in Text, Rewrite(o, t)
      PROVE  SerialInv'
  <2>1. /\ text' = [text EXCEPT ![o] = t] /\ touched' = touched \cup {c \in CaseIds : c[1] = o}
        /\ UNCHANGED <<cases, clerk>>
    BY <1>6 DEF Rewrite
  <2>2. ASSUME NEW c \in CaseIds
        PROVE  c \in touched' \/ (text'[c[1]] = text[c[1]] /\ (c \in touched => c \in touched'))
    BY <2>1, <1>t DEF CaseIds
  <2>3. touched \subseteq touched'
    BY <2>1
  <2>4. ReadsAreTracked'
    <3>1. ASSUME NEW s \in Clerks, clerk[s].pc = "open", clerk[s].q.op = "rescan",
                 clerk[s].view[clerk[s].q.case[1]] # text'[clerk[s].q.case[1]]
          PROVE  clerk[s].q.case \in touched'
      <4>1. clerk[s].q.case \in CaseIds
        BY <3>1, ClerkKinds DEF Sweeps
      <4> QED
        BY <3>1, <4>1, <2>2, <2>3, <1>i DEF ReadsAreTracked
    <3>2. ASSUME NEW s \in Clerks, clerk[s].pc = "save", NEW e \in clerk[s].read, e[2] # text'[e[1][1]]
          PROVE  e[1] \in touched'
      <4>1. e[1] \in CaseIds
        BY <3>2, ClerkKinds
      <4> QED
        BY <3>2, <4>1, <2>2, <2>3, <1>i DEF ReadsAreTracked
    <3> QED
      BY <2>1, <3>1, <3>2 DEF ReadsAreTracked
  <2>5. PassedIsTracked'
    <3>1. ASSUME NEW c \in CaseIds, HasWord(c)' PROVE c \in touched' \/ HasWord(c)
      BY <2>2, <3>1 DEF HasWord
    <3> QED
      BY <2>1, <2>3, <3>1, <1>i DEF PassedIsTracked
  <2>6. OneClerk' /\ AppendsOnly'
    BY <2>1, <1>i DEF OneClerk, Active, AppendsOnly
  <2> QED
    BY <2>4, <2>5, <2>6 DEF SerialInv
<1>7. CASE UNCHANGED vars
  BY <1>7, <1>i DEF vars, SerialInv, OneClerk, Active, AppendsOnly, ReadsAreTracked, PassedIsTracked, HasWord
<1> QED
  BY <1>1, <1>2, <1>3, <1>4, <1>5, <1>6, <1>7, StepIs DEF Moves, SerialInv

LEMMA SerialAlways == WellFormed /\ MaxActive = 1 /\ Spec => [](TypeOK /\ SerialInv)
<1> SUFFICES ASSUME WellFormed, MaxActive = 1 PROVE Spec => [](TypeOK /\ SerialInv)
  OBVIOUS
<1>1. Init => SerialInv
  BY DEF Init, SerialInv, OneClerk, Active, AppendsOnly, ReadsAreTracked, PassedIsTracked
<1>2. TypeOK /\ SerialInv /\ [Next]_vars => SerialInv'
  BY SerialKept
<1> QED
  BY <1>1, <1>2, TypeCorrect, PTL DEF Spec

\* The file changes only when a request saves the ledger it computed.
LEMMA ChangedBySave ==
    ASSUME TypeOK, [Next]_vars, cases' # cases
    PROVE  \E r \in Clerks : Save(r) /\ clerk[r].pc = "save" /\ cases' = clerk[r].ledger
<1>1. ASSUME NEW r \in Clerks, Save(r) PROVE clerk[r].pc = "save" /\ cases' = clerk[r].ledger
  BY <1>1 DEF Save
<1> QED
  BY <1>1, StepIs DEF Open, Loads, Fail, Rewrite, vars

\* Served one at a time, requests only ever append to the trail of a case: no event of it is
\* lost or changed.
THEOREM TrailsOnlyGrow == WellFormed /\ MaxActive = 1 /\ Spec => TrailOnlyGrows
<1> SUFFICES ASSUME WellFormed, MaxActive = 1 PROVE Spec => TrailOnlyGrows
  OBVIOUS
<1>1. TypeOK /\ SerialInv /\ [Next]_vars => [TrailKept]_cases
  BY ChangedBySave DEF SerialInv, AppendsOnly, TrailKept
<1> QED
  BY <1>1, SerialAlways, PTL DEF Spec, TrailOnlyGrows

\* Served one at a time, a case is signed off while its object holds a listed word only if the
\* object was rewritten after the rescan that passed the case had opened the project.
THEOREM WordsCameLater == WellFormed /\ MaxActive = 1 /\ Spec => SignedOffWordCameLater
<1> SUFFICES ASSUME WellFormed, MaxActive = 1 PROVE Spec => SignedOffWordCameLater
  OBVIOUS
<1>1. TypeOK /\ SerialInv /\ [Next]_vars => [WordCameLater]_cases
  <2> SUFFICES ASSUME TypeOK, SerialInv, [Next]_vars, cases' # cases,
                      NEW c \in CaseIds, SignsOff(c), HasWord(c)
               PROVE  c \in touched
    BY DEF WordCameLater, HasWord
  <2>1. PICK r \in Clerks : clerk[r].pc = "save" /\ cases' = clerk[r].ledger
    BY ChangedBySave
  <2> QED
    BY <2>1 DEF SignsOff, SerialInv, PassedIsTracked
<1> QED
  BY <1>1, SerialAlways, PTL DEF Spec, SignedOffWordCameLater

-----------------------------------------------------------------------------
(***************************************************************************)
(* ReleaseGate                                                             *)
(***************************************************************************)

CONSTANTS MaxChars, LongEnough, Requests, Worlds, Edits, MaxEdits, MaxRequests
VARIABLES world, table, baseline, at, disk, last, spent

Release == INSTANCE ReleaseGate

LEMMA ReleaseCounts == \A S : Release!Cardinality(S) = Cardinality(S) /\ (Release!IsFiniteSet(S) <=> IsFiniteSet(S))
BY DEF Cardinality, Release!Cardinality, IsFiniteSet, Release!IsFiniteSet

\* The rules whose silence the proofs use are errors.
Fatal == {"PREREQ_MISSING", "PREREQ_CYCLE", "DIALOGUE_TREE_BROKEN_LINK"}

LEMMA PassedIsClean ==
    ASSUME NEW w, Release!Blockers(w) = {}
    PROVE  /\ Release!MissingPrerequisite(w) = {}
           /\ Release!PrerequisiteCycle(w) = {}
           /\ Release!BrokenLink(w) = {}
<1>1. \A i \in Release!AllIssues(w) : i[1] \notin Fatal
  <2> SUFFICES ASSUME NEW i \in Release!AllIssues(w), i[1] \in Fatal
               PROVE  FALSE
    OBVIOUS
  <2>1. Release!IsError(i)
    BY DEF Release!IsError, Release!Warnings, Fatal
  <2>2. i \in DOMAIN Release!Audit(w, {}) /\ Release!Audit(w, {})[i] = "open"
    BY DEF Release!Audit
  <2>3. i \in Release!Open(Release!Audit(w, {}))
    BY <2>2 DEF Release!Open
  <2> QED
    BY <2>1, <2>3 DEF Release!Blockers
<1>2. /\ Release!MissingPrerequisite(w) \subseteq Release!AllIssues(w)
      /\ Release!PrerequisiteCycle(w) \subseteq Release!AllIssues(w)
      /\ Release!BrokenLink(w) \subseteq Release!AllIssues(w)
  BY DEF Release!AllIssues
<1>3. \A i \in Release!MissingPrerequisite(w) : i[1] = "PREREQ_MISSING"
  BY DEF Release!MissingPrerequisite
<1>4. \A i \in Release!PrerequisiteCycle(w) : i[1] = "PREREQ_CYCLE"
  BY DEF Release!PrerequisiteCycle
<1>5. \A i \in Release!BrokenLink(w) : i[1] = "DIALOGUE_TREE_BROKEN_LINK"
  BY DEF Release!BrokenLink
<1> QED
  BY <1>1, <1>2, <1>3, <1>4, <1>5 DEF Fatal

\* What comes before a quest: whatever is asked for is there, with all that comes before it in turn.
LEMMA BeforeIs ==
    ASSUME NEW w, NEW seen
    PROVE  LET all == seen \cup UNION {w.quests[q].prereqs : q \in DOMAIN w.quests}
           IN  /\ seen \subseteq Release!Before(w, seen) /\ Release!Before(w, seen) \subseteq all
               /\ \A q \in Release!Before(w, seen) \cap DOMAIN w.quests : w.quests[q].prereqs \subseteq Release!Before(w, seen)
               /\ \A S \in SUBSET all : seen \subseteq S /\ (\A q \in S \cap DOMAIN w.quests : w.quests[q].prereqs \subseteq S)
                                        => Release!Before(w, seen) \subseteq S
<1> DEFINE all == seen \cup UNION {w.quests[q].prereqs : q \in DOMAIN w.quests}
           closed(S) == \A q \in S \cap DOMAIN w.quests : w.quests[q].prereqs \subseteq S
           B == {x \in all : \A S \in SUBSET all : seen \subseteq S /\ closed(S) => x \in S}
<1>1. Release!Before(w, seen) = B
  <2>1. Release!Before(w, seen) = {x \in all : \A S \in SUBSET all :
                                       seen \subseteq S /\ (\A y \in S : Release!Prereqs(w, y) \subseteq S) => x \in S}
    BY DEF Release!Before, Release!Reached
  <2>2. \A S : (\A y \in S : Release!Prereqs(w, y) \subseteq S) <=> closed(S)
    BY DEF Release!Prereqs
  <2> HIDE DEF all, closed
  <2> QED
    BY <2>1, <2>2
<1>2. seen \subseteq all /\ \A q \in DOMAIN w.quests : w.quests[q].prereqs \subseteq all
  OBVIOUS
<1> HIDE DEF all
<1>3. seen \subseteq B /\ B \subseteq all
  BY <1>2
<1>4. ASSUME NEW q \in B \cap DOMAIN w.quests, NEW p \in w.quests[q].prereqs
      PROVE  p \in B
  <2>1. p \in all
    BY <1>2
  <2>2. ASSUME NEW S \in SUBSET all, seen \subseteq S, closed(S)
        PROVE  p \in S
    <3>1. q \in S
      BY <2>2
    <3> QED
      BY <3>1, <2>2
  <2> QED
    BY <2>1, <2>2
<1>5. ASSUME NEW S \in SUBSET all, seen \subseteq S, closed(S)
      PROVE  B \subseteq S
  BY <1>5
<1>6. /\ seen \subseteq B /\ B \subseteq all
      /\ \A q \in B \cap DOMAIN w.quests : w.quests[q].prereqs \subseteq B
      /\ \A S \in SUBSET all : seen \subseteq S /\ closed(S) => B \subseteq S
  BY <1>3, <1>4, <1>5
<1> HIDE DEF B
<1> QED
  BY <1>1, <1>6 DEF all

\* Without missing and without cyclic prerequisites, the quests that come before rank them.
LEMMA CleanIsPlayable ==
    ASSUME NEW w, Release!Sized(w), Release!MissingPrerequisite(w) = {}, Release!PrerequisiteCycle(w) = {}
    PROVE  Release!Playable(w)
<1> DEFINE Q == DOMAIN w.quests
           before(q) == Release!Before(w, {q})
           pre(q) == w.quests[q].prereqs
           rank == [q \in Q |-> Cardinality(before(q))]
<1>0. IsFiniteSet(Q)
  BY ReleaseCounts DEF Release!Sized
<1>1. \A q \in Q : pre(q) \subseteq Q
  <2> SUFFICES ASSUME NEW q \in Q, NEW p \in pre(q), p \notin Q
               PROVE  FALSE
    OBVIOUS
  <2>1. <<"PREREQ_MISSING", <<"quest", q>>, p>> \in Release!MissingPrerequisite(w)
    BY DEF Release!MissingPrerequisite
  <2> QED
    BY <2>1
<1>2. \A q \in Q : q \notin Release!Before(w, pre(q))
  <2>1. Release!Cyclic(w) = {}
    <3> SUFFICES ASSUME Release!Cyclic(w) # {}
                 PROVE  FALSE
      OBVIOUS
    <3>1. \E x : Release!PrerequisiteCycle(w) = {x}
      BY DEF Release!PrerequisiteCycle
    <3> QED
      BY <3>1
  <2> QED
    BY <2>1 DEF Release!Cyclic
<1>3. \A q \in Q : UNION {w.quests[x].prereqs : x \in Q} \subseteq Q
  BY <1>1
<1>4. ASSUME NEW q \in Q
      PROVE  /\ q \in before(q) /\ before(q) \subseteq Q
             /\ \A x \in before(q) : pre(x) \subseteq before(q)
             /\ \A S \in SUBSET Q : q \in S /\ (\A x \in S : pre(x) \subseteq S) => before(q) \subseteq S
  <2> DEFINE all == {q} \cup UNION {w.quests[x].prereqs : x \in Q}
  <2>1. all \subseteq Q
    BY <1>1
  <2>2. /\ {q} \subseteq before(q) /\ before(q) \subseteq all
        /\ \A x \in before(q) \cap Q : pre(x) \subseteq before(q)
        /\ \A S \in SUBSET all : {q} \subseteq S /\ (\A x \in S \cap Q : pre(x) \subseteq S) => before(q) \subseteq S
    BY BeforeIs
  <2>3. ASSUME NEW S \in SUBSET Q, q \in S, \A x \in S : pre(x) \subseteq S
        PROVE  before(q) \subseteq S
    <3>1. S \cap all \in SUBSET all /\ {q} \subseteq S \cap all
      BY <2>3
    <3>2. \A x \in (S \cap all) \cap Q : pre(x) \subseteq S \cap all
      BY <2>3
    <3> HIDE DEF all, pre, before
    <3>3. before(q) \subseteq S \cap all
      BY <3>1, <3>2, <2>2
    <3> QED
      BY <3>3
  <2> HIDE DEF all, pre, before
  <2> QED
    BY <2>1, <2>2, <2>3
<1>5. ASSUME NEW q \in Q, NEW p \in pre(q)
      PROVE  before(p) \subseteq before(q) /\ q \notin before(p)
  <2>1. p \in Q
    BY <1>1
  <2>2. p \in before(q) /\ before(q) \in SUBSET Q
    BY <1>4
  <2>3. before(p) \subseteq before(q)
    <3> HIDE DEF before, pre
    <3> QED
      BY <2>1, <2>2, <1>4
  <2>4. before(p) \subseteq Release!Before(w, pre(q))
    <3> DEFINE all == pre(q) \cup UNION {w.quests[x].prereqs : x \in Q}
               C == Release!Before(w, pre(q))
    <3>1. /\ pre(q) \subseteq C /\ C \subseteq all
          /\ \A x \in C \cap Q : pre(x) \subseteq C
      BY BeforeIs
    <3>2. all \subseteq Q
      BY <1>1
    <3> HIDE DEF C, all, before, pre
    <3>3. C \in SUBSET Q /\ p \in C /\ \A x \in C : pre(x) \subseteq C
      BY <3>1, <3>2
    <3>4. before(p) \subseteq C
      BY <3>3, <2>1, <1>4
    <3> QED
      BY <3>4 DEF C
  <2> QED
    BY <2>3, <2>4, <1>2
<1>6. ASSUME NEW q \in Q
      PROVE  rank[q] \in 1 .. Cardinality(Q)
  <2>1. IsFiniteSet(before(q)) /\ Cardinality(before(q)) <= Cardinality(Q)
    BY <1>0, <1>4, FS_Subset
  <2>2. Cardinality(before(q)) \in Nat /\ Cardinality(before(q)) # 0 /\ Cardinality(Q) \in Nat
    BY <2>1, <1>0, <1>4, FS_EmptySet, FS_CardinalityType
  <2> QED
    BY <2>1, <2>2
<1>7. ASSUME NEW q \in Q, NEW p \in pre(q)
      PROVE  p \in Q /\ rank[p] < rank[q]
  <2>1. p \in Q
    BY <1>1
  <2>2. IsFiniteSet(before(q)) /\ IsFiniteSet(before(p))
    BY <1>0, <1>4, <2>1, FS_Subset
  <2>3. before(p) \subseteq before(q) /\ before(p) # before(q)
    BY <1>4, <1>5
  <2>4. Cardinality(before(p)) < Cardinality(before(q))
    <3> DEFINE S == before(q)  T == before(p)
    <3>1. IsFiniteSet(S) /\ T \in SUBSET S /\ T # S
      BY <2>2, <2>3
    <3> HIDE DEF S, T
    <3>2. Cardinality(T) <= Cardinality(S) /\ Cardinality(T) # Cardinality(S)
      BY <3>1, FS_Subset
    <3>3. Cardinality(S) \in Nat /\ Cardinality(T) \in Nat
      BY <3>1, FS_Subset, FS_CardinalityType
    <3>4. Cardinality(T) < Cardinality(S)
      BY <3>2, <3>3
    <3> QED
      BY <3>4 DEF S, T
  <2> QED
    BY <2>1, <2>4
<1>8. rank \in [Q -> 1 .. Cardinality(Q)]
  BY <1>6
<1>9. \A q \in Q : \A p \in w.quests[q].prereqs : p \in Q /\ rank[p] < rank[q]
  BY <1>7
<1> HIDE DEF rank
<1>10. Release!Playable(w) <=> \E r \in [Q -> 1 .. Cardinality(Q)] :
                                  \A q \in Q : \A p \in w.quests[q].prereqs : p \in Q /\ r[p] < r[q]
  <2>1. Release!Cardinality(Q) = Cardinality(Q)
    BY ReleaseCounts
  <2> QED
    BY <2>1 DEF Release!Playable
<1> QED
  BY <1>8, <1>9, <1>10

LEMMA CleanIsSpoken ==
    ASSUME NEW w, Release!BrokenLink(w) = {}
    PROVE  Release!Spoken(w)
<1>1. ASSUME NEW t \in DOMAIN w.trees, NEW l \in Release!Links(w.trees[t])
      PROVE  l[2] \in DOMAIN w.trees[t].nodes
  <2> SUFFICES ASSUME l[2] \notin DOMAIN w.trees[t].nodes
               PROVE  FALSE
    OBVIOUS
  <2>1. <<"DIALOGUE_TREE_BROKEN_LINK", <<"dialogue_tree", t>>, l[1]>> \in Release!BrokenLink(w)
    BY DEF Release!BrokenLink
  <2> QED
    BY <2>1
<1>2. ASSUME NEW t \in DOMAIN w.trees
      PROVE  w.trees[t].root \in DOMAIN w.trees[t].nodes
  <2>1. <<<<"", 0>>, w.trees[t].root>> \in Release!Links(w.trees[t])
    BY DEF Release!Links
  <2>2. <<<<"", 0>>, w.trees[t].root>>[2] = w.trees[t].root
    OBVIOUS
  <2> QED
    BY <2>1, <2>2, <1>1
<1> QED
  BY <1>1, <1>2 DEF Release!Spoken

-----------------------------------------------------------------------------

Passed(w) == Release!Blockers(w) = {} /\ Release!Sized(w)
Saving == {"saving", "marking"}
Exports == {"bundle", "sum", "texts", "sum texts", "manifest"}
AuditFields == {"step", "kind", "on", "found", "left", "alone"}
ExportFields == {"step", "on", "files"}

ReleaseTypes ==
    /\ DOMAIN at = Requests
    /\ \A r \in Requests : at[r].step \in Saving \cup Exports \cup {"idle", "accepting"}
    /\ DOMAIN disk = {"bundle", "texts", "manifest"}
    /\ \A i \in DOMAIN table : table[i] \in {"open", "suppressed", "fixed"}
    /\ Release!Sized(world)

\* An audit that met no other has its rows in the table as it found them, but for those left.
MetNoOther(r) ==
    /\ Release!Running = {r}
    /\ \A i \in DOMAIN at[r].found \ at[r].left : i \in DOMAIN table /\ table[i] = at[r].found[i]
Auditing(r) ==
    /\ DOMAIN at[r] = AuditFields
    /\ at[r].left \subseteq DOMAIN at[r].found
    /\ \A i \in DOMAIN at[r].found : at[r].found[i] \in {"open", "suppressed"}
    /\ at[r].step = "marking" => at[r].left = {}
    /\ at[r].alone => MetNoOther(r)
Audits == \A r \in Requests : at[r].step \in Saving => Auditing(r)

TableIsLast ==
    Release!Running = {} /\ last # Release!NoAudit /\ last.alone =>
        {i \in DOMAIN table : table[i] = "open"} = Release!Open(last.found)
PhaseIsEarned ==
    last # Release!NoAudit /\ last.phase \in {"complete_design", "ready_to_export"} => Release!Blockers(last.on) = {}

\* Once a bundle is on the disk, whichever is there has passed the gate.
Exporting ==
    /\ \A r \in Requests : at[r].step \in Exports =>
          /\ DOMAIN at[r] = ExportFields
          /\ Passed(at[r].on)
          /\ at[r].step # "bundle" => Passed(disk.bundle)
    /\ disk.manifest # Release!NoFile => Passed(disk.bundle)

ReleaseInv == ReleaseTypes /\ Audits /\ TableIsLast /\ PhaseIsEarned /\ Exporting

LEMMA RunningIs == Release!Running = {r \in Requests : at[r].step \in Saving}
BY DEF Release!Running, Saving

LEMMA StepOf ==
    ASSUME NEW r \in Requests, NEW req, DOMAIN at = Requests, at' = [at EXCEPT ![r] = req]
    PROVE  DOMAIN at' = Requests /\ at'[r] = req /\ \A x \in Requests \ {r} : at'[x] = at[x]
OBVIOUS

LEMMA IdleIs == Release!Idle.step = "idle"
BY DEF Release!Idle

LEMMA AuditIs ==
    ASSUME NEW w, NEW accepted
    PROVE  /\ DOMAIN Release!Audit(w, accepted) = Release!AllIssues(w)
           /\ \A i \in Release!AllIssues(w) : Release!Audit(w, accepted)[i] \in {"open", "suppressed"}
BY DEF Release!Audit

LEMMA BeginKeeps ==
    ASSUME ReleaseInv, NEW r \in Requests, NEW kind, NEW w, NEW accepted, at[r] = Release!Idle,
           Release!Begin(r, kind, w, accepted), UNCHANGED <<table, disk, last>>, Release!Sized(world')
    PROVE  ReleaseInv'
<1> DEFINE found == Release!Audit(w, accepted)
           req == [step |-> "saving", kind |-> kind, on |-> w, found |-> found,
                   left |-> Release!AllIssues(w), alone |-> Release!Running = {}]
<1>0. ReleaseTypes /\ Audits /\ PhaseIsEarned /\ Exporting
  BY DEF ReleaseInv
<1>1. at' = [x \in Requests |-> IF x = r THEN req
                               ELSE IF x \in Release!Running THEN [at[x] EXCEPT !.alone = FALSE] ELSE at[x]]
  BY DEF Release!Begin
<1>2. /\ req.step = "saving" /\ req.found = found /\ req.left = DOMAIN found /\ req.alone = (Release!Running = {})
      /\ DOMAIN req = AuditFields /\ \A i \in DOMAIN found : found[i] \in {"open", "suppressed"}
  BY AuditIs DEF AuditFields
<1>3. r \notin Release!Running
  BY RunningIs, IdleIs DEF Saving
<1> HIDE DEF req, found
<1>4. DOMAIN at' = Requests /\ at'[r] = req
  BY <1>1
<1>5. ASSUME NEW x \in Requests, x # r, x \in Release!Running
      PROVE  /\ at'[x].step = at[x].step /\ DOMAIN at'[x] = AuditFields /\ at'[x].left = at[x].left
             /\ at'[x].found = at[x].found /\ at'[x].alone = FALSE
  <2>1. at'[x] = [at[x] EXCEPT !.alone = FALSE]
    BY <1>1, <1>5
  <2>2. DOMAIN at[x] = AuditFields
    BY <1>0, <1>5, RunningIs DEF Audits, Auditing
  <2> QED
    BY <2>1, <2>2 DEF AuditFields
<1>6. \A x \in Requests : x # r /\ x \notin Release!Running => at'[x] = at[x]
  BY <1>1
<1>7. Release!Running' = Release!Running \cup {r}
  <2>1. Release!Running' = {x \in Requests : at'[x].step \in Saving}
    BY DEF Release!Running, Saving
  <2>2. \A x \in Requests : at'[x].step \in Saving <=> x = r \/ x \in Release!Running
    BY <1>2, <1>4, <1>5, <1>6, RunningIs DEF Saving
  <2> QED
    BY <2>1, <2>2, RunningIs
<1>8. ReleaseTypes'
  <2>1. \A x \in Requests : at'[x].step \in Saving \cup Exports \cup {"idle", "accepting"}
    BY <1>0, <1>2, <1>4, <1>5, <1>6 DEF ReleaseTypes, Saving
  <2> QED
    BY <2>1, <1>0, <1>4 DEF ReleaseTypes
<1>9. Audits'
  <2>1. ASSUME NEW x \in Requests, at'[x].step \in Saving
        PROVE  Auditing(x)'
    <3>1. CASE x = r
      <4>1. at'[r].alone => Release!Running' = {r}
        BY <1>2, <1>4, <1>7
      <4>2. MetNoOther(r)' <=> Release!Running' = {r} /\ \A i \in DOMAIN at'[r].found \ at'[r].left : i \in DOMAIN table' /\ table'[i] = at'[r].found[i]
        BY DEF MetNoOther
      <4>3. at'[r].alone => MetNoOther(r)'
        BY <4>1, <4>2, <1>2, <1>4
      <4> QED
        BY <3>1, <4>3, <1>2, <1>4 DEF Auditing
    <3>2. CASE x # r
      <4>1. x \in Release!Running
        BY <3>2, <2>1, <1>6, RunningIs
      <4>2. Auditing(x)
        BY <4>1, <1>0, RunningIs DEF Audits
      <4> QED
        BY <3>2, <4>1, <4>2, <1>5 DEF Auditing
    <3> QED
      BY <3>1, <3>2
  <2> QED
    BY <2>1 DEF Audits
<1>10. TableIsLast'
  BY <1>7 DEF TableIsLast
<1>11. PhaseIsEarned'
  BY <1>0 DEF PhaseIsEarned
<1>12. Exporting'
  <2>1. \A x \in Requests : at'[x].step \in Exports => at'[x] = at[x]
    <3>1. \A x \in Release!Running : x \in Requests /\ at[x].step \notin Exports
      BY RunningIs DEF Saving, Exports
    <3>2. req.step \notin Exports
      BY <1>2 DEF Exports
    <3> QED
      BY <3>1, <3>2, <1>4, <1>5, <1>6
  <2> QED
    BY <2>1, <1>0 DEF Exporting
<1> QED
  BY <1>8, <1>9, <1>10, <1>11, <1>12 DEF ReleaseInv

\* A step of an audit in its own request, which goes on saving: nobody else is alone.
LEMMA SaverSteps ==
    ASSUME ReleaseInv, NEW r \in Requests, NEW req, at[r].step \in Saving, at' = [at EXCEPT ![r] = req],
           req.step \in Saving, UNCHANGED <<world, disk, last>>,
           \A i \in DOMAIN table' : table'[i] \in {"open", "suppressed", "fixed"},
           DOMAIN req = AuditFields, req.found = at[r].found, req.left \subseteq at[r].left, req.alone = at[r].alone,
           req.step = "marking" => req.left = {},
           \A i \in DOMAIN table : i \in DOMAIN table' /\ (i \notin at[r].left => table'[i] = table[i]),
           \A i \in at[r].left \ req.left : i \in DOMAIN table' /\ table'[i] = at[r].found[i]
    PROVE  ReleaseInv'
<1>0. ReleaseTypes /\ Audits /\ PhaseIsEarned /\ Exporting /\ Auditing(r)
  BY DEF ReleaseInv, Audits
<1>1. DOMAIN at' = Requests /\ at'[r] = req /\ \A x \in Requests \ {r} : at'[x] = at[x]
  BY <1>0, StepOf DEF ReleaseTypes
<1>2. Release!Running' = Release!Running /\ r \in Release!Running
  <2>1. Release!Running' = {x \in Requests : at'[x].step \in Saving}
    BY DEF Release!Running, Saving
  <2>2. \A x \in Requests : at'[x].step \in Saving <=> at[x].step \in Saving
    BY <1>1
  <2> QED
    BY <2>1, <2>2, RunningIs
<1>3. ReleaseTypes'
  <2>1. \A x \in Requests : at'[x].step \in Saving \cup Exports \cup {"idle", "accepting"}
    BY <1>0, <1>1 DEF ReleaseTypes
  <2> QED
    BY <2>1, <1>0, <1>1 DEF ReleaseTypes
<1>4. Audits'
  <2>1. ASSUME NEW x \in Requests, at'[x].step \in Saving
        PROVE  Auditing(x)'
    <3>1. CASE x = r
      <4>1. ASSUME req.alone
            PROVE  MetNoOther(r)'
        <5>1. MetNoOther(r)
          BY <4>1, <1>0 DEF Auditing
        <5>2. ASSUME NEW i \in DOMAIN req.found \ req.left
              PROVE  i \in DOMAIN table' /\ table'[i] = req.found[i]
          <6>1. CASE i \in at[r].left
            BY <6>1, <5>2
          <6>2. CASE i \notin at[r].left
            <7>1. i \in DOMAIN table /\ table[i] = at[r].found[i]
              BY <6>2, <5>1, <5>2 DEF MetNoOther
            <7> QED
              BY <7>1, <6>2
          <6> QED
            BY <6>1, <6>2
        <5>3. Release!Running' = {r}
          BY <5>1, <1>2 DEF MetNoOther
        <5> QED
          BY <5>2, <5>3, <1>1 DEF MetNoOther
      <4> QED
        BY <3>1, <4>1, <1>0, <1>1 DEF Auditing
    <3>2. CASE x # r
      <4>1. at'[x] = at[x] /\ Auditing(x)
        BY <3>2, <2>1, <1>0, <1>1 DEF Audits
      <4>2. ~at[x].alone
        BY <4>1, <3>2, <1>2 DEF Auditing, MetNoOther
      <4> QED
        BY <4>1, <4>2 DEF Auditing
    <3> QED
      BY <3>1, <3>2
  <2> QED
    BY <2>1 DEF Audits
<1>5. TableIsLast'
  BY <1>2 DEF TableIsLast
<1>6. PhaseIsEarned'
  BY <1>0 DEF PhaseIsEarned
<1>7. Exporting'
  <2>1. \A x \in Requests : at'[x].step \in Exports => at'[x] = at[x]
    BY <1>1 DEF Saving, Exports
  <2> QED
    BY <2>1, <1>0 DEF Exporting
<1> QED
  BY <1>3, <1>4, <1>5, <1>6, <1>7 DEF ReleaseInv

LEMMA SaveIssueKeeps ==
    ASSUME ReleaseInv, NEW r \in Requests, Release!SaveIssue(r)
    PROVE  ReleaseInv'
<1>0. at[r].step = "saving" /\ UNCHANGED <<world, disk, last>>
  BY DEF Release!SaveIssue
<1>1. at[r].step \in Saving /\ Auditing(r) /\ \A i \in DOMAIN table : table[i] \in {"open", "suppressed", "fixed"}
  BY <1>0 DEF ReleaseInv, ReleaseTypes, Audits, Saving
<1>2. CASE at[r].left = {}
  <2> DEFINE req == [at[r] EXCEPT !.step = "marking"]
  <2>1. at' = [at EXCEPT ![r] = req] /\ table' = table
    BY <1>0, <1>2 DEF Release!SaveIssue
  <2>2. DOMAIN req = AuditFields /\ req.step = "marking" /\ req.found = at[r].found /\ req.left = at[r].left /\ req.alone = at[r].alone
    BY <1>1 DEF Auditing, AuditFields
  <2> HIDE DEF req
  <2>3. req.step \in Saving
    BY <2>2 DEF Saving
  <2> QED
    BY <1>0, <1>1, <1>2, <2>1, <2>2, <2>3, SaverSteps
<1>3. CASE at[r].left # {}
  <2> DEFINE i == CHOOSE i \in at[r].left : TRUE
             req == [at[r] EXCEPT !.left = at[r].left \ {i}]
             rows == [x \in DOMAIN table \cup {i} |-> IF x = i THEN at[r].found[i] ELSE table[x]]
  <2>1. at' = [at EXCEPT ![r] = req] /\ table' = rows
    BY <1>0, <1>3 DEF Release!SaveIssue
  <2>2. i \in at[r].left
    BY <1>3
  <2> HIDE DEF i
  <2>3. /\ DOMAIN req = AuditFields /\ req.step = "saving" /\ req.found = at[r].found /\ req.left = at[r].left \ {i}
        /\ req.alone = at[r].alone
    BY <1>0, <1>1 DEF Auditing, AuditFields
  <2>4. i \in DOMAIN at[r].found /\ at[r].found[i] \in {"open", "suppressed"}
    BY <1>1, <2>2 DEF Auditing
  <2>5. /\ \A x \in DOMAIN rows : rows[x] \in {"open", "suppressed", "fixed"}
        /\ \A x \in DOMAIN table : x \in DOMAIN rows /\ (x \notin at[r].left => rows[x] = table[x])
        /\ i \in DOMAIN rows /\ rows[i] = at[r].found[i]
    BY <1>1, <2>2, <2>4
  <2> HIDE DEF req, rows
  <2>6. req.step \in Saving
    BY <2>3 DEF Saving
  <2> QED
    BY <1>0, <1>1, <2>1, <2>2, <2>3, <2>5, <2>6, SaverSteps
<1> QED
  BY <1>2, <1>3

LEMMA MarkResolvedKeeps ==
    ASSUME ReleaseInv, NEW r \in Requests, Release!MarkResolved(r)
    PROVE  ReleaseInv'
<1> DEFINE found == at[r].found
           req == IF at[r].kind = "command" THEN [step |-> "accepting", open |-> Release!Open(at[r].found)] ELSE Release!Idle
           phase == IF at[r].kind = "command" THEN "none" ELSE Release!Phase(at[r].on, found)
<1>0. ReleaseTypes /\ Audits /\ Exporting
  BY DEF ReleaseInv
<1>1. /\ at[r].step = "marking" /\ UNCHANGED <<world, disk>> /\ at' = [at EXCEPT ![r] = req]
      /\ last' = [step |-> "saved", found |-> found, on |-> at[r].on, alone |-> at[r].alone, phase |-> phase]
      /\ table' = Release!Marked(table, found)
  BY DEF Release!MarkResolved
<1>2. req.step \in {"accepting", "idle"}
  BY IdleIs
<1>3. /\ DOMAIN table' = DOMAIN table
      /\ \A i \in DOMAIN table : table'[i] = IF table[i] = "open" /\ i \notin DOMAIN found THEN "fixed" ELSE table[i]
  BY <1>1 DEF Release!Marked
<1>4. Auditing(r) /\ r \in Release!Running
  BY <1>0, <1>1, RunningIs DEF Audits, Saving
<1>5. last'.found = found /\ last'.on = at[r].on /\ last'.alone = at[r].alone /\ last'.phase = phase
  <2> HIDE DEF phase, found
  <2> QED
    BY <1>1
<1> HIDE DEF req, found
<1>6. DOMAIN at' = Requests /\ at'[r] = req /\ \A x \in Requests \ {r} : at'[x] = at[x]
  BY <1>0, <1>1, StepOf DEF ReleaseTypes
<1>7. ReleaseTypes'
  <2>1. \A x \in Requests : at'[x].step \in Saving \cup Exports \cup {"idle", "accepting"}
    BY <1>0, <1>2, <1>6 DEF ReleaseTypes
  <2>2. \A i \in DOMAIN table' : table'[i] \in {"open", "suppressed", "fixed"}
    BY <1>0, <1>3 DEF ReleaseTypes
  <2> QED
    BY <2>1, <2>2, <1>0, <1>1, <1>6 DEF ReleaseTypes
<1>8. Audits'
  <2>1. ASSUME NEW x \in Requests, at'[x].step \in Saving
        PROVE  Auditing(x)'
    <3>1. x # r
      BY <2>1, <1>2, <1>6 DEF Saving
    <3>2. at'[x] = at[x] /\ Auditing(x)
      BY <3>1, <2>1, <1>0, <1>6 DEF Audits
    <3>3. ~at[x].alone
      BY <3>1, <3>2, <1>4 DEF Auditing, MetNoOther
    <3> QED
      BY <3>2, <3>3 DEF Auditing
  <2> QED
    BY <2>1 DEF Audits
<1>9. TableIsLast'
  <2> SUFFICES ASSUME last'.alone
               PROVE  {i \in DOMAIN table' : table'[i] = "open"} = Release!Open(found)
    BY <1>5 DEF TableIsLast, Release!Open
  <2>1. MetNoOther(r) /\ at[r].left = {}
    BY <1>1, <1>4, <1>5 DEF Auditing
  <2>2. \A i \in DOMAIN found : i \in DOMAIN table /\ table[i] = found[i]
    BY <2>1 DEF MetNoOther, found
  <2>3. Release!Open(found) = {i \in DOMAIN found : found[i] = "open"}
    BY DEF Release!Open
  <2> QED
    BY <2>2, <2>3, <1>3
<1>10. PhaseIsEarned'
  <2>1. phase \in {"complete_design", "ready_to_export"} => Release!Blockers(at[r].on) = {}
    BY DEF Release!Phase
  <2> HIDE DEF phase
  <2>2. last'.phase \in {"complete_design", "ready_to_export"} => Release!Blockers(last'.on) = {}
    BY <2>1, <1>5
  <2>3. Release!Blockers(last.on)' = Release!Blockers(last'.on)
    OBVIOUS
  <2> QED
    BY <2>2, <2>3 DEF PhaseIsEarned
<1>11. Exporting'
  <2>1. \A x \in Requests : at'[x].step \in Exports => at'[x] = at[x]
    BY <1>2, <1>6 DEF Exports
  <2> QED
    BY <2>1, <1>0, <1>1 DEF Exporting
<1> QED
  BY <1>7, <1>8, <1>9, <1>10, <1>11 DEF ReleaseInv

\* A step that saves no audit: of an export, or the end of a request; if it was saving, no audit is the last.
LEMMA OtherSteps ==
    ASSUME ReleaseInv, NEW r \in Requests, NEW req, at' = [at EXCEPT ![r] = req], UNCHANGED <<world, table>>,
           (last' = last /\ at[r].step \notin Saving) \/ last' = Release!NoAudit,
           req.step \in Exports \cup {"idle", "accepting"},
           req.step \in Exports => /\ DOMAIN req = ExportFields /\ Passed(req.on)
                                   /\ req.step # "bundle" => Passed(disk'.bundle),
           DOMAIN disk' = {"bundle", "texts", "manifest"},
           Passed(disk'.bundle) \/ (disk'.bundle = disk.bundle /\ disk'.manifest = disk.manifest)
    PROVE  ReleaseInv'
<1>0. ReleaseTypes /\ Audits /\ TableIsLast /\ PhaseIsEarned /\ Exporting
  BY DEF ReleaseInv
<1>1. DOMAIN at' = Requests /\ at'[r] = req /\ \A x \in Requests \ {r} : at'[x] = at[x]
  BY <1>0, StepOf DEF ReleaseTypes
<1>2. at'[r].step \notin Saving
  BY <1>1 DEF Saving, Exports
<1>3. Release!Running' = {x \in Requests : at'[x].step \in Saving}
  BY DEF Release!Running, Saving
<1>4. Release!Running' = Release!Running \ {r}
  <2>1. \A x \in Requests : at'[x].step \in Saving <=> (at[x].step \in Saving /\ x # r)
    BY <1>1, <1>2
  <2> QED
    BY <1>3, <2>1, RunningIs
<1>5. ReleaseTypes'
  <2>1. \A x \in Requests : at'[x].step \in Saving \cup Exports \cup {"idle", "accepting"}
    BY <1>0, <1>1 DEF ReleaseTypes
  <2> QED
    BY <2>1, <1>0, <1>1 DEF ReleaseTypes
<1>6. Audits'
  <2>1. ASSUME NEW x \in Requests, at'[x].step \in Saving
        PROVE  Auditing(x)'
    <3>1. x # r /\ at'[x] = at[x] /\ Auditing(x)
      BY <2>1, <1>0, <1>1, <1>2 DEF Audits
    <3>2. MetNoOther(x) => MetNoOther(x)'
      BY <3>1, <1>4 DEF MetNoOther
    <3> QED
      BY <3>1, <3>2 DEF Auditing
  <2> QED
    BY <2>1 DEF Audits
<1>7. TableIsLast' /\ PhaseIsEarned'
  <2>1. CASE last' = Release!NoAudit
    BY <2>1 DEF TableIsLast, PhaseIsEarned, Release!NoAudit
  <2>2. CASE last' = last /\ at[r].step \notin Saving
    <3>1. Release!Running' = Release!Running
      BY <2>2, <1>4, RunningIs
    <3> QED
      BY <2>2, <3>1, <1>0 DEF TableIsLast, PhaseIsEarned, Release!NoAudit, Release!Open
  <2> QED
    BY <2>1, <2>2
<1>8. Exporting'
  <2>1. ASSUME NEW x \in Requests, at'[x].step \in Exports
        PROVE  /\ DOMAIN at'[x] = ExportFields /\ Passed(at'[x].on)
               /\ at'[x].step # "bundle" => Passed(disk'.bundle)
    <3>1. CASE x = r
      BY <3>1, <2>1, <1>1
    <3>2. CASE x # r
      BY <3>2, <2>1, <1>0, <1>1 DEF Exporting
    <3> QED
      BY <3>1, <3>2
  <2>2. disk'.manifest # Release!NoFile => Passed(disk'.bundle)
    BY <1>0 DEF Exporting
  <2> QED
    BY <2>1, <2>2 DEF Exporting, Release!NoFile, Passed, Release!Sized
<1> QED
  BY <1>5, <1>6, <1>7, <1>8 DEF ReleaseInv

LEMMA DiskIs ==
    ASSUME ReleaseInv
    PROVE  DOMAIN disk = {"bundle", "texts", "manifest"} /\ \A r \in Requests : at[r].step \in Exports =>
               DOMAIN at[r] = ExportFields /\ Passed(at[r].on) /\ (at[r].step # "bundle" => Passed(disk.bundle))
BY DEF ReleaseInv, ReleaseTypes, Exporting

LEMMA GateKeeps ==
    ASSUME ReleaseInv, NEW r \in Requests, Release!Gate(r)
    PROVE  ReleaseInv'
<1>1. at[r] = Release!Idle /\ UNCHANGED <<world, table, disk, last>> /\ at[r].step \notin Saving
  BY IdleIs DEF Release!Gate, Release!Take, Saving
<1>2. CASE Release!Blockers(world) = {}
  <2> DEFINE req == [step |-> "bundle", on |-> world, files |-> <<>>]
  <2>1. at' = [at EXCEPT ![r] = req]
    BY <1>2 DEF Release!Gate
  <2>2. req.step = "bundle" /\ req.on = world /\ DOMAIN req = ExportFields
    BY DEF ExportFields
  <2>3. Passed(world)
    BY <1>2 DEF Passed, ReleaseInv, ReleaseTypes
  <2> HIDE DEF req
  <2>4. req.step \in Exports
    BY <2>2 DEF Exports
  <2> QED
    BY <1>1, <2>1, <2>2, <2>3, <2>4, DiskIs, OtherSteps
<1>3. CASE Release!Blockers(world) # {}
  <2>1. UNCHANGED at
    BY <1>3 DEF Release!Gate
  <2> QED
    BY <1>1, <2>1 DEF ReleaseInv, ReleaseTypes, Audits, Auditing, MetNoOther, TableIsLast, PhaseIsEarned, Exporting,
                      Release!Running
<1> QED
  BY <1>2, <1>3

LEMMA WriteBundleKeeps ==
    ASSUME ReleaseInv, NEW r \in Requests, Release!WriteBundle(r)
    PROVE  ReleaseInv'
<1> DEFINE req == [at[r] EXCEPT !.step = "sum"]
<1>1. /\ at[r].step = "bundle" /\ disk' = [disk EXCEPT !["bundle"] = at[r].on] /\ at' = [at EXCEPT ![r] = req]
      /\ UNCHANGED <<world, table, last>>
  BY DEF Release!WriteBundle, Release!Write
<1>2. DOMAIN at[r] = ExportFields /\ Passed(at[r].on) /\ at[r].step \notin Saving
  BY <1>1, DiskIs DEF Exports, Saving
<1>3. req.step = "sum" /\ req.on = at[r].on /\ DOMAIN req = ExportFields
  BY <1>2 DEF ExportFields
<1>4. DOMAIN disk' = {"bundle", "texts", "manifest"} /\ disk'.bundle = at[r].on
  BY <1>1, DiskIs
<1> HIDE DEF req
<1>5. req.step \in Exports
  BY <1>3 DEF Exports
<1> QED
  BY <1>1, <1>2, <1>3, <1>4, <1>5, OtherSteps

LEMMA ChecksumKeeps ==
    ASSUME ReleaseInv, NEW r \in Requests, NEW step \in {"sum", "sum texts"}, NEW file,
           NEW next \in {"texts", "manifest"}, Release!Checksum(r, step, file, next)
    PROVE  ReleaseInv'
<1>1. at[r].step = step /\ UNCHANGED <<world, table, disk, last>>
  BY DEF Release!Checksum
<1>2. \E files : at' = [at EXCEPT ![r] = [at[r] EXCEPT !.step = next, !.files = files]]
  BY DEF Release!Checksum
<1>3. PICK files : at' = [at EXCEPT ![r] = [at[r] EXCEPT !.step = next, !.files = files]]
  BY <1>2
<1>4. DOMAIN at[r] = ExportFields /\ Passed(at[r].on) /\ Passed(disk.bundle) /\ at[r].step \notin Saving
  BY <1>1, DiskIs DEF Exports, Saving
<1> DEFINE req == [at[r] EXCEPT !.step = next, !.files = files]
<1>5. req.step = next /\ req.on = at[r].on /\ DOMAIN req = ExportFields
  BY <1>4 DEF ExportFields
<1>6. at' = [at EXCEPT ![r] = req]
  BY <1>3
<1> HIDE DEF req
<1>7. req.step \in Exports
  BY <1>5 DEF Exports
<1> QED
  BY <1>1, <1>4, <1>5, <1>6, <1>7, DiskIs, OtherSteps

LEMMA WriteTextsKeeps ==
    ASSUME ReleaseInv, NEW r \in Requests, Release!WriteTexts(r)
    PROVE  ReleaseInv'
<1> DEFINE req == [at[r] EXCEPT !.step = "sum texts"]  texts == Release!Localized(at[r].on)
<1>1. /\ at[r].step = "texts" /\ disk' = [disk EXCEPT !["texts"] = texts] /\ at' = [at EXCEPT ![r] = req]
      /\ UNCHANGED <<world, table, last>>
  BY DEF Release!WriteTexts, Release!Write
<1>2. DOMAIN at[r] = ExportFields /\ Passed(at[r].on) /\ Passed(disk.bundle) /\ at[r].step \notin Saving
  BY <1>1, DiskIs DEF Exports, Saving
<1>3. req.step = "sum texts" /\ req.on = at[r].on /\ DOMAIN req = ExportFields
  BY <1>2 DEF ExportFields
<1> HIDE DEF texts
<1>4. DOMAIN disk' = {"bundle", "texts", "manifest"} /\ disk'.bundle = disk.bundle
  BY <1>1, DiskIs
<1> HIDE DEF req
<1>5. req.step \in Exports
  BY <1>3 DEF Exports
<1> QED
  BY <1>1, <1>2, <1>3, <1>4, <1>5, OtherSteps

LEMMA WriteManifestKeeps ==
    ASSUME ReleaseInv, NEW r \in Requests, Release!WriteManifest(r)
    PROVE  ReleaseInv'
<1> DEFINE manifest == [of |-> at[r].on, files |-> at[r].files]
<1>1. /\ at[r].step = "manifest" /\ disk' = [disk EXCEPT !["manifest"] = manifest] /\ at' = [at EXCEPT ![r] = Release!Idle]
      /\ UNCHANGED <<world, table, last>>
  BY DEF Release!WriteManifest, Release!Write
<1>2. Passed(disk.bundle) /\ at[r].step \notin Saving
  BY <1>1, DiskIs DEF Exports, Saving
<1> HIDE DEF manifest
<1>3. DOMAIN disk' = {"bundle", "texts", "manifest"} /\ disk'.bundle = disk.bundle
  BY <1>1, DiskIs
<1>4. Release!Idle.step \notin Exports
  BY IdleIs DEF Exports
<1> QED
  BY <1>1, <1>2, <1>3, <1>4, IdleIs, OtherSteps

\* An object is deleted, and finitely many quests stay.
LEMMA DeletedSized ==
    ASSUME Release!Sized(world), NEW w \in Release!Deleted
    PROVE  Release!Sized(w)
<1>0. "quests" \in DOMAIN world /\ IsFiniteSet(DOMAIN world.quests)
  BY ReleaseCounts DEF Release!Sized
<1>1. "quests" \in DOMAIN w /\ DOMAIN w.quests \subseteq DOMAIN world.quests
  <2>1. \A f, id : DOMAIN Release!Without(f, id) \subseteq DOMAIN f
    BY DEF Release!Without
  <2>2. \/ \E x : w = [world EXCEPT !.entities = x]
        \/ \E x, y : w = [world EXCEPT !.entities = x, !.relations = y]
        \/ w = [world EXCEPT !.quests = Release!Without(world.quests, "q1")]
        \/ \E x : w = [world EXCEPT !.trees = x]
    BY DEF Release!Deleted
  <2>3. CASE \E x : w = [world EXCEPT !.entities = x]
    BY <2>3, <1>0
  <2>4. CASE \E x, y : w = [world EXCEPT !.entities = x, !.relations = y]
    BY <2>4, <1>0
  <2>5. CASE w = [world EXCEPT !.quests = Release!Without(world.quests, "q1")]
    BY <2>1, <2>5, <1>0
  <2>6. CASE \E x : w = [world EXCEPT !.trees = x]
    BY <2>6, <1>0
  <2> QED
    BY <2>2, <2>3, <2>4, <2>5, <2>6
<1>2. IsFiniteSet(DOMAIN w.quests)
  BY <1>0, <1>1, FS_Subset
<1> QED
  BY <1>1, <1>2, ReleaseCounts DEF Release!Sized

LEMMA ReleaseSteps ==
    ASSUME Release!WellFormed, ReleaseInv, [Release!Next]_Release!vars
    PROVE  ReleaseInv'
<1>0. Release!Sized(world) /\ (world' = world => Release!Sized(world'))
  BY DEF ReleaseInv, ReleaseTypes
<1>1. CASE UNCHANGED Release!vars
  BY <1>1 DEF Release!vars, ReleaseInv, ReleaseTypes, Audits, Auditing, MetNoOther, TableIsLast, PhaseIsEarned, Exporting,
              Release!Running
<1>2. CASE Release!Edit
  <2>1. Release!Sized(world')
    BY <1>2 DEF Release!Edit, Release!WellFormed
  <2>2. UNCHANGED <<table, at, disk, last>>
    BY <1>2 DEF Release!Edit
  <2> QED
    BY <2>1, <2>2 DEF ReleaseInv, ReleaseTypes, Audits, Auditing, MetNoOther, TableIsLast, PhaseIsEarned, Exporting,
                      Release!Running
<1>3. ASSUME NEW r \in Requests, Release!RequestAudit(r) \/ Release!CommandAudit(r)
      PROVE  ReleaseInv'
  <2>1. CASE Release!RequestAudit(r)
    BY <2>1, <1>0, BeginKeeps DEF Release!RequestAudit, Release!Take
  <2>2. CASE Release!CommandAudit(r)
    BY <2>2, <1>0, BeginKeeps DEF Release!CommandAudit, Release!Take
  <2> QED
    BY <1>3, <2>1, <2>2
<1>4. ASSUME NEW r \in Requests, Release!DeleteObject(r)
      PROVE  ReleaseInv'
  <2>1. Release!Sized(world')
    BY <1>4, <1>0, DeletedSized DEF Release!DeleteObject
  <2> QED
    BY <1>4, <2>1, BeginKeeps DEF Release!DeleteObject
<1>5. ASSUME NEW r \in Requests, Release!SaveIssue(r) \/ Release!MarkResolved(r)
      PROVE  ReleaseInv'
  BY <1>5, SaveIssueKeeps, MarkResolvedKeeps
<1>6. ASSUME NEW r \in Requests, Release!UpdateBaseline(r)
      PROVE  ReleaseInv'
  <2>1. at[r].step \notin Saving /\ Release!Idle.step \notin Exports
    BY <1>6, IdleIs DEF Release!UpdateBaseline, Saving, Exports
  <2>2. UNCHANGED <<world, table, disk, last>> /\ at' = [at EXCEPT ![r] = Release!Idle]
    BY <1>6 DEF Release!UpdateBaseline
  <2> QED
    BY <2>1, <2>2, IdleIs, DiskIs, OtherSteps
<1>7. ASSUME NEW r \in Requests, Release!Gate(r) \/ Release!WriteBundle(r) \/ Release!WriteTexts(r) \/ Release!WriteManifest(r)
      PROVE  ReleaseInv'
  BY <1>7, GateKeeps, WriteBundleKeeps, WriteTextsKeeps, WriteManifestKeeps
<1>8. ASSUME NEW r \in Requests, Release!SumBundle(r) \/ Release!SumTexts(r)
      PROVE  ReleaseInv'
  <2>1. CASE Release!SumBundle(r)
    BY <2>1, ChecksumKeeps DEF Release!SumBundle
  <2>2. CASE Release!SumTexts(r)
    BY <2>2, ChecksumKeeps DEF Release!SumTexts
  <2> QED
    BY <1>8, <2>1, <2>2
<1>9. ASSUME NEW r \in Requests, Release!Crash(r)
      PROVE  ReleaseInv'
  <2>1. /\ UNCHANGED <<world, table, disk>> /\ at' = [at EXCEPT ![r] = Release!Idle]
        /\ last' = IF r \in Release!Running THEN Release!NoAudit ELSE last
    BY <1>9 DEF Release!Crash
  <2>2. Release!Idle.step \notin Exports
    BY IdleIs DEF Exports
  <2>3. (last' = last /\ at[r].step \notin Saving) \/ last' = Release!NoAudit
    BY <2>1, RunningIs
  <2> QED
    BY <2>1, <2>2, <2>3, IdleIs, DiskIs, OtherSteps
<1> QED
  BY <1>1, <1>2, <1>3, <1>4, <1>5, <1>6, <1>7, <1>8, <1>9 DEF Release!Next

LEMMA ReleaseBegins ==
    ASSUME Release!WellFormed, Release!Init
    PROVE  ReleaseInv
<1>1. /\ world \in Worlds /\ table = <<>> /\ DOMAIN at = Requests /\ \A r \in Requests : at[r].step = "idle"
      /\ disk = [bundle |-> Release!NoFile, texts |-> Release!NoFile, manifest |-> Release!NoFile]
      /\ last = Release!NoAudit
  BY IdleIs DEF Release!Init
<1>2. DOMAIN disk = {"bundle", "texts", "manifest"} /\ disk.manifest = Release!NoFile
  BY <1>1
<1>3. ReleaseTypes
  BY <1>1, <1>2 DEF ReleaseTypes, Release!WellFormed
<1>4. Audits /\ TableIsLast /\ PhaseIsEarned
  BY <1>1 DEF Audits, TableIsLast, PhaseIsEarned, Saving
<1>5. Exporting
  BY <1>1, <1>2 DEF Exporting, Exports
<1> QED
  BY <1>3, <1>4, <1>5 DEF ReleaseInv

LEMMA ReleaseInvAlways ==
    ASSUME Release!WellFormed
    PROVE  Release!Spec => []ReleaseInv
<1>1. Release!Init => ReleaseInv
  BY ReleaseBegins
<1>2. ReleaseInv /\ [Release!Next]_Release!vars => ReleaseInv'
  BY ReleaseSteps
<1> QED
  BY <1>1, <1>2, PTL DEF Release!Spec

\* run_full_audit, run_project_export_action and next_action, by any number of requests at once: once no audit
\* is being saved the open rows are what the last one found open, if no other was saved beside it; a
\* release with a manifest holds a bundle free of errors and of AI content that nobody reviewed, whose
\* quests can be played in some order and whose conversations stay in their trees; and what the
\* harness calls past review passes the gate.
THEOREM ReleasesAreSound ==
    ASSUME Release!WellFormed
    PROVE  Release!Spec => []Release!ReleaseIsSound
<1>1. ReleaseInv => Release!ReleaseIsSound
  <2> SUFFICES ASSUME ReleaseInv
               PROVE  Release!ReleaseIsSound
    OBVIOUS
  <2>1. ASSUME disk.manifest # Release!NoFile
        PROVE  Release!Blockers(disk.bundle) = {} /\ Release!Playable(disk.bundle) /\ Release!Spoken(disk.bundle)
    <3> DEFINE b == disk.bundle
    <3>1. Release!Blockers(b) = {} /\ Release!Sized(b)
      BY <2>1 DEF ReleaseInv, Exporting, Passed
    <3> HIDE DEF b
    <3>2. /\ Release!MissingPrerequisite(b) = {} /\ Release!PrerequisiteCycle(b) = {} /\ Release!BrokenLink(b) = {}
      BY <3>1, PassedIsClean
    <3>3. Release!Playable(b) /\ Release!Spoken(b)
      BY <3>1, <3>2, CleanIsPlayable, CleanIsSpoken
    <3> QED
      BY <3>1, <3>3 DEF b
  <2> QED
    BY <2>1 DEF ReleaseInv, TableIsLast, PhaseIsEarned, Release!ReleaseIsSound
<1> QED
  BY <1>1, ReleaseInvAlways, PTL

\* The table of issues, the requests and the files of a release keep their types.
THEOREM ReleasesKeepTypes ==
    ASSUME Release!WellFormed
    PROVE  Release!Spec => []Release!TypeOK
<1>1. ReleaseInv => Release!TypeOK
  BY DEF ReleaseInv, ReleaseTypes, Saving, Exports, Release!TypeOK
<1> QED
  BY <1>1, ReleaseInvAlways, PTL
===============================================================================
