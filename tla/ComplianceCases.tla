-------------------------- MODULE ComplianceCases --------------------------
(***************************************************************************)
(* compliance/: the remediation cases of a world, kept in one JSON file.   *)
(* A scan opens a case for each object its sweep hits, people move a case  *)
(* along, a rescan decides whether the violation is gone.  A request opens *)
(* the project, reads the whole file and writes it back, in three steps.   *)
(***************************************************************************)
EXTENDS Naturals, Sequences, FiniteSets, SequencesExt

CONSTANTS
    Objects,    \* canon objects
    Clerks,     \* requests being served
    MaxActive,  \* bound: requests served at a time
    MaxTrail,   \* bound: events on one case
    MaxRewrites,\* bound: edits of an object's text
    NoCase

VARIABLES
    text,      \* what each object says: nothing bad, a listed word, or its sense in other words
    cases,     \* cases.json: NoCase or [status, trail]
    clerk,     \* where each request is, the bundle it opened and the ledger it will write
    touched,   \* cases whose object no longer says what their last rescan read (auxiliary)
    rewrites

vars == <<text, cases, clerk, touched, rewrites>>

Text     == {"clean", "word", "sense"}
Layers   == {"term", "judge"}
CaseIds  == Objects \X Layers
Statuses == {"flagged", "assigned", "fixing", "rescan_passed", "signed_off", "dismissed"}

MANUAL_TRANSITIONS ==
    [flagged       |-> {"assigned", "dismissed"},
     assigned      |-> {"fixing", "dismissed"},
     fixing        |-> {"dismissed"},
     rescan_passed |-> {"signed_off", "fixing", "dismissed"},
     signed_off    |-> {},
     dismissed     |-> {}]

Opened == [status |-> "flagged", trail |-> <<>>]

\* A status change and the event that records it.
To(c, s, by) == [status |-> s, trail |-> Append(c.trail, [by |-> by, from |-> c.status, to |-> s])]

\* One finding per object: a listed word is always seen and hides the object from the judge;
\* the judge, which runs only with a model, sees the sense in the batches whose answer could
\* be read (judged).
Hits(view, judged) ==
    {c \in CaseIds : IF c[2] = "term" THEN view[c[1]] = "word"
                                      ELSE view[c[1]] = "sense" /\ c[1] \in judged}

Init ==
    /\ text \in [Objects -> Text]
    /\ cases = [c \in CaseIds |-> NoCase]
    /\ clerk = [r \in Clerks |-> [pc |-> "idle"]]
    /\ touched = {}
    /\ rewrites = 0

Active == {r \in Clerks : clerk[r].pc # "idle"}

Sweeps ==
    [op : {"scan"}, judged : SUBSET Objects]
    \cup [op : {"rescan"}, case : CaseIds, judged : SUBSET Objects]
Transitions == [op : {"transition"}, case : CaseIds, to : Statuses]

\* A scan or a rescan opens the project, which loads the bundle the sweep will read.
Open(r, q) ==
    /\ clerk[r].pc = "idle"
    /\ Cardinality(Active) < MaxActive
    /\ clerk' = [clerk EXCEPT ![r] = [pc |-> "open", q |-> q, view |-> text]]
    /\ UNCHANGED <<text, cases, touched, rewrites>>

\* open_cases_from_sweep: only a signed-off case is reopened, other cases stay as they are.
Merge(old, hits) ==
    [c \in CaseIds |->
        IF c \notin hits THEN old[c]
        ELSE IF old[c] = NoCase THEN Opened
        ELSE IF old[c].status = "signed_off" THEN To(old[c], "flagged", "system")
        ELSE old[c]]

\* A bug: only the layer that opened the case counts.
StillHitByLayer(q, view) == q.case \in Hits(view, q.judged)

\* Whatever layer hits the object counts.
StillHit(q, view) == q.case[1] \in {c[1] : c \in Hits(view, q.judged)}

\* A bug: a rescan may be asked for in any status.
LegalAnyRescan(q) ==
    CASE q.op = "scan"       -> TRUE
      [] q.op = "transition" -> cases[q.case] # NoCase
                                /\ q.to \in MANUAL_TRANSITIONS[cases[q.case].status]
      [] q.op = "rescan"     -> cases[q.case] # NoCase

\* transition and rescan_case refuse what the case's status does not allow.
Legal(q) ==
    CASE q.op = "scan"       -> TRUE
      [] q.op = "transition" -> cases[q.case] # NoCase
                                /\ q.to \in MANUAL_TRANSITIONS[cases[q.case].status]
      [] q.op = "rescan"     -> cases[q.case] # NoCase
                                /\ cases[q.case].status \in {"fixing", "rescan_passed"}

Ledger(q, view) ==
    CASE q.op = "scan"       -> Merge(cases, Hits(view, q.judged))
      [] q.op = "transition" -> [cases EXCEPT ![q.case] = To(@, q.to, "human")]
      [] q.op = "rescan"     -> [cases EXCEPT ![q.case] =
                                    To(@, IF StillHit(q, view) THEN "fixing" ELSE "rescan_passed", "rescan")]

\* The ledger is read and the request refused or the ledger to write computed.
Load(r, q, view) ==
    IF Legal(q)
    THEN /\ \A c \in CaseIds : cases[c] # NoCase => Len(cases[c].trail) < MaxTrail
         /\ clerk' = [clerk EXCEPT ![r] = [pc |-> "save", ledger |-> Ledger(q, view),
                                           read |-> IF q.op = "rescan" THEN {<<q.case, view[q.case[1]]>>}
                                                                       ELSE {}]]
    ELSE clerk' = [clerk EXCEPT ![r] = [pc |-> "idle"]]

LoadAfterOpen(r) ==
    /\ clerk[r].pc = "open"
    /\ Load(r, clerk[r].q, clerk[r].view)
    /\ UNCHANGED <<text, cases, touched, rewrites>>

\* A transition does not look at the bundle.
LoadTransition(r, q) ==
    /\ clerk[r].pc = "idle"
    /\ Cardinality(Active) < MaxActive
    /\ Load(r, q, text)
    /\ UNCHANGED <<text, cases, touched, rewrites>>

Save(r) ==
    /\ clerk[r].pc = "save"
    /\ cases' = clerk[r].ledger
    /\ touched' = touched \ {c \in CaseIds : <<c, text[c[1]]>> \in clerk[r].read}
    /\ clerk' = [clerk EXCEPT ![r] = [pc |-> "idle"]]
    /\ UNCHANGED <<text, rewrites>>

\* The sweep's model call raises, or the process dies.
Fail(r) ==
    /\ clerk[r].pc # "idle"
    /\ clerk' = [clerk EXCEPT ![r] = [pc |-> "idle"]]
    /\ UNCHANGED <<text, cases, touched, rewrites>>

\* update_entity_action and the like, a request of its own.
Rewrite(o, t) ==
    /\ rewrites < MaxRewrites
    /\ t # text[o]
    /\ text' = [text EXCEPT ![o] = t]
    /\ touched' = touched \cup {c \in CaseIds : c[1] = o}
    /\ rewrites' = rewrites + 1
    /\ UNCHANGED <<cases, clerk>>

Next ==
    \/ \E r \in Clerks :
          \/ \E q \in Sweeps : Open(r, q)
          \/ \E q \in Transitions : LoadTransition(r, q)
          \/ LoadAfterOpen(r) \/ Save(r) \/ Fail(r)
    \/ \E o \in Objects, t \in Text : Rewrite(o, t)

Spec == Init /\ [][Next]_vars

-----------------------------------------------------------------------------
Case == [status : Statuses,
         trail : Seq([by : {"human", "rescan", "system"}, from : Statuses, to : Statuses])]

Cases == [CaseIds -> Case \cup {NoCase}]

\* What the proofs need of the constants: finitely many requests, and no case is NoCase.
WellFormed ==
    /\ IsFiniteSet(Clerks)
    /\ MaxRewrites \in Nat
    /\ NoCase \notin Case

ClerkStates ==
    {[pc |-> "idle"]}
    \cup [pc : {"open"}, q : Sweeps, view : [Objects -> Text]]
    \cup [pc : {"save"}, ledger : Cases, read : SUBSET (CaseIds \X Text)]

TypeOK ==
    /\ text \in [Objects -> Text]
    /\ cases \in Cases
    /\ clerk \in [Clerks -> ClerkStates]
    /\ touched \subseteq CaseIds
    /\ rewrites \in 0..MaxRewrites

\* One event of a trail is a legal step: by hand along MANUAL_TRANSITIONS, by a rescan between
\* fixing and rescan_passed, by a scan out of signed_off.
LegalEvent(e) ==
    CASE e.by = "human"  -> e.to \in MANUAL_TRANSITIONS[e.from]
      [] e.by = "rescan" -> {e.from, e.to} \subseteq {"fixing", "rescan_passed"}
      [] e.by = "system" -> e.from = "signed_off" /\ e.to = "flagged"

\* The trail explains the status: it is an unbroken legal path from "flagged" to it, however
\* requests overlap and overwrite each other's ledgers (a case is always saved whole).  In
\* particular a case reaches signed_off only through a rescan that passed.
Explained(x) ==
    LET t == x.trail IN
    /\ \A k \in 1..Len(t) : LegalEvent(t[k])
    /\ \A k \in 1..Len(t) : t[k].from = IF k = 1 THEN "flagged" ELSE t[k-1].to
    /\ x.status = IF t = <<>> THEN "flagged" ELSE t[Len(t)].to

TrailExplainsStatus == \A c \in CaseIds : cases[c] # NoCase => Explained(cases[c])

\* The trail cannot be disowned: served one at a time, requests only ever append to it.
TrailKept ==
    \A c \in CaseIds : cases[c] # NoCase =>
        cases'[c] # NoCase /\ IsPrefix(cases[c].trail, cases'[c].trail)
TrailOnlyGrows == [][TrailKept]_cases

SignsOff(c) == cases'[c] # NoCase /\ cases'[c].status = "signed_off" /\ cases[c] # cases'[c]

\* Served one at a time: a case is signed off while its object holds a listed word only if
\* the object was rewritten after the rescan that passed it had opened the project.
WordCameLater == \A c \in CaseIds : SignsOff(c) /\ text[c[1]] = "word" => c \in touched
SignedOffWordCameLater == [][WordCameLater]_cases

\* What compliance/service.py promises: a violation that is not gone can never be signed off.
SignedOffIsGone == [][\A c \in CaseIds : SignsOff(c) => text[c[1]] = "clean"]_cases
-----------------------------------------------------------------------------
\* Strengthenings, for the proofs.  The ledgers about to be written explain themselves as well.
TrailInv ==
    /\ TrailExplainsStatus
    /\ \A r \in Clerks, c \in CaseIds :
          clerk[r].pc = "save" /\ clerk[r].ledger[c] # NoCase => Explained(clerk[r].ledger[c])

OneClerk == \A r, s \in Active : r = s

\* A request served alone saves what is in the file and its own events.
AppendsOnly ==
    \A r \in Clerks, c \in CaseIds : clerk[r].pc = "save" /\ cases[c] # NoCase =>
        clerk[r].ledger[c] # NoCase /\ IsPrefix(cases[c].trail, clerk[r].ledger[c].trail)

HasWord(c) == text[c[1]] = "word"

\* A text that is not what a rescan has read, or will be found to have read, counts as touched.
ReadsAreTracked ==
    \A r \in Clerks :
        /\ clerk[r].pc = "open" /\ clerk[r].q.op = "rescan" =>
              LET c == clerk[r].q.case IN clerk[r].view[c[1]] # text[c[1]] => c \in touched
        /\ clerk[r].pc = "save" =>
              \A e \in clerk[r].read : e[2] # text[e[1][1]] => e[1] \in touched

\* No rescan passes a word that it has read; and a case that was passed, or is about to be passed
\* or signed off, and holds a listed word now was touched.
PassedIsTracked ==
    /\ \A c \in CaseIds :
          HasWord(c) /\ cases[c] # NoCase /\ cases[c].status = "rescan_passed" => c \in touched
    /\ \A r \in Clerks, c \in CaseIds : clerk[r].pc = "save" /\ clerk[r].ledger[c] # NoCase =>
          LET x == clerk[r].ledger[c] IN
          /\ x.status = "rescan_passed" => <<c, "word">> \notin clerk[r].read
          /\ HasWord(c) /\ (x.status = "rescan_passed" \/ (x.status = "signed_off" /\ x # cases[c])) =>
                c \in touched

SerialInv == OneClerk /\ AppendsOnly /\ ReadsAreTracked /\ PassedIsTracked
=============================================================================
