------------------------- MODULE JobManager_proofs -------------------------
(***************************************************************************)
(* Theorems about JobManager, for every set of jobs and streams, every     *)
(* size of the table and every number of progress events.                  *)
(***************************************************************************)
EXTENDS JobManager, SequenceTheorems, TLAPS

Events == SeqUpTo(Event, MaxEmits + 1)

\* A bounded sequence is a sequence with a bounded length.
LEMMA UpTo ==
    ASSUME NEW S, NEW n \in Nat, NEW s
    PROVE  s \in SeqUpTo(S, n) <=> s \in Seq(S) /\ Len(s) <= n
<1>1. ASSUME s \in Seq(S), Len(s) <= n PROVE s \in SeqUpTo(S, n)
  <2>1. Len(s) \in 0..n /\ s \in [1..Len(s) -> S]
    BY <1>1, LenProperties
  <2> QED
    BY <2>1 DEF SeqUpTo
<1>2. ASSUME s \in SeqUpTo(S, n) PROVE s \in Seq(S) /\ Len(s) <= n
  <2>1. PICK k \in 0..n : s \in [1..k -> S]
    BY <1>2 DEF SeqUpTo
  <2> QED
    BY <2>1
<1> QED
  BY <1>1, <1>2

\* The events of a job, and what a stream has sent, are such sequences.
LEMMA EventsAre ==
    ASSUME NEW s
    PROVE  s \in Events <=> s \in Seq(Event) /\ Len(s) <= MaxEmits + 1
BY UpTo, JobAssumption DEF Events

LEMMA NoEvents == <<>> \in Events
<1>1. <<>> \in Seq(Event) /\ Len(<<>>) = 0
  BY EmptySeq
<1>2. 0 <= MaxEmits + 1
  BY JobAssumption
<1> QED
  BY <1>1, <1>2, EventsAre

\* A prefix of the events stays one when an event is appended.
LEMMA PrefixStays ==
    ASSUME NEW s \in Seq(Event), NEW e \in Event, NEW n \in 0..Len(s)
    PROVE  /\ Append(s, e) \in Seq(Event) /\ Len(Append(s, e)) = Len(s) + 1
           /\ \A k \in 1..Len(s) : Append(s, e)[k] = s[k]
           /\ Append(s, e)[Len(s) + 1] = e
           /\ SubSeq(Append(s, e), 1, n) = SubSeq(s, 1, n)
<1>1. /\ Append(s, e) \in Seq(Event) /\ Len(Append(s, e)) = Len(s) + 1
      /\ \A k \in 1..Len(s) : Append(s, e)[k] = s[k]
      /\ Append(s, e)[Len(s) + 1] = e
  BY AppendProperties
<1>2. n \in Nat /\ n <= Len(s)
  BY LenProperties
<1>3. \A k \in 1..n : s[k] \in Event /\ Append(s, e)[k] = s[k]
  BY <1>1, <1>2, ElementOfSeq
<1>4. /\ SubSeq(s, 1, n) \in Seq(Event)
      /\ Len(SubSeq(s, 1, n)) = IF 1 <= n THEN n - 1 + 1 ELSE 0
      /\ \A k \in 1..(n - 1 + 1) : SubSeq(s, 1, n)[k] = s[1 + k - 1]
  BY <1>2, <1>3, SubSeqProperties
<1>5. /\ SubSeq(Append(s, e), 1, n) \in Seq(Event)
      /\ Len(SubSeq(Append(s, e), 1, n)) = IF 1 <= n THEN n - 1 + 1 ELSE 0
      /\ \A k \in 1..(n - 1 + 1) : SubSeq(Append(s, e), 1, n)[k] = Append(s, e)[1 + k - 1]
  BY <1>2, <1>3, SubSeqProperties
<1>6. Len(SubSeq(s, 1, n)) = n /\ Len(SubSeq(Append(s, e), 1, n)) = n
  BY <1>2, <1>4, <1>5
<1>7. \A k \in 1..n : SubSeq(s, 1, n)[k] = s[k] /\ SubSeq(Append(s, e), 1, n)[k] = Append(s, e)[k]
  BY <1>2, <1>4, <1>5
<1>8. SubSeq(Append(s, e), 1, n) = SubSeq(s, 1, n)
  BY <1>3, <1>4, <1>5, <1>6, <1>7, SeqEqual
<1> QED
  BY <1>1, <1>8

\* What was sent, and what is new, is all there is.
LEMMA PrefixGrows ==
    ASSUME NEW s \in Seq(Event), NEW n \in 0..Len(s)
    PROVE  SubSeq(s, 1, n) \o SubSeq(s, n + 1, Len(s)) = SubSeq(s, 1, Len(s))
           /\ SubSeq(s, 1, Len(s)) = s
<1>1. Len(s) \in Nat
  BY LenProperties
<1>2. 1 \in 1..(Len(s) + 1) /\ n \in (1 - 1)..Len(s) /\ Len(s) \in n..Len(s)
  BY <1>1
<1> QED
  BY <1>2, ConcatAdjacentSubSeq, SubSeqFull
-----------------------------------------------------------------------------
\* Waking the streams changes nothing but where they are.
LEMMA AwakeIs ==
    ASSUME TypeOK
    PROVE  /\ Awake \in [Readers -> {[pc |-> "none"]} \cup Streams]
           /\ \A r \in Readers : \/ Awake[r] = reader[r] /\ reader[r].pc # "waiting"
                                 \/ reader[r].pc = "waiting" /\ Awake[r] = [reader[r] EXCEPT !.pc = "looking"]
<1>1. ASSUME NEW r \in Readers, reader[r].pc = "waiting"
      PROVE  [reader[r] EXCEPT !.pc = "looking"] \in Streams
  BY <1>1 DEF TypeOK, Streams
<1> QED
  BY <1>1 DEF TypeOK, Awake

\* Only jobs with a terminal status are pruned.
LEMMA PrunedAreTerminal == \A S : \A j \in Pruned(S) : job[j].status \in Terminal
BY DEF Pruned

\* The parts of the invariant that speak of one job depend on nothing but its state.
LEMMA WorkerUnmoved ==
    ASSUME NEW j \in Jobs, WorkerInv(j), worker'[j] = worker[j], job'[j] = job[j],
           j \in table' => j \in table
    PROVE  WorkerInv(j)'
BY DEF WorkerInv, Going, Final

\* What a step may do to a job that a stream reads: its events only grow, and they do not grow, nor
\* does the job leave the table, while the stream waits; nor do they grow once it has ended.
Keeps(j, pc) ==
    /\ worker'[j] \notin {"none", "created"}
    /\ j \in table' => j \in table
    /\ \/ job'[j].events = job[j].events
       \/ \E e \in Event : job'[j].events = Append(job[j].events, e)
    /\ pc = "waiting" =>
          j \in table' /\ job'[j].events = job[j].events /\ job'[j].status \notin Terminal
    /\ pc = "closed" /\ j \in table =>
          job'[j].events = job[j].events /\ job'[j].status \in Terminal

\* A stream that a step leaves where it is, or wakes up, has still sent what it should.
LEMMA StreamUnmoved ==
    ASSUME JobInv, NEW r \in Readers,
           \/ reader'[r] = reader[r]
           \/ reader[r].pc = "waiting" /\ reader'[r] = [reader[r] EXCEPT !.pc = "looking"],
           Connected(r) => Keeps(reader[r].job, reader'[r].pc)
    PROVE  ReaderInv(r)'
<1> SUFFICES ASSUME Connected(r)' PROVE ReaderInv(r)'
  BY DEF ReaderInv
<1> DEFINE j == reader[r].job
           n == reader[r].index
<1>1. Connected(r)
  BY DEF Connected
<1>2. reader[r] \in Streams /\ job[j].events \in Events /\ j \in Jobs
  BY <1>1 DEF JobInv, TypeOK, Connected, Streams, Events
<1>3. /\ reader'[r].job = j /\ reader'[r].index = n /\ reader'[r].got = reader[r].got
      /\ reader'[r].pc = reader[r].pc \/ reader'[r].pc = "looking"
  BY <1>2 DEF Streams
<1>4. ReaderInv(r)
  BY DEF JobInv
<1>5. n <= Len(job[j].events) /\ reader[r].got = SubSeq(job[j].events, 1, n)
  BY <1>1, <1>4 DEF ReaderInv
<1>6. job[j].events \in Seq(Event) /\ n \in 0..Len(job[j].events)
  BY <1>2, <1>5, EventsAre, JobAssumption, LenProperties DEF Streams
<1>k. Keeps(j, reader'[r].pc)
  BY <1>1
<1>7. n <= Len(job'[j].events) /\ reader[r].got = SubSeq(job'[j].events, 1, n)
  <2>1. CASE job'[j].events = job[j].events
    BY <2>1, <1>5
  <2>2. ASSUME NEW e \in Event, job'[j].events = Append(job[j].events, e)
        PROVE  n <= Len(job'[j].events) /\ reader[r].got = SubSeq(job'[j].events, 1, n)
    <3> DEFINE s == job[j].events
    <3>1. s \in Seq(Event) /\ n \in 0..Len(s) /\ Len(s) \in Nat
      BY <1>6, LenProperties
    <3> HIDE DEF s
    <3>2. Len(Append(s, e)) = Len(s) + 1 /\ SubSeq(Append(s, e), 1, n) = SubSeq(s, 1, n)
      BY <3>1, PrefixStays
    <3> QED
      BY <2>2, <3>1, <3>2, <1>5 DEF s
  <2> QED
    BY <1>k, <2>1, <2>2 DEF Keeps
<1>8. CASE reader'[r].pc = "looking"
  BY <1>1, <1>3, <1>7, <1>8, <1>k DEF ReaderInv, Keeps
<1>9. CASE reader'[r].pc = reader[r].pc
  BY <1>1, <1>3, <1>4, <1>7, <1>9, <1>k DEF ReaderInv, Keeps
<1> QED
  BY <1>3, <1>8, <1>9
-----------------------------------------------------------------------------
Job == [status : Status, events : Events, outcome : BOOLEAN]

\* The two ways to change a job in the table: its status, or one event more.
LEMMA SetStatusIs ==
    ASSUME TypeOK, NEW j \in table, NEW s \in Status, SetStatus(j, s)
    PROVE  /\ job' \in [Jobs -> Job] /\ reader' = Awake
           /\ \A i \in Jobs : i # j => job'[i] = job[i]
           /\ job'[j].status = s /\ job'[j].events = job[j].events /\ job'[j].outcome = job[j].outcome
<1>1. job \in [Jobs -> Job] /\ j \in Jobs
  BY DEF TypeOK, Job, Events
<1>2. [job[j] EXCEPT !.status = s] \in Job
  BY <1>1 DEF Job
<1> QED
  BY <1>1, <1>2 DEF SetStatus, Job

LEMMA AppendEventIs ==
    ASSUME TypeOK, NEW j \in table, NEW e \in Event, Len(job[j].events) <= MaxEmits, AppendEvent(j, e)
    PROVE  /\ job' \in [Jobs -> Job] /\ reader' = Awake
           /\ \A i \in Jobs : i # j => job'[i] = job[i]
           /\ job'[j].events = Append(job[j].events, e)
           /\ job'[j].status = job[j].status /\ job'[j].outcome = job[j].outcome
<1>1. job \in [Jobs -> Job] /\ j \in Jobs
  BY DEF TypeOK, Job, Events
<1> DEFINE old == job[j].events
<1>2. old \in Seq(Event) /\ Len(old) \in Nat /\ Len(old) <= MaxEmits
  BY <1>1, EventsAre, LenProperties DEF Job
<1>3. Append(old, e) \in Events
  <2> HIDE DEF old
  <2>1. Append(old, e) \in Seq(Event) /\ Len(Append(old, e)) = Len(old) + 1
    BY <1>2, AppendProperties
  <2>2. Len(old) + 1 <= MaxEmits + 1
    BY <1>2, JobAssumption
  <2> QED
    BY <2>1, <2>2, EventsAre
<1>4. [job[j] EXCEPT !.events = Append(old, e)] \in Job
  BY <1>1, <1>3 DEF Job
<1> QED
  BY <1>1, <1>4 DEF AppendEvent, Job

\* An event appended to a job under way leaves it under way, or is its final one.
LEMMA GoingOn ==
    ASSUME TypeOK, NEW j \in table, NEW e \in Event, Going(j), AppendEvent(j, e)
    PROVE  /\ e = "progress" /\ Len(job[j].events) < MaxEmits => Going(j)'
           /\ Final(j, e)'
<1> DEFINE s == job[j].events
<1>1. /\ job'[j].events = Append(s, e)
      /\ s \in Seq(Event) /\ Len(s) \in Nat
      /\ \A k \in 1..Len(s) : s[k] = "progress"
  <2>1. j \in Jobs /\ s \in Events
    BY DEF TypeOK, Events
  <2> QED
    BY <2>1, AppendEventIs, EventsAre, LenProperties DEF Going
<1> HIDE DEF s
<1>2. /\ Append(s, e) \in Seq(Event) /\ Len(Append(s, e)) = Len(s) + 1
      /\ \A k \in 1..Len(s) : Append(s, e)[k] = s[k]
      /\ Append(s, e)[Len(s) + 1] = e
  BY <1>1, AppendProperties
<1>3. Append(s, e) # <<>>
  BY <1>1, <1>2
<1>4. Final(j, e)'
  BY <1>1, <1>2, <1>3 DEF Final
<1>5. ASSUME e = "progress", Len(s) < MaxEmits PROVE Going(j)'
  <2>1. Len(Append(s, e)) <= MaxEmits
    BY <1>1, <1>2, <1>5, JobAssumption
  <2>2. \A k \in 1..(Len(s) + 1) : Append(s, e)[k] = "progress"
    BY <1>1, <1>2, <1>5
  <2> QED
    BY <1>1, <1>2, <2>1, <2>2 DEF Going
<1> QED
  BY <1>4, <1>5 DEF s
-----------------------------------------------------------------------------
\* The invariant, when a step leaves every stream where it is or wakes it up.
LEMMA JobsMove ==
    ASSUME JobInv, TypeOK', WorkerHasEntry', reader' = reader \/ reader' = Awake,
           \A j \in Jobs : WorkerInv(j)',
           \A j \in Jobs, pc \in {"looking", "waiting", "closed"} :
              /\ worker[j] \notin {"none", "created"}
              /\ pc = "waiting" =>
                    reader' # Awake /\ j \in table /\ job[j].status \notin Terminal
              /\ pc = "closed" /\ j \in table => job[j].status \in Terminal
              => Keeps(j, pc)
    PROVE  JobInv'
<1>1. ASSUME NEW r \in Readers PROVE ReaderInv(r)'
  <2>1. /\ \/ reader'[r] = reader[r]
           \/ reader[r].pc = "waiting" /\ reader'[r] = [reader[r] EXCEPT !.pc = "looking"]
        /\ reader'[r].pc = "waiting" => reader'[r] = reader[r] /\ reader' # Awake
    <3>1. CASE reader' = Awake
      <4>1. \/ reader'[r] = reader[r] /\ reader[r].pc # "waiting"
            \/ reader[r].pc = "waiting" /\ reader'[r] = [reader[r] EXCEPT !.pc = "looking"]
        BY <3>1, AwakeIs DEF JobInv
      <4>2. reader[r].pc = "waiting" => reader[r] \in Streams
        BY DEF JobInv, TypeOK
      <4> QED
        BY <4>1, <4>2 DEF Streams
    <3>2. CASE reader' = reader /\ reader' # Awake
      BY <3>2
    <3> QED
      BY <3>1, <3>2
  <2>2. ASSUME Connected(r) PROVE Keeps(reader[r].job, reader'[r].pc)
    <3>1. reader[r] \in Streams /\ ReaderInv(r)
      BY <2>2 DEF JobInv, TypeOK, Connected
    <3>2. reader'[r].pc = reader[r].pc \/ reader'[r].pc = "looking"
      BY <2>1, <3>1 DEF Streams
    <3>3. reader'[r].pc \in {"looking", "waiting", "closed"} /\ reader[r].job \in Jobs
      BY <3>1, <3>2 DEF Streams
    <3>4. /\ worker[reader[r].job] \notin {"none", "created"}
          /\ reader'[r].pc = "waiting" =>
                reader' # Awake /\ reader[r].job \in table /\ job[reader[r].job].status \notin Terminal
          /\ reader'[r].pc = "closed" /\ reader[r].job \in table => job[reader[r].job].status \in Terminal
      BY <2>1, <2>2, <3>1, <3>2 DEF ReaderInv
    <3> QED
      BY <3>3, <3>4
  <2> QED
    BY <2>1, <2>2, StreamUnmoved
<1> QED
  BY <1>1 DEF JobInv
\* The same, job by job: a step of job j's worker, which leaves the other jobs and the table alone.
LEMMA WorkerMoves ==
    ASSUME JobInv, NEW j \in table, table' = table, job' \in [Jobs -> Job],
           \/ reader' = Awake
           \/ reader' = reader /\ job'[j].events = job[j].events /\ job'[j].status = job[j].status,
           worker' \in [Jobs -> {"none", "created", "started", "running", "ended"} \cup Terminal],
           worker'[j] \notin {"none", "created"},
           \A i \in Jobs : i # j => job'[i] = job[i] /\ worker'[i] = worker[i],
           WorkerInv(j)',
           \/ job'[j].events = job[j].events
           \/ \E e \in Event : job'[j].events = Append(job[j].events, e),
           job[j].status \notin Terminal
    PROVE  JobInv'
<1>1. TypeOK'
  BY AwakeIs DEF JobInv, TypeOK, Job, Events
<1>2. WorkerHasEntry'
  BY DEF JobInv, WorkerHasEntry
<1>3. \A i \in Jobs : WorkerInv(i)'
  BY WorkerUnmoved DEF JobInv
<1>4. ASSUME NEW i \in Jobs, NEW pc \in {"looking", "waiting", "closed"},
             worker[i] \notin {"none", "created"},
             pc = "waiting" => reader' # Awake /\ i \in table /\ job[i].status \notin Terminal,
             pc = "closed" /\ i \in table => job[i].status \in Terminal
      PROVE  Keeps(i, pc)
  BY <1>4 DEF Keeps
<1> QED
  BY <1>1, <1>2, <1>3, <1>4, JobsMove

LEMMA JobInvInductive == JobInv /\ [Next]_vars => JobInv'
<1> SUFFICES ASSUME JobInv, [Next]_vars PROVE JobInv'
  OBVIOUS
<1>t. /\ table \subseteq Jobs /\ job \in [Jobs -> Job]
      /\ worker \in [Jobs -> {"none", "created", "started", "running", "ended"} \cup Terminal]
      /\ reader \in [Readers -> {[pc |-> "none"]} \cup Streams]
  BY DEF JobInv, TypeOK, Job, Events
<1>w. ASSUME NEW j \in Jobs PROVE WorkerInv(j) /\ (worker[j] \in {"started", "running"} \cup Terminal => j \in table)
  BY DEF JobInv, WorkerHasEntry
<1>1. ASSUME NEW j \in Jobs, Create(j) PROVE JobInv'
  <2>1. TypeOK' /\ WorkerHasEntry'
    BY <1>1, <1>t, <1>w DEF Create, TypeOK, WorkerHasEntry, Job, Events, Terminal
  <2>2. \A i \in Jobs : WorkerInv(i)'
    BY <1>1, <1>t, <1>w DEF Create, WorkerInv, Going, Final, Terminal
  <2>3. ASSUME NEW i \in Jobs, NEW pc, worker[i] \notin {"none", "created"},
               pc = "waiting" => i \in table /\ job[i].status \notin Terminal,
               pc = "closed" /\ i \in table => job[i].status \in Terminal
        PROVE  Keeps(i, pc)
    BY <1>1, <1>t, <2>3 DEF Create, Keeps
  <2> QED
    BY <1>1, <2>1, <2>2, <2>3, JobsMove DEF Create
<1>2. ASSUME NEW j \in Jobs, Submit(j) PROVE JobInv'
  <2> DEFINE full == table \cup {j}
  <2>1. table' = full \ Pruned(full) /\ worker' = [worker EXCEPT ![j] = "started"]
        /\ job' = job /\ reader' = reader /\ worker[j] = "created"
    BY <1>2 DEF Submit
  <2>2. job[j].status = "queued" /\ job[j].events = <<>>
    BY <2>1, <1>w DEF WorkerInv
  <2>3. \A i \in full : job[i].status \notin Terminal => i \in table'
    BY <2>1, PrunedAreTerminal
  <2>4. TypeOK'
    BY <2>1, <1>t DEF TypeOK, Job, Events
  <2>5. \A i \in Jobs : worker'[i] \in {"started", "running"} \cup Terminal => i \in table'
    <3> SUFFICES ASSUME NEW i \in Jobs, worker'[i] \in {"started", "running"} \cup Terminal
                 PROVE  i \in table'
      OBVIOUS
    <3>1. CASE i = j
      BY <3>1, <2>2, <2>3 DEF Terminal
    <3>2. CASE i # j
      <4>1. worker[i] = worker'[i]
        BY <3>2, <2>1, <1>t
      <4>2. i \in table /\ job[i].status \in {"queued", "running"}
        BY <4>1, <1>w DEF WorkerInv
      <4> QED
        BY <4>2, <2>3 DEF Terminal
    <3> QED
      BY <3>1, <3>2
  <2>6. \A i \in Jobs : WorkerInv(i)'
    <3>1. WorkerInv(j)'
      BY <2>1, <2>2, <1>t DEF WorkerInv, Terminal
    <3>2. ASSUME NEW i \in Jobs, i # j PROVE WorkerInv(i)'
      BY <2>1, <1>t, <1>w, <3>2, WorkerUnmoved
    <3> QED
      BY <3>1, <3>2
  <2>7. ASSUME NEW i \in Jobs, NEW pc, worker[i] \notin {"none", "created"},
               pc = "waiting" => i \in table /\ job[i].status \notin Terminal,
               pc = "closed" /\ i \in table => job[i].status \in Terminal
        PROVE  Keeps(i, pc)
    <3>1. i # j /\ worker'[i] = worker[i]
      BY <2>1, <2>7, <1>t
    <3> QED
      BY <3>1, <2>1, <2>3, <2>7 DEF Keeps
  <2> QED
    BY <2>1, <2>4, <2>5, <2>6, <2>7, JobsMove DEF WorkerHasEntry
<1>3. ASSUME NEW j \in Jobs, Run(j) PROVE JobInv'
  <2>1. j \in table /\ job[j].status = "queued" /\ job[j].events = <<>>
    BY <1>3, <1>w DEF Run, WorkerInv
  <2>2. /\ job' \in [Jobs -> Job] /\ reader' = Awake
        /\ \A i \in Jobs : i # j => job'[i] = job[i]
        /\ job'[j].status = "running" /\ job'[j].events = job[j].events
    BY <1>3, <2>1, SetStatusIs DEF Run, JobInv, Status
  <2>3. WorkerInv(j)'
    BY <1>3, <1>t, <2>1, <2>2, JobAssumption DEF Run, WorkerInv, Going, Terminal
  <2> QED
    BY <1>3, <1>t, <2>1, <2>2, <2>3, WorkerMoves DEF Run, Terminal
<1>4. ASSUME NEW j \in Jobs, Emit(j) PROVE JobInv'
  <2>1. j \in table /\ job[j].status = "running" /\ Going(j)
    BY <1>4, <1>w DEF Emit, WorkerInv
  <2>2. /\ job' \in [Jobs -> Job] /\ reader' = Awake
        /\ \A i \in Jobs : i # j => job'[i] = job[i]
        /\ job'[j].events = Append(job[j].events, "progress") /\ job'[j].status = "running"
    BY <1>4, <2>1, AppendEventIs DEF Emit, JobInv, Event, Going
  <2>3. Going(j)'
    BY <1>4, <2>1, GoingOn DEF Emit, JobInv, Event
  <2>4. WorkerInv(j)'
    BY <1>4, <1>t, <2>2, <2>3 DEF Emit, WorkerInv, Terminal
  <2> QED
    BY <1>4, <1>t, <2>1, <2>2, <2>4, WorkerMoves DEF Emit, Terminal, Event
<1>5. ASSUME NEW j \in Jobs, NEW s \in Terminal, Finish(j, s) PROVE JobInv'
  <2>1. j \in table /\ job[j].status = "running" /\ Going(j)
    BY <1>5, <1>w DEF Finish, WorkerInv
  <2>2. [job[j] EXCEPT !.outcome = TRUE] \in Job
    BY <1>t DEF Job
  <2>3. /\ job' \in [Jobs -> Job] /\ reader' = reader
        /\ \A i \in Jobs : i # j => job'[i] = job[i] /\ worker'[i] = worker[i]
        /\ job'[j].events = job[j].events /\ job'[j].status = job[j].status /\ job'[j].outcome
        /\ worker'[j] = s /\ table' = table
        /\ worker' \in [Jobs -> {"none", "created", "started", "running", "ended"} \cup Terminal]
    BY <1>5, <1>t, <2>2 DEF Finish, Job
  <2>4. WorkerInv(j)'
    BY <2>1, <2>3 DEF WorkerInv, Going, Terminal
  <2> QED
    BY <2>1, <2>3, <2>4, WorkerMoves DEF Terminal
<1>6. ASSUME NEW j \in Jobs, Announce(j) PROVE JobInv'
  <2> DEFINE s == worker[j]
  <2>1. j \in table /\ job[j].status = "running" /\ job[j].outcome /\ s \in Terminal /\ s \in Event
    BY <1>6, <1>w DEF Announce, WorkerInv, Terminal, Event
  <2>2. Going(j)
    <3>1. CASE Final(j, s)
      <4>1. job[j].events \in Seq(Event) /\ job[j].events # <<>>
        BY <3>1, <1>t, EventsAre DEF Final, Job
      <4>2. Len(job[j].events) \in 1..Len(job[j].events)
        BY <4>1, EmptySeq
      <4>3. IsIn(s, job[j].events)
        BY <3>1, <4>2 DEF Final, IsIn
      <4> QED
        BY <4>3, <1>6 DEF Announce
    <3> QED
      BY <2>1, <3>1, <1>w DEF WorkerInv
  <2>3. /\ job' \in [Jobs -> Job] /\ reader' = Awake
        /\ \A i \in Jobs : i # j => job'[i] = job[i]
        /\ job'[j].events = Append(job[j].events, s) /\ job'[j].status = "running" /\ job'[j].outcome
    BY <1>6, <2>1, <2>2, AppendEventIs DEF Announce, JobInv, Going
  <2>4. Final(j, s)'
    BY <1>6, <2>1, <2>2, GoingOn DEF Announce, JobInv
  <2>5. WorkerInv(j)'
    <3>1. worker'[j] = s
      BY <1>6 DEF Announce
    <3> QED
      BY <2>1, <2>3, <2>4, <3>1 DEF WorkerInv, Terminal, Final
  <2> QED
    BY <1>6, <1>t, <2>1, <2>3, <2>5, WorkerMoves DEF Announce, Terminal
<1>7. ASSUME NEW j \in Jobs, Close(j) PROVE JobInv'
  <2> DEFINE s == worker[j]
  <2>1. j \in table /\ job[j].status = "running" /\ job[j].outcome /\ s \in Terminal /\ s \in Status
    BY <1>7, <1>w DEF Close, WorkerInv, Terminal, Status
  <2>2. Final(j, s)
    <3>1. CASE Going(j)
      BY <1>7, <2>1, <3>1 DEF Close, IsIn, Going, Terminal
    <3> QED
      BY <2>1, <3>1, <1>w DEF WorkerInv
  <2>3. /\ job' \in [Jobs -> Job] /\ reader' = Awake
        /\ \A i \in Jobs : i # j => job'[i] = job[i]
        /\ job'[j].events = job[j].events /\ job'[j].status = s /\ job'[j].outcome
    BY <1>7, <2>1, SetStatusIs DEF Close, JobInv
  <2>4. WorkerInv(j)'
    BY <1>7, <1>t, <2>1, <2>2, <2>3 DEF Close, WorkerInv, Final, Terminal
  <2> QED
    BY <1>7, <1>t, <2>1, <2>3, <2>4, WorkerMoves DEF Close, Terminal
<1>r. ASSUME NEW r \in Readers, NEW x \in Streams, UNCHANGED <<table, job, created, worker>>,
             reader' = [reader EXCEPT ![r] = x], ReaderInv(r)'
      PROVE  JobInv'
  <2>1. TypeOK' /\ WorkerHasEntry'
    BY <1>r, <1>t DEF JobInv, TypeOK, WorkerHasEntry
  <2>2. \A j \in Jobs : WorkerInv(j)'
    BY <1>r, WorkerUnmoved DEF JobInv
  <2>3. ASSUME NEW q \in Readers, q # r PROVE ReaderInv(q)'
    <3>1. reader'[q] = reader[q]
      BY <1>r, <1>t, <2>3
    <3> QED
      BY <1>r, <3>1 DEF JobInv, ReaderInv, Connected
  <2> QED
    BY <1>r, <2>1, <2>2, <2>3 DEF JobInv
<1>8. ASSUME NEW r \in Readers, NEW j \in Jobs, Connect(r, j) PROVE JobInv'
  <2> DEFINE x == [pc |-> "looking", job |-> j, index |-> 0, got |-> <<>>]
  <2>1. j \in table /\ reader' = [reader EXCEPT ![r] = x] /\ UNCHANGED <<table, job, created, worker>>
    BY <1>8 DEF Connect
  <2>2. worker[j] \notin {"none", "created"}
    BY <2>1, <1>w DEF WorkerInv
  <2>3. <<>> \in Events
    BY NoEvents
  <2>4. x \in Streams
    BY <2>3, JobAssumption DEF Streams, Events
  <2>5. job[j].events \in Seq(Event)
    BY <1>t, EventsAre DEF Job
  <2>6. 0 <= Len(job[j].events) /\ SubSeq(job[j].events, 1, 0) = <<>>
    BY <2>5, LenProperties, SubSeqEmpty
  <2>7. ReaderInv(r)'
    BY <2>1, <2>2, <2>6, <1>t DEF ReaderInv, Connected
  <2> QED
    BY <2>1, <2>4, <2>7, <1>r
<1>9. ASSUME NEW r \in Readers, Look(r) PROVE JobInv'
  <2> DEFINE s == reader[r]
             events == job[s.job].events
  <2>1. s \in Streams /\ Connected(r) /\ ReaderInv(r)
    BY <1>9, <1>t DEF Look, Connected, JobInv
  <2>2. s.job \in Jobs /\ events \in Seq(Event) /\ Len(events) \in Nat /\ Len(events) <= MaxEmits + 1
    <3>1. s.job \in Jobs
      BY <2>1 DEF Streams
    <3>2. events \in Events
      BY <3>1, <1>t DEF Job
    <3> QED
      BY <3>1, <3>2, EventsAre, LenProperties
  <2>3. /\ worker[s.job] \notin {"none", "created"} /\ s.index \in 0..Len(events)
        /\ s.got = SubSeq(events, 1, s.index)
    <3>1. s.index \in Nat
      BY <2>1 DEF Streams
    <3> QED
      BY <2>1, <2>2, <3>1 DEF ReaderInv
  <2>4. UNCHANGED <<table, job, created, worker>>
    BY <1>9 DEF Look
  <2>5. CASE s.job \notin table
    <3> DEFINE x == [s EXCEPT !.pc = "closed"]
    <3>1. reader' = [reader EXCEPT ![r] = x]
      BY <1>9, <2>5, <1>t DEF Look
    <3>2. /\ x \in Streams /\ x.pc = "closed" /\ x.job = s.job /\ x.index = s.index /\ x.got = s.got
      BY <2>1 DEF Streams
    <3>3. reader'[r] = x
      BY <3>1, <1>t
    <3> HIDE DEF x
    <3>4. ReaderInv(r)'
      BY <2>2, <2>3, <2>4, <2>5, <3>2, <3>3 DEF ReaderInv
    <3> QED
      BY <2>4, <3>1, <3>2, <3>4, <1>r
  <2>6. CASE s.job \in table /\ Len(events) > s.index
    <3> DEFINE x == [s EXCEPT !.got = @ \o SubSeq(events, s.index + 1, Len(events)), !.index = Len(events)]
    <3>1. reader' = [reader EXCEPT ![r] = x]
      BY <1>9, <2>6, <1>t DEF Look
    <3>2. /\ x.pc = "looking" /\ x.job = s.job /\ x.index = Len(events)
          /\ x.got = s.got \o SubSeq(events, s.index + 1, Len(events))
      BY <1>9, <2>1 DEF Streams, Look
    <3>3. x.got = SubSeq(events, 1, Len(events)) /\ x.got = events
      BY <2>2, <2>3, <3>2, PrefixGrows
    <3>4. x \in Streams
      <4>1. events \in Events /\ Len(events) \in 0..(MaxEmits + 1)
        BY <2>2, EventsAre, JobAssumption
      <4>2. x = [s EXCEPT !.got = events, !.index = Len(events)]
        BY <3>2, <3>3, <2>1 DEF Streams
      <4>3. events \in SeqUpTo(Event, MaxEmits + 1)
        BY <4>1 DEF Events
      <4> HIDE DEF x, events
      <4> QED
        BY ONLY <4>1, <4>2, <4>3, <2>1 DEF Streams
    <3>5. reader'[r] = x
      BY <3>1, <1>t
    <3> HIDE DEF x
    <3>6. ReaderInv(r)'
      <4>1. /\ reader'[r].pc = "looking" /\ reader'[r].job = s.job /\ reader'[r].index = Len(events)
            /\ reader'[r].got = SubSeq(events, 1, Len(events))
        BY <3>2, <3>3, <3>5
      <4>2. job'[s.job].events = events /\ worker'[s.job] \notin {"none", "created"}
        BY <2>3, <2>4
      <4>3. Len(events) <= Len(events)
        BY <2>2
      <4> HIDE DEF events, s
      <4> QED
        BY ONLY <4>1, <4>2, <4>3 DEF ReaderInv
    <3> QED
      BY <2>4, <3>1, <3>4, <3>6, <1>r
  <2>7. ASSUME s.job \in table, ~ (Len(events) > s.index), NEW pc \in {"waiting", "closed"},
               reader' = [reader EXCEPT ![r].pc = pc],
               job[s.job].status \in Terminal <=> pc = "closed"
        PROVE  JobInv'
    <3> DEFINE x == [s EXCEPT !.pc = pc]
    <3>1. reader' = [reader EXCEPT ![r] = x]
      BY <2>7, <1>t
    <3>2. x \in Streams /\ x.pc = pc /\ x.job = s.job /\ x.index = s.index /\ x.got = s.got
      BY <2>1 DEF Streams
    <3>3. s.index = Len(events)
      BY <2>2, <2>3, <2>7
    <3>4. reader'[r] = x
      BY <3>1, <1>t
    <3> HIDE DEF x
    <3>5. ReaderInv(r)'
      BY <2>2, <2>3, <2>4, <2>7, <3>2, <3>3, <3>4 DEF ReaderInv
    <3> QED
      BY <2>4, <3>1, <3>2, <3>5, <1>r
  <2> QED
    BY <1>9, <2>5, <2>6, <2>7 DEF Look
<1>10. ASSUME NEW r \in Readers, TimeOut(r) PROVE JobInv'
  <2> DEFINE s == reader[r]
             x == [s EXCEPT !.pc = "looking"]
  <2>1. s \in Streams /\ Connected(r) /\ ReaderInv(r)
    BY <1>10, <1>t DEF TimeOut, Connected, JobInv
  <2>2. reader' = [reader EXCEPT ![r] = x] /\ UNCHANGED <<table, job, created, worker>>
    BY <1>10, <1>t DEF TimeOut
  <2>3. x \in Streams /\ x.pc = "looking" /\ x.job = s.job /\ x.index = s.index /\ x.got = s.got
    BY <2>1 DEF Streams
  <2>4. reader'[r] = x
    BY <2>2, <1>t
  <2> HIDE DEF x
  <2>5. ReaderInv(r)'
    BY <2>1, <2>2, <2>3, <2>4 DEF ReaderInv
  <2> QED
    BY <2>2, <2>3, <2>5, <1>r
<1>11. CASE UNCHANGED vars
  BY <1>11 DEF vars, JobInv, TypeOK, WorkerHasEntry, WorkerInv, ReaderInv, Connected, Going, Final
<1> QED
  BY <1>1, <1>2, <1>3, <1>4, <1>5, <1>6, <1>7, <1>8, <1>9, <1>10, <1>11 DEF Next, Work
-----------------------------------------------------------------------------
LEMMA JobInvAlways == Spec => []JobInv
<1>1. Init => JobInv
  <2> SUFFICES ASSUME Init PROVE JobInv
    OBVIOUS
  <2>1. <<>> \in SeqUpTo(Event, MaxEmits + 1)
    BY NoEvents DEF Events
  <2> QED
    BY <2>1 DEF Init, JobInv, TypeOK, WorkerHasEntry, WorkerInv, ReaderInv, Connected, Status, Terminal
<1> QED
  BY <1>1, JobInvInductive, PTL DEF Spec

\* The jobs, the table and the streams always have their types; in particular a job never gets
\* more events than its runner emits and one.
THEOREM TypeCorrect == Spec => []TypeOK
<1>1. JobInv => TypeOK
  BY DEF JobInv
<1> QED
  BY <1>1, JobInvAlways, PTL

\* A worker finds its job in the table until it has set the final status, however small the table is:
\* no event and no status of a live job is dropped by the look-up in _append and _set_status.
THEOREM NeverPrunedAlive == Spec => []WorkerHasEntry
<1>1. JobInv => WorkerHasEntry
  BY DEF JobInv
<1> QED
  BY <1>1, JobInvAlways, PTL

\* Every stream sends the events of its job in order, each exactly once.
THEOREM InOrder == Spec => []StreamIsPrefix
<1>1. JobInv => StreamIsPrefix
  BY DEF JobInv, ReaderInv, StreamIsPrefix
<1> QED
  BY <1>1, JobInvAlways, PTL

\* No wake-up is lost, for all the critical sections of the workers and of the streams in any order.
THEOREM NoWakeupIsLost == Spec => []NoLostWakeup
<1>1. JobInv => NoLostWakeup
  BY DEF JobInv, ReaderInv, NoLostWakeup
<1> QED
  BY <1>1, JobInvAlways, PTL

\* Whoever has seen the final event or the final status finds the result.
THEOREM OutcomeIsThere == Spec => []OutcomeBeforeEvent
<1>1. JobInv => OutcomeBeforeEvent
  <2> SUFFICES ASSUME JobInv PROVE OutcomeBeforeEvent
    OBVIOUS
  <2>1. ASSUME NEW j \in Jobs, job[j].status \in Terminal PROVE job[j].outcome
    <3>1. worker[j] \in {"none", "created", "started", "running", "ended"} \cup Terminal /\ WorkerInv(j)
      BY DEF JobInv, TypeOK
    <3> QED
      BY <2>1, <3>1 DEF WorkerInv, Terminal
  <2>2. ASSUME NEW r \in Readers, Connected(r), NEW e \in Terminal, IsIn(e, reader[r].got)
        PROVE  job[reader[r].job].outcome
    <3> DEFINE j == reader[r].job
               n == reader[r].index
    <3>1. reader[r] \in Streams /\ ReaderInv(r)
      BY <2>2 DEF JobInv, TypeOK, Connected
    <3>2. j \in Jobs /\ n \in Nat
      BY <3>1 DEF Streams
    <3>3. job[j].events \in Events /\ WorkerInv(j)
          /\ worker[j] \in {"none", "created", "started", "running", "ended"} \cup Terminal
      BY <3>2 DEF JobInv, TypeOK, Events
    <3>4. job[j].events \in Seq(Event) /\ Len(job[j].events) \in Nat /\ n <= Len(job[j].events)
          /\ reader[r].got = SubSeq(job[j].events, 1, n)
      BY <2>2, <3>1, <3>3, EventsAre, LenProperties DEF ReaderInv
    <3>5. PICK k \in 1..Len(reader[r].got) : reader[r].got[k] = e
      BY <2>2 DEF IsIn
    <3>6. /\ Len(SubSeq(job[j].events, 1, n)) = IF 1 <= n THEN n - 1 + 1 ELSE 0
          /\ \A i \in 1..(n - 1 + 1) : SubSeq(job[j].events, 1, n)[i] = job[j].events[1 + i - 1]
      <4>1. \A i \in 1..n : job[j].events[i] \in Event
        BY <3>2, <3>4, ElementOfSeq
      <4> QED
        BY <3>2, <4>1, SubSeqProperties
    <3>7. k \in 1..Len(job[j].events) /\ job[j].events[k] = e
      BY <3>2, <3>4, <3>5, <3>6
    <3>8. ~ Going(j)
      BY <3>7 DEF Going, Terminal
    <3>9. job[j].events # <<>>
      BY <3>4, <3>7
    <3> QED
      BY <3>3, <3>8, <3>9 DEF WorkerInv
  <2> QED
    BY <2>1, <2>2 DEF OutcomeBeforeEvent
<1> QED
  BY <1>1, JobInvAlways, PTL

\* A stream that ends while its job is in the table has sent the final event, as its last one.
THEOREM EndsComplete == Spec => []StreamComplete
<1>1. JobInv => StreamComplete
  <2> SUFFICES ASSUME JobInv, NEW r \in Readers, Connected(r), reader[r].pc = "closed",
                      reader[r].job \in table
               PROVE  /\ reader[r].got # <<>>
                      /\ reader[r].got[Len(reader[r].got)] = job[reader[r].job].status
                      /\ \A k \in 1..(Len(reader[r].got) - 1) : reader[r].got[k] = "progress"
    BY DEF StreamComplete
  <2> DEFINE j == reader[r].job
  <2>1. reader[r] \in Streams /\ ReaderInv(r)
    BY DEF JobInv, TypeOK, Connected
  <2>2. j \in Jobs
    BY <2>1 DEF Streams
  <2>3. job[j].events \in Seq(Event) /\ WorkerInv(j)
        /\ worker[j] \in {"none", "created", "started", "running", "ended"} \cup Terminal
    BY <2>2, EventsAre DEF JobInv, TypeOK, Events
  <2>4. reader[r].index = Len(job[j].events) /\ job[j].status \in Terminal
        /\ reader[r].got = SubSeq(job[j].events, 1, reader[r].index)
    BY <2>1 DEF ReaderInv
  <2>5. reader[r].got = job[j].events
    BY <2>3, <2>4, SubSeqFull
  <2>6. Final(j, job[j].status)
    BY <2>3, <2>4 DEF WorkerInv, Terminal
  <2> QED
    BY <2>5, <2>6 DEF Final
<1> QED
  BY <1>1, JobInvAlways, PTL
=============================================================================
