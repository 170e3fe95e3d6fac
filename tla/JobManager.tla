----------------------------- MODULE JobManager -----------------------------
(***************************************************************************)
(* service/jobs.py and the SSE endpoint over it: worker threads that       *)
(* append events to a job, streams that replay and tail them, and the      *)
(* table of jobs that is pruned when it grows.  One action is one critical *)
(* section of the manager's Condition; a job object outlives its entry in  *)
(* the table.                                                              *)
(***************************************************************************)
EXTENDS Naturals, Sequences, FiniteSets

CONSTANTS
    Jobs,       \* job ids
    Readers,    \* SSE connections
    MaxJobs,    \* _MAX_JOBS
    MaxEmits    \* bound: progress events a runner emits

ASSUME JobAssumption ==
    /\ MaxJobs \in Nat \ {0}
    /\ MaxEmits \in Nat

VARIABLES
    table,    \* self._jobs: the ids with an entry
    job,      \* the job objects: status, events, and whether result or error is set
    created,  \* the jobs in the order of created_at
    worker,   \* where each job's worker thread is
    reader    \* the SSE streams: where they are, the cursor, the events sent

vars == <<table, job, created, worker, reader>>

Status   == {"queued", "running", "done", "failed"}
Terminal == {"done", "failed"}
Event    == {"progress", "done", "failed"}

IsIn(x, s) == \E k \in 1..Len(s) : s[k] = x
SeqUpTo(S, n) == UNION {[1..k -> S] : k \in 0..n}

Init ==
    /\ table = {}
    /\ job = [j \in Jobs |-> [status |-> "queued", events |-> <<>>, outcome |-> FALSE]]
    /\ created = <<>>
    /\ worker = [j \in Jobs |-> "none"]
    /\ reader = [r \in Readers |-> [pc |-> "none"]]

\* Job(): created_at is taken before the lock.
Create(j) ==
    /\ worker[j] = "none"
    /\ created' = Append(created, j)
    /\ worker' = [worker EXCEPT ![j] = "created"]
    /\ UNCHANGED <<table, job, reader>>

\* notify_all: every waiting stream looks again.
Awake == [r \in Readers |-> IF reader[r].pc = "waiting" THEN [reader[r] EXCEPT !.pc = "looking"]
                                                        ELSE reader[r]]

\* The number of terminal jobs created before j: its place in the sorted list.
Older(j, S) == {i \in S : job[i].status \in Terminal
                          /\ \E m, n \in 1..Len(created) : m < n /\ created[m] = i /\ created[n] = j}

\* _prune_locked: over the limit, the oldest terminal jobs go, as many as there are too many.
Pruned(S) ==
    {j \in S : job[j].status \in Terminal
               /\ Cardinality(S) > MaxJobs
               /\ Cardinality(Older(j, S)) < Cardinality(S) - MaxJobs}

\* submit: the entry and the pruning in one critical section, then the thread starts.
Submit(j) ==
    /\ worker[j] = "created"
    /\ LET full == table \cup {j} IN table' = full \ Pruned(full)
    /\ worker' = [worker EXCEPT ![j] = "started"]
    /\ UNCHANGED <<job, created, reader>>

\* A bug: the status changes without a notify.
SetStatusSilently(j, s) ==
    /\ job' = IF j \in table THEN [job EXCEPT ![j].status = s] ELSE job
    /\ UNCHANGED reader

\* _set_status and _append do nothing for a job that has no entry.
SetStatus(j, s) ==
    IF j \in table
    THEN job' = [job EXCEPT ![j].status = s] /\ reader' = Awake
    ELSE UNCHANGED <<job, reader>>

\* A bug: an event is appended without a notify.
AppendSilently(j, e) ==
    /\ job' = IF j \in table THEN [job EXCEPT ![j].events = Append(@, e)] ELSE job
    /\ UNCHANGED reader

AppendEvent(j, e) ==
    IF j \in table
    THEN job' = [job EXCEPT ![j].events = Append(@, e)] /\ reader' = Awake
    ELSE UNCHANGED <<job, reader>>

Run(j) ==
    /\ worker[j] = "started"
    /\ SetStatus(j, "running")
    /\ worker' = [worker EXCEPT ![j] = "running"]
    /\ UNCHANGED <<table, created>>

\* The runner's emit callback.
Emit(j) ==
    /\ worker[j] = "running"
    /\ Len(job[j].events) < MaxEmits
    /\ AppendEvent(j, "progress")
    /\ UNCHANGED <<table, created, worker>>

\* A bug: the error of a failed runner is not stored.
FinishForgetsError(j, s) ==
    /\ worker[j] = "running"
    /\ job' = [job EXCEPT ![j].outcome = (s = "done")]
    /\ worker' = [worker EXCEPT ![j] = s]
    /\ UNCHANGED <<table, created, reader>>

\* The runner returns or raises; job.result or job.error is set, without a notify.
Finish(j, s) ==
    /\ worker[j] = "running"
    /\ job' = [job EXCEPT ![j].outcome = TRUE]
    /\ worker' = [worker EXCEPT ![j] = s]
    /\ UNCHANGED <<table, created, reader>>

\* A bug: the final event is sent again and again.
AnnounceAgain(j) ==
    /\ worker[j] \in Terminal
    /\ AppendEvent(j, worker[j])
    /\ UNCHANGED <<table, created, worker>>

\* The last event, "done" or "failed" ...
Announce(j) ==
    /\ worker[j] \in Terminal
    /\ ~ IsIn(worker[j], job[j].events)
    /\ AppendEvent(j, worker[j])
    /\ UNCHANGED <<table, created, worker>>

\* A bug: the status of a failed job stays "running".
CloseDoneOnly(j) ==
    /\ worker[j] \in Terminal
    /\ IsIn(worker[j], job[j].events)
    /\ SetStatus(j, IF worker[j] = "done" THEN "done" ELSE job[j].status)
    /\ worker' = [worker EXCEPT ![j] = "ended"]
    /\ UNCHANGED <<table, created>>

\* ... and then, in a critical section of its own, the status.
Close(j) ==
    /\ worker[j] \in Terminal
    /\ IsIn(worker[j], job[j].events)
    /\ SetStatus(j, worker[j])
    /\ worker' = [worker EXCEPT ![j] = "ended"]
    /\ UNCHANGED <<table, created>>

\* GET /jobs/{id}/events: 404 without an entry.
Connect(r, j) ==
    /\ reader[r].pc = "none"
    /\ j \in table
    /\ reader' = [reader EXCEPT ![r] = [pc |-> "looking", job |-> j, index |-> 0, got |-> <<>>]]
    /\ UNCHANGED <<table, job, created, worker>>

\* A bug: the stream sends everything again on every turn.
LookFromStart(r) ==
    LET s == reader[r] IN
    /\ s.pc = "looking"
    /\ IF s.job \notin table \/ job[s.job].status \in Terminal
       THEN reader' = [reader EXCEPT ![r].pc = "closed"]
       ELSE reader' = [reader EXCEPT ![r].pc = "waiting", ![r].got = @ \o job[s.job].events]
    /\ UNCHANGED <<table, job, created, worker>>

\* A bug: a terminal status ends the stream before it has sent what is new.
LookStatusFirst(r) ==
    LET s == reader[r] IN
    /\ s.pc = "looking"
    /\ IF s.job \notin table \/ job[s.job].status \in Terminal
       THEN reader' = [reader EXCEPT ![r].pc = "closed"]
       ELSE IF Len(job[s.job].events) > s.index
       THEN reader' = [reader EXCEPT ![r].got = @ \o SubSeq(job[s.job].events, s.index + 1,
                                                            Len(job[s.job].events)),
                                     ![r].index = Len(job[s.job].events)]
       ELSE reader' = [reader EXCEPT ![r].pc = "waiting"]
    /\ UNCHANGED <<table, job, created, worker>>

\* One turn of wait_events and of the stream's loop.  No entry: the stream ends.  Events or
\* a terminal status: send what is new, and end once there is nothing new.  Otherwise wait.
Look(r) ==
    LET s == reader[r] IN
    /\ s.pc = "looking"
    /\ IF s.job \notin table
       THEN reader' = [reader EXCEPT ![r].pc = "closed"]
       ELSE IF Len(job[s.job].events) > s.index
       THEN reader' = [reader EXCEPT
                          ![r].got = @ \o SubSeq(job[s.job].events, s.index + 1,
                                                 Len(job[s.job].events)),
                          ![r].index = Len(job[s.job].events)]
       ELSE IF job[s.job].status \in Terminal
       THEN reader' = [reader EXCEPT ![r].pc = "closed"]
       ELSE reader' = [reader EXCEPT ![r].pc = "waiting"]
    /\ UNCHANGED <<table, job, created, worker>>

\* The wait times out: a keep-alive, and the stream looks again.
TimeOut(r) ==
    /\ reader[r].pc = "waiting"
    /\ reader' = [reader EXCEPT ![r].pc = "looking"]
    /\ UNCHANGED <<table, job, created, worker>>

Work(j) == Submit(j) \/ Run(j) \/ (\E s \in Terminal : Finish(j, s)) \/ Announce(j) \/ Close(j)

Next ==
    \/ \E j \in Jobs : Create(j) \/ Emit(j) \/ Work(j)
    \/ \E r \in Readers : Look(r) \/ TimeOut(r) \/ (\E j \in Jobs : Connect(r, j))

\* The runners return; a woken stream and a started thread get to run.
Fairness ==
    /\ \A j \in Jobs : WF_vars(Work(j))
    /\ \A r \in Readers : WF_vars(Look(r))

Spec == Init /\ [][Next]_vars /\ Fairness
-----------------------------------------------------------------------------
Connected(r) == reader[r].pc # "none"

Streams == [pc : {"looking", "waiting", "closed"}, job : Jobs,
            index : 0..(MaxEmits + 1), got : SeqUpTo(Event, MaxEmits + 1)]

TypeOK ==
    /\ table \subseteq Jobs
    /\ job \in [Jobs -> [status : Status, events : SeqUpTo(Event, MaxEmits + 1), outcome : BOOLEAN]]
    /\ worker \in [Jobs -> {"none", "created", "started", "running", "ended"} \cup Terminal]
    /\ reader \in [Readers -> {[pc |-> "none"]} \cup Streams]

\* A stream sends the events of its job in order, each exactly once.
StreamIsPrefix ==
    \A r \in Readers : Connected(r) =>
        reader[r].got = SubSeq(job[reader[r].job].events, 1, reader[r].index)

\* A client that polls a terminal status, or has seen the final event of the stream, finds
\* the result (or the error) on the job.
OutcomeBeforeEvent ==
    /\ \A j \in Jobs : job[j].status \in Terminal => job[j].outcome
    /\ \A r \in Readers : Connected(r) /\ (\E e \in Terminal : IsIn(e, reader[r].got))
          => job[reader[r].job].outcome

\* A stream that ends on a job still in the table has sent the final event, as its last one.
StreamComplete ==
    \A r \in Readers : Connected(r) /\ reader[r].pc = "closed" /\ reader[r].job \in table =>
        /\ reader[r].got # <<>>
        /\ reader[r].got[Len(reader[r].got)] = job[reader[r].job].status
        /\ \A k \in 1..(Len(reader[r].got) - 1) : reader[r].got[k] = "progress"

\* A wake-up is never lost: a stream waits only when its job has nothing new for it.  A
\* job it waits for is not pruned either, so that pruning need not notify.
NoLostWakeup ==
    \A r \in Readers : Connected(r) /\ reader[r].pc = "waiting" =>
        /\ reader[r].job \in table
        /\ Len(job[reader[r].job].events) = reader[r].index
        /\ job[reader[r].job].status \notin Terminal

\* The strengthening that the proofs of these invariants use.  A worker finds its job in the table until
\* it has set the final status: only jobs with a terminal status are pruned.
WorkerHasEntry ==
    \A j \in Jobs : worker[j] \in {"started", "running"} \cup Terminal => j \in table

\* No final event yet; and a final event s, the last one and the only one of its kind.
Going(j) == Len(job[j].events) <= MaxEmits /\ \A k \in 1..Len(job[j].events) : job[j].events[k] = "progress"
Final(j, s) ==
    /\ job[j].events # <<>>
    /\ job[j].events[Len(job[j].events)] = s
    /\ \A k \in 1..(Len(job[j].events) - 1) : job[j].events[k] = "progress"

\* What a worker has done so far, by where it is.
WorkerInv(j) ==
    /\ worker[j] \in {"none", "created"} => j \notin table
    /\ worker[j] \in {"none", "created", "started"} => job[j].status = "queued" /\ job[j].events = <<>>
    /\ worker[j] = "running" => job[j].status = "running" /\ Going(j)
    /\ worker[j] \in Terminal =>
          job[j].status = "running" /\ job[j].outcome /\ (Going(j) \/ Final(j, worker[j]))
    /\ worker[j] = "ended" =>
          job[j].status \in Terminal /\ job[j].outcome /\ Final(j, job[j].status)

\* What a stream has sent, and what it waits for or ended on.
ReaderInv(r) ==
    LET s == reader[r] IN
    Connected(r) =>
        /\ worker[s.job] \notin {"none", "created"}
        /\ s.index <= Len(job[s.job].events)
        /\ s.got = SubSeq(job[s.job].events, 1, s.index)
        /\ s.pc = "waiting" =>
              s.job \in table /\ s.index = Len(job[s.job].events) /\ job[s.job].status \notin Terminal
        /\ s.pc = "closed" /\ s.job \in table =>
              s.index = Len(job[s.job].events) /\ job[s.job].status \in Terminal

JobInv ==
    /\ TypeOK
    /\ WorkerHasEntry
    /\ \A j \in Jobs : WorkerInv(j)
    /\ \A r \in Readers : ReaderInv(r)

\* Every submitted job reaches a terminal status, and every stream ends.
EveryJobEnds == \A j \in Jobs : worker[j] = "started" ~> job[j].status \in Terminal
EveryStreamEnds == \A r \in Readers : Connected(r) ~> Connected(r) /\ reader[r].pc = "closed"
=============================================================================
