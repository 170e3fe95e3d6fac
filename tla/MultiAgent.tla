----------------------------- MODULE MultiAgent -----------------------------
(***************************************************************************)
(* One multi-agent session over its blackboard (multi_agent/session.py):   *)
(* the orchestrator splits the goal, the workers claim and run the tasks,  *)
(* the verifier measures what they claim, the orchestrator sums up.  A     *)
(* message is known by its position on the blackboard, which is the order  *)
(* of created_at; its payload never changes, its status does.              *)
(***************************************************************************)
EXTENDS Naturals, Sequences, FiniteSets

CONSTANTS
    Strangers,      \* worker ids that the model makes up
    Errors,         \* open errors that the audit finds
    Counts,         \* counts that a text may state
    MaxTasks        \* bound on the subtasks of an answer

VARIABLES
    board,          \* the messages, oldest first
    tasks,          \* the task_assign messages that were posted first
    next,           \* the one to dispatch
    diag,           \* the last result of diag_01, or 0
    results,        \* the results to verify
    degraded,       \* the static template was used
    stage

vars == <<board, tasks, next, diag, results, degraded, stage>>

Workers  == {"diag_01", "repair_01"}
NoClaim  == 99
Claims   == Counts \cup {Errors, NoClaim}
Statuses == {"pending", "claimed", "done", "failed"}

Message(type, to, status, data) == [type |-> type, to |-> to, status |-> status, data |-> data]
\* A task, with the diagnosis it quotes, or 0.
TaskAssign(to, told)        == Message("task_assign", to, "pending", [told |-> told])
\* A result: the count of the worker's own audit, and the one its text states.
TaskResult(status, task, claim, said) ==
    Message("task_result", "orchestrator", status, [task |-> task, claim |-> claim, said |-> said])
VerifyRequest(target)       == Message("verify_request", "verifier_01", "pending", [target |-> target])
VerifyResult(target, claim, counted, verdict) ==
    Message("verify_result", "orchestrator", "done",
            [target |-> target, claim |-> claim, counted |-> counted, verdict |-> verdict])
Synthesis(told, judged)     ==
    Message("synthesize", "broadcast", "done", [results |-> told, verdicts |-> judged, degraded |-> degraded])

Of(b, type)        == {i \in DOMAIN b : b[i].type = type}
Mark(b, id, s)     == [b EXCEPT ![id].status = s]
Post(b, m)         == Append(b, m)

Init ==
    /\ board = <<>>
    /\ tasks = <<>>
    /\ next = 1
    /\ diag = 0
    /\ results = <<>>
    /\ degraded = FALSE
    /\ stage = "start"

-----------------------------------------------------------------------------
(* The orchestrator splits the goal. *)

Roles    == {"diagnosis", "repair_proposal"}
Subtasks == [role : Roles, worker : Workers \cup Strangers]
Fallback == <<"diag_01", "repair_01">>

\* An answer counts only if it parses and has both roles.
Parsed(answer) == \A r \in Roles : \E k \in DOMAIN answer : answer[k].role = r

\* Either pass may answer well; when neither does the template is used.  Only an exception of
\* the first pass ends the session.
PostTaskAssignments ==
    /\ stage = "start"
    /\ \E split \in {[to |-> Fallback, degraded |-> TRUE]} \cup
                    {[to |-> [k \in DOMAIN a |-> a[k].worker], degraded |-> FALSE] :
                         a \in {a \in UNION {[1..n -> Subtasks] : n \in 1..MaxTasks} : Parsed(a)}} :
         /\ board' = [k \in DOMAIN split.to |-> TaskAssign(split.to[k], 0)]
         /\ tasks' = [k \in DOMAIN split.to |-> k]
         /\ degraded' = split.degraded
    /\ stage' = "dispatch"
    /\ UNCHANGED <<next, diag, results>>

GatewayDown ==
    /\ stage = "start"
    /\ stage' = "raised"
    /\ UNCHANGED <<board, tasks, next, diag, results, degraded>>

-----------------------------------------------------------------------------
(* The session dispatches one task after the other. *)

Task == tasks[next]
To   == board[Task].to

\* Nobody has the id: a failed result that is not verified.
Unrouted ==
    /\ stage = "dispatch" /\ next <= Len(tasks) /\ To \notin Workers
    /\ board' = Mark(Post(board, TaskResult("failed", Task, NoClaim, NoClaim)), Task, "failed")
    /\ next' = next + 1
    /\ UNCHANGED <<tasks, diag, results, degraded, stage>>

\* (wrong: the generic task stays claimable)
EnrichedBeside ==
    IF To = "repair_01" /\ diag # 0 THEN Post(board, TaskAssign(To, diag)) ELSE board

\* A repair task after a diagnosis is superseded by one that quotes it.
Enriched ==
    IF To = "repair_01" /\ diag # 0
    THEN Post(Mark(board, Task, "done"), TaskAssign(To, diag))
    ELSE board

\* The worker claims the oldest pending task of its own.
Pending(b)   == {i \in Of(b, "task_assign") : b[i].to = To /\ b[i].status = "pending"}
Claimed(b)   == CHOOSE i \in Pending(b) : \A j \in Pending(b) : i <= j

RunTask ==
    /\ stage = "dispatch" /\ next <= Len(tasks) /\ To \in Workers
    /\ Pending(Enriched) # {}
    /\ LET id     == Claimed(Enriched)
           posted == Len(Enriched) + 1
           claimed == Mark(Enriched, id, "claimed")
       IN  \/ \* it answers, with the count of its audit if it ran one
              /\ \E claim \in {Errors, NoClaim}, said \in Counts \cup {NoClaim} :
                   board' = Mark(Post(claimed, TaskResult("done", id, claim, said)), id, "done")
              /\ results' = Append(results, posted)
              /\ diag' = IF To = "diag_01" THEN posted ELSE diag
           \/ \* it raises
              /\ board' = Post(Mark(claimed, id, "failed"), TaskResult("failed", id, NoClaim, NoClaim))
              /\ results' = Append(results, posted)
              /\ UNCHANGED diag
    /\ next' = next + 1
    /\ UNCHANGED <<tasks, degraded, stage>>

NothingToClaim ==
    /\ stage = "dispatch" /\ next <= Len(tasks) /\ To \in Workers
    /\ Pending(Enriched) = {}
    /\ board' = Enriched
    /\ next' = next + 1
    /\ UNCHANGED <<tasks, diag, results, degraded, stage>>

-----------------------------------------------------------------------------
(* The verifier measures, result by result. *)

\* The claim is the count of the worker's audit, or else the one its text states.
Claim(result) == IF result.data.claim # NoClaim THEN result.data.claim ELSE result.data.said

Delta(a, b) == IF a > b THEN a - b ELSE b - a
Verdict(counted, claim, tolerance) ==
    IF claim = NoClaim \/ Delta(counted, claim) <= tolerance THEN "pass" ELSE "fail"

Judged(target, counted, verdict) ==
    LET request == Len(board) + 1
    IN  board' = Mark(Post(Post(board, VerifyRequest(target)),
                           VerifyResult(target, Claim(board[target]), counted, verdict)), request, "done")

Verifying == stage = "dispatch" /\ next > Len(tasks) /\ results # <<>>

\* The audit is run directly, and is the authority.
VerifyByAudit ==
    /\ Verifying
    /\ Judged(Head(results), Errors, Verdict(Errors, Claim(board[Head(results)]), 0))
    /\ results' = Tail(results)
    /\ UNCHANGED <<tasks, next, diag, degraded, stage>>

\* The audit cannot run: an agent is asked; its text may state a count, or none.
VerifyByAgent ==
    /\ Verifying
    /\ \E counted \in Counts \cup {NoClaim} :
         Judged(Head(results), counted,
                IF counted = NoClaim THEN "needs_more"
                                     ELSE Verdict(counted, Claim(board[Head(results)]), 1))
    /\ results' = Tail(results)
    /\ UNCHANGED <<tasks, next, diag, degraded, stage>>

\* The agent raises, after the request was posted.
VerifierDown ==
    /\ Verifying
    /\ board' = Post(board, VerifyRequest(Head(results)))
    /\ stage' = "raised"
    /\ UNCHANGED <<tasks, next, diag, results, degraded>>

Synthesize ==
    /\ stage = "dispatch" /\ next > Len(tasks) /\ results = <<>>
    /\ board' = Post(board, Synthesis(Of(board, "task_result"), Of(board, "verify_result")))
    /\ stage' = "done"
    /\ UNCHANGED <<tasks, next, diag, results, degraded>>

Next == \/ PostTaskAssignments \/ GatewayDown \/ Unrouted \/ RunTask \/ NothingToClaim
        \/ VerifyByAudit \/ VerifyByAgent \/ VerifierDown \/ Synthesize

Spec == Init /\ [][Next]_vars

-----------------------------------------------------------------------------
\* A message, with a payload for each type.
Outcome == [task : Nat, claim : Claims, said : Claims]
Data ==
    [told : Nat] \cup Outcome \cup [target : Nat]
    \cup [target : Nat, claim : Claims, counted : Claims, verdict : {"pass", "fail", "needs_more"}]
    \cup [results : SUBSET Nat, verdicts : SUBSET Nat, degraded : BOOLEAN]
Messages ==
    {m \in [type : {"task_assign", "task_result", "verify_request", "verify_result", "synthesize"},
            to : Workers \cup Strangers \cup {"orchestrator", "verifier_01", "broadcast"},
            status : Statuses, data : Data] :
        m.type = "task_result" => m.data \in Outcome}

TypeOK ==
    /\ board \in Seq(Messages)
    /\ tasks \in Seq(Nat)
    /\ next \in 1..(Len(tasks) + 1)
    /\ diag \in {0} \cup Of(board, "task_result")
    /\ results \in Seq(Nat)
    /\ degraded \in BOOLEAN
    /\ stage \in {"start", "dispatch", "done", "raised"}

Worker(r)   == board[board[r].data.task].to
Verdicts(r) == {v \in Of(board, "verify_result") : board[v].data.target = r}
NoWorkerTwice == \A j, k \in DOMAIN tasks : board[tasks[j]].to = board[tasks[k]].to => j = k

\* The session's report (MultiAgentSession.run): it has one result per task of the split, each
\* of another task; every result of a worker has exactly one verdict; and, as long as the split
\* names no worker twice, every task is settled and a repair that ran after the diagnosis was
\* told of it.
ReportAccounts ==
    stage = "done" =>
        LET report == board[Len(board)].data
        IN  /\ Cardinality(report.results) = Len(tasks)
            /\ \A r, s \in report.results : board[r].data.task = board[s].data.task => r = s
            /\ \A r \in report.results : Cardinality(Verdicts(r)) = IF Worker(r) \in Workers THEN 1 ELSE 0
            /\ NoWorkerTwice =>
                   /\ \A t \in Of(board, "task_assign") : board[t].status \in {"done", "failed"}
                   /\ \A r \in report.results : Worker(r) = "repair_01" /\ diag # 0 /\ diag < r =>
                          board[board[r].data.task].data.told = diag

\* What that rests on.  The first tasks are the first messages; the results to verify are results of
\* workers, each once.
Known ==
    /\ \A k \in DOMAIN tasks : tasks[k] = k /\ k \in Of(board, "task_assign")
    /\ \A k \in DOMAIN results : results[k] \in Of(board, "task_result") /\ Worker(results[k]) \in Workers
    /\ \A j, k \in DOMAIN results : results[j] = results[k] => j = k
    /\ stage = "start" => board = <<>> /\ tasks = <<>> /\ results = <<>>

\* A worker has at least as many tasks to claim as tasks that are still to be dispatched to it.
Remaining(w) == {k \in next..Len(tasks) : board[k].to = w}
Waiting(w)   == {i \in Of(board, "task_assign") : board[i].to = w /\ board[i].status = "pending"}
Claimable    == \A w \in Workers : Cardinality(Remaining(w)) <= Cardinality(Waiting(w))

\* A result is of a task that nobody can claim any more.
OneResultEach ==
    /\ Cardinality(Of(board, "task_result")) = next - 1
    /\ \A r \in Of(board, "task_result") :
           LET t == board[r].data.task
           IN  /\ t \in Of(board, "task_assign") /\ board[t].status # "pending"
               /\ board[t].to \in Workers \/ t < next
    /\ \A r, s \in Of(board, "task_result") : board[r].data.task = board[s].data.task => r = s

\* A result of a worker is still to be verified, or has its verdict.
OneVerdictEach ==
    /\ \A v \in Of(board, "verify_result") : board[v].data.target \in Of(board, "task_result")
    /\ \A r \in Of(board, "task_result") :
           IF Worker(r) \notin Workers \/ \E k \in DOMAIN results : results[k] = r
           THEN Verdicts(r) = {}
           ELSE \E v \in Of(board, "verify_result") : Verdicts(r) = {v}

\* Without a worker named twice, a task is open exactly until its turn.
SettledInTurn ==
    NoWorkerTwice =>
        /\ \A t \in Of(board, "task_assign") :
               IF t \in next..Len(tasks) THEN board[t].status = "pending" ELSE board[t].status \in {"done", "failed"}
        /\ \A r \in Of(board, "task_result") : Worker(r) = "repair_01" /\ diag # 0 /\ diag < r =>
               board[board[r].data.task].data.told = diag

Reported ==
    stage = "done" => /\ next > Len(tasks) /\ results = <<>>
                      /\ board[Len(board)].data.results = Of(board, "task_result")

SessionInv == TypeOK /\ Known /\ Claimable /\ OneResultEach /\ OneVerdictEach /\ SettledInTurn /\ Reported
=============================================================================
