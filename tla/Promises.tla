------------------------------- MODULE Promises -------------------------------
(***************************************************************************)
(* More of what comments of the code promise and TLC refutes: each property *)
(* below quotes its comment.  The README says which small configuration of  *)
(* MCService refutes which of them; none is an invariant of the project.    *)
(***************************************************************************)
EXTENDS MCService

\* Cancel: the task's status becomes aborted once the runner returns
\* (orchestrator.go:384-385).  So a run that was cancelled before its outcome
\* was recorded does not hand the task on to a review.
CancelWins ==
  [][\A p \in Proc :
       p \in aborted /\ pc[p] = "complete" /\ rows[job[p]] # Absent
         /\ rows[job[p]].status = "in_progress" /\ rows'[job[p]] # Absent
       => rows'[job[p]].status # "ai_review"]_allVars

\* The same for a run cancelled before it got a permit: it does not end with
\* the task still queued, as if nothing had been asked.
CancelSettles ==
  [][\A p \in Proc :
       p \in aborted /\ pc[p] = "unregister" /\ pc'[p] = "idle"
         /\ rows[job[p]] # Absent
       => rows[job[p]].status # "queued"]_allVars

\* A reviewer that hits the timeout leaves the task in ai_review
\* (orchestrator.go:1540-1543).
TimeoutLeavesReview ==
  [][\A v \in Rev :
       rev[v].pc = "abort" /\ rev[v].ctx = "timeout" /\ ~ rootDone
         /\ rev'[v].pc = "exit"
       => rows' = rows]_allVars

\* Lowering the limit reduces the number of new tasks admitted until those in
\* flight finish (orchestrator.go:318-323): a task is admitted only while
\* fewer than the current limit hold a permit.
LimitGovernsAdmission ==
  [][\A p \in Proc :
       pc[p] = "acquire" /\ pc'[p] = "lookup" =>
         Cardinality({q \in Proc : pc[q] \in Permitted}) < sems[Len(sems)]]_allVars

\* The feedback is on the row the moment a rework flips it to queued
\* (service.go:1393-1395).
FeedbackVisible ==
  [][\A c \in Caller :
       call[c].pc = "verdict" /\ call[c].op = "rework" /\ call'[c].pc = "enqueue"
       => rows'[call[c].task].feedback = "user"]_allVars

\* Finalize is refused while the task is running (finalize.go:37-38): the
\* worktree of a task whose agent is at work is never removed.
AgentKeepsWorktree == \A p \in Proc : pc[p] = "agent" => disk[job[p]]

\* A run requested while signed out shows as failed(auth)
\* (service.go:858-860).
AuthFailureShown ==
  [][\A c \in Caller :
       call[c].pc = "auth_fail" /\ call'[c].pc = "idle"
         /\ rows[call[c].task] # Absent
         /\ rows[call[c].task].status = call[c].row.status
       => rows'[call[c].task].status = "failed"]_allVars

\* A failed creation leaves nothing behind, so the task can be retried
\* (worktree/manager.go:114-115).
FailedCreateLeavesNothing ==
  \A t \in Task :
    rows[t] # Absent /\ rows[t].status = "failed" /\ ~ rows[t].worktree => ~ disk[t]

\* rework_count falls back only with a transition that starts over
\* (task.go:118-128), so that the cap counts every rework since then.
ReworkCountKept ==
  [][\A t \in Task :
       rows[t] # Absent /\ rows'[t] # Absent
         /\ rows'[t].reworkCount < rows[t].reworkCount
       => rows'[t].status # rows[t].status]_allVars

\* DeleteTask rejects in_progress and ai_review tasks (service.go:1213-1214).
RunningTaskNotDeleted ==
  [][\A t \in Task :
       rows[t] # Absent /\ rows[t].status \in {"in_progress", "ai_review"}
       => rows'[t] # Absent]_allVars

\* rework_count is 0 in a terminal status, failed included (task.go:118-128).
TerminalResetsRework ==
  \A t \in Task :
    rows[t] # Absent /\ rows[t].status \in Terminal => rows[t].reworkCount = 0

\* "worktree branch was removed externally" is only said of a branch that is
\* gone (orchestrator.go:515-522, 557-560).
RemovedMeansGone ==
  [][\A p \in Proc :
       pc[p] = "worktree" /\ pc'[p] = "failing" /\ result'[p] = "interrupted"
       => ~ (disk[job[p]] /\ branch[job[p]])]_allVars
=============================================================================
