------------------------------ MODULE TaskRules ------------------------------
(***************************************************************************)
(* The task row and the rules every writer of it obeys: the status graph   *)
(* of internal/task, Task.Validate, and what each statement of             *)
(* internal/store/task_store.go does to the row.  No variables: TaskStore  *)
(* and Orchestrator build their actions from these operators.              *)
(*                                                                         *)
(* A row keeps the columns the rules read or write.  Timestamps are kept   *)
(* as "is it NULL", text as the author of it, paths as "is it recorded".   *)
(***************************************************************************)
EXTENDS Naturals

CONSTANT Absent       \* the value of a table slot with no row

Status == {"planning", "queued", "in_progress", "ai_review", "human_review",
           "done", "cancelled", "aborted", "failed"}

\* IsTerminal: the pipeline stops here.
Terminal == {"done", "cancelled", "failed"}

FinalizationKind == {"none", "keep", "merged"}

\* ErrCodeNone is "none"; merge_conflict is reserved and never written.
ErrorCode == {"none", "runtime", "interrupted", "path_escape", "timeout",
              "auth", "ai_review"}

\* review_feedback: empty, written by the AI reviewer, or by the user.
Feedback == {"empty", "ai", "user"}

Row == [status       : Status,
        errorCode    : ErrorCode,
        finalization : FinalizationKind,
        reworkCount  : Nat,
        feedback     : Feedback,
        started      : BOOLEAN,    \* started_at is not NULL
        finished     : BOOLEAN,    \* finished_at is not NULL
        worktree     : BOOLEAN,    \* worktree_path is not empty
        branchExists : BOOLEAN]    \* branch_exists

ASSUME AbsentAssumption == Absent \notin Row \cup Status

\* What CreateTask inserts: queued, with the branch conceptually there.
NewRow == [status       |-> "queued",
           errorCode    |-> "none",
           finalization |-> "none",
           reworkCount  |-> 0,
           feedback     |-> "empty",
           started      |-> FALSE,
           finished     |-> FALSE,
           worktree     |-> FALSE,
           branchExists |-> TRUE]

-----------------------------------------------------------------------------
\* Mutant: a discarded task may be run again.
ReopeningTransitions ==
  [s \in Status |->
     CASE s = "queued"       -> {"planning", "cancelled", "in_progress"}
       [] s = "planning"     -> {"in_progress", "failed", "aborted", "cancelled"}
       [] s = "in_progress"  -> {"ai_review", "failed", "aborted"}
       [] s = "ai_review"    -> {"human_review", "failed", "queued", "aborted"}
       [] s = "human_review" -> {"done", "cancelled", "queued"}
       [] s = "aborted"      -> {"done", "cancelled", "queued"}
       [] s \in {"failed", "cancelled"} -> {"queued"}
       [] OTHER              -> {}]

AllowedTransitions ==
  [s \in Status |->
     CASE s = "queued"       -> {"planning", "cancelled", "in_progress"}
       [] s = "planning"     -> {"in_progress", "failed", "aborted", "cancelled"}
       [] s = "in_progress"  -> {"ai_review", "failed", "aborted"}
       [] s = "ai_review"    -> {"human_review", "failed", "queued", "aborted"}
       [] s = "human_review" -> {"done", "cancelled", "queued"}
       [] s = "aborted"      -> {"done", "cancelled", "queued"}
       [] s = "failed"       -> {"queued"}
       [] OTHER              -> {}]

CanTransition(from, to) == from # to /\ to \in AllowedTransitions[from]

\* Task.Validate: failed rows and only they carry an error code, done rows
\* and only they carry a finalization.
Validate(r) ==
  /\ (r.status = "failed") <=> (r.errorCode # "none")
  /\ (r.status = "done")   <=> (r.finalization # "none")

-----------------------------------------------------------------------------
\* Statuses whose entry stamps finished_at.
StampsFinished == {"ai_review", "human_review", "done", "cancelled",
                   "aborted", "failed"}

\* Mutant: a terminal status gives one rework back instead of clearing.
CountdownAfter(n, from, to) ==
  CASE to = "queued" /\ from = "ai_review" -> n + 1
    [] to = "queued" /\ from # "ai_review" -> 0
    [] to \in Terminal                     -> n - 1
    [] OTHER                               -> n

ReworkAfter(n, from, to) ==
  CASE to = "queued" /\ from = "ai_review" -> n + 1
    [] to = "queued" /\ from # "ai_review" -> 0
    [] to \in Terminal                     -> 0
    [] OTHER                               -> n

\* Mutant: the UPDATE without "AND status = ?".
AcceptedFromAny(r, from, to, code, fin) ==
  /\ r # Absent
  /\ CanTransition(from, to)
  /\ to = "failed" => code # "none"
  /\ to = "done"   => fin # "none"

\* TaskStore.Transition refuses an illegal edge, a failure without a code, a
\* done without a finalization, and a row whose status is not `from`.
TransitionAccepted(r, from, to, code, fin) ==
  /\ r # Absent
  /\ r.status = from
  /\ CanTransition(from, to)
  /\ to = "failed" => code # "none"
  /\ to = "done"   => fin # "none"

\* Mutant: a retry keeps the error code of the failure.
MovedKeepsCode(r, to, code, fin) ==
  [r EXCEPT !.status       = to,
            !.errorCode    = IF to = "failed" THEN code ELSE r.errorCode,
            !.finalization = IF to = "done" THEN fin ELSE "none",
            !.started      = r.started \/ to = "in_progress",
            !.finished     = to \in StampsFinished \/ (r.finished /\ to # "queued"),
            !.reworkCount  = ReworkAfter(r.reworkCount, r.status, to)]

\* Mutant: a rework keeps the finish stamp of the last run.
MovedKeepsFinish(r, to, code, fin) ==
  [r EXCEPT !.status       = to,
            !.errorCode    = IF to = "failed" THEN code ELSE "none",
            !.finalization = IF to = "done" THEN fin ELSE "none",
            !.started      = r.started \/ to = "in_progress",
            !.finished     = to \in StampsFinished \/ r.finished,
            !.reworkCount  = ReworkAfter(r.reworkCount, r.status, to)]

\* Mutant: started_at is part of every UPDATE.
MovedRestamps(r, to, code, fin) ==
  [r EXCEPT !.status       = to,
            !.errorCode    = IF to = "failed" THEN code ELSE "none",
            !.finalization = IF to = "done" THEN fin ELSE "none",
            !.started      = to = "in_progress",
            !.finished     = to \in StampsFinished \/ (r.finished /\ to # "queued"),
            !.reworkCount  = ReworkAfter(r.reworkCount, r.status, to)]

\* The row TaskStore.Transition writes when it accepts.
Moved(r, to, code, fin) ==
  [r EXCEPT !.status       = to,
            !.errorCode    = IF to = "failed" THEN code ELSE "none",
            !.finalization = IF to = "done" THEN fin ELSE "none",
            !.started      = r.started \/ to = "in_progress",
            !.finished     = to \in StampsFinished \/ (r.finished /\ to # "queued"),
            !.reworkCount  = ReworkAfter(r.reworkCount, r.status, to)]

-----------------------------------------------------------------------------
\* TaskStore.UpdateFields compares only the status of the in-memory copy c.
UpdateAccepted(r, c) == r # Absent /\ r.status = c.status /\ Validate(c)

\* It writes back every column of the copy except status and branch_exists.
Rewritten(r, c) == [c EXCEPT !.status = r.status, !.branchExists = r.branchExists]

\* Mutant: no crash recovery.
NotRecovered(r) == r

\* TaskStore.RecoverRunning, run once when the sidecar starts.
Recovered(r) ==
  IF r # Absent /\ r.status = "in_progress"
  THEN [r EXCEPT !.status = "failed", !.errorCode = "interrupted", !.finished = TRUE]
  ELSE r
=============================================================================
