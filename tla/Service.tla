------------------------------- MODULE Service -------------------------------
(***************************************************************************)
(* The whole sidecar around one tasks table: the goroutines of             *)
(* Orchestrator, the RPC handlers of internal/app/service.go and           *)
(* orchestrator/finalize.go that act on tasks, and the death and restart   *)
(* of the process with the crash recovery main.go runs.                    *)
(*                                                                         *)
(* A handler reads the row, decides, and then acts in several statements;  *)
(* no lock is held between them.  Each handler is a chain of actions, one  *)
(* per statement, so every other goroutine may run in between.             *)
(***************************************************************************)
EXTENDS Orchestrator

CONSTANTS Caller,      \* RPC handlers in flight at once
          Ops,         \* the RPCs clients use
          Limits,      \* the limits clients ask SetConcurrency for
          SemBound     \* bound on semaphores ever made, for model checking

ASSUME LimitsAssumption == Limits \subseteq Nat \ {0}

VARIABLE call          \* handlers: [pc, op, task, row]

orchestrator == <<disk, branch, registry, sems, procs, rev>>
allVars == <<vars, call>>

IdleCall == [pc |-> "idle", op |-> "none", task |-> None, row |-> Absent]

SInit == Init /\ call = [c \in Caller |-> IdleCall]

\* Handler c starts or goes on at `next`, holding copy r of the row of t.
Begin(c, op, next, t, r) ==
  call' = [call EXCEPT ![c] = [pc |-> next, op |-> op, task |-> t, row |-> r]]
Step(c, next) == call' = [call EXCEPT ![c].pc = next]
Return(c) == call' = [call EXCEPT ![c] = IdleCall]

Free(c, op) == call[c].pc = "idle" /\ op \in Ops
At(c, where) == call[c].pc = where

\* A Transition from the status the handler read.
Move(c, to, code, fin) ==
  LET t == call[c].task
      from == call[c].row.status
  IN IF TransitionAccepted(rows[t], from, to, code, fin)
     THEN rows' = [rows EXCEPT ![t] = Moved(rows[t], to, code, fin)]
     ELSE UNCHANGED rows

MoveOK(c, to, code, fin) ==
  TransitionAccepted(rows[call[c].task], call[c].row.status, to, code, fin)

\* An UpdateFields of copy r.
Save(t, r) ==
  IF UpdateAccepted(rows[t], r)
  THEN rows' = [rows EXCEPT ![t] = Rewritten(rows[t], r)]
  ELSE UNCHANGED rows

\* TaskStore.SetBranchExists.
SetBranchExists(c, exists) ==
  rows' = [rows EXCEPT ![call[c].task] =
             IF @ = Absent THEN @ ELSE [@ EXCEPT !.branchExists = exists]]

-----------------------------------------------------------------------------
(* RunTask                                                                 *)

RunTask(c, t) ==
  /\ Free(c, "run")
  /\ rows[t] # Absent
  /\ \/ rows[t].status = "queued" /\ Begin(c, "run", "enqueue", t, rows[t])
     \/ rows[t].status \in {"aborted", "failed"} /\ Begin(c, "run", "rerun", t, rows[t])
  /\ UNCHANGED <<rows, orchestrator>>

\* Not signed in: the row is to show it, from whatever status it has.
RunUnauthenticated(c, t) ==
  /\ Free(c, "run_unauth")
  /\ rows[t] # Absent
  /\ rows[t].status \notin Terminal
  /\ Begin(c, "run_unauth", "auth_fail", t, rows[t])
  /\ UNCHANGED <<rows, orchestrator>>

RunAuthFail(c) ==
  /\ At(c, "auth_fail")
  /\ Move(c, "failed", "auth", "none")
  /\ Return(c)
  /\ UNCHANGED orchestrator

RunAgain(c) ==
  /\ At(c, "rerun")
  /\ Move(c, "queued", "none", "none")
  /\ IF MoveOK(c, "queued", "none", "none") THEN Step(c, "enqueue") ELSE Return(c)
  /\ UNCHANGED orchestrator

\* Orchestrator.Enqueue, for RunTask and for a rework; a refusal changes
\* nothing, and SubmitReview does not even report ErrAlreadyRunning.
CallEnqueue(c) ==
  /\ At(c, "enqueue")
  /\ Enqueue(call[c].task)
  /\ Return(c)
  /\ UNCHANGED <<rows, disk, branch, aiReviews, rootDone, sems, permit,
                 cancelled, aborted, mem, result, rev>>

-----------------------------------------------------------------------------
(* CancelTask                                                              *)

CancelTask(c, t) ==
  /\ Free(c, "cancel")
  /\ \/ /\ Tracked(t)
        /\ Cancel(t)
        /\ UNCHANGED call
     \/ /\ ~ Tracked(t)
        /\ Begin(c, "cancel", "cancel_get", t, Absent)
        /\ UNCHANGED <<cancelled, aborted, rev>>
  /\ UNCHANGED <<rows, disk, branch, registry, sems, pc, job, permit, mem, result>>

\* The fallback, for a task the orchestrator has no record of.
CancelGet(c) ==
  LET t == call[c].task IN
  /\ At(c, "cancel_get")
  /\ IF rows[t] # Absent /\ rows[t].status \in {"in_progress", "ai_review", "planning", "queued"}
     THEN Begin(c, "cancel", "cancel_move", t, rows[t])
     ELSE Return(c)
  /\ UNCHANGED <<rows, orchestrator>>

CancelMove(c) ==
  /\ At(c, "cancel_move")
  /\ Move(c, IF call[c].row.status \in {"in_progress", "ai_review"}
             THEN "aborted" ELSE "cancelled", "none", "none")
  /\ Return(c)
  /\ UNCHANGED orchestrator

-----------------------------------------------------------------------------
(* SubmitReview                                                            *)

\* rework is legal from both review states, approve and reject from ai_review.
SubmitReview(c, t) ==
  /\ rows[t] # Absent
  /\ \/ /\ Free(c, "rework") /\ rows[t].status \in {"ai_review", "human_review"}
        /\ Begin(c, "rework", "feedback", t, rows[t])
     \/ \E op \in {"approve", "reject"} :
          /\ Free(c, op) /\ rows[t].status = "ai_review"
          /\ Begin(c, op, "verdict", t, rows[t])
  /\ UNCHANGED <<rows, orchestrator>>

ReviewFeedback(c) ==
  LET t == call[c].task
      r == [call[c].row EXCEPT !.feedback = "user"]
  IN
  /\ At(c, "feedback")
  /\ Save(t, r)
  /\ IF UpdateAccepted(rows[t], r) THEN Step(c, "verdict") ELSE Return(c)
  /\ UNCHANGED orchestrator

ReviewVerdict(c) ==
  LET op   == call[c].op
      to   == CASE op = "approve" -> "human_review"
                [] op = "reject"  -> "failed"
                [] OTHER          -> "queued"
      code == IF op = "reject" THEN "ai_review" ELSE "none"
  IN
  /\ At(c, "verdict")
  /\ op = "rework" => CountBounded(call[c].task)
  /\ Move(c, to, code, "none")
  /\ IF op = "rework" /\ MoveOK(c, to, code, "none")
     THEN Step(c, "enqueue") ELSE Return(c)
  /\ UNCHANGED orchestrator

-----------------------------------------------------------------------------
(* Finalize                                                                *)

\* Refused while a dispatcher is registered; the lock is dropped after that.
Finalize(c, t) ==
  /\ running[t] = None
  /\ \E op \in {"keep", "discard", "merge"} :
       Free(c, op) /\ Begin(c, op, "finalize_get", t, Absent)
  /\ UNCHANGED <<rows, orchestrator>>

FinalizeGet(c) ==
  LET t == call[c].task
      op == call[c].op
  IN
  /\ At(c, "finalize_get")
  /\ IF /\ rows[t] # Absent
        /\ \/ rows[t].status \in {"human_review", "aborted"} /\ rows[t].worktree
           \/ /\ rows[t].finalization = "keep" /\ op = "merge"
              /\ rows[t].branchExists
     THEN Begin(c, op, IF rows[t].status = "done" THEN "merge_again" ELSE "finalize_remove",
                t, rows[t])
     ELSE Return(c)
  /\ UNCHANGED <<rows, orchestrator>>

\* Merge, which may fail and then leaves every ref alone, and Remove.
FinalizeRemove(c) ==
  LET t == call[c].task IN
  /\ At(c, "finalize_remove")
  /\ \/ /\ call[c].op = "merge" => branch[t]
        /\ disk' = [disk EXCEPT ![t] = FALSE]
        /\ branch' = [branch EXCEPT ![t] = @ /\ call[c].op = "keep"]
        /\ Step(c, "finalize_move")
     \/ /\ call[c].op = "merge"
        /\ Return(c)
        /\ UNCHANGED <<disk, branch>>
  /\ UNCHANGED <<rows, registry, sems, procs, rev>>

FinalizeMove(c) ==
  /\ At(c, "finalize_move")
  /\ CASE call[c].op = "keep"  -> Move(c, "done", "none", "keep")
       [] call[c].op = "merge" -> Move(c, "done", "none", "merged")
       [] OTHER                -> Move(c, "cancelled", "none", "none")
  /\ Return(c)
  /\ UNCHANGED orchestrator

\* finalizeDoneMerge: merge and delete the branch of a kept task ...
MergeAgain(c) ==
  LET t == call[c].task IN
  /\ At(c, "merge_again")
  /\ \/ /\ branch[t] /\ ~ disk[t]
        /\ branch' = [branch EXCEPT ![t] = FALSE]
        /\ Step(c, "mark_merged")
     \/ Return(c) /\ UNCHANGED branch
  /\ UNCHANGED <<rows, disk, registry, sems, procs, rev>>

\* ... record it, through the copy ...
MarkMerged(c) ==
  LET t == call[c].task
      r == [call[c].row EXCEPT !.finalization = "merged"]
  IN
  /\ At(c, "mark_merged")
  /\ Save(t, r)
  /\ IF UpdateAccepted(rows[t], r) THEN Step(c, "clear_branch") ELSE Return(c)
  /\ UNCHANGED orchestrator

\* ... and SetBranchExists(false), as the end of DeleteTaskBranch too.
ClearBranch(c) ==
  /\ At(c, "clear_branch")
  /\ SetBranchExists(c, FALSE)
  /\ Return(c)
  /\ UNCHANGED orchestrator

-----------------------------------------------------------------------------
(* DeleteTask, DeleteTaskBranch, RemoveWorktree                            *)

DeleteTask(c, t) ==
  /\ Free(c, "delete")
  /\ rows[t] # Absent /\ rows[t].status # "in_progress"
  /\ Begin(c, "delete", IF rows[t].status \in {"planning", "ai_review"}
                        THEN "delete_cancel" ELSE "delete_worktree", t, rows[t])
  /\ UNCHANGED <<rows, orchestrator>>

\* The nudge: cancelled goroutines are not waited for.
DeleteCancel(c) ==
  LET t == call[c].task IN
  /\ At(c, "delete_cancel")
  /\ \/ Tracked(t) /\ Cancel(t)
     \/ ~ Tracked(t) /\ UNCHANGED <<cancelled, aborted, rev>>
  /\ Step(c, "delete_worktree")
  /\ UNCHANGED <<rows, disk, branch, registry, sems, pc, job, permit, mem, result>>

\* Only a worktree the copy records is removed.
DeleteWorktree(c) ==
  LET t == call[c].task IN
  /\ At(c, "delete_worktree")
  /\ IF call[c].row.worktree
     THEN /\ disk' = [disk EXCEPT ![t] = FALSE]
          /\ branch' \in {branch, [branch EXCEPT ![t] = FALSE]}
     ELSE UNCHANGED <<disk, branch>>
  /\ Step(c, "delete_row")
  /\ UNCHANGED <<rows, registry, sems, procs, rev>>

DeleteRow(c) ==
  /\ At(c, "delete_row")
  /\ rows' = [rows EXCEPT ![call[c].task] = Absent]
  /\ Return(c)
  /\ UNCHANGED orchestrator

DeleteTaskBranch(c, t) ==
  /\ Free(c, "delete_branch")
  /\ rows[t] # Absent
  /\ rows[t].status \in {"done", "aborted"} /\ rows[t].branchExists
  /\ Begin(c, "delete_branch", "drop_branch", t, rows[t])
  /\ UNCHANGED <<rows, orchestrator>>

\* `git branch -D` fails while a worktree has the branch checked out; a branch
\* that is already gone counts as deleted.
DropBranch(c) ==
  LET t == call[c].task IN
  /\ At(c, "drop_branch")
  /\ IF disk[t] THEN Return(c) /\ UNCHANGED branch
     ELSE branch' = [branch EXCEPT ![t] = FALSE] /\ Step(c, "clear_branch")
  /\ UNCHANGED <<rows, disk, registry, sems, procs, rev>>

\* RemoveWorktree works on a listed directory and looks at no status first.
RemoveWorktree(c, t) ==
  /\ Free(c, "remove_worktree")
  /\ disk[t]
  /\ disk' = [disk EXCEPT ![t] = FALSE]
  /\ branch' \in {branch, [branch EXCEPT ![t] = FALSE]}
  /\ Begin(c, "remove_worktree", "removed_get", t, Absent)
  /\ UNCHANGED <<rows, registry, sems, procs, rev>>

RemovedGet(c) ==
  LET t == call[c].task IN
  /\ At(c, "removed_get")
  /\ IF rows[t] # Absent /\ rows[t].status \notin Terminal
     THEN Begin(c, "remove_worktree", "removed_move", t, rows[t])
     ELSE Return(c)
  /\ UNCHANGED <<rows, orchestrator>>

RemovedMove(c) ==
  /\ At(c, "removed_move")
  /\ Move(c, "cancelled", "none", "none")
  /\ Return(c)
  /\ UNCHANGED orchestrator

-----------------------------------------------------------------------------
(* Settings, shutdown, the death of the process, housekeeping              *)

ChangeConcurrency ==
  /\ "concurrency" \in Ops
  /\ Len(sems) < SemBound
  /\ \E n \in Limits : SetConcurrency(n)
  /\ UNCHANGED call

ShutDown == "shutdown" \in Ops /\ Shutdown /\ UNCHANGED call

\* UpdateBranchExistence, for one task: the row is listed, the branch is looked
\* up in git, and the row follows.  (At startup it runs before any goroutine.)
SyncBranch(c, t) ==
  /\ Free(c, "housekeeping")
  /\ rows[t] # Absent
  /\ Begin(c, "housekeeping", "sync_check", t, rows[t])
  /\ UNCHANGED <<rows, orchestrator>>

SyncCheck(c) ==
  LET t == call[c].task IN
  /\ At(c, "sync_check")
  /\ IF branch[t] = call[c].row.branchExists
     THEN Return(c)
     ELSE call' = [call EXCEPT ![c].pc = "sync_write", ![c].row.branchExists = branch[t]]
  /\ UNCHANGED <<rows, orchestrator>>

SyncWrite(c) ==
  /\ At(c, "sync_write")
  /\ SetBranchExists(c, call[c].row.branchExists)
  /\ Return(c)
  /\ UNCHANGED orchestrator

\* Mutant: aborted tasks count as gone.
OrphanOrAborted(t) == disk[t] /\ (rows[t] = Absent \/ rows[t].status = "aborted")

\* ReapOnce: the worktree of a task with no row goes, with its branch.
Orphan(t) == disk[t] /\ rows[t] = Absent

Reap(t) ==
  /\ "housekeeping" \in Ops
  /\ Orphan(t)
  /\ disk' = [disk EXCEPT ![t] = FALSE]
  /\ branch' = [branch EXCEPT ![t] = FALSE]
  /\ UNCHANGED <<rows, registry, sems, procs, rev, call>>

\* The process ends, at any point, and a new one starts: every goroutine is
\* gone, RecoverRunning, ReapOnce and UpdateBranchExistence run before the
\* first RPC.
Restart ==
  /\ "restart" \in Ops
  /\ rows' = [t \in Task |->
                IF rows[t] = Absent THEN Absent
                ELSE [Recovered(rows[t]) EXCEPT !.branchExists = branch[t]]]
  /\ disk' = [t \in Task |-> disk[t] /\ ~ Orphan(t)]
  /\ branch' = [t \in Task |-> branch[t] /\ ~ Orphan(t)]
  /\ running' = [t \in Task |-> None]
  /\ aiReviews' = [t \in Task |-> None]
  /\ rootDone' = FALSE
  /\ sems' = <<Limit>>
  /\ pc' = [p \in Proc |-> "idle"]
  /\ job' = [p \in Proc |-> None]
  /\ permit' = [p \in Proc |-> 0]
  /\ cancelled' = {} /\ aborted' = {}
  /\ mem' = [p \in Proc |-> Absent]
  /\ result' = [p \in Proc |-> "none"]
  /\ rev' = [v \in Rev |-> IdleRev]
  /\ call' = [c \in Caller |-> IdleCall]

-----------------------------------------------------------------------------
\* The client of an RPC goes away and the handler's next statement fails.
HandlerFails(c) ==
  /\ "client" \in Faults
  /\ call[c].pc \notin {"idle", "enqueue", "delete_cancel"}
  /\ Return(c)
  /\ UNCHANGED <<rows, orchestrator>>

Goroutines ==
  /\ \/ \E p \in Proc : DispatchStep(p)
     \/ \E v \in Rev : ReviewStep(v) \/ RevTimeout(v)
  /\ UNCHANGED call

Request(c, t) ==
  \/ RunTask(c, t) \/ RunUnauthenticated(c, t) \/ CancelTask(c, t)
  \/ SubmitReview(c, t) \/ Finalize(c, t) \/ DeleteTask(c, t)
  \/ DeleteTaskBranch(c, t) \/ RemoveWorktree(c, t) \/ SyncBranch(c, t)

HandlerStep(c) ==
  \/ RunAuthFail(c) \/ RunAgain(c) \/ CallEnqueue(c) \/ CancelGet(c)
  \/ CancelMove(c) \/ ReviewFeedback(c) \/ ReviewVerdict(c)
  \/ FinalizeGet(c) \/ FinalizeRemove(c) \/ FinalizeMove(c) \/ MergeAgain(c)
  \/ MarkMerged(c) \/ ClearBranch(c) \/ DeleteCancel(c) \/ DeleteWorktree(c)
  \/ DeleteRow(c) \/ DropBranch(c) \/ RemovedGet(c) \/ RemovedMove(c)
  \/ SyncCheck(c) \/ SyncWrite(c)

SNext ==
  \/ Goroutines
  \/ \E c \in Caller, t \in Task : Request(c, t)
  \/ \E c \in Caller : HandlerStep(c) \/ HandlerFails(c)
  \/ \E t \in Task : Reap(t)
  \/ ChangeConcurrency \/ ShutDown \/ Restart

SSpec == SInit /\ [][SNext]_allVars

\* Sessions end (the planner by PlanningTimeout, an agent or reviewer by the
\* SDK's own limits), goroutines are scheduled, and semaphore.Weighted serves
\* its waiters in order, so a waiter that could be served again and again is.
Fairness ==
  /\ \A p \in Proc : /\ WF_allVars(DispatchStep(p) /\ UNCHANGED call)
                     /\ SF_allVars(Acquire(p) /\ UNCHANGED call)
  /\ \A v \in Rev : WF_allVars(ReviewStep(v) /\ UNCHANGED call)
  /\ \A c \in Caller : WF_allVars(HandlerStep(c))

LiveSpec == SSpec /\ Fairness

-----------------------------------------------------------------------------
(* Properties                                                              *)

RowOrNone == Row \cup {Absent}

DispatchPc == {"idle", "spawned", "acquire", "unregister"} \cup Permitted
ReviewPc == {"idle", "register", "get", "review", "abort", "approve", "judge",
             "requeue", "enqueue", "wait", "advance", "exit"}
HandlerPc == {"idle", "rerun", "auth_fail", "enqueue", "cancel_get", "cancel_move",
              "feedback", "verdict", "finalize_get", "finalize_remove",
              "finalize_move", "merge_again", "mark_merged", "clear_branch",
              "delete_cancel", "delete_worktree", "delete_row", "drop_branch",
              "removed_get", "removed_move", "sync_check", "sync_write"}

\* The state of every goroutine and of the tables has its type.
TypeOK ==
  /\ rows \in [Task -> RowOrNone]
  /\ disk \in [Task -> BOOLEAN]
  /\ branch \in [Task -> BOOLEAN]
  /\ running \in [Task -> Proc \cup {None}]
  /\ aiReviews \in [Task -> Rev \cup {None}]
  /\ rootDone \in BOOLEAN
  /\ sems \in Seq(Nat \ {0}) /\ sems # <<>>
  /\ pc \in [Proc -> DispatchPc]
  /\ job \in [Proc -> Task \cup {None}]
  /\ permit \in [Proc -> 0 .. Len(sems)]
  /\ cancelled \subseteq Proc
  /\ aborted \subseteq Proc
  /\ mem \in [Proc -> RowOrNone]
  /\ result \in [Proc -> ErrorCode \cup {"ok", "abort"}]
  /\ rev \in [Rev -> [pc : ReviewPc, task : Task \cup {None},
                      ctx : {"live", "cancelled", "timeout"}, mem : RowOrNone]]
  /\ call \in [Caller -> [pc : HandlerPc, op : Ops \cup {"none"},
                         task : Task \cup {None}, row : RowOrNone]]

\* At most one dispatcher works on a task, from Enqueue until its last step,
\* and running[t] is it: whoever cancels t reaches that dispatcher.
OneDispatcher ==
  \A t \in Task, p \in Proc : running[t] = p <=> (pc[p] # "idle" /\ job[p] = t)

\* No semaphore is held by more dispatchers than its limit.
PermitsBounded ==
  \A s \in 1 .. Len(sems) : Cardinality(Holders(s)) <= sems[s]

\* A task in_progress always has the dispatcher that runs its agent: it is
\* never left behind by a cancellation, a failure, a stale handler or a crash.
InProgressHasOwner ==
  \A t \in Task : rows[t] # Absent /\ rows[t].status = "in_progress" =>
     /\ running[t] # None
     /\ pc[running[t]] \in {"agent", "outcome", "complete"}

\* started_at, once written by the first in_progress, is never lost: it survives
\* every copy that was read before it and is written back after it.
StartedStampKept ==
  [][\A t \in Task :
       rows[t] # Absent /\ rows[t].started => rows'[t] = Absent \/ rows'[t].started]_allVars

\* A worktree the row names is on disk with its branch until a user's Finalize or
\* deletion asks for its removal: no failure, cancellation, crash or housekeeping
\* takes it away, and no copy written back names one that is gone.
Backed(t) == rows[t] # Absent /\ rows[t].worktree => disk[t] /\ branch[t]

AsksRemoval(c, t) ==
  \/ call[c].task = t /\ (FinalizeRemove(c) \/ DeleteWorktree(c))
  \/ RemoveWorktree(c, t)

WorktreeKept ==
  [][\A t \in Task : Backed(t) /\ ~ Backed(t)' => \E c \in Caller : AsksRemoval(c, t)]_allVars

\* The AI rework loop is bounded: the cap of runAIReview, judged by a copy of
\* the row, bounds the counter in the row, as long as no user interferes with a review
\* (orchestrator.go:1736-1760).
ReworkWithinCap ==
  \A t \in Task : rows[t] # Absent => rows[t].reworkCount <= ReworkCap

\* Every dispatcher ends, whatever it waits for: a permit another task holds,
\* a session, a cancelled context.
EveryRunEnds == \A p \in Proc : pc[p] # "idle" ~> pc[p] = "idle"

\* A task does not stay in ai_review, whatever the reviewer answers and however
\* often: approved, requeued or, at the cap, handed to the user.
ReviewAdvances ==
  \A t \in Task :
    (rows[t] # Absent /\ rows[t].status = "ai_review")
      ~> (rows[t] = Absent \/ rows[t].status # "ai_review")

\* The board's promise, as a refinement.
Board == INSTANCE TaskBoard WITH
  Deleted <- Absent,
  status  <- [t \in Task |-> IF rows[t] = Absent THEN Absent ELSE rows[t].status],
  busy    <- [t \in Task |-> running[t] # None],
  closed  <- rootDone

BoardImplemented == Board!BoardSpec

-----------------------------------------------------------------------------
(* What comments promise and the code does not keep                        *)

\* runPlanningPhase returns false with the task already moved to failed or
\* aborted (orchestrator.go:587-589): no dispatcher leaves a row in planning.
PlanningHasOwner ==
  \A t \in Task : rows[t] # Absent /\ rows[t].status = "planning" =>
     running[t] # None

\* A rework is picked up without the user pressing Run again
\* (service.go:1432-1433).
ReworkPickedUp ==
  \A c \in Caller, t \in Task :
    (call[c].pc = "enqueue" /\ call[c].op = "rework" /\ call[c].task = t)
      ~> (rows[t] = Absent \/ rows[t].status # "queued")
=============================================================================
