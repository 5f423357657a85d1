---------------------------- MODULE Orchestrator ----------------------------
(***************************************************************************)
(* internal/orchestrator: the goroutines that run tasks.                   *)
(*                                                                         *)
(* Enqueue registers a task in `running` and starts a dispatcher, which    *)
(* takes a permit of the concurrency semaphore, claims the row, makes the  *)
(* worktree, plans, runs the agent, records the outcome and unregisters.   *)
(* A successful run starts a reviewer goroutine, registered in aiReviews,  *)
(* which moves the row on or requeues it.  Both kinds share the tasks      *)
(* table with the RPC handlers of module Service, only by compare-and-swap *)
(* on the status, and every step here is one critical section, store       *)
(* statement or git command of the code: between any two of them another   *)
(* goroutine may run.                                                      *)
(***************************************************************************)
EXTENDS TaskRules, Sequences, FiniteSets

CONSTANTS Task,        \* task IDs
          Proc,        \* slots for dispatcher goroutines
          Rev,         \* slots for reviewer goroutines
          None,        \* no goroutine
          PlannerOn,   \* cfg.Planner # nil
          ReviewerOn,  \* cfg.Reviewer # nil
          ReworkCap,   \* effectiveMaxRework()
          Limit,       \* cfg.Concurrency
          CountBound,  \* bound on rework_count, for model checking only
          Faults       \* what may go wrong outside the sidecar

ASSUME ProcAssumption == None \notin Proc /\ None \notin Rev
ASSUME LimitAssumption == Limit \in Nat \ {0} /\ ReworkCap \in Nat \ {0}
ASSUME SwitchAssumption == PlannerOn \in BOOLEAN /\ ReviewerOn \in BOOLEAN

VARIABLES
  rows,       \* the tasks table
  disk,       \* does the worktree directory of a task exist?
  branch,     \* does its fleetkanban/<id> branch exist?
  running,    \* Orchestrator.running: the dispatcher registered for a task
  aiReviews,  \* Orchestrator.aiReviews: the reviewer whose cancel is registered
  rootDone,   \* rootCtx is cancelled
  sems,       \* capacities of the semaphores so far; the last is o.sem
  pc, job,    \* dispatchers: where they are, and the task they run
  permit,     \* the semaphore (index in sems) a dispatcher uses, 0 for none
  cancelled,  \* dispatchers whose task context was cancelled
  aborted,    \* dispatchers whose runState has abortByUser set
  mem,        \* dispatchers: their *task.Task
  result,     \* dispatchers: the outcome in hand
  rev         \* reviewers: [pc, task, ctx, mem]

registry == <<running, aiReviews, rootDone>>
control  == <<job, permit, cancelled, aborted>>
vars == <<rows, disk, branch, running, aiReviews, rootDone, sems, pc, job,
          permit, cancelled, aborted, mem, result, rev>>

IdleRev == [pc |-> "idle", task |-> None, ctx |-> "live", mem |-> Absent]

Init ==
  /\ rows = [t \in Task |-> NewRow]
  /\ disk = [t \in Task |-> FALSE]
  /\ branch = [t \in Task |-> FALSE]
  /\ running = [t \in Task |-> None]
  /\ aiReviews = [t \in Task |-> None]
  /\ rootDone = FALSE
  /\ sems = <<Limit>>
  /\ pc = [p \in Proc |-> "idle"]
  /\ job = [p \in Proc |-> None]
  /\ permit = [p \in Proc |-> 0]
  /\ cancelled = {}
  /\ aborted = {}
  /\ mem = [p \in Proc |-> Absent]
  /\ result = [p \in Proc |-> "none"]
  /\ rev = [v \in Rev |-> IdleRev]

-----------------------------------------------------------------------------
(* Shared steps                                                            *)

\* The dispatcher's context: cancelled by Cancel, or through rootCtx.
CtxDone(p) == rootDone \/ p \in cancelled

\* The reviewer's context: the same, or ended by aiReviewTimeout.
RevDone(v) == rootDone \/ rev[v].ctx # "live"

\* Mutant: the check of o.running is missing.
EnqueueUnchecked(t) ==
  \/ /\ ~ rootDone
     /\ \E p \in Proc :
          /\ pc[p] = "idle"
          /\ running' = [running EXCEPT ![t] = p]
          /\ pc' = [pc EXCEPT ![p] = "spawned"]
          /\ job' = [job EXCEPT ![p] = t]
  \/ /\ rootDone
     /\ UNCHANGED <<running, pc, job>>

\* Enqueue, under o.mu: refused after Shutdown and for a registered task.
Enqueue(t) ==
  \/ /\ ~ rootDone /\ running[t] = None
     /\ \E p \in Proc :
          /\ pc[p] = "idle"
          /\ running' = [running EXCEPT ![t] = p]
          /\ pc' = [pc EXCEPT ![p] = "spawned"]
          /\ job' = [job EXCEPT ![p] = t]
  \/ /\ rootDone \/ running[t] # None
     /\ UNCHANGED <<running, pc, job>>

\* Cancel, under o.mu, and whether it finds a goroutine to cancel.
Tracked(t) == running[t] # None \/ aiReviews[t] # None

Cancel(t) ==
  \/ /\ running[t] # None
     /\ cancelled' = cancelled \cup {running[t]}
     /\ aborted' = aborted \cup {running[t]}
     /\ UNCHANGED rev
  \/ /\ running[t] = None /\ aiReviews[t] # None
     /\ rev' = [rev EXCEPT ![aiReviews[t]].ctx = "cancelled"]
     /\ UNCHANGED <<cancelled, aborted>>

\* A Transition by a goroutine that believes the row is in status `from`:
\* it happens, or it is refused and nothing changes.
Try(t, from, to, code) ==
  IF TransitionAccepted(rows[t], from, to, code, "none")
  THEN rows' = [rows EXCEPT ![t] = Moved(rows[t], to, code, "none")]
  ELSE UNCHANGED rows

\* The same under a context that may be done: then the statement fails.
TryCtx(done, t, from, to, code) ==
  IF done THEN UNCHANGED rows ELSE Try(t, from, to, code)

\* Each ai_review -> queued counts one rework.
CountBounded(t) == rows[t] # Absent => rows[t].reworkCount < CountBound

Goto(p, next) == pc' = [pc EXCEPT ![p] = next]

-----------------------------------------------------------------------------
(* dispatch                                                                *)

\* currentSem: the dispatcher keeps this semaphore to the end.
TakeSem(p) ==
  /\ pc[p] = "spawned"
  /\ permit' = [permit EXCEPT ![p] = Len(sems)]
  /\ Goto(p, "acquire")
  /\ UNCHANGED <<rows, disk, branch, registry, sems, job, cancelled, aborted, mem, result, rev>>

\* The phases in which a dispatcher holds its permit.
Permitted == {"lookup", "claim", "worktree", "failing", "persist", "plan",
              "plan_ok", "plan_failed", "agent", "outcome", "complete", "release"}

Holders(s) == {p \in Proc : pc[p] \in Permitted /\ permit[p] = s}

\* Mutant: one more than the semaphore's capacity.
AcquireOneMore(p) ==
  /\ pc[p] = "acquire"
  /\ ~ CtxDone(p)
  /\ Cardinality(Holders(permit[p])) <= sems[permit[p]]
  /\ Goto(p, "lookup")
  /\ UNCHANGED <<rows, disk, branch, registry, sems, control, mem, result, rev>>

Acquire(p) ==
  /\ pc[p] = "acquire"
  /\ ~ CtxDone(p)
  /\ Cardinality(Holders(permit[p])) < sems[permit[p]]
  /\ Goto(p, "lookup")
  /\ UNCHANGED <<rows, disk, branch, registry, sems, control, mem, result, rev>>

\* Mutant: the task's context does not derive from rootCtx.
AcquireDetached(p) ==
  /\ pc[p] = "acquire"
  /\ p \in cancelled
  /\ Goto(p, "unregister")
  /\ UNCHANGED <<rows, disk, branch, registry, sems, control, mem, result, rev>>

\* sem.Acquire returns the context's error: the row stays as it is.
AcquireCancelled(p) ==
  /\ pc[p] = "acquire"
  /\ CtxDone(p)
  /\ Goto(p, "unregister")
  /\ UNCHANGED <<rows, disk, branch, registry, sems, control, mem, result, rev>>

\* TaskStore.Get and Repositories.Path.  An unknown repository sends the task
\* through planning so that it may fail.
Lookup(p) ==
  LET t == job[p] IN
  /\ pc[p] = "lookup"
  /\ \/ /\ CtxDone(p) \/ rows[t] = Absent
        /\ Goto(p, "release")
        /\ UNCHANGED <<rows, mem, result>>
     \/ /\ ~ CtxDone(p) /\ rows[t] # Absent
        /\ mem' = [mem EXCEPT ![p] = rows[t]]
        /\ Goto(p, "claim")
        /\ UNCHANGED <<rows, result>>
     \/ /\ ~ CtxDone(p) /\ rows[t] # Absent /\ "repo" \in Faults
        /\ IF TransitionAccepted(rows[t], "queued", "planning", "none", "none")
           THEN /\ rows' = [rows EXCEPT ![t] = Moved(rows[t], "planning", "none", "none")]
                /\ mem' = [mem EXCEPT ![p] = [rows[t] EXCEPT !.status = "planning"]]
                /\ result' = [result EXCEPT ![p] = "runtime"]
                /\ Goto(p, "failing")
           ELSE Goto(p, "release") /\ UNCHANGED <<rows, mem, result>>
  /\ UNCHANGED <<disk, branch, registry, sems, control, rev>>

\* queued -> planning, or straight to in_progress without a planner.
Claim(p) ==
  LET t  == job[p]
      to == IF PlannerOn THEN "planning" ELSE "in_progress"
  IN
  /\ pc[p] = "claim"
  /\ IF ~ CtxDone(p) /\ TransitionAccepted(rows[t], "queued", to, "none", "none")
     THEN /\ rows' = [rows EXCEPT ![t] = Moved(rows[t], to, "none", "none")]
          /\ mem' = [mem EXCEPT ![p].status = to]
          /\ Goto(p, "worktree")
     ELSE Goto(p, "release") /\ UNCHANGED <<rows, mem>>
  /\ UNCHANGED <<disk, branch, registry, sems, control, result, rev>>

\* ensureWorktree: a recorded worktree must still be there with its branch; a
\* first run creates both.  `git worktree add` refuses an existing directory
\* or branch; a failing `git config` reports an error but leaves the worktree.
EnsureWorktree(p) ==
  LET t    == job[p]
      made == mem[p].worktree
      Reject(code) == /\ result' = [result EXCEPT ![p] = code]
                      /\ Goto(p, "failing")
                      /\ UNCHANGED mem
  IN
  /\ pc[p] = "worktree"
  /\ \/ /\ made /\ disk[t] /\ mem[p].branchExists
        /\ Goto(p, "persist")
        /\ UNCHANGED <<disk, branch, mem, result>>
     \/ /\ made /\ ~ (disk[t] /\ mem[p].branchExists)
        /\ Reject("interrupted")
        /\ UNCHANGED <<disk, branch>>
     \/ /\ ~ made /\ ~ disk[t] /\ ~ branch[t]
        /\ disk' = [disk EXCEPT ![t] = TRUE]
        /\ branch' = [branch EXCEPT ![t] = TRUE]
        /\ \/ /\ mem' = [mem EXCEPT ![p].worktree = TRUE]
              /\ Goto(p, "persist")
              /\ UNCHANGED result
           \/ /\ "config" \in Faults \/ CtxDone(p)
              /\ Reject("runtime")
     \/ /\ ~ made
        /\ disk[t] \/ branch[t] \/ CtxDone(p) \/ "create" \in Faults
        /\ Reject("runtime")
        /\ UNCHANGED <<disk, branch>>
  /\ UNCHANGED <<rows, registry, sems, control, rev>>

\* failTask under the task's context, from the status in memory.
Fail(p) ==
  /\ pc[p] = "failing"
  /\ TryCtx(CtxDone(p), job[p], mem[p].status, "failed", result[p])
  /\ Goto(p, "release")
  /\ UNCHANGED <<disk, branch, registry, sems, control, mem, result, rev>>

\* UpdateFields from the copy read at Lookup, best effort.
SaveMem(p) ==
  IF ~ CtxDone(p) /\ UpdateAccepted(rows[job[p]], mem[p])
  THEN rows' = [rows EXCEPT ![job[p]] = Rewritten(rows[job[p]], mem[p])]
  ELSE UNCHANGED rows

Persist(p) ==
  /\ pc[p] = "persist"
  /\ SaveMem(p)
  /\ Goto(p, IF PlannerOn THEN "plan" ELSE "agent")
  /\ UNCHANGED <<disk, branch, registry, sems, control, mem, result, rev>>

\* The planner session ends.  A plan by another model than the row names is
\* recorded (plan_model); on an error abortByUser is read under o.mu.
PlanReturns(p) ==
  /\ pc[p] = "plan"
  /\ \/ /\ SaveMem(p) \/ UNCHANGED rows
        /\ Goto(p, "plan_ok")
        /\ UNCHANGED result
     \/ /\ CtxDone(p) \/ "planner" \in Faults
        /\ result' = [result EXCEPT ![p] = IF p \in aborted THEN "abort" ELSE "runtime"]
        /\ Goto(p, "plan_failed")
        /\ UNCHANGED rows
  /\ UNCHANGED <<disk, branch, registry, sems, control, mem, rev>>

\* CreatePlan and planning -> in_progress, all under the task's context: if
\* it is done, the failTask that should pick up the pieces fails as well.
PlanCommit(p) ==
  LET t  == job[p]
      ok == ~ CtxDone(p) /\ TransitionAccepted(rows[t], "planning", "in_progress", "none", "none")
  IN
  /\ pc[p] = "plan_ok"
  /\ IF ok
     THEN /\ rows' = [rows EXCEPT ![t] = Moved(rows[t], "in_progress", "none", "none")]
          /\ mem' = [mem EXCEPT ![p].status = "in_progress"]
          /\ Goto(p, "agent")
          /\ UNCHANGED result
     ELSE /\ result' = [result EXCEPT ![p] = "runtime"]
          /\ Goto(p, "failing")
          /\ UNCHANGED <<rows, mem>>
  /\ UNCHANGED <<disk, branch, registry, sems, control, rev>>

\* planning -> aborted or failed, under the task's context.
PlanAbandon(p) ==
  /\ pc[p] = "plan_failed"
  /\ IF result[p] = "abort"
     THEN TryCtx(CtxDone(p), job[p], "planning", "aborted", "none")
     ELSE TryCtx(CtxDone(p), job[p], "planning", "failed", "runtime")
  /\ Goto(p, "release")
  /\ UNCHANGED <<disk, branch, registry, sems, control, mem, result, rev>>

\* runAgent: the session or the subtask loop returns, possibly ignoring its
\* cancelled context.  Without a plan the copy is saved once more, with the
\* model the runner chose.
AgentReturns(p) ==
  /\ pc[p] = "agent"
  /\ \/ ~ PlannerOn /\ SaveMem(p)
     \/ UNCHANGED rows
  /\ \E end \in {"ok"} \cup (IF CtxDone(p) \/ "agent" \in Faults THEN {"runtime"} ELSE {})
                     \cup ({"timeout"} \cap Faults) :
        result' = [result EXCEPT ![p] = end]
  /\ Goto(p, "outcome")
  /\ UNCHANGED <<disk, branch, registry, sems, control, mem, rev>>

\* Mutant: an aborted run returns before completeTask.
OutcomeSkipped(p) ==
  /\ pc[p] = "outcome"
  /\ UNCHANGED result
  /\ Goto(p, IF p \in aborted THEN "release" ELSE "complete")
  /\ UNCHANGED <<rows, disk, branch, registry, sems, control, mem, rev>>

\* abortByUser is read under o.mu and overrides what the session returned.
Outcome(p) ==
  /\ pc[p] = "outcome"
  /\ result' = [result EXCEPT ![p] = IF p \in aborted THEN "abort" ELSE @]
  /\ Goto(p, "complete")
  /\ UNCHANGED <<rows, disk, branch, registry, sems, control, mem, rev>>

\* completeTask, under a fresh context.  A reviewer goroutine starts only if
\* the row did move to ai_review.  (The slot of the reviewer bounds how many
\* are alive at once.)
Complete(p) ==
  LET t == job[p] IN
  /\ pc[p] = "complete"
  /\ \/ /\ result[p] = "abort"
        /\ Try(t, "in_progress", "aborted", "none")
        /\ UNCHANGED rev
     \/ /\ result[p] = "ok"
        /\ Try(t, "in_progress", "ai_review", "none")
        /\ IF TransitionAccepted(rows[t], "in_progress", "ai_review", "none", "none")
           THEN \E v \in Rev : /\ rev[v].pc = "idle"
                               /\ rev' = [rev EXCEPT ![v].pc = "register", ![v].task = t]
           ELSE UNCHANGED rev
     \/ /\ result[p] \in {"runtime", "timeout"}
        /\ Try(t, "in_progress", "failed", result[p])
        /\ UNCHANGED rev
  /\ Goto(p, "release")
  /\ UNCHANGED <<disk, branch, registry, sems, control, mem, result>>

\* The deferred calls of dispatch, in their order: sem.Release, unregister.
Release(p) ==
  /\ pc[p] = "release"
  /\ Goto(p, "unregister")
  /\ UNCHANGED <<rows, disk, branch, registry, sems, control, mem, result, rev>>

Unregister(p) ==
  /\ pc[p] = "unregister"
  /\ running' = [running EXCEPT ![job[p]] = None]
  /\ Goto(p, "idle")
  /\ job' = [job EXCEPT ![p] = None]
  /\ permit' = [permit EXCEPT ![p] = 0]
  /\ cancelled' = cancelled \ {p}
  /\ aborted' = aborted \ {p}
  /\ mem' = [mem EXCEPT ![p] = Absent]
  /\ result' = [result EXCEPT ![p] = "none"]
  /\ UNCHANGED <<rows, disk, branch, aiReviews, rootDone, sems, rev>>

DispatchStep(p) ==
  \/ TakeSem(p) \/ Acquire(p) \/ AcquireCancelled(p) \/ Lookup(p) \/ Claim(p)
  \/ EnsureWorktree(p) \/ Fail(p) \/ Persist(p) \/ PlanReturns(p)
  \/ PlanCommit(p) \/ PlanAbandon(p) \/ AgentReturns(p) \/ Outcome(p)
  \/ Complete(p) \/ Release(p) \/ Unregister(p)

-----------------------------------------------------------------------------
(* runAIReview and passThroughAIReview                                     *)

procs == <<pc, job, permit, cancelled, aborted, mem, result>>

RevGoto(v, next) == rev' = [rev EXCEPT ![v].pc = next]

\* aiReviews[taskID] = cancel, whatever was there.
RevRegister(v) ==
  /\ rev[v].pc = "register"
  /\ aiReviews' = [aiReviews EXCEPT ![rev[v].task] = v]
  /\ RevGoto(v, IF ReviewerOn THEN "get" ELSE "wait")
  /\ UNCHANGED <<rows, disk, branch, running, rootDone, sems, procs>>

\* The row and its diff: any trouble leaves the task in ai_review.
RevGet(v) ==
  LET t == rev[v].task IN
  /\ rev[v].pc = "get"
  /\ \/ /\ RevDone(v) \/ rows[t] = Absent \/ ~ disk[t] \/ "diff" \in Faults
        /\ RevGoto(v, "exit")
     \/ /\ ~ RevDone(v) /\ rows[t] # Absent
        /\ IF rows[t].status = "ai_review" /\ disk[t]
           THEN rev' = [rev EXCEPT ![v].pc = "review", ![v].mem = rows[t]]
           ELSE RevGoto(v, "exit")
  /\ UNCHANGED <<rows, disk, branch, registry, sems, procs>>

\* aiReviewTimeout ends the reviewer's context.
RevTimeout(v) ==
  /\ "slow_review" \in Faults
  /\ rev[v].pc \in {"get", "review", "approve", "judge", "requeue"}
  /\ rev[v].ctx = "live"
  /\ rev' = [rev EXCEPT ![v].ctx = "timeout"]
  /\ UNCHANGED <<rows, disk, branch, registry, sems, procs>>

RevSave(v, r) ==
  IF ~ RevDone(v) /\ UpdateAccepted(rows[rev[v].task], r)
  THEN rows' = [rows EXCEPT ![rev[v].task] = Rewritten(rows[rev[v].task], r)]
  ELSE UNCHANGED rows

\* Reviewer.Review returns a verdict, and if it came from another model than
\* the row names the copy is saved (review_model); or an error, and the
\* context tells a cancellation from trouble that leaves the task alone.
RevReturns(v) ==
  /\ rev[v].pc = "review"
  /\ \/ /\ RevGoto(v, "approve") \/ RevGoto(v, "judge")
        /\ RevSave(v, rev[v].mem) \/ UNCHANGED rows
     \/ /\ \/ RevDone(v) /\ RevGoto(v, "abort")
           \/ "reviewer" \in Faults /\ ~ RevDone(v) /\ RevGoto(v, "exit")
        /\ UNCHANGED rows
  /\ UNCHANGED <<disk, branch, registry, sems, procs>>

\* Cancelled: ai_review -> aborted under a fresh context.
RevAbort(v) ==
  /\ rev[v].pc = "abort"
  /\ Try(rev[v].task, "ai_review", "aborted", "none")
  /\ RevGoto(v, "exit")
  /\ UNCHANGED <<disk, branch, registry, sems, procs>>

RevApprove(v) ==
  /\ rev[v].pc = "approve"
  /\ TryCtx(RevDone(v), rev[v].task, "ai_review", "human_review", "none")
  /\ RevGoto(v, "exit")
  /\ UNCHANGED <<disk, branch, registry, sems, procs>>

\* Mutant: the cap is off by one.
PastCap(r) == r.reworkCount > ReworkCap

\* The loop is cut when the copy of the row has reached the cap.
AtCap(r) == r.reworkCount >= ReworkCap

\* Mutant: at the cap the reviewer gives up without handing the task over.
RevJudgeGivesUp(v) ==
  LET copy == [rev[v].mem EXCEPT !.feedback = "ai"]
  IN
  /\ rev[v].pc = "judge"
  /\ RevSave(v, copy)
  /\ RevGoto(v, IF AtCap(rev[v].mem) \/ RevDone(v) THEN "exit" ELSE "requeue")
  /\ UNCHANGED <<disk, branch, registry, sems, procs>>

\* The verdict asks for rework.  At the cap, judged by the copy, the feedback
\* is kept for the user and the task goes to human_review; below it, the
\* feedback must be persisted before the task is requeued.
RevJudge(v) ==
  LET t    == rev[v].task
      copy == [rev[v].mem EXCEPT !.feedback = "ai"]
      kept == ~ RevDone(v) /\ UpdateAccepted(rows[t], copy)
  IN
  /\ rev[v].pc = "judge"
  /\ RevSave(v, copy)
  /\ IF AtCap(rev[v].mem)
     THEN RevGoto(v, "approve")
     ELSE RevGoto(v, IF kept THEN "requeue" ELSE "exit")
  /\ UNCHANGED <<disk, branch, registry, sems, procs>>

RevRequeue(v) ==
  LET ok == ~ RevDone(v)
            /\ TransitionAccepted(rows[rev[v].task], "ai_review", "queued", "none", "none")
  IN
  /\ rev[v].pc = "requeue"
  /\ CountBounded(rev[v].task)
  /\ TryCtx(RevDone(v), rev[v].task, "ai_review", "queued", "none")
  /\ RevGoto(v, IF ok THEN "enqueue" ELSE "exit")
  /\ UNCHANGED <<disk, branch, registry, sems, procs>>

\* Enqueue; ErrAlreadyRunning and ErrShuttingDown are dropped.
RevEnqueue(v) ==
  /\ rev[v].pc = "enqueue"
  /\ Enqueue(rev[v].task)
  /\ RevGoto(v, "exit")
  /\ UNCHANGED <<rows, disk, branch, aiReviews, rootDone, sems, permit,
                 cancelled, aborted, mem, result>>

\* Without a Reviewer: the delay elapses or the wait is cancelled.
PassWait(v) ==
  /\ rev[v].pc = "wait"
  /\ \/ RevGoto(v, "advance")
     \/ RevDone(v) /\ RevGoto(v, "exit")
  /\ UNCHANGED <<rows, disk, branch, registry, sems, procs>>

\* Mutant: the pass-through expects the status before the review.
PassAdvanceEarly(v) ==
  /\ rev[v].pc = "advance"
  /\ Try(rev[v].task, "in_progress", "human_review", "none")
  /\ RevGoto(v, "exit")
  /\ UNCHANGED <<disk, branch, registry, sems, procs>>

PassAdvance(v) ==
  /\ rev[v].pc = "advance"
  /\ Try(rev[v].task, "ai_review", "human_review", "none")
  /\ RevGoto(v, "exit")
  /\ UNCHANGED <<disk, branch, registry, sems, procs>>

\* The deferred delete(o.aiReviews, taskID), whoever is registered by now.
RevExit(v) ==
  /\ rev[v].pc = "exit"
  /\ aiReviews' = [aiReviews EXCEPT ![rev[v].task] = None]
  /\ rev' = [rev EXCEPT ![v] = IdleRev]
  /\ UNCHANGED <<rows, disk, branch, running, rootDone, sems, procs>>

ReviewStep(v) ==
  \/ RevRegister(v) \/ RevGet(v) \/ RevReturns(v) \/ RevAbort(v)
  \/ RevApprove(v) \/ RevJudge(v) \/ RevRequeue(v) \/ RevEnqueue(v)
  \/ PassWait(v) \/ PassAdvance(v) \/ RevExit(v)

-----------------------------------------------------------------------------
(* SetConcurrency, Shutdown                                                *)

\* A new limit installs a fresh semaphore; nothing is carried over.
SetConcurrency(n) ==
  /\ n # sems[Len(sems)]
  /\ sems' = Append(sems, n)
  /\ UNCHANGED <<rows, disk, branch, registry, procs, rev>>

\* rootCancel; the wait for the goroutines is the WaitGroup's.
Shutdown ==
  /\ ~ rootDone
  /\ rootDone' = TRUE
  /\ UNCHANGED <<rows, disk, branch, running, aiReviews, sems, procs, rev>>
=============================================================================
