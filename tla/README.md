# FleetKanban: a TLA+ verification project

FleetKanban runs coding-agent tasks in git worktrees.  A Flutter window on
Windows shows a Kanban board; a Go process, the *sidecar*, holds the state in
SQLite, runs the tasks in goroutines and serves the window over gRPC.  This
directory models the sidecar's task engine, the loop that runs a task's plan, the
log of its events and their way to the window, the git commands that merge and
remove a task's branch, the charter that evolves with the reviews, the memory's
trust gate, and the way a window finds and replaces its sidecar.  TLC checks them
on small instances; TLAPS proves every safety and action property the passing runs
check, and the two refinements, for every value of the constants (some under a named
hypothesis).  Liveness stays with TLC.

Paths below are relative to `src/sidecar/internal/` unless they start with `ui/`
or `cmd/`.

## The system

| Part | State it keeps | Operations | What is hard about it |
|---|---|---|---|
| Status graph and task row (`task/task.go`, `task/transition.go`) | none | `CanTransition`, `Task.Validate` | a dozen callers walk one graph from what they last read |
| Task store (`store/task_store.go`) | the `tasks` table | `Create`, `Get`, `UpdateFields`, `Transition` (compare-and-swap on status), `SetBranchExists`, `Delete`, `RecoverRunning` | callers edit copies and write them back; only the status is compared |
| Orchestrator (`orchestrator/orchestrator.go`) | `running`, `aiReviews`, `rootCtx`, a replaceable semaphore, one goroutine per run, one per review | `Enqueue`, `Cancel`, `dispatch`, `runPlanningPhase`, `runAgent`, `completeTask`, `runAIReview`, `SetConcurrency`, `Shutdown` | cancellation races with every step; a review outlives its run; contexts that are done make the clean-up fail |
| Plan (`copilot/planner.go`, `normalisePlan` and `topoSort`) | none | check and sort the planner's answer | cycles; the order the loop packs by |
| Subtask store (`store/subtask_store.go`) | the `subtasks` table, one *round* per plan | `CreatePlan`, `Update`, `Delete`, `Reorder`, `ListLatestRound` | the loop writes whole copies back over rows a user edits |
| Subtask loop (`orchestrator.go` 694-1270) | wave bookkeeping, copies of the latest round | reset, waves of path-disjoint subtasks, reconciliation, failure cascade | parallel sessions in one worktree; cancelled slot waits; when a round is over |
| Finalize (`orchestrator/finalize.go`) | none | keep, discard, merge, delayed merge | three steps: check, remove, transition |
| Application service (`app/service.go`) | none | the RPC handlers: run, cancel, review, finalize, delete, remove worktree, limits | each is several statements with no lock between them |
| Worktree manager (`worktree/manager.go`, `merge.go`) | directories and branches, a mutex per repository | `Create`, `CommitPending`, `Merge`, `Remove`, `DeleteBranch`, `DeleteBranchIfMerged` | git commands one by one, of which each may fail or be the last, in a repository the user works in |
| Reaper (`reaper/service.go`) | none | reap orphan worktrees, sync `branch_exists`, sweep merged branches, archive events | reads two stores and writes one later |
| Event log (`store/event_store.go`, `consumeEvents`, `copilot/runner.go`) | the `events` table, a bounded channel and a cached sequence number per session | `Append`, `AppendAutoSeq`, `AppendBatch`, `NextSeq`, list, archive | several allocators of one sequence; the session and its consumer wait for each other |
| Broker and stream (`ipc/broker.go`, `ipc/event_stream.go`, `ui/lib/app/providers.dart`) | subscriber channels; a cutoff per stream; marks and a fetched list in the window | publish, subscribe, replay, reconnect | drop-oldest with concurrent publishers; replay and live events overlap; a list is older than the event that asked for it |
| Process (`cmd/fleetkanban-sidecar/main.go`) | a named mutex, the endpoint file | singleton check, handshake, recovery, housekeeping ticker, the order of the teardown | what a restart resumes and what it does not; the successor starts while the predecessor stops |
| Supervisor (`ui/lib/infra/ipc/sidecar_supervisor.dart`, `ui/windows/runner/main.cpp`) | the child process, a job object | read the endpoint, probe, evict, start, handshake | two windows, versions and a sidecar that does not answer; there is no restart loop |
| Harness (`ipc/harness_server.go`, `harness_attempt_server.go`, `ihr/`) | versions of SKILL.md in the database, the file, the parsed charter, attempts with proposed patches | save, roll back, approve, reject, propose | the charter is held three times; a patch is made from an older text |
| Context memory (`ctxmem/`) | scratchpad entries, nodes, edges, a closure table | analyse, promote, reject, snooze, edit | promotion is three statements |
| Run-state files (`runstate/`), other tables (`store/`), SDK adapter (`copilot/`) | files and tables of their own | | I/O, loosely coupled to the task state |

How they interact.  A client's `RunTask` calls `Enqueue`, which registers the
task under `o.mu` and starts a *dispatcher*.  The dispatcher waits for a permit,
moves the row by compare-and-swap, creates the worktree, runs planner and agent
and records the outcome.  A success starts a *reviewer* goroutine, which may
requeue the task and call `Enqueue` itself.  RPC handlers, the housekeeping
ticker and both kinds of goroutine share the row with no lock: only `Transition`'s
`WHERE status = ?` arbitrates.  A process death loses every goroutine; the next
process turns `in_progress` rows into failures and nothing else.

What makes the parts correct: rows always satisfy `Task.Validate` and carry
consistent stamps; a closed task is never reopened; a task has at most one
dispatcher; a row is `in_progress` only while a dispatcher runs its agent; permits
are bounded; every run ends; a review always hands the task on and the automatic
rework loop is bounded; a recorded worktree exists.  Of a round of subtasks: a
session starts only after what it depends on has succeeded; sessions that share
the worktree write different files; an error ends the round; the wave told to
verify the whole change is the last; the table is settled when the round is over;
earlier rounds stay as they were.  Of the log: its numbers follow the order of the
commits, what is kept of a session is a prefix, archiving loses nothing, a session
ends; a quiet connection has told the window everything, once, and the board is not
behind what the window was told.  Of a repository: the work done for a task is
somewhere until somebody discards it, and a merge leaves the user's commits, edits
and files alone.  Of the charter: what the server put into SKILL.md can be rolled
back to, and a patch takes no other save with it.  Of the processes: a serving
sidecar can be found, and a window does not start another against it.  Of the
memory: one node per concept.

## The modules

| Module | Models | Relation to the code |
|---|---|---|
| `TaskRules` | the row, the status graph, `Validate`, and what each store statement does to a row | constant-level operators shared by all modules; a row keeps the columns the rules read or write, timestamps as "is it NULL", texts as their author, paths as "is it recorded" |
| `TaskStore` | the table under any number of clients with stale copies | one action per store call; `Edit` and `Claim` are what callers do to their copies |
| `TaskRulesProofs` | lemmas about the row operators | what `Moved`, `Rewritten` and `Recovered` return and preserve |
| `TaskStoreProofs` | theorems about `TaskStore` | |
| `Orchestrator` | dispatchers, reviewers, the registry, the semaphore | one action per critical section, store statement or git command; `pc` and `rev[v].pc` are the places between them |
| `Service` | RPC handlers, finalize, housekeeping, shutdown, process death around `Orchestrator` | `call[c]` is a handler in flight with the row it read; each handler is a chain of actions |
| `ServiceProofs` | theorems about `Service` and `Orchestrator` | |
| `TaskBoard` | what the sidecar promises the board | abstract specification; `Service` refines it (`BoardImplemented`) |
| `WritePaths` | may two declared write paths name one file? | `pathsIntersect` as an operator, beside `Names`, the reference definition of what a path or a glob names |
| `PlanGraph` | the check and the order of a plan | `topoSort` (Kahn's algorithm) as a recursive function over a graph, `Accepted`, `OrderIdx`; beside them what they are for, without the algorithm (`SortRight`, `RefusedRight`) |
| `Subtasks` | one task's rows, the loop that runs their latest round, the subtask RPCs | one action per database statement, slot and session; `pc` is the place in `runAgent` and `runSubtaskLoop`, `wave` the place of each session |
| `PlanRound` | what running a round promises, in terms of files | abstract specification; `Subtasks` refines it (`RoundImplemented`) |
| `SubtasksProofs` | theorems about `Subtasks` | |
| `EventLog` | one task's log: sessions, their channels and consumers, out-of-band and audit emitters, the archiver | one action per statement, channel operation and way out of `driveSession`; `history` remembers every commit in order, for the properties |
| `EventLogProofs` | theorems about `EventLog` | |
| `EventStream` | writers of a row, the broker, one `WatchEvents` stream with its replay, the window's Tasks provider | one action per select of `Publish`, per step of the stream and per callback of the provider; `role` is the provider ("board") or a client that keeps its mark ("tail") |
| `Repository` | a task's branch and worktree: `Finalize` command by command, `SweepMergedBranches`, a user at work with git | a branch is the set of commits reachable from it: ancestry is inclusion, a merge a union |
| `Harness` | SKILL.md in its three copies, attempts, the RPCs, the Evolver | one action per lock-protected step; a charter is what it says in each region, and a patch changes one |
| `Lifecycle` | windows and sidecar processes around the mutex and the endpoint file | one action per probe, file operation and teardown step |
| `TrustGate` | scratchpad entries and nodes under promotion, users and crashes | one action per SQL statement |
| `Promises` | comments of the code that the code does not keep | properties only, see "Divergences" |
| `MCTaskStore`, `MCService`, `MCSubtasks`, `MCEventLog` | small instances | which RPCs clients use, which faults occur, which write paths planners declare |
| `Around` | `EventStream`, `Repository`, `Harness`, `Lifecycle` and `TrustGate`, one or the other | they share no state, so `part` says which a behaviour is about and the variables of the others stay `Off`; the assumptions on their constants |
| `MCAround` | the small instance of `Around` | two actors, two things to act on, and their symmetry |
| `AroundProofs` | theorems about `Lifecycle`, `Harness` and `TrustGate` in `Around` | |
| `RepositoryProofs`, `EventStreamProofs` | theorems about `Repository` and `EventStream` in `Around` | |

Contexts.  Most statements of a dispatcher run under the task's context; once it
is done they fail.  `CtxDone(p)` is that context (cancelled through `Cancel` or
`rootCtx`), and each action says what happens when it is done.  `completeTask`,
the abort of a cancelled review and the pass-through use fresh contexts, so their
actions do not test it.  The reviewer's context is additionally ended by its
timeout (`RevTimeout`).

`Orchestrator` abstracts the agent phase to one step with an outcome; `Subtasks`
is what happens inside it when the task has a plan.  The sessions are
goroutines, so `BeginSubtask`, `LeaveWave` and `EndSubtask` interleave freely; the
loop's own statements are one action each because the RPCs may come between them.
The batch of a wave is chosen as the code chooses it: greedily, by `OrderIdx`, with
ties in any order, since the ready subtasks come out of a Go map.  An identifier
is a number because only the order of ULIDs matters.

The environment.  `Faults` names what may go wrong outside: an unknown
repository, a failing `git worktree add` or `git config`, an error or a timeout
of planner, agent, reviewer, or an RPC client that disconnects so that a handler's
next statement fails.  Sessions may ignore a cancelled context and succeed.  In the
other modules faults are actions or disjuncts of their own, counted by `faults`
(`failures`, `past.faults`, `spent.faults`) up to a bound: a statement, a git command or a
file write fails, a stream breaks, a process dies, a call hangs.

The row crosses module boundaries in the abstract: `Repository` keeps the status and
the two columns `Finalize` writes, `EventStream` a version number that grows with
each change.  `Service` has `Finalize` as three steps (check, worktree, row) under
every other handler; `Repository` has the commands inside the middle one under a
user of the repository.  `EventLog` and `EventStream` meet at the publication: the
former says what has been committed when a window is told, the latter what of it
arrives.

## The runs

The `Svc` runs use one or two tasks.  Their bounds are: `Proc` and `Rev`, the goroutine
slots alive at once (a task can have only one dispatcher, so one slot per task is
exact, and a second `Rev` slot admits a reviewer left over from an earlier run);
`Caller`, RPC handlers in flight; `CountBound`/`ReworkBound`, which stop further
reworks beyond the named count and are above the cap where the cap is checked;
`SemBound`, how many semaphores are ever installed.

| Run | Question | Instance |
|---|---|---|
| `TaskStore` | Can a stale copy corrupt a row or reopen a closed task? | one row, one holder, three error codes; any transition at any time |
| `SvcReview` | Does an `in_progress` row always have its dispatcher, is the board's promise kept, and does a recorded worktree stay until a user asks for its removal? | one of each; clients run, cancel, review, finalize, restart and shut down; handlers stop half-way, git fails, agents fail, reviews time out, the process dies |
| `SvcCleanup` | The same for deletion, branch deletion, worktree removal, delayed merge, housekeeping and failed sign-in; does `started_at` survive? | one of each |
| `SvcMany` | One dispatcher per task, bounded permits, every run ends, while the limit changes and the sidecar may shut down. | two tasks, limits 1 and 2, no planner and reviewer, fair |
| `SvcLoop` | Is the automatic rework loop bounded, and does every review hand the task on? | cap 2, two run requests, two reviewer slots, fair |
| `SubWaves` | Do sessions follow the plan, with and without declared paths, and does the loop implement `PlanRound`? | every plan of up to three subtasks, two slots, one run, cancellation and restart at any time |
| `SubEdits` | Does a round settle its rows and end, and is history kept, whatever statements fail and whatever a user edits? | two subtasks, two runs, one failed statement, one edit, fair |
| `Events` | Is the log the history of its commits, is what is kept of a session a prefix of it, does archiving lose nothing and a session end? | one session of two events, one out-of-band and one audit emitter, one fault, one purge, a channel of two, fair |
| `Around` | Do the event stream, the repository, the charter, the processes and the trust gate each keep what they promise the user? | each alone: two actors, one fault, small bounds (below) |
| `SvcVPlanning`, `SvcVRework`, `EvVCollide` | Divergences, below. | |

In the `Sub` runs `Id` bounds the subtasks ever created (three give chains, forks,
joins, and two parallel sessions beside a waiting one), `MaxRuns` the runs of the
task, `MaxFaults` the statements that fail under a live context and `MaxEdits` the
RPCs.  `SubWaves` has `PathSets` with no path, a directory glob, a file under it
and an unrelated file, so plans overlap in every way the loop distinguishes.

In `Events` two events are enough for a batch of one, a batch of two, a flush
between them and a channel that is full when the usage record or a path-escape
report follows; the colliding consumers need two sessions and are in `EvVCollide`.

`Around` gives the five components the same two actors (`Pair`: writers, Finalize
calls, handlers, windows, RPCs) and, where they act on several things, two of those
(`Twin`: regions of the charter, protocol versions, scratchpad entries).  Bounds: a
subscriber buffer of one, so that a second event already meets a full one; three
persisted events, one of them a change of the row, one `file.changed` and one
broken stream; one change of the work and one commit of the user; two versions of
the charter beside the seed; three sidecar processes, so that a successor can meet a
predecessor and be followed; three nodes and two user edits; one fault in each.  The
actors of `Pair` are interchangeable and so are the things of `Twin`, since no
definition names one of them; the run has safety and action properties only, for
which that symmetry is sound.

`CHECK_DEADLOCK FALSE` in all runs but `TaskStore`: a sidecar nobody talks to, or one
that was shut down, stops, and so do a task that is run no more, a log nobody writes
and actors whose bounds are used up.

Properties worth a word.  `InProgressHasOwner` names the three phases in which a
dispatcher can own an `in_progress` row; it fails if any error path forgets the
row, if crash recovery is missing, or if a handler moves a row it does not own.
`BoardImplemented` maps the table, the registry and `rootCtx` to the board and
says that every step of two dozen actions is one card move along the graph, that
cards enter `planning` and `in_progress` only under a registered run, that no run
is unregistered over an `in_progress` card, and that nothing registers after
shutdown.  `ReworkWithinCap` is not obvious because the cap is judged on a copy
while the counter is in the row; it does *not* survive users who cancel and rerun
a task under a stale reviewer, which is why its run has none.  `WorktreeKept` is an
action property so that it can be asked of users who do discard and merge: whatever
takes a recorded worktree from the disk, or writes back a record of one that is gone,
is a step that a user asked for.  It does not hold in `SvcCleanup`: `RemoveWorktree` looks
at no status and may take the directory between its creation and its record.

`RowsSettled` excludes rounds with an edit, a failed statement or a cancelled
context; the notes below say what becomes of the rows otherwise.  `FinalWaveVerifies` is about a flag computed from the batch and the
remaining subtasks before the wave runs: the invariant says it is right for the
whole round.  `FailureEndsRound` implies that lines 961-971, which fail the
dependents of a failed subtask, are never reached; that is why the model has no
action for them.  `RoundImplemented` compares by the files that path sets name,
not by the code's test.

`LogIsHistory` is about every reader that asks for "seq > n": a number is never
given to a later commit than a greater one.  It holds although consumers cache
their numbers, because a batch under a stale number is refused as a whole; what that
costs is `EvVCollide`.  `SessionEnds` is about a circle: the session sends on a full
channel with no way out, its caller waits for the consumer, the consumer waits for
the channel to close.  `ConnectionComplete` covers the whole way from the commit
through publication, drop, replay and both filters; `conn.base` is what the window
already had.  `WorkKept` speaks of commits, so a branch may be deleted or a worktree
removed as long as its commits are on another.  `UserWorkKept` excepts edits made
after the merge looked, and `FilesFollowHead` a user who works in the repository
during a merge, because the code has no lock the user would take.  `EndpointFound`
excepts records a window deleted (`lost`), which is the race noted below.
`OnePerConcept` excepts labels for which two promotions searched at the same time
(`overlapped`), also noted below; it covers retries after a crash.

Fairness (`Service!Fairness`).  Weak fairness of each goroutine's own steps: the
Go scheduler runs every ready goroutine, statements return (ten-second contexts),
and sessions end: the planner by `PlanningTimeout`, the reviewer by
`aiReviewTimeout`, the agent by the SDK's limits.  Strong fairness of `Acquire`:
`semaphore.Weighted` serves its waiters first-in first-out, so a waiter that could
be served again and again is served.  Users, crashes and the housekeeping ticker
are never fair.  `Subtasks!LiveSpec` is weakly fair to the steps of the loop and of
its sessions together: the goroutines are scheduled and each session returns.
`EventLog!LiveSpec` is weakly fair to each session and to each consumer: the session
is woken by its idle signal, the timeout or the cancellation, and the consumer by its
channel or its ticker.  `Around` has no liveness property and states no fairness.

## Divergences

Three runs show a comment that the code does not keep (`findings`):

* `SvcVPlanning`.  `runPlanningPhase` says it returns false with the task already
  failed or aborted.  After a Cancel during planning both `Transition(ctx, ...)`
  and `failTask(ctx, ...)` use the context that was just cancelled and fail: the
  row stays in `planning` with no goroutine.
* `SvcVRework`.  A rework submitted while the old dispatcher has recorded its
  outcome but not yet unregistered meets `ErrAlreadyRunning`, which is swallowed:
  the task stays `queued` until the user presses Run.
* `EvVCollide`.  The comment at orchestrator.go:1939-1942 says that `AppendAutoSeq`
  avoids the race with the consumers' cached numbers.  It avoids it for the status
  event; the consumer then finds its number taken, its batch is refused, and it
  returns: the rest of the session is never recorded.  Parallel subtasks do the same
  to each other.  After some 1024 further events the session blocks on its channel
  until its timeout, which is why `SessionEnds` excepts consumers that gave up.

Two definitions of the subtask modules state a comment that TLC refutes, with no run
of their own: `WritersDisjoint` (`pathsIntersect` calls itself conservative, 1123-1125, but
cuts a glob at its first wildcard and compares directories: `a/b*` and `a/bc` pass for
disjoint) and `NoOrphanPending` (1095-1097: a subtask cancelled while it waits for a
slot keeps its status, is counted as done, and the cleanup never sees it).

Seen while modelling, without a run of their own: sessions that end after a
cancellation write their status under the cancelled context, so rows stay
`doing`; a user's reorder during a round is undone row by row as the loop writes
its copies back (`SubtaskStore.Reorder` speaks of an order seen in full or not at
all); a subtask that depends on a deleted one never becomes ready, and the round
then reports success without it (the comment at 976-980 holds it for impossible);
the comments at 706-708 and 778-781 contradict each other on what becomes of
pending subtasks after an error, and the code does the latter.

Event log.  `consumeEvents` wants to flush what is queued before it bails out
(1475-1479), under the context that was cancelled, so that flush always fails.  The
archiver promises "without losing data" (reaper/service.go:251-254) but deletes by
task what it listed before; `NothingVanishes` excepts what is committed in between.
After a purge `MAX(seq)` starts again at 1, against "monotonic per TaskID"
(task/event.go:127).

Event stream.  `EventStream!LatestKept` and `BoardConverges` state the comments of
broker.go:40-42 and kanban/providers.dart:160-162 and are refuted: another publisher takes
the room the drop made, and a change made while the stream was down shows only once
a further event arrives.  A client that keeps its mark across a reconnect loses an
event that was overtaken by a later one between commit and publication, and
`file.changed`, whose seq is 0, is filtered by the cutoff.

Repository.  A failed auto-commit is only a warning, after which the merge and
`worktree remove --force` destroy the uncommitted work (`past.uncommitted`).  `reset --hard`
follows the dirty check without a lock the user would see.  A crash between
update-ref and reset leaves the files behind the branch.  Commits made to the task's
branch between the merge and `branch -D` are lost (`past.late`).  A crash between the
deletion of the branch and the transition leaves a merge that cannot be retried.

Harness.  `RunsTheLatest` (harness_server.go:260-263) and `NeverStranded`
(harness_attempt_server.go:76-82) are refuted: saving an earlier content again adds no
row, and the Evolver's patch may arrive between Approve's read and its decision.  A
Reject beside an Approve records `rejected` over an applied patch; a crash between
patch and decision leaves a pending attempt whose patch no longer applies; after a
failed write of the file the next patch is built on the old file and undoes the saved
version.

Processes.  A window may delete the record of a sidecar that started after it read an
older one; `taskkill /IM` ends every sidecar, a compatible new one included; a window
that starts one while another is starting or stopping gets a startup failure, where
sidecar_supervisor.dart:82-86 speaks of reconnecting.

Memory.  Two concurrent promotions make two nodes (promotion.go:36-41); a Reject
beside a Promote leaves a node whose entry says `rejected`; no statement checks the
entry's status; nothing wakes a snoozed entry.

Two notes on code that is not modelled: a slow `Rebuild` overwrites a newer closure
table, and `DeleteNode` leaves its rows there; a flush of the worktree watcher takes at
most `fileChangeBatchMax` paths and leaves the others without a timer until another
event.

Module `Promises` states further ones.  To see one refuted, use it as the only
property of a configuration of module `Promises` derived from the named one:

| Property | Comment | Start from |
|---|---|---|
| `CancelWins` | orchestrator.go:384-385 | `SvcVPlanning` |
| `CancelSettles` | orchestrator.go:384-385 | `SvcVPlanning` |
| `TimeoutLeavesReview` | orchestrator.go:1540-1543 | `SvcVPlanning`, `Faults <- Trouble` |
| `LimitGovernsAdmission` | orchestrator.go:318-323 | `SvcMany`, `Limit = 2`, `SemBound = 3`, `SPECIFICATION SSpec` |
| `FeedbackVisible` | service.go:1393-1395 | `SvcVRework`, `SPECIFICATION SSpec`, `Ops <- OpsRestart` |
| `AgentKeepsWorktree` | finalize.go:37-38 | `SvcReview`, `Faults <- Client`, `Caller = {c1, c2}` |
| `AuthFailureShown` | service.go:858-860 | `SvcCleanup` |
| `FailedCreateLeavesNothing` | worktree/manager.go:114-115 | `SvcReview`, `Ops <- OpsRerun`, `Faults <- Trouble` |
| `RemovedMeansGone` | orchestrator.go:515-522 | the same |
| `ReworkCountKept` | task.go:118-128 | the same, `Rev = {v1, v2}`, `ReworkCap = 2`, `CountBound = 2` |
| `RunningTaskNotDeleted` | service.go:1213-1214 | `SvcCleanup` |
| `TerminalResetsRework` | task.go:118-128 | `SvcReview` |

`RemovedMeansGone`: housekeeping or startup clears `branch_exists` of a queued task
whose branch was never created; the first run creates the branch without setting
the flag, and the next run fails with "removed externally".

Without a planner (`PlannerOn = FALSE`: `main.go:341-345` leaves it nil when
`NewPlanner` fails) three properties fail.  `StartedStampKept`: the row is read before and
written back after `queued -> in_progress`.  `InProgressHasOwner` and
`BoardImplemented`: the claim moves the row straight to `in_progress`, and a failure of
the worktree is then recorded under the task's context; when that has been
cancelled, the row stays there without a dispatcher until the next start.  The
runs that check them, and the theorems, speak of a sidecar with a planner.

## The proofs

Eight modules hold the theorems.  Each proof has the same outline: an inductive
invariant, a definition of its own, holds at first, one step per action preserves it,
and it implies the property.

**Task store** (`TaskRulesProofs`, `TaskStoreProofs`), for every set of tasks, clients and
error codes: `TypeCorrect`, `StoreInvariant`, `StampsFollowStatus` (`FinishedIffSettled`) and
`ClosedTasksStayClosed`.  `RowsValid` is inductive by itself because `UpdateFields`
validates the copy it writes.  `FinishedIffSettled` is not: a copy's stamp is written
back into a row of the same status, so the copies must have consistent stamps too
(`CopiesConsistent`), and `Claim`, which changes only the status of a copy, must be
limited to the statuses that do not stamp.  A closed row stays closed because
`done` and `cancelled` have no outgoing edge and `RecoverRunning` touches only
`in_progress`.

**Service** (`ServiceProofs`), for any number of tasks, dispatchers, reviewers and handlers,
any RPCs and any faults:

* `ServiceTypeCorrect`.  `Typed` adds to the types which goroutine holds a copy of a
  row at which place; every statement that writes a copy needs that.
* `OneDispatcherAlways`.  `OneDispatcher` (registry and goroutines agree) is inductive;
  the work is to show that nothing but `Enqueue` registers and nothing but the exit
  of a dispatcher unregisters, in four dozen actions (the `Shape` lemmas).
* `PermitsAlwaysBounded`.  `PermitsCounted` adds that the holders of a semaphore are
  finitely many, without which their number means nothing; only `Acquire` adds one.
* `InProgressAlwaysOwned`.  The lemma is about writers: only a dispatcher moves a row
  to `in_progress`, at a place that owns it, and a dispatcher leaves these places only
  by a statement under a context of its own (`DispatchWrites`, `CompleteMoves`).  What
  everybody else writes beside it (`Beside`) reaches neither that column nor
  `planning`.
* `BoardIsImplemented`.  Each step changes at most one card, along an edge (`CardAfter`),
  and the two facts above give the registered run; a restart is the board's crash.
* `StartedStampSurvives`.  `RowsStamped` and `CopiesStamped`: a row whose run has started
  carries the stamp, and so does each copy whose write can still be accepted.  A copy
  without the stamp may exist, but the status it expects is behind the row's.
* `WorktreesAreKept`.  `TreesRecorded` relates row, copies and disk: a copy that would
  write a different worktree column can no longer be accepted, and a worktree that is
  on disk without a record (`Adrift`) is one that `ensureWorktree` refuses to touch.
* `LoopAlwaysBounded`.  `LoopBounded`: a review under way has one reviewer, its row waits
  in `ai_review`, and the count it decides by is the row's; so the cap judged on the
  copy is the cap of the row.

All but the first three assume `PlannerOn`; see "Divergences" for what a sidecar without a
planner does.  `WorktreesAreKept` also excludes the RPC `remove_worktree`, and
`LoopAlwaysBounded` the RPCs with which a user decides a review that is under way; with
them the properties do not hold (see "The runs"), and the runs have none of them either.

**Subtasks** (`SubtasksProofs`), for every set of identifiers, every family of write paths,
every number of slots and every mixture of failures, edits, cancellations and
restarts:

* `FailureIsLast`, `PlanFollowed`, from `RoundInvariant`.  `Books`: outside the cascade nothing has
  failed, what the loop counts as done was scheduled and has status `done`, what is
  neither to be reset nor in a wave is `pending`.  `Waves`: a session's status tells
  where it is, an ended session that is not done has set `waveErr`, its dependencies
  were done when the wave began, and the wave is pairwise apart (`PackedApart`: greedy
  packing in any order yields that, by the symmetry of the path test).  `SlotsKept` counts
  the semaphore.
* `HistoryIsKept`, from `Rounds` and `Latest`: a copy, and an edit in flight, are of the round of their
  row, and no row is of a later round than the one that runs.  That a new round gets a
  greater number needs a greatest element of a finite set, which is proved from the
  smallest counterexample (`SmallestSubset`, `GreatestValue`), since the library's
  induction over finite sets cannot be instantiated here.
* `LastWaveVerifies`, from `Divided`: the copies are divided between done and remaining, and the flag
  tells whether the wave takes all that remains.
* `RoundIsImplemented`: the refinement of `PlanRound`, a lemma per kind of step (a list opens the
  round, a session begins or ends, the loop succeeds, fails or gives up; everything else
  changes nothing `PlanRound` sees).  Hypothesis `PathTestRight`: on the paths planners
  declare, the test sees every clash.  That is an assumption about plans: on some
  globs the code's test is wrong (`WritersDisjoint` under "Divergences").  It holds of the
  path sets of `SubWaves`.
* `SubtasksTypeCorrect` and `RoundsSettle`.  Hypothesis `SortRight(Id)`: the planner's sort gives every
  accepted plan natural positions with dependencies first.  `topoSort` is a recursion
  over data, so this cannot be proved here; `MCSubtasks` has TLC evaluate it, and that
  exactly the cyclic and the empty plans are refused (`RefusedRight`), for every plan of up to four
  subtasks.  `RoundsSettle` then rests on `Planned` (until a user edits, rows depend on rows
  of their own round that come before them, so whatever remains contains something
  that is ready: the one that comes first), `Mirrored` (until a write fails the table is what the
  copies are) and `Settling` (sessions that were not cancelled end done or failed).

**Event log** (`EventLogProofs`), for any finite number of sessions and any number of
emitters, any channel capacity and every mixture of failures and cancellation:

* `LogFollowsHistory`.  The key (`InsertAdds`): an insert needs free
  numbers, the table without a purge is `1 .. Len(history)`, and nobody holds a number
  beyond the next one (`Bounds`); a number that is free and not beyond the next one is
  the next one.  `Bounds` is not obvious: a consumer counts on from a number it read
  once, so it must only ever count what it has itself inserted (`FlushKept`).
* `StreamsArePrefixes`.  `Follows`: until its consumer gives up, what a session has sent is what history keeps of
  it, the consumer's batch and the channel, in that order; after that nothing of the
  session is added except the usage record, its last event.
* `ArchiverKeepsEvents`.  `Archiving` says, per place of the
  archiver, what the rows are a part of: while it has listed, of the archive, the list
  and what came since; after the write, of the archive and what came since.
* `LogTypeCorrect`, with the channels' capacity, and `ToldIsPersisted`: usage records and emitters
  carry their event from the commit to the publication, which `Told` remembers.

**Processes, charter, trust gate** (`AroundProofs`), for any number of windows, sidecars,
handlers, attempts, regions, calls and entries:

* `EndpointAlwaysFound`, `FoundIsNeverFought`.  `MutexHeld`: whoever holds the mutex is the one sidecar alive
  behind it, from before the record is written until after it is deleted (the order of the
  teardown).  `UiKnows`: a window that found a serving sidecar starts another only when
  that one is ending or dead.
* `FileAlwaysVersioned`, `SavesSurvivePatches`, `ApprovedWasApplied`.  `Saves`: the lock is held between the row and the file, what is
  to be written was stored before or is about to be, and a patch is based on the file as
  it is, outside its own region and unless somebody edits that file by hand.
  `Applied`: a call past the row that carries a patch has made a version for its attempt.
* `OneNodePerConcept`, `PromotedAlwaysHasNode`.  `Promotions`: a promotion that found no node for a label nobody else searched
  for is the only one about to create one.  `Pointing`: a promotion about to mark its
  entry, and an entry marked, point to a node that was made, and no node is unmade.

**Repository** (`RepositoryProofs`), for any number of `Finalize` calls, commits and any order of the
user's git commands: `WorkAlwaysKept`, `MergedAlwaysMerged`, `FilesAlwaysFollow`, `UserWorkSurvives`.
`RepoInv` says where the work is: on the base branch, on the task's branch or uncommitted in the
worktree (`WorkSafe`).  A merge has recorded a source that contains it, with nothing
pending, before it moves the base branch (`Merged`), and removes only afterwards; the sweep deletes only a branch
whose commits `HEAD` has.  Excluded are the cases the property excludes: a discard, a failed auto-commit
and commits made after the merge has read the branch.  `Progress` carries what a call
knows from one git command to the next, among it that the files follow when the
branch merged onto is the one checked out.

**Event stream** (`EventStreamProofs`), for any number of writers, any buffer and any length of the log:
`NothingToldTwice`, `QuietIsComplete`, `BoardKeepsUp`.  `Once`: what was told, and what is on the way and
would pass the filter, are disjoint, and each is without repetition.  `Complete`: without a drop, everything
after the client's mark is told, or is on its way and passes the filter, or is left to the replay.  `Behind`: a
board that shows less than it has heard of has a list request outstanding or to repeat.
`AroundTypeCorrect` combines the types of the five.

Assumptions on constants are named in the modules that declare them and evaluated
by TLC: values that mean "none" are not among the things they stand in for,
bounds are natural numbers, there is at least one slot and one place in the channel,
identifiers of subtasks and sessions are finitely many.  The proofs depend on no value of
a bound.

Only model-checked: liveness under fairness (`SessionEnds`, `EveryRunEnds`, `ReviewAdvances`, `RunEnds`),
which is out of the prover's reach; `SortRight`, `RefusedRight` and `PathTestRight` on the
instances.  `Harness!ApprovedIsApplied` and `TrustGate!PromotedHasNode` are proved and have no run.

## What is not modelled, and the plan

Not modelled, because a checker has nothing to say about it: the generated gRPC and
protobuf code, which with the message conversions is more than a third of the
implementation's lines; the widgets of the Flutter window; SDK sessions, prompts,
text formats, logging and notifications; tables of single statements (settings,
repositories, artifacts, insights) and the schema; Windows calls, secrets, stash and
diff.  What is modelled is where several actors or several steps meet, and that is a
small part of the lines.

Not modelled although something could be said: the closure table and the
embeddings of the context memory; the debouncing of the worktree watcher; the run-state
files; the resolution of worktree paths and the fallback root.

Next, in this order:

1. `EventLog` composed with `EventStream`: what a session sent, a window with no drop
   shows.
2. The sidecar without a planner: what of `Service` still holds, with a run and the
   theorems that need no `PlannerOn`.
3. The worktree watcher and the closure table as modules of their own.
