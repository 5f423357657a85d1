------------------------------ MODULE Subtasks ------------------------------
(***************************************************************************)
(* The subtasks of one task: the rows of the subtasks table, the loop that *)
(* runs the latest round of them in parallel waves on the worktree of the  *)
(* task, and the RPCs by which a user edits the rows meanwhile.  The loop  *)
(* works on copies of the rows (subs) it loaded when it began, and writes  *)
(* whole copies back.                                                      *)
(***************************************************************************)
EXTENDS PlanGraph, WritePaths, Functions

CONSTANTS Id,            \* ULIDs, in their order
          PathSets,      \* the lists of write paths a planner may declare
          Files,         \* files of the worktree
          Limit,         \* SubtaskConcurrency
          MaxRuns, MaxFaults, MaxEdits,  \* bounds for model checking
          None

ASSUME IdAssumption    == Id \subseteq Nat /\ IsFiniteSet(Id)
ASSUME LimitAssumption == Limit \in Nat \ {0}

VARIABLES rows,      \* the subtasks table
          fresh,     \* identifiers not handed out yet
          planner,   \* did the planner initialise?
          pc,        \* where the run of the task is
          subs,      \* the loop's copies of the rows of its round
          remaining, \* subtasks not scheduled yet
          done, failed,
          wave,      \* how far each session of the current wave is
          final,     \* was the wave told it is the last one?
          waveErr,   \* did a session of the wave return an error?
          ctxDone,   \* is the context of the run cancelled?
          todo,      \* copies still to be reset or cancelled, one at a time
          outcome,   \* what the last run reported
          edit,      \* the row an UpdateSubtask call has read
          runs, faults, edits

loop == <<subs, remaining, done, failed, wave, final, waveErr, todo>>
vars == <<rows, fresh, planner, pc, loop, ctxDone, outcome, edit, runs, faults, edits>>

SubtaskStatus == {"pending", "doing", "done", "failed"}
Row == [status: SubtaskStatus, deps: SUBSET Id, paths: PathSets, order: Nat, round: Nat]

MaxRound == IF rows = <<>> THEN 0
            ELSE CHOOSE n \in {rows[x].round : x \in DOMAIN rows} :
                   \A x \in DOMAIN rows : rows[x].round <= n

Init ==
  /\ rows = <<>> /\ fresh = Id /\ planner \in BOOLEAN /\ pc = "idle"
  /\ subs = <<>> /\ remaining = {} /\ done = {} /\ failed = {}
  /\ wave = <<>> /\ final = FALSE /\ waveErr = FALSE /\ todo = {}
  /\ ctxDone = FALSE /\ outcome = "none" /\ edit = None
  /\ runs = 0 /\ faults = 0 /\ edits = 0

\* A call to the database under a live context may fail, one under a
\* cancelled context does fail.
CallFails(cancelled) ==
  \/ cancelled /\ UNCHANGED faults
  \/ ~ cancelled /\ faults < MaxFaults /\ faults' = faults + 1

\* Update overwrites the row with the copy.  It changes nothing when the row
\* was deleted, and its error is only logged.
Update(x, copy, cancelled) ==
  \/ CallFails(cancelled) /\ UNCHANGED rows
  \/ /\ ~ cancelled /\ UNCHANGED faults
     /\ rows' = IF x \in DOMAIN rows THEN [rows EXCEPT ![x] = copy] ELSE rows

-----------------------------------------------------------------------------
(* The planning phase and the beginning of the run.                        *)

\* Every subtask gets an identifier of its own; the mutant keeps the planner's.
KeepsIds(S)  == fresh
NewUlids(S)  == fresh \ S

\* New rows have identifiers no row has.
Insert(new) ==
  rows' = [x \in DOMAIN new \cup DOMAIN rows |-> IF x \in DOMAIN new THEN new[x] ELSE rows[x]]

\* The plan of a run becomes a new round, in one transaction.
CreatePlan ==
  /\ pc = "idle" /\ planner /\ runs < MaxRuns
  /\ runs' = runs + 1 /\ ctxDone' = FALSE /\ pc' = "planned"
  /\ \E S \in SUBSET fresh : \E deps \in [S -> SUBSET S], paths \in [S -> PathSets] :
       /\ Accepted(deps)
       /\ Insert([x \in S |-> [status |-> "pending", deps |-> deps[x], paths |-> paths[x],
                               order |-> OrderIdx(deps)[x], round |-> MaxRound + 1]])
       /\ fresh' = NewUlids(S)
  /\ UNCHANGED <<planner, loop, outcome, edit, faults, edits>>

\* The planner fails, its plan is refused, or it cannot be stored.
PlanRefused ==
  /\ pc = "idle" /\ planner /\ runs < MaxRuns
  /\ runs' = runs + 1 /\ outcome' = "none" /\ subs' = <<>>
  /\ UNCHANGED <<rows, fresh, planner, pc, remaining, done, failed, wave, final, waveErr, todo,
                 ctxDone, edit, faults, edits>>

\* Without a planner the task goes straight to its run.
SkipPlanning ==
  /\ pc = "idle" /\ ~ planner /\ runs < MaxRuns
  /\ runs' = runs + 1 /\ ctxDone' = FALSE /\ pc' = "planned"
  /\ UNCHANGED <<rows, fresh, planner, loop, outcome, edit, faults, edits>>

\* The rows a run executes; the mutant would run the history again.
EveryRound  == DOMAIN rows
LatestRound == {x \in DOMAIN rows : rows[x].round = MaxRound}

\* ListLatestRound loads the copies; all of them start over.
List ==
  /\ pc = "planned"
  /\ LatestRound # {} /\ ~ ctxDone
  /\ subs' = Restrict(rows, LatestRound)
  /\ remaining' = LatestRound
  /\ todo' = {x \in LatestRound : rows[x].status # "pending"}
  /\ done' = {} /\ failed' = {} /\ final' = FALSE /\ waveErr' = FALSE
  /\ pc' = "reset" /\ outcome' = "open"
  /\ UNCHANGED <<rows, fresh, planner, wave, ctxDone, edit, runs, faults, edits>>

\* No subtasks, or no list of them: one session covers the whole task.
SingleSession ==
  /\ pc = "planned"
  /\ \/ rows = <<>> /\ UNCHANGED faults
     \/ CallFails(ctxDone)
  /\ pc' = "idle" /\ outcome' = "single" /\ subs' = <<>>
  /\ UNCHANGED <<rows, fresh, planner, remaining, done, failed, wave, final, waveErr, todo,
                 ctxDone, edit, runs, edits>>

ResetStatus(x) ==
  /\ pc = "reset" /\ x \in todo
  /\ subs' = [subs EXCEPT ![x].status = "pending"]
  /\ Update(x, subs'[x], ctxDone)
  /\ todo' = todo \ {x}
  /\ UNCHANGED <<fresh, planner, pc, remaining, done, failed, wave, final, waveErr, ctxDone,
                 outcome, edit, runs, edits>>

-----------------------------------------------------------------------------
(* The waves.                                                              *)

\* The packing order: by OrderIdx, ties broken by the iteration of a map.
Ranks(S) == {r \in Bijection(S, 1 .. Cardinality(S)) :
               \A x, y \in S : subs[x].order < subs[y].order => r[x] < r[y]}

\* May two lists of write paths overlap?  An empty list touches everything;
\* the mutant takes it to touch nothing.
OverlapDeclared(P, Q) == \E p \in P, q \in Q : pathsIntersect(p, q)
Overlap(P, Q) == P = {} \/ Q = {} \/ \E p \in P, q \in Q : pathsIntersect(p, q)

\* Greedy packing: each subtask joins unless it overlaps one that joined before.
Packed(batch, S, rank) ==
  \A x \in S : x \in batch <=> \A y \in batch : rank[y] < rank[x] => ~ Overlap(subs[x].paths, subs[y].paths)

\* Subtasks whose dependencies are resolved; the mutant does not look.
ScheduledTogether == remaining
Ready == {x \in remaining : subs[x].deps \subseteq done \cup failed}

\* A wave is final when it takes all that remains, not all that is ready.
FinalOfReady(batch) == batch = Ready
IsFinal(batch)      == batch = remaining

StartWave ==
  /\ pc = "schedule" \/ (pc = "reset" /\ todo = {})
  /\ Ready # {}
  /\ \E rank \in Ranks(Ready), batch \in SUBSET Ready :
       /\ Packed(batch, Ready, rank)
       /\ wave' = [x \in batch |-> "waiting"]
       /\ final' = IsFinal(batch)
  /\ pc' = "wave" /\ waveErr' = FALSE
  /\ UNCHANGED <<rows, fresh, planner, subs, remaining, done, failed, ctxDone, todo, outcome,
                 edit, runs, faults, edits>>

InStep(s) == {x \in DOMAIN wave : wave[x] = s}

\* A session takes a slot of the semaphore and is marked doing.
BeginSubtask(x) ==
  /\ pc = "wave" /\ wave[x] = "waiting"
  /\ Cardinality(InStep("running")) < Limit
  /\ wave' = [wave EXCEPT ![x] = "running"]
  /\ subs' = [subs EXCEPT ![x].status = "doing"]
  /\ Update(x, subs'[x], ctxDone)
  /\ UNCHANGED <<fresh, planner, pc, remaining, done, failed, final, waveErr, ctxDone, todo,
                 outcome, edit, runs, edits>>

\* Cancelled while it waits for a slot, it returns without touching its status.
LeaveWave(x) ==
  /\ pc = "wave" /\ wave[x] = "waiting" /\ ctxDone
  /\ wave' = [wave EXCEPT ![x] = "ended"] /\ waveErr' = TRUE
  /\ UNCHANGED <<rows, fresh, planner, pc, subs, remaining, done, failed, final, ctxDone, todo,
                 outcome, edit, runs, faults, edits>>

\* The session returns; its status is written under the context of the run,
\* and its slot is free again.
EndSubtask(x) ==
  /\ pc = "wave" /\ wave[x] = "running"
  /\ \E result \in {"done", "failed"} :
       /\ subs' = [subs EXCEPT ![x].status = result]
       /\ waveErr' = (waveErr \/ result = "failed")
  /\ Update(x, subs'[x], ctxDone)
  /\ wave' = [wave EXCEPT ![x] = "ended"]
  /\ UNCHANGED <<fresh, planner, pc, remaining, done, failed, final, ctxDone, todo, outcome,
                 edit, runs, edits>>

\* An error breaks out of the loop; the mutant goes on to the next wave.
NeverBreak == "schedule"
AfterWave  == IF waveErr THEN "cascade" ELSE "schedule"

\* Every session has returned: whatever did not fail counts as done, and an
\* error ends the round.
Reconcile ==
  /\ pc = "wave" /\ InStep("ended") = DOMAIN wave
  /\ LET lost == {x \in DOMAIN wave : subs[x].status = "failed"}
     IN  failed' = failed \cup lost /\ done' = done \cup (DOMAIN wave \ lost)
  /\ remaining' = remaining \ DOMAIN wave
  /\ wave' = <<>>
  /\ pc' = AfterWave
  /\ todo' = IF waveErr THEN remaining' ELSE {}
  /\ UNCHANGED <<rows, fresh, planner, subs, final, waveErr, ctxDone, outcome, edit, runs,
                 faults, edits>>

\* The loop ends when nothing is ready; the mutant waits until nothing remains.
NothingRemains == remaining = {}
NothingReady   == Ready = {}

\* Nothing is left that could run: the round reports success.
RoundDone ==
  /\ pc = "schedule" \/ (pc = "reset" /\ todo = {})
  /\ NothingReady
  /\ pc' = "idle" /\ outcome' = "ok"
  /\ UNCHANGED <<rows, fresh, planner, loop, ctxDone, edit, runs, faults, edits>>

\* After an error the subtasks that were never scheduled are failed, under a
\* context of their own.
CascadeCancel(x) ==
  /\ pc = "cascade" /\ x \in todo
  /\ subs' = [subs EXCEPT ![x].status = "failed"]
  /\ Update(x, subs'[x], FALSE)
  /\ todo' = todo \ {x}
  /\ UNCHANGED <<fresh, planner, pc, remaining, done, failed, wave, final, waveErr, ctxDone,
                 outcome, edit, runs, edits>>

RoundFailed ==
  /\ pc = "cascade" /\ todo = {}
  /\ pc' = "idle" /\ outcome' = "failed"
  /\ UNCHANGED <<rows, fresh, planner, loop, ctxDone, edit, runs, faults, edits>>

\* The user cancels the task, its time runs out, or the sidecar shuts down.
CancelContext ==
  /\ pc # "idle" /\ ~ ctxDone /\ ctxDone' = TRUE
  /\ UNCHANGED <<rows, fresh, planner, pc, loop, outcome, edit, runs, faults, edits>>

\* The sidecar stops and starts again: only the table is left.
Restart ==
  /\ pc # "idle"
  /\ pc' = "idle" /\ planner' \in BOOLEAN /\ ctxDone' = FALSE /\ outcome' = "none" /\ edit' = None
  /\ subs' = <<>> /\ remaining' = {} /\ done' = {} /\ failed' = {}
  /\ wave' = <<>> /\ final' = FALSE /\ waveErr' = FALSE /\ todo' = {}
  /\ UNCHANGED <<rows, fresh, runs, faults, edits>>

-----------------------------------------------------------------------------
(* The subtask RPCs.                                                       *)

Users == edits < MaxEdits /\ edits' = edits + 1

\* Manual subtasks belong to round 1 and are appended or put where the caller
\* says; their dependencies are not checked.
CreateSubtask ==
  /\ Users
  /\ \E x \in fresh :
       /\ fresh' = fresh \ {x}
       /\ \E status \in SubtaskStatus, deps \in SUBSET (Id \ {x}), paths \in PathSets,
             order \in 1 .. 1 + Cardinality(DOMAIN rows) :
            Insert([y \in {x} |-> [status |-> status, deps |-> deps, paths |-> paths,
                                   order |-> order, round |-> 1]])
  /\ UNCHANGED <<planner, pc, loop, ctxDone, outcome, edit, runs, faults>>

\* UpdateSubtask reads the row ...
UpdateSubtask(x) ==
  /\ Users /\ edit = None
  /\ edit' = [id |-> x, row |-> rows[x]]
  /\ UNCHANGED <<rows, fresh, planner, pc, loop, ctxDone, outcome, runs, faults>>

\* ... and writes it back with the title or the status the user gave.
UpdateWrite ==
  /\ edit # None
  /\ \E status \in {edit.row.status} \cup SubtaskStatus :
       Update(edit.id, [edit.row EXCEPT !.status = status], FALSE)
  /\ edit' = None
  /\ UNCHANGED <<fresh, planner, pc, loop, ctxDone, outcome, runs, edits>>

DeleteSubtask(x) ==
  /\ Users
  /\ rows' = Restrict(rows, DOMAIN rows \ {x})
  /\ UNCHANGED <<fresh, planner, pc, loop, ctxDone, outcome, edit, runs, faults>>

\* Reorder numbers the rows it is given from 0, in one transaction.
ReorderSubtasks ==
  /\ Users
  /\ \E S \in SUBSET DOMAIN rows : \E position \in Bijection(S, 0 .. Cardinality(S) - 1) :
       rows' = [x \in DOMAIN rows |->
                 IF x \in S THEN [rows[x] EXCEPT !.order = position[x]] ELSE rows[x]]
  /\ UNCHANGED <<fresh, planner, pc, loop, ctxDone, outcome, edit, runs, faults>>

-----------------------------------------------------------------------------

Run ==
  \/ CreatePlan \/ PlanRefused \/ SkipPlanning

Work ==
  \/ List \/ SingleSession
  \/ \E x \in todo : ResetStatus(x) \/ CascadeCancel(x)
  \/ StartWave
  \/ \E x \in DOMAIN wave : BeginSubtask(x) \/ LeaveWave(x) \/ EndSubtask(x)
  \/ Reconcile \/ RoundDone \/ RoundFailed

Edit ==
  \/ CreateSubtask \/ UpdateWrite \/ ReorderSubtasks
  \/ \E x \in DOMAIN rows : UpdateSubtask(x) \/ DeleteSubtask(x)

Next == Run \/ Work \/ Edit \/ CancelContext \/ Restart

Spec == Init /\ [][Next]_vars

\* The goroutine of the run is scheduled, and every session returns.
LiveSpec == Spec /\ WF_vars(Work)

-----------------------------------------------------------------------------
(* Properties.                                                             *)

TypeOK ==
  /\ DOMAIN rows \subseteq Id /\ \A x \in DOMAIN rows : rows[x] \in Row
  /\ DOMAIN subs \subseteq Id /\ \A x \in DOMAIN subs : subs[x] \in Row
  /\ fresh \subseteq Id /\ fresh \cap DOMAIN rows = {}
  /\ pc \in {"idle", "planned", "reset", "schedule", "wave", "cascade"}
  /\ outcome \in {"none", "open", "ok", "failed", "single"}
  /\ remaining \cup done \cup failed \cup todo \subseteq Id
  /\ \A x \in DOMAIN wave : wave[x] \in {"waiting", "running", "ended"}
  /\ {planner, final, waveErr, ctxDone} \subseteq BOOLEAN
  /\ edit = None \/ (edit.id \in Id /\ edit.row \in Row)

\* Whatever the schedule, a session runs only after everything it depends on
\* has succeeded, at most Limit sessions run at once, and no two of them have
\* write paths that overlap by the orchestrator's own test.
SessionsFollowPlan ==
  LET running == InStep("running")
  IN  /\ Cardinality(running) <= Limit
      /\ \A x \in running : \A d \in subs[x].deps : d \in DOMAIN subs /\ subs[d].status = "done"
      /\ \A x, y \in running : x # y => ~ Overlap(subs[x].paths, subs[y].paths)

\* The branch of the loop that fails the dependents of a failed subtask is
\* never taken: an error ends the round before another wave is scheduled.
FailureEndsRound == pc \in {"reset", "schedule"} => failed = {}

\* A round nobody disturbed is settled in the table: after a success every row
\* of it is done, after a failure every row is done or failed.
RowsSettled ==
  pc = "idle" /\ outcome \in {"ok", "failed"} /\ faults = 0 /\ edits = 0 /\ ~ ctxDone =>
    \A x \in DOMAIN subs :
      /\ rows[x] = subs[x]
      /\ subs[x].status \in (IF outcome = "ok" THEN {"done"} ELSE {"done", "failed"})

\* A wave is told to verify the whole change exactly when no subtask comes
\* after it, so a round that did all its work did verify it.
FinalWaveVerifies ==
  /\ final /\ pc = "wave" => \A x \in DOMAIN subs \ DOMAIN wave : subs[x].status = "done"
  /\ outcome = "ok" /\ (\A x \in DOMAIN subs : subs[x].status = "done") => final

\* The rows of earlier rounds are history: only a user changes them.
HistoryKept ==
  [][ \A x \in DOMAIN rows :
        rows[x].round < MaxRound /\ edits' = edits /\ edit' = edit =>
          x \in DOMAIN rows' /\ rows'[x] = rows[x] ]_vars

\* A run that began ends, whatever fails and whoever edits the rows.
RunEnds == pc # "idle" ~> pc = "idle"

\* The loop keeps the promises of PlanRound.
Clash(P, Q) ==
  \E f \in Files : \A S \in {P, Q} : S = {} \/ \E p \in S : Names(p, f)

Open == outcome \in {"open", "ok", "failed"}
Phase(x) ==
  IF pc = "reset" THEN "pending"
  ELSE IF subs[x].status = "doing" THEN "running" ELSE subs[x].status

Round == INSTANCE PlanRound
  WITH plan    <- IF Open THEN [x \in DOMAIN subs |-> [deps |-> subs[x].deps, paths |-> subs[x].paths]]
                          ELSE <<>>,
       phase   <- IF Open THEN [x \in DOMAIN subs |-> Phase(x)] ELSE <<>>,
       outcome <- IF Open THEN outcome ELSE "none"

RoundImplemented == Round!RoundSpec

\* Sessions that share the worktree never write the same file.
WritersDisjoint ==
  \A x, y \in InStep("running") : x # y => ~ Clash(subs[x].paths, subs[y].paths)

\* The cleanup after an error or a cancellation leaves no card pending.
NoOrphanPending == outcome = "failed" => \A x \in DOMAIN subs : subs[x].status # "pending"
=============================================================================
