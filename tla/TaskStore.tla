------------------------------ MODULE TaskStore ------------------------------
(***************************************************************************)
(* The tasks table shared by every goroutine of the sidecar                *)
(* (internal/store/task_store.go).  A client reads a row into memory, edits *)
(* its copy, and writes it back later with UpdateFields; Transition moves   *)
(* the status by compare-and-swap.  Any number of clients hold copies that  *)
(* other clients have made stale: that is the hazard of this component.     *)
(***************************************************************************)
EXTENDS TaskRules

CONSTANTS Task,        \* task IDs
          Client,      \* goroutines that hold a *task.Task
          Codes,       \* the error codes callers use
          ReworkBound  \* bound on rework_count, for model checking only

ASSUME CodesAssumption == Codes \subseteq ErrorCode
ASSUME ReworkBoundAssumption == ReworkBound \in Nat

VARIABLES rows,   \* the tasks table
          used,   \* IDs ever inserted: ULIDs are never reused
          copy    \* each client's in-memory task: Absent, or [id, row]

vars == <<rows, used, copy>>

Held == [id : Task, row : Row]

ASSUME HeldAssumption == Absent \notin Held

TypeOK ==
  /\ rows \in [Task -> Row \cup {Absent}]
  /\ used \in SUBSET Task
  /\ copy \in [Client -> Held \cup {Absent}]

Init ==
  /\ rows = [t \in Task |-> Absent]
  /\ used = {}
  /\ copy = [c \in Client |-> Absent]

-----------------------------------------------------------------------------
\* TaskStore.Create, as CreateTask calls it.
Create(t) ==
  /\ t \notin used
  /\ rows' = [rows EXCEPT ![t] = NewRow]
  /\ used' = used \cup {t}
  /\ UNCHANGED copy

\* TaskStore.Get.
Get(c, t) ==
  /\ rows[t] # Absent
  /\ copy' = [copy EXCEPT ![c] = [id |-> t, row |-> rows[t]]]
  /\ UNCHANGED <<rows, used>>

\* The client sets fields of its copy: feedback, the worktree it created, or
\* keep -> merged on a done task (finalizeDoneMerge).
Edit(c) ==
  /\ copy[c] # Absent
  /\ \E r \in {[copy[c].row EXCEPT !.feedback = f] : f \in {"ai", "user"}}
              \cup {[copy[c].row EXCEPT !.worktree = TRUE]}
              \cup (IF copy[c].row.finalization = "keep"
                    THEN {[copy[c].row EXCEPT !.finalization = "merged"]} ELSE {}) :
       copy' = [copy EXCEPT ![c].row = r]
  /\ UNCHANGED <<rows, used>>

\* TaskStore.UpdateFields.
UpdateFields(c) ==
  /\ copy[c] # Absent
  /\ LET t == copy[c].id
         r == copy[c].row
     IN /\ UpdateAccepted(rows[t], r)
        /\ rows' = [rows EXCEPT ![t] = Rewritten(rows[t], r)]
  /\ UNCHANGED <<used, copy>>

\* TaskStore.Transition, by any goroutine; `from` is what it believes.
Transition(t, from, to, code, fin) ==
  /\ TransitionAccepted(rows[t], from, to, code, fin)
  /\ ReworkAfter(rows[t].reworkCount, from, to) <= ReworkBound
  /\ rows' = [rows EXCEPT ![t] = Moved(rows[t], to, code, fin)]
  /\ UNCHANGED <<used, copy>>

\* dispatch and runPlanningPhase move the row and then only t.Status of the
\* copy: the other columns Transition wrote are not read back.
Claim(c, to) ==
  /\ copy[c] # Absent
  /\ LET t    == copy[c].id
         from == copy[c].row.status
     IN /\ <<from, to>> \in {<<"queued", "planning">>, <<"queued", "in_progress">>,
                             <<"planning", "in_progress">>}
        /\ TransitionAccepted(rows[t], from, to, "none", "none")
        /\ rows' = [rows EXCEPT ![t] = Moved(rows[t], to, "none", "none")]
        /\ copy' = [copy EXCEPT ![c].row.status = to]
  /\ UNCHANGED used

\* TaskStore.SetBranchExists.
SetBranchExists(t, exists) ==
  /\ rows[t] # Absent
  /\ rows' = [rows EXCEPT ![t].branchExists = exists]
  /\ UNCHANGED <<used, copy>>

\* TaskStore.Delete.
Delete(t) ==
  /\ rows[t] # Absent
  /\ rows' = [rows EXCEPT ![t] = Absent]
  /\ UNCHANGED <<used, copy>>

\* The process dies with every copy; the next one runs RecoverRunning first.
Restart ==
  /\ rows' = [t \in Task |-> Recovered(rows[t])]
  /\ copy' = [c \in Client |-> Absent]
  /\ UNCHANGED used

Next ==
  \/ \E t \in Task : Create(t) \/ Delete(t)
  \/ \E t \in Task, b \in BOOLEAN : SetBranchExists(t, b)
  \/ \E t \in Task, from, to \in Status, code \in Codes, fin \in FinalizationKind :
        Transition(t, from, to, code, fin)
  \/ \E c \in Client, t \in Task : Get(c, t)
  \/ \E c \in Client : Edit(c) \/ UpdateFields(c)
  \/ \E c \in Client, to \in Status : Claim(c, to)
  \/ Restart

Spec == Init /\ [][Next]_vars

-----------------------------------------------------------------------------
(* Properties                                                              *)

\* However stale the copies written back, every row in the table satisfies
\* Task.Validate: an error code on failed rows only, a finalization on done
\* rows only.
RowsValid == \A t \in Task : rows[t] # Absent => Validate(rows[t])

\* finished_at is set exactly in the statuses where the run is over: a rework
\* clears it, and no stale UpdateFields brings back an old one.
FinishedIffSettled ==
  \A t \in Task : rows[t] # Absent =>
     (rows[t].finished <=> rows[t].status \in StampsFinished)

\* A discarded or finalized task is never reopened, recovered or refailed: its
\* status does not change again before the row is deleted.
ClosedStaysClosed ==
  [][\A t \in Task :
       rows[t] # Absent /\ rows[t].status \in {"done", "cancelled"} =>
         rows'[t] = Absent \/ rows'[t].status = rows[t].status]_vars

-----------------------------------------------------------------------------
\* Copies never carry a finish stamp of another status: the strengthening that
\* makes FinishedIffSettled inductive.
CopiesConsistent ==
  \A c \in Client : copy[c] # Absent =>
     (copy[c].row.finished <=> copy[c].row.status \in StampsFinished)

\* A row's ID has been handed out, so Create never meets an existing row.
RowsUsed == \A t \in Task : rows[t] # Absent => t \in used

Inv == RowsValid /\ FinishedIffSettled /\ CopiesConsistent /\ RowsUsed
=============================================================================
