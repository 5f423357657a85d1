------------------------------ MODULE TaskBoard ------------------------------
(***************************************************************************)
(* What the sidecar promises the Kanban board: a card moves only along the *)
(* edges of the status graph, enters planning or in_progress only while a  *)
(* run of its task is registered, at most one run is registered per task,  *)
(* no run ends leaving its card in_progress, and a restart turns the runs  *)
(* it kills into failures.  Service implements this specification.         *)
(***************************************************************************)
EXTENDS TaskRules

CONSTANTS Task, Deleted

VARIABLES status,   \* the column of each card, or Deleted
          busy,     \* is a run of the task registered?
          closed    \* has Shutdown been called?

boardVars == <<status, busy, closed>>

BoardInit ==
  /\ status = [t \in Task |-> "queued"]
  /\ busy = [t \in Task |-> FALSE]
  /\ closed = FALSE

Register(t) ==
  /\ ~ closed /\ ~ busy[t]
  /\ busy' = [busy EXCEPT ![t] = TRUE]
  /\ UNCHANGED <<status, closed>>

Finish(t) ==
  /\ busy[t] /\ status[t] # "in_progress"
  /\ busy' = [busy EXCEPT ![t] = FALSE]
  /\ UNCHANGED <<status, closed>>

MoveCard(t, to) ==
  /\ status[t] # Deleted
  /\ to \in AllowedTransitions[status[t]]
  /\ to \in {"planning", "in_progress"} => busy[t]
  /\ status' = [status EXCEPT ![t] = to]
  /\ UNCHANGED <<busy, closed>>

Discard(t) ==
  /\ status' = [status EXCEPT ![t] = Deleted]
  /\ UNCHANGED <<busy, closed>>

Close ==
  /\ closed' = TRUE
  /\ UNCHANGED <<status, busy>>

Crash ==
  /\ status' = [t \in Task |-> IF status[t] = "in_progress" THEN "failed" ELSE status[t]]
  /\ busy' = [t \in Task |-> FALSE]
  /\ closed' = FALSE

BoardNext ==
  \/ \E t \in Task : Register(t) \/ Finish(t) \/ Discard(t)
  \/ \E t \in Task, to \in Status : MoveCard(t, to)
  \/ Close \/ Crash

BoardSpec == BoardInit /\ [][BoardNext]_boardVars
=============================================================================
