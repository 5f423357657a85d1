------------------------------ MODULE PlanRound ------------------------------
(***************************************************************************)
(* What running one round of a plan promises, whatever the order in which  *)
(* the sessions are scheduled: a session starts only after those it        *)
(* depends on have succeeded, at most Limit sessions share the worktree,   *)
(* no two of them may write the same file, and a round that reports        *)
(* success leaves no subtask behind that could have run.  Subtasks         *)
(* implements this specification.                                          *)
(***************************************************************************)
EXTENDS FiniteSets, Integers

CONSTANTS Id, Limit,
          Clash(_, _)      \* may two lists of write paths name one file?

VARIABLES plan,      \* the subtasks of the round: what they need and write
          phase,     \* how far each of them is
          outcome    \* what the round reported, "open" while it runs

roundVars == <<plan, phase, outcome>>

Running == {x \in DOMAIN phase : phase[x] = "running"}
Done    == {x \in DOMAIN phase : phase[x] = "done"}

\* Subtasks whose dependencies have all succeeded.
Free == {x \in DOMAIN phase : plan[x].deps \subseteq Done}

RoundInit == plan = <<>> /\ phase = <<>> /\ outcome = "none"

Open ==
  /\ outcome # "open" /\ outcome' = "open"
  /\ DOMAIN plan' \subseteq Id
  /\ phase' = [x \in DOMAIN plan' |-> "pending"]

Start(x) ==
  /\ outcome = "open" /\ phase[x] = "pending" /\ x \in Free
  /\ Cardinality(Running) < Limit
  /\ \A y \in Running : ~ Clash(plan[x].paths, plan[y].paths)
  /\ phase' = [phase EXCEPT ![x] = "running"]
  /\ UNCHANGED <<plan, outcome>>

Finish(x) ==
  /\ phase[x] = "running"
  /\ \E result \in {"done", "failed"} : phase' = [phase EXCEPT ![x] = result]
  /\ UNCHANGED <<plan, outcome>>

Succeed ==
  /\ outcome = "open" /\ Free \subseteq Done
  /\ outcome' = "ok"
  /\ UNCHANGED <<plan, phase>>

\* Giving up marks subtasks that never ran as failed.
GiveUp ==
  /\ outcome = "open" /\ Running = {}
  /\ \E S \in SUBSET {x \in DOMAIN phase : phase[x] = "pending"} :
       phase' = [x \in DOMAIN phase |-> IF x \in S THEN "failed" ELSE phase[x]]
  /\ outcome' \in {"open", "failed"}
  /\ UNCHANGED plan

Crash ==
  /\ plan' = <<>> /\ phase' = <<>> /\ outcome' = "none"

RoundNext ==
  \/ \E x \in DOMAIN phase : Start(x) \/ Finish(x)
  \/ Open \/ Succeed \/ GiveUp \/ Crash

RoundSpec == RoundInit /\ [][RoundNext]_roundVars
=============================================================================
