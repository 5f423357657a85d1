------------------------------ MODULE MCService ------------------------------
(* Small instances of Service for TLC: which RPCs the clients use, and what  *)
(* goes wrong outside the sidecar.  Each configuration asks one question.    *)
EXTENDS Service

Nothing == {}

\* Clients
OpsReview     == {"run", "cancel", "rework", "approve", "reject", "keep", "discard",
                  "merge", "restart", "shutdown"}
OpsCleanup    == {"run", "run_unauth", "keep", "merge", "delete", "delete_branch",
                  "remove_worktree", "housekeeping"}
OpsRerun      == {"run", "cancel", "rework", "housekeeping", "restart"}
OpsRunCancel  == {"run", "cancel"}
OpsRun        == {"run"}
OpsRunRework  == {"run", "rework"}
OpsMany       == {"run", "concurrency", "shutdown"}
OpsRestart    == {"run", "rework", "restart"}

\* The environment
Client   == {"client"}
Trouble  == {"repo", "create", "planner", "agent", "timeout", "diff", "reviewer",
             "slow_review"}
Outside  == Client \cup {"create", "agent", "slow_review"}

LimitsOneTwo == {1, 2}
=============================================================================
