----------------------------- MODULE Repository -----------------------------
(***************************************************************************)
(* One task's branch and worktree in one git repository: Finalize with the *)
(* commands of Merge and Remove one by one, the sweep of merged branches,  *)
(* and a user who works in the same repository with git.                   *)
(*                                                                         *)
(* A branch is the set of commits reachable from it, so "is an ancestor"   *)
(* is inclusion and a merge is a union.                                    *)
(***************************************************************************)
EXTENDS Naturals, FiniteSets

CONSTANTS
  Caller,       \* Finalize calls in flight
  Work,         \* changes made for the task, committed or not
  UserCommit,   \* commits of the user on the branch that is checked out
  MaxFaults     \* bound on git commands that fail and on crashes

VARIABLES
  refs,         \* the user's two branches and the task's
  main,         \* the repository's own checkout: head, edits, what its files show
  wt,           \* the task's worktree: does it exist, what is not committed
  row,          \* status, finalization, branch_exists
  lock,         \* the manager's mutex for this repository
  call,         \* c -> a Finalize in flight
  sweep,        \* the place of SweepMergedBranches
  past          \* what happened, for the properties: see Init

vars == <<refs, main, wt, row, lock, call, sweep, past>>

Root == "root"
Gone == {}                       \* no branch has an empty history
Idle == [pc |-> "idle", action |-> "keep", status |-> "done",
         base |-> {}, source |-> {}, onBase |-> FALSE]

\* The part of the work that has been committed when the task stops is any.
Init ==
  /\ \E done \in SUBSET Work :
       /\ refs = [base |-> {Root}, other |-> {Root}, task |-> {Root} \cup done]
       /\ \E pending \in SUBSET (Work \ done) :
            wt = [exists |-> TRUE, pending |-> pending]
  /\ main = [head |-> "base", edits |-> "none", files |-> {Root}]
  /\ \E s \in {"human_review", "aborted"} :
       row = [status |-> s, final |-> "none", branch |-> TRUE]
  /\ lock = "free"
  /\ call = [c \in Caller |-> Idle]
  /\ sweep = "idle"
  /\ past = [work |-> (refs.task \ {Root}) \cup wt.pending, late |-> {},
             discarded |-> FALSE, uncommitted |-> FALSE, raced |-> FALSE, faults |-> 0]

Remember(field, value) == past' = [past EXCEPT ![field] = value]
Fault == /\ past.faults < MaxFaults
         /\ Remember("faults", past.faults + 1)

Goto(c, pc) == call' = [call EXCEPT ![c].pc = pc]
Return(c) == call' = [call EXCEPT ![c] = Idle]
Lock(c) == lock = "free" /\ lock' = c
Unlock(c) == lock = c /\ lock' = "free"

\* A merge has looked at the repository and not finished with it.
Merging == \E c \in Caller : call[c].pc \in {"update", "reset", "remove", "branch"}
                             /\ call[c].action = "merge"

-----------------------------------------------------------------------------
\* Finalize.

\* The status checks; a task kept earlier can still be merged.
Start(c, action) ==
  /\ call[c].pc = "idle"
  /\ \/ /\ row.status \in {"human_review", "aborted"}
        /\ call' = [call EXCEPT ![c] = [Idle EXCEPT !.action = action, !.status = row.status,
                      !.pc = IF action = "discard" THEN "remove" ELSE "commit"]]
     \/ /\ row.status = "done" /\ row.final = "keep"
        /\ action = "merge" /\ row.branch
        /\ call' = [call EXCEPT ![c] = [Idle EXCEPT !.action = action, !.pc = "merge"]]
  /\ Remember("discarded", past.discarded \/ action = "discard")
  /\ UNCHANGED <<refs, main, wt, row, lock, sweep>>

\* status, add -A and commit, without the mutex.  A failure is only a warning.
CommitPending(c) ==
  /\ call[c].pc = "commit"
  /\ Goto(c, IF call[c].action = "keep" THEN "remove" ELSE "merge")
  /\ \/ /\ wt.exists
        /\ refs' = [refs EXCEPT !.task = @ \cup wt.pending]
        /\ wt' = [wt EXCEPT !.pending = {}]
        /\ UNCHANGED past
     \/ /\ wt.exists => /\ past.faults < MaxFaults
        /\ past' = [past EXCEPT !.faults = IF wt.exists THEN @ + 1 ELSE @,
                                !.uncommitted = @ \/ wt.pending # {}]
        /\ UNCHANGED <<refs, wt>>
  /\ UNCHANGED <<main, row, lock, sweep>>

\* rev-parse of both branches and the ancestry check.
MergeBegin(c) ==
  /\ call[c].pc = "merge" /\ lock = "free"
  /\ \/ /\ refs.task = Gone
        /\ Return(c) /\ UNCHANGED lock
     \/ /\ refs.task # Gone /\ refs.task \subseteq refs.base
        /\ Goto(c, "remove") /\ UNCHANGED lock
     \/ /\ ~(refs.task \subseteq refs.base)
        /\ call' = [call EXCEPT ![c].pc = "state", ![c].base = refs.base, ![c].source = refs.task]
        /\ Lock(c)
  /\ UNCHANGED <<refs, main, wt, row, sweep, past>>

\* mainRepoState: the branch that is checked out, and `git status`.
MergeState(c) ==
  /\ call[c].pc = "state"
  /\ LET onBase == main.head = "base"
     IN  IF onBase /\ main.edits # "none"
           THEN Return(c) /\ Unlock(c)
           ELSE /\ call' = [call EXCEPT ![c].pc = "update", ![c].onBase = onBase]
                /\ UNCHANGED lock
  /\ UNCHANGED <<refs, main, wt, row, sweep, past>>

\* Mutant: update-ref without the old value.
MergeUpdateBlind(c) ==
  /\ call[c].pc = "update"
  /\ refs' = [refs EXCEPT !.base = call[c].base \cup call[c].source]
  /\ IF call[c].onBase THEN Goto(c, "reset") /\ UNCHANGED lock
                       ELSE Goto(c, "remove") /\ Unlock(c)
  /\ UNCHANGED <<main, wt, row, sweep, past>>

\* Mutant: a merge that failed is cleaned up like one that succeeded.
MergeUpdateIgnored(c) ==
  /\ call[c].pc = "update"
  /\ refs' = IF refs.base = call[c].base /\ call[c].base \subseteq call[c].source
               THEN [refs EXCEPT !.base = call[c].source] ELSE refs
  /\ IF call[c].onBase THEN Goto(c, "reset") /\ UNCHANGED lock
                       ELSE Goto(c, "remove") /\ Unlock(c)
  /\ UNCHANGED <<main, wt, row, sweep, past>>

\* update-ref with the old value; when the branches have diverged, after
\* merge-tree, which may find a conflict, and commit-tree.
MergeUpdate(c) ==
  /\ call[c].pc = "update"
  /\ \/ /\ refs.base = call[c].base
        /\ refs' = [refs EXCEPT !.base = call[c].base \cup call[c].source]
        /\ IF call[c].onBase THEN Goto(c, "reset") /\ UNCHANGED lock
                             ELSE Goto(c, "remove") /\ Unlock(c)
     \/ /\ refs.base # call[c].base \/ ~(call[c].base \subseteq call[c].source)
        /\ Return(c) /\ Unlock(c) /\ UNCHANGED refs
  /\ UNCHANGED <<main, wt, row, sweep, past>>

\* Mutant: the files of the checkout are left as they are.
MergeNoReset(c) ==
  /\ call[c].pc = "reset"
  /\ Goto(c, "remove") /\ Unlock(c)
  /\ UNCHANGED <<refs, main, wt, row, sweep, past>>

\* git reset --hard HEAD, whatever HEAD is by now.
MergeReset(c) ==
  /\ call[c].pc = "reset"
  /\ \/ /\ main' = [main EXCEPT !.edits = "none", !.files = refs[main.head]]
        /\ Goto(c, "remove") /\ UNCHANGED past
     \/ Return(c) /\ UNCHANGED main
        /\ past.faults < MaxFaults
        /\ past' = [past EXCEPT !.faults = @ + 1, !.raced = TRUE]
  /\ Unlock(c)
  /\ UNCHANGED <<refs, wt, row, sweep>>

\* Remove: `worktree remove --force`, or RemoveAll and prune.  A delayed merge
\* has no worktree and goes to DeleteBranch.
RemoveTree(c) ==
  /\ call[c].pc = "remove"
  /\ \/ /\ Lock(c)
        /\ wt' = IF call[c].status = "done" THEN wt ELSE [exists |-> FALSE, pending |-> {}]
        /\ Goto(c, "branch") /\ UNCHANGED past
     \/ Return(c) /\ Fault /\ UNCHANGED <<wt, lock>>
  /\ UNCHANGED <<refs, main, row, sweep>>

\* `branch -D` under the same mutex; a missing branch is fine.
RemoveBranch(c) ==
  /\ call[c].pc = "branch"
  /\ refs' = IF call[c].action = "keep" THEN refs ELSE [refs EXCEPT !.task = Gone]
  /\ Goto(c, "record") /\ Unlock(c)
  /\ UNCHANGED <<main, wt, row, sweep, past>>

\* Transition from the status read at the start, or UpdateFields and
\* SetBranchExists for a delayed merge.
Record(c) ==
  /\ call[c].pc = "record"
  /\ Return(c)
  /\ row' = IF row.status # call[c].status THEN row
            ELSE [status |-> IF call[c].action = "discard" THEN "cancelled" ELSE "done",
                  final |-> CASE call[c].action = "keep" -> "keep"
                              [] call[c].action = "merge" -> "merged"
                              [] OTHER -> "none",
                  branch |-> row.branch /\ call[c].action = "keep"]
  /\ UNCHANGED <<refs, main, wt, lock, sweep, past>>

-----------------------------------------------------------------------------
\* SweepMergedBranches, for a task that finished long enough ago.

SweepCheck ==
  /\ sweep = "idle" /\ row.status \in {"done", "aborted"} /\ row.branch
  /\ refs.task # Gone /\ refs.task \subseteq refs.base
  /\ sweep' = "delete"
  /\ UNCHANGED <<refs, main, wt, row, lock, call, past>>

\* Mutant: branch -D.
GitForces == refs.task # Gone

\* git's own test of `branch -d`: merged into HEAD and checked out nowhere.
GitDeletes == refs.task # Gone /\ refs.task \subseteq refs[main.head] /\ ~wt.exists

SweepDelete ==
  /\ sweep = "delete" /\ lock = "free"
  /\ IF GitDeletes THEN refs' = [refs EXCEPT !.task = Gone] /\ sweep' = "flag"
                   ELSE UNCHANGED refs /\ sweep' = "idle"
  /\ UNCHANGED <<main, wt, row, lock, call, past>>

SweepFlag ==
  /\ sweep = "flag" /\ sweep' = "idle"
  /\ row' = [row EXCEPT !.branch = FALSE]
  /\ UNCHANGED <<refs, main, wt, lock, call, past>>

-----------------------------------------------------------------------------
\* The user, and the death of the sidecar.

Edit ==
  /\ main.edits = "none"
  /\ main' = [main EXCEPT !.edits = IF Merging THEN "late" ELSE "early"]
  /\ UNCHANGED <<refs, wt, row, lock, call, sweep, past>>

Commit(u) ==
  /\ main.edits # "none" /\ u \notin refs.base \cup refs.other
  /\ refs' = [refs EXCEPT ![main.head] = @ \cup {u}]
  /\ main' = [main EXCEPT !.edits = "none", !.files = refs[main.head] \cup {u}]
  /\ Remember("raced", past.raced \/ Merging)
  /\ UNCHANGED <<wt, row, lock, call, sweep>>

\* git switch refuses when it would overwrite edits; here, whenever there are any.
Switch ==
  /\ main.edits = "none"
  /\ \E b \in {"base", "other"} \ {main.head} :
       main' = [main EXCEPT !.head = b, !.files = refs[b]]
  /\ Remember("raced", past.raced \/ Merging)
  /\ UNCHANGED <<refs, wt, row, lock, call, sweep>>

\* The user commits to the task's branch; after a merge has read it, too late.
CommitToTask(k) ==
  /\ refs.task # Gone /\ k \notin past.work
  /\ refs' = [refs EXCEPT !.task = @ \cup {k}]
  /\ past' = [past EXCEPT !.work = @ \cup {k},
                !.late = IF \E c \in Caller : call[c].pc \in {"state", "update", "reset", "remove", "branch"}
                           THEN @ \cup {k} ELSE @]
  /\ UNCHANGED <<main, wt, row, lock, call, sweep>>

Crash ==
  /\ past.faults < MaxFaults
  /\ call' = [c \in Caller |-> Idle] /\ lock' = "free" /\ sweep' = "idle"
  /\ past' = [past EXCEPT !.faults = @ + 1,
                !.raced = @ \/ \E c \in Caller : call[c].pc = "reset"]
  /\ UNCHANGED <<refs, main, wt, row>>

-----------------------------------------------------------------------------
FinalizeStep(c) ==
  \/ CommitPending(c) \/ MergeBegin(c) \/ MergeState(c) \/ MergeUpdate(c)
  \/ MergeReset(c) \/ RemoveTree(c) \/ RemoveBranch(c) \/ Record(c)

Next ==
  \/ \E c \in Caller : \/ FinalizeStep(c)
                       \/ \E a \in {"keep", "merge", "discard"} : Start(c, a)
  \/ SweepCheck \/ SweepDelete \/ SweepFlag
  \/ Edit \/ Switch \/ Crash
  \/ \E u \in UserCommit : Commit(u)
  \/ \E k \in Work : CommitToTask(k)

Spec == Init /\ [][Next]_vars

-----------------------------------------------------------------------------
TypeOK ==
  /\ DOMAIN refs = {"base", "other", "task"}
  /\ \A b \in DOMAIN refs : refs[b] \subseteq {Root} \cup Work \cup UserCommit
  /\ main.head \in {"base", "other"} /\ main.edits \in {"none", "early", "late"}
  /\ wt.pending \subseteq Work /\ (wt.pending # {} => wt.exists)
  /\ row.status \in {"human_review", "aborted", "done", "cancelled"}
  /\ lock \in {"free"} \cup Caller
  /\ \A c \in Caller : lock = c <=> call[c].pc \in {"state", "update", "reset", "branch"}

\* What was done for the task is on a branch or in its worktree, across merges,
\* sweeps, crashes and concurrent calls, until somebody discards it; excepted are
\* commits made to the branch after a merge has read it, and a failed auto-commit.
Kept == refs.base \cup refs.other \cup refs.task \cup wt.pending

WorkKept ==
  ~past.discarded /\ ~past.uncommitted => past.work \ past.late \subseteq Kept

\* A task recorded as merged has all of its work on the base branch.
MergedIsMerged ==
  row.final = "merged" /\ ~past.discarded /\ ~past.uncommitted
    => past.work \ past.late \subseteq refs.base

\* What the user has in the repository survives a merge at work in it: the base
\* branch never loses a commit, and uncommitted edits that were there when the
\* merge looked are not reset.
KeepsUserWork ==
  /\ refs.base \subseteq refs'.base
  /\ \A c \in Caller : MergeReset(c) => main.edits # "early"

UserWorkKept == [][KeepsUserWork]_vars

\* The repository's files show the branch that is checked out, unless the user
\* worked in it during a merge or the merge was cut off.
FilesFollowHead ==
  (\A c \in Caller : call[c].pc # "reset") /\ ~past.raced
    => main.files = refs[main.head]
=============================================================================
