-------------------------- MODULE RepositoryProofs --------------------------
(***************************************************************************)
(* One task's branch under any number of Finalize calls, the sweep, the    *)
(* user and crashes: the work is kept, what is recorded as merged is       *)
(* merged, and the user's own work in the repository survives.             *)
(***************************************************************************)
EXTENDS AroundProofs

-----------------------------------------------------------------------------
(* The invariant.                                                          *)

Branch  == {"base", "other", "task"}
Commits == {Repo!Root} \cup Work \cup UserCommit
OneCall ==
  [pc : {"idle", "commit", "merge", "state", "update", "reset", "remove", "branch", "record"},
   action : {"keep", "merge", "discard"}, status : {"human_review", "aborted", "done"},
   base : SUBSET Commits, source : SUBSET Commits, onBase : BOOLEAN]
Past ==
  [work : SUBSET Work, late : SUBSET Work, discarded : BOOLEAN,
   uncommitted : BOOLEAN, raced : BOOLEAN, faults : Nat]

RepoTyped ==
  /\ refs \in [Branch -> SUBSET Commits]
  /\ refs["other"] \subseteq {Repo!Root} \cup UserCommit
  /\ main \in [head : {"base", "other"}, edits : {"none", "early", "late"}, files : SUBSET Commits]
  /\ wt \in [exists : BOOLEAN, pending : SUBSET Work]
  /\ row \in [status : {"human_review", "aborted", "done", "cancelled"},
              final : {"none", "keep", "merged"}, branch : BOOLEAN]
  /\ lock \in {"free"} \cup Caller
  /\ call \in [Caller -> OneCall]
  /\ sweep \in {"idle", "delete", "flag"}
  /\ past \in Past

\* Nobody has discarded the task, and its work has been committed.
Clean == ~ past.discarded /\ ~ past.uncommitted
Wanted == past.work \ past.late

\* A worktree with changes exists, one of a task that is settled does not, and
\* neither does one whose branch is gone.
Trees ==
  /\ wt.pending # {} => wt.exists
  /\ row.status \in {"done", "cancelled"} => ~ wt.exists
  /\ refs["task"] = {} => ~ wt.exists
  /\ row.final = "merged" => refs["task"] = {}

\* What a call in flight knows and has done.
Progress(c) ==
  /\ lock = c <=> call[c].pc \in {"state", "update", "reset", "branch"}
  /\ call[c].pc = "commit" => call[c].action # "discard"
  /\ call[c].pc \in {"merge", "state", "update", "reset"} => call[c].action = "merge"
  /\ call[c].pc # "idle" /\ call[c].action = "discard" => past.discarded
  /\ call[c].pc # "idle" /\ call[c].status = "done" => ~ wt.exists
  /\ call[c].pc \in {"branch", "record"} => ~ wt.exists
  /\ call[c].pc \notin {"idle", "commit"} /\ call[c].action # "discard" =>
       past.uncommitted \/ wt.pending = {}
  /\ call[c].pc = "record" /\ call[c].action = "merge" => refs["task"] = {}
  /\ call[c].pc = "update" => past.raced \/ (call[c].onBase <=> main.head = "base")
  /\ call[c].pc = "reset" \/ (call[c].pc = "update" /\ call[c].onBase) => main.edits # "early"

\* The work is on the base branch once a merge has moved it, and until then on the
\* branch the merge has read.
Merged(c) ==
  Clean =>
    /\ call[c].pc \in {"state", "update"} => Wanted \subseteq refs["base"] \cup call[c].source
    /\ call[c].pc \in {"reset", "remove", "branch", "record"} /\ call[c].action = "merge" =>
         Wanted \subseteq refs["base"]

\* The work is on the base branch, on the task's branch or in its worktree, and on
\* the base branch once the merge is recorded.
WorkSafe ==
  Clean => /\ Wanted \subseteq refs["base"] \cup refs["task"] \cup wt.pending
           /\ row.final = "merged" => Wanted \subseteq refs["base"]

RepoInv ==
  /\ RepoTyped /\ Trees /\ WorkSafe /\ Repo!FilesFollowHead
  /\ \A c \in Caller : Progress(c) /\ Merged(c)

-----------------------------------------------------------------------------
(* The steps of a call.                                                    *)

\* A call moves on and leaves the repository, the row and the history alone.
LEMMA CallMoves ==
  ASSUME RepoInv, NEW c \in Caller, NEW now \in OneCall, call' = [call EXCEPT ![c] = now],
         UNCHANGED <<refs, main, wt, row, sweep, past>>,
         lock' \in {"free"} \cup Caller, \A d \in Caller \ {c} : lock' = d <=> lock = d,
         Progress(c)', Merged(c)',
         call[c].pc = "reset" => now.pc = "reset"
  PROVE  RepoInv'
<1>1. call' \in [Caller -> OneCall] /\ call'[c] = now /\ \A d \in Caller \ {c} : call'[d] = call[d]
  BY DEF RepoInv, RepoTyped
<1>2. RepoTyped' /\ Trees' /\ WorkSafe'
  BY <1>1 DEF RepoInv, RepoTyped, Trees, WorkSafe, Clean, Wanted
<1>3. \A d \in Caller \ {c} : Progress(d)' /\ Merged(d)'
  BY <1>1 DEF RepoInv, Progress, Merged, Clean, Wanted
<1>4. Repo!FilesFollowHead'
  BY <1>1 DEF RepoInv, Repo!FilesFollowHead
<1> QED
  BY <1>2, <1>3, <1>4 DEF RepoInv

\* A call starts, or is refused.
LEMMA StartStep ==
  ASSUME RepoInv, NEW c \in Caller, NEW a \in {"keep", "merge", "discard"}, Repo!Start(c, a)
  PROVE  RepoInv'
<1> DEFINE now == call'[c]
<1>1. /\ call' \in [Caller -> OneCall]
      /\ now.action = a /\ now.status \in {"human_review", "aborted", "done"}
      /\ now.status = "done" => row.status = "done"
      /\ now.pc = IF now.status = "done" THEN "merge" ELSE IF a = "discard" THEN "remove" ELSE "commit"
      /\ now.status = "done" => a = "merge"
      /\ \A d \in Caller \ {c} : call'[d] = call[d]
  <2>1. Repo!Idle \in OneCall /\ Repo!Idle.status = "done" /\ call \in [Caller -> OneCall]
    BY DEF Repo!Idle, OneCall, RepoInv, RepoTyped
  <2>2. CASE /\ row.status \in {"human_review", "aborted"}
             /\ call' = [call EXCEPT ![c] = [Repo!Idle EXCEPT !.action = a, !.status = row.status,
                           !.pc = IF a = "discard" THEN "remove" ELSE "commit"]]
    BY <2>1, <2>2 DEF OneCall
  <2>3. CASE /\ row.status = "done" /\ a = "merge"
             /\ call' = [call EXCEPT ![c] = [Repo!Idle EXCEPT !.action = a, !.pc = "merge"]]
    BY <2>1, <2>3 DEF OneCall
  <2> QED BY <2>2, <2>3 DEF Repo!Start
<1>2. /\ past' \in Past
      /\ past'.work = past.work /\ past'.late = past.late /\ past'.raced = past.raced
      /\ past'.uncommitted = past.uncommitted
      /\ past.discarded \/ a = "discard" => past'.discarded
  <2>1. past' = [past EXCEPT !.discarded = (past.discarded \/ a = "discard")]
    BY DEF Repo!Start, Repo!Remember
  <2> QED BY <2>1 DEF RepoInv, RepoTyped, Past
<1>3. UNCHANGED <<refs, main, wt, row, lock, sweep>> /\ call[c].pc = "idle"
  BY DEF Repo!Start
<1>7. (Clean' => Clean) /\ Wanted' = Wanted
  BY <1>2 DEF Clean, Wanted
<1>4. RepoTyped' /\ Trees' /\ WorkSafe' /\ Repo!FilesFollowHead'
  BY <1>1, <1>2, <1>3, <1>7 DEF RepoInv, RepoTyped, Trees, WorkSafe, Repo!FilesFollowHead
<1>5. Progress(c)' /\ Merged(c)'
  BY <1>1, <1>2, <1>3 DEF RepoInv, RepoTyped, Trees, Progress, Merged, OneCall
<1>6. \A d \in Caller \ {c} : Progress(d)' /\ Merged(d)'
  BY <1>1, <1>2, <1>3, <1>7 DEF RepoInv, Progress, Merged
<1> QED
  BY <1>4, <1>5, <1>6 DEF RepoInv

\* A merge finds no branch, nothing to merge, or takes the mutex.
LEMMA BeginStep ==
  ASSUME RepoInv, NEW c \in Caller, Repo!MergeBegin(c)
  PROVE  RepoInv'
<1>1. CASE refs.task = {} /\ call' = [call EXCEPT ![c] = Repo!Idle] /\ UNCHANGED lock
  <2>1. Progress(c)' /\ Merged(c)'
    BY <1>1 DEF Repo!MergeBegin, Repo!Idle, RepoInv, RepoTyped, Progress, Merged
  <2> QED
    BY <1>1, <2>1, CallMoves DEF Repo!MergeBegin, Repo!Idle, OneCall, RepoInv, RepoTyped
<1>2. CASE refs.task # {} /\ refs.task \subseteq refs.base /\ UNCHANGED lock
           /\ call' = [call EXCEPT ![c] = [@ EXCEPT !.pc = "remove"]]
  <2> DEFINE now == [call[c] EXCEPT !.pc = "remove"]
  <2>1. now \in OneCall /\ call' = [call EXCEPT ![c] = now] /\ now.pc = "remove"
        /\ now.action = call[c].action /\ now.status = call[c].status /\ call'[c] = now
    BY <1>2 DEF OneCall, RepoInv, RepoTyped
  <2> HIDE DEF now
  <2>2. Progress(c)' /\ Merged(c)'
    BY <1>2, <2>1 DEF Repo!MergeBegin, RepoInv, RepoTyped, Progress, Merged, WorkSafe, Clean, Wanted
  <2> QED
    BY <1>2, <2>1, <2>2, CallMoves DEF Repo!MergeBegin, RepoInv, RepoTyped
<1>3. CASE /\ ~ (refs.task \subseteq refs.base) /\ Repo!Lock(c)
           /\ call' = [call EXCEPT ![c] = [@ EXCEPT !.pc = "state", !.base = refs.base, !.source = refs.task]]
  <2> DEFINE now == [call[c] EXCEPT !.pc = "state", !.base = refs.base, !.source = refs.task]
  <2>1. now \in OneCall /\ call' = [call EXCEPT ![c] = now] /\ now.pc = "state" /\ now.source = refs.task
        /\ now.action = call[c].action /\ now.status = call[c].status /\ call'[c] = now
    <3>1. refs["base"] \in SUBSET Commits /\ refs["task"] \in SUBSET Commits /\ call[c] \in OneCall
      BY DEF RepoInv, RepoTyped, Branch
    <3>2. now \in OneCall
      BY <3>1 DEF OneCall
    <3>3. call \in [Caller -> OneCall]
      BY DEF RepoInv, RepoTyped
    <3> QED BY <1>3, <3>1, <3>2, <3>3 DEF OneCall
  <2> HIDE DEF now
  <2>2. Progress(c)' /\ Merged(c)'
    BY <1>3, <2>1 DEF Repo!MergeBegin, Repo!Lock, RepoInv, RepoTyped, Progress, Merged, WorkSafe, Clean, Wanted
  <2>3. lock = "free" /\ lock' = c
    BY <1>3 DEF Repo!Lock
  <2>4. \A d \in Caller \ {c} : lock' = d <=> lock = d
    BY <2>3, RepositoryAssumption
  <2>5. UNCHANGED <<refs, main, wt, row, sweep, past>> /\ call[c].pc = "merge"
    BY DEF Repo!MergeBegin
  <2> QED
    BY <2>1, <2>2, <2>3, <2>4, <2>5, CallMoves
<1> QED
  BY <1>1, <1>2, <1>3 DEF Repo!MergeBegin, Repo!Gone, Repo!Return, Repo!Goto

\* The look at the checkout: refused, or remembered.
LEMMA StateStep ==
  ASSUME RepoInv, NEW c \in Caller, Repo!MergeState(c)
  PROVE  RepoInv'
<1>1. CASE main.head = "base" /\ main.edits # "none"
  <2>1. call' = [call EXCEPT ![c] = Repo!Idle] /\ lock = c /\ lock' = "free"
    BY <1>1 DEF Repo!MergeState, Repo!Return, Repo!Unlock
  <2>2. Progress(c)' /\ Merged(c)'
    BY <2>1, RepositoryAssumption DEF Repo!MergeState, Repo!Idle, RepoInv, RepoTyped, Progress, Merged
  <2> QED
    BY <2>1, <2>2, CallMoves, RepositoryAssumption DEF Repo!MergeState, Repo!Idle, OneCall, RepoInv, RepoTyped
<1>2. CASE ~ (main.head = "base" /\ main.edits # "none")
  <2> DEFINE now == [call[c] EXCEPT !.pc = "update", !.onBase = (main.head = "base")]
  <2>1. now \in OneCall /\ call' = [call EXCEPT ![c] = now] /\ now.pc = "update" /\ now.source = call[c].source
        /\ now.action = call[c].action /\ now.status = call[c].status /\ call'[c] = now
        /\ now.onBase = (main.head = "base")
    BY ZenonT(60), <1>2 DEF Repo!MergeState, OneCall, RepoInv, RepoTyped
  <2> HIDE DEF now
  <2>2. Progress(c)' /\ Merged(c)'
    BY ZenonT(60), <1>2, <2>1
       DEF Repo!MergeState, RepoInv, RepoTyped, Progress, Merged, Clean, Wanted
  <2> QED
    BY <1>2, <2>1, <2>2, CallMoves DEF Repo!MergeState, RepoInv, RepoTyped
<1> QED
  BY <1>1, <1>2

\* A call moves to another place and keeps what it knows.
LEMMA GotoMoves ==
  ASSUME RepoInv, NEW c \in Caller, NEW at, Repo!Goto(c, at),
         at \in {"idle", "commit", "merge", "state", "update", "reset", "remove", "branch", "record"}
  PROVE  /\ call' \in [Caller -> OneCall]
         /\ call'[c] \in OneCall /\ call'[c].pc = at
         /\ call'[c].action = call[c].action /\ call'[c].status = call[c].status
         /\ call'[c].base = call[c].base /\ call'[c].source = call[c].source
         /\ call'[c].onBase = call[c].onBase
         /\ \A d \in Caller \ {c} : call'[d] = call[d]
  BY DEF Repo!Goto, RepoInv, RepoTyped, OneCall

\* A call ends.
LEMMA ReturnMoves ==
  ASSUME RepoInv, NEW c \in Caller, Repo!Return(c)
  PROVE  /\ call' \in [Caller -> OneCall]
         /\ call'[c].pc = "idle" /\ call'[c].action = "keep"
         /\ \A d \in Caller \ {c} : call'[d] = call[d]
  BY DEF Repo!Return, Repo!Idle, RepoInv, RepoTyped, OneCall

\* The commit of what is pending takes it to the task's branch; one that fails
\* is remembered.
LEMMA CommitStep ==
  ASSUME RepoInv, NEW c \in Caller, Repo!CommitPending(c)
  PROVE  RepoInv'
<1> DEFINE at == IF call[c].action = "keep" THEN "remove" ELSE "merge"
<1>1. /\ call' \in [Caller -> OneCall]
      /\ call'[c].pc = at
      /\ call'[c].action = call[c].action /\ call'[c].status = call[c].status
      /\ \A d \in Caller \ {c} : call'[d] = call[d]
  BY GotoMoves DEF Repo!CommitPending
<1>2. UNCHANGED <<main, row, lock, sweep>> /\ call[c].pc = "commit" /\ call[c].action \in {"keep", "merge", "discard"}
  BY DEF Repo!CommitPending, RepoInv, RepoTyped, OneCall
<1> HIDE DEF at
<1>3. at = IF call[c].action = "keep" THEN "remove" ELSE "merge"
  BY DEF at
<1>4. CASE wt.exists /\ refs' = [refs EXCEPT !.task = @ \cup wt.pending]
           /\ wt' = [wt EXCEPT !.pending = {}] /\ UNCHANGED past
  <2>1. /\ refs' \in [Branch -> SUBSET Commits] /\ refs'["task"] = refs["task"] \cup wt.pending
        /\ refs'["base"] = refs["base"] /\ refs'["other"] = refs["other"]
        /\ wt' \in [exists : BOOLEAN, pending : SUBSET Work] /\ wt'.exists /\ wt'.pending = {}
    BY <1>4 DEF RepoInv, RepoTyped, Branch, Commits
  <2>2. RepoTyped' /\ Trees' /\ WorkSafe'
    BY <1>1, <1>2, <1>4, <2>1 DEF RepoInv, RepoTyped, Trees, WorkSafe, Clean, Wanted
  <2>3. Repo!FilesFollowHead'
    <3>1. refs'[main.head] = refs[main.head]
      BY <2>1 DEF RepoInv, RepoTyped
    <3>2. (\A d \in Caller : call'[d].pc # "reset") => \A d \in Caller : call[d].pc # "reset"
      BY <1>1, <1>2
    <3> QED BY <1>2, <1>4, <3>1, <3>2 DEF RepoInv, Repo!FilesFollowHead
  <2>4. Progress(c)' /\ Merged(c)'
    BY <1>1, <1>2, <1>3, <1>4, <2>1 DEF RepoInv, Progress, Merged, Trees
  <2>5. \A d \in Caller \ {c} : Progress(d)' /\ Merged(d)'
    BY <1>1, <1>2, <1>4, <2>1 DEF RepoInv, Progress, Merged, Clean, Wanted
  <2> QED BY <2>2, <2>3, <2>4, <2>5 DEF RepoInv
<1>5. CASE UNCHANGED <<refs, wt>>
           /\ past' = [past EXCEPT !.faults = IF wt.exists THEN @ + 1 ELSE @,
                                   !.uncommitted = @ \/ wt.pending # {}]
  <2>1. /\ past' \in Past
        /\ past'.work = past.work /\ past'.late = past.late /\ past'.raced = past.raced
        /\ past'.discarded = past.discarded
        /\ past'.uncommitted <=> past.uncommitted \/ wt.pending # {}
    <3> DEFINE failed == past.uncommitted \/ wt.pending # {}
               count == IF wt.exists THEN past.faults + 1 ELSE past.faults
    <3>1. failed \in BOOLEAN /\ count \in Nat
      BY DEF RepoInv, RepoTyped, Past
    <3>2. past' = [past EXCEPT !.faults = count, !.uncommitted = failed]
      BY <1>5
    <3>3. failed <=> past.uncommitted \/ wt.pending # {}
      OBVIOUS
    <3> HIDE DEF failed, count
    <3>4. past \in Past
      BY DEF RepoInv, RepoTyped
    <3> QED BY <3>1, <3>2, <3>3, <3>4 DEF Past
  <2>6. (Clean' => Clean) /\ Wanted' = Wanted
    BY <2>1 DEF Clean, Wanted
  <2>7. UNCHANGED <<refs, wt>>
    BY <1>5
  <2>2. RepoTyped' /\ Trees' /\ WorkSafe'
    BY <1>1, <1>2, <2>7, <2>1, <2>6 DEF RepoInv, RepoTyped, Trees, WorkSafe
  <2>3. Repo!FilesFollowHead'
    BY <1>1, <1>2, <1>3, <1>5, <2>1 DEF RepoInv, RepoTyped, Repo!FilesFollowHead
  <2>4. Progress(c)' /\ Merged(c)'
    BY <1>1, <1>2, <1>3, <1>5, <2>1 DEF RepoInv, Progress, Merged, Trees
  <2>5. \A d \in Caller \ {c} : Progress(d)' /\ Merged(d)'
    BY <1>1, <1>2, <2>7, <2>1, <2>6 DEF RepoInv, Progress, Merged
  <2> QED BY <2>2, <2>3, <2>4, <2>5 DEF RepoInv
<1> QED
  BY <1>4, <1>5 DEF Repo!CommitPending

\* The base branch moves to the merge, or has moved and is left alone.
LEMMA UpdateStep ==
  ASSUME RepoInv, NEW c \in Caller, Repo!MergeUpdate(c)
  PROVE  RepoInv'
<1>1. UNCHANGED <<main, wt, row, sweep, past>> /\ call[c].pc = "update" /\ lock = c
  BY DEF Repo!MergeUpdate, RepoInv, Progress
<1>2. CASE Repo!Return(c) /\ Repo!Unlock(c) /\ UNCHANGED refs
  <2>1. RepoTyped' /\ Trees' /\ WorkSafe'
    BY <1>1, <1>2, ReturnMoves DEF Repo!Unlock, RepoInv, RepoTyped, Trees, WorkSafe, Clean, Wanted
  <2>2. Repo!FilesFollowHead'
    BY <1>1, <1>2, ReturnMoves DEF RepoInv, RepoTyped, Repo!FilesFollowHead
  <2>3. Progress(c)' /\ Merged(c)'
    BY <1>1, <1>2, ReturnMoves, RepositoryAssumption DEF Repo!Unlock, Progress, Merged
  <2>4. \A d \in Caller \ {c} : Progress(d)' /\ Merged(d)'
    BY <1>1, <1>2, ReturnMoves, RepositoryAssumption DEF Repo!Unlock, RepoInv, Progress, Merged, Clean, Wanted
  <2> QED BY <2>1, <2>2, <2>3, <2>4 DEF RepoInv
<1>3. CASE /\ refs.base = call[c].base
           /\ refs' = [refs EXCEPT !.base = call[c].base \cup call[c].source]
           /\ IF call[c].onBase THEN Repo!Goto(c, "reset") /\ UNCHANGED lock
                                ELSE Repo!Goto(c, "remove") /\ Repo!Unlock(c)
  <2> DEFINE at == IF call[c].onBase THEN "reset" ELSE "remove"
  <2>1. /\ call' \in [Caller -> OneCall]
        /\ call'[c].pc = at
        /\ call'[c].action = call[c].action /\ call'[c].status = call[c].status
        /\ \A d \in Caller \ {c} : call'[d] = call[d]
    BY <1>3, GotoMoves
  <2>2. lock' = IF at = "reset" THEN lock ELSE "free"
    BY <1>3 DEF Repo!Unlock
  <2>3. at \in {"reset", "remove"} /\ (at = "reset" <=> call[c].onBase)
    OBVIOUS
  <2> HIDE DEF at
  <2>4. call[c].source \in SUBSET Commits
    BY DEF RepoInv, RepoTyped, OneCall
  <2>5. /\ refs' \in [Branch -> SUBSET Commits] /\ refs'["base"] = refs["base"] \cup call[c].source
        /\ refs'["task"] = refs["task"] /\ refs'["other"] = refs["other"]
    BY <1>3, <2>4 DEF RepoInv, RepoTyped, Branch
  <2>6. RepoTyped' /\ Trees' /\ WorkSafe'
    BY <1>1, <2>1, <2>2, <2>3, <2>5 DEF RepoInv, RepoTyped, Trees, WorkSafe, Clean, Wanted
  <2>7. Repo!FilesFollowHead'
    <3>1. call[c].onBase \in BOOLEAN /\ main.head \in {"base", "other"}
      BY DEF RepoInv, RepoTyped, OneCall
    <3>2. SUFFICES ASSUME \A d \in Caller : call'[d].pc # "reset", ~ past.raced
                   PROVE  main.files = refs'[main.head]
      BY <1>1 DEF Repo!FilesFollowHead
    <3>3. main.head = "other" /\ refs'[main.head] = refs[main.head]
      BY <1>1, <2>1, <2>3, <2>5, <3>1, <3>2 DEF RepoInv, Progress
    <3>4. \A d \in Caller : call[d].pc # "reset"
      BY <1>1, <2>1, <3>2 DEF RepoInv, Progress
    <3> QED BY <3>2, <3>3, <3>4 DEF RepoInv, Repo!FilesFollowHead
  <2>8. Progress(c)' /\ Merged(c)'
    <3>1. call[c].onBase \in BOOLEAN
      BY DEF RepoInv, RepoTyped, OneCall
    <3>2. Progress(c)'
      BY <1>1, <2>1, <2>2, <2>3, <2>5, <3>1, RepositoryAssumption DEF RepoInv, Progress
    <3>3. Merged(c)'
      BY <1>1, <2>1, <2>2, <2>3, <2>5 DEF RepoInv, Merged, Clean, Wanted
    <3> QED BY <3>2, <3>3
  <2>9. \A d \in Caller \ {c} : Progress(d)' /\ Merged(d)'
    BY <1>1, <2>1, <2>2, <2>3, <2>5, RepositoryAssumption DEF RepoInv, Progress, Merged, Clean, Wanted
  <2> QED BY <2>6, <2>7, <2>8, <2>9 DEF RepoInv
<1> QED
  BY <1>2, <1>3 DEF Repo!MergeUpdate

\* The reset shows the branch that is checked out by now, or is cut off.
LEMMA ResetStep ==
  ASSUME RepoInv, NEW c \in Caller, Repo!MergeReset(c)
  PROVE  RepoInv'
<1>1. UNCHANGED <<refs, wt, row, sweep>> /\ call[c].pc = "reset" /\ lock = c /\ lock' = "free"
  BY DEF Repo!MergeReset, Repo!Unlock
<1>2. \A d \in Caller \ {c} : call[d].pc \notin {"state", "update", "reset", "branch"} /\ lock' # d
  BY <1>1, RepositoryAssumption DEF RepoInv, Progress
<1>3. CASE /\ main' = [main EXCEPT !.edits = "none", !.files = refs[main.head]]
           /\ Repo!Goto(c, "remove") /\ UNCHANGED past
  <2>1. /\ call' \in [Caller -> OneCall] /\ call'[c].pc = "remove"
        /\ call'[c].action = call[c].action /\ call'[c].status = call[c].status
        /\ \A d \in Caller \ {c} : call'[d] = call[d]
    BY <1>3, GotoMoves
  <2>2. /\ main' \in [head : {"base", "other"}, edits : {"none", "early", "late"}, files : SUBSET Commits]
        /\ main'.head = main.head /\ main'.edits = "none" /\ main'.files = refs[main.head]
    BY <1>3 DEF RepoInv, RepoTyped, Branch
  <2>3. RepoTyped' /\ Trees' /\ WorkSafe'
    BY <1>1, <1>3, <2>1, <2>2 DEF RepoInv, RepoTyped, Trees, WorkSafe, Clean, Wanted
  <2>4. Repo!FilesFollowHead'
    BY <1>1, <2>2 DEF Repo!FilesFollowHead
  <2>5. Progress(c)' /\ Merged(c)'
    BY <1>1, <1>3, <2>1, <2>2, RepositoryAssumption DEF RepoInv, Progress, Merged, Clean, Wanted
  <2>6. \A d \in Caller \ {c} : Progress(d)' /\ Merged(d)'
    BY <1>1, <1>2, <1>3, <2>1, <2>2 DEF RepoInv, Progress, Merged, Clean, Wanted
  <2> QED BY <2>3, <2>4, <2>5, <2>6 DEF RepoInv
<1>4. CASE Repo!Return(c) /\ UNCHANGED main
           /\ past' = [past EXCEPT !.faults = @ + 1, !.raced = TRUE]
  <2>1. /\ past' \in Past /\ past'.raced
        /\ past'.work = past.work /\ past'.late = past.late
        /\ past'.discarded = past.discarded /\ past'.uncommitted = past.uncommitted
    <3>1. past \in Past /\ past.faults + 1 \in Nat
      BY DEF RepoInv, RepoTyped, Past
    <3> QED BY <1>4, <3>1 DEF Past
  <2>2. RepoTyped' /\ Trees' /\ WorkSafe'
    BY <1>1, <1>4, <2>1, ReturnMoves DEF RepoInv, RepoTyped, Trees, WorkSafe, Clean, Wanted, Past
  <2>3. Repo!FilesFollowHead'
    BY <2>1 DEF Repo!FilesFollowHead
  <2>4. Progress(c)' /\ Merged(c)'
    BY <1>1, <1>4, ReturnMoves, RepositoryAssumption DEF Progress, Merged
  <2>5. \A d \in Caller \ {c} : Progress(d)' /\ Merged(d)'
    BY <1>1, <1>2, <1>4, <2>1, ReturnMoves DEF RepoInv, Progress, Merged, Clean, Wanted
  <2> QED BY <2>2, <2>3, <2>4, <2>5 DEF RepoInv
<1> QED
  BY <1>3, <1>4 DEF Repo!MergeReset

\* The worktree goes, with what a discarding call leaves in it.
LEMMA TreeStep ==
  ASSUME RepoInv, NEW c \in Caller, Repo!RemoveTree(c)
  PROVE  RepoInv'
<1>1. UNCHANGED <<refs, main, row, sweep>> /\ call[c].pc = "remove"
  BY DEF Repo!RemoveTree
<1>2. CASE Repo!Return(c) /\ Repo!Fault /\ UNCHANGED <<wt, lock>>
  <2>1. /\ past' \in Past /\ past'.work = past.work /\ past'.late = past.late
        /\ past'.discarded = past.discarded /\ past'.uncommitted = past.uncommitted
        /\ past'.raced = past.raced
    BY <1>2 DEF Repo!Fault, Repo!Remember, RepoInv, RepoTyped, Past
  <2>2. RepoTyped' /\ Trees' /\ WorkSafe' /\ Repo!FilesFollowHead'
    BY <1>1, <1>2, <2>1, ReturnMoves DEF RepoInv, RepoTyped, Trees, WorkSafe, Clean, Wanted, Past, Repo!FilesFollowHead
  <2>3. Progress(c)' /\ Merged(c)'
    BY <1>1, <1>2, ReturnMoves DEF RepoInv, Progress, Merged
  <2>4. \A d \in Caller \ {c} : Progress(d)' /\ Merged(d)'
    BY <1>1, <1>2, <2>1, ReturnMoves DEF RepoInv, Progress, Merged, Clean, Wanted
  <2> QED BY <2>2, <2>3, <2>4 DEF RepoInv
<1>3. CASE /\ Repo!Lock(c) /\ Repo!Goto(c, "branch") /\ UNCHANGED past
           /\ wt' = IF call[c].status = "done" THEN wt ELSE [exists |-> FALSE, pending |-> {}]
  <2>1. /\ call' \in [Caller -> OneCall] /\ call'[c].pc = "branch"
        /\ call'[c].action = call[c].action /\ call'[c].status = call[c].status
        /\ \A d \in Caller \ {c} : call'[d] = call[d]
    BY <1>3, GotoMoves
  <2>2. lock = "free" /\ lock' = c
    BY <1>3 DEF Repo!Lock
  <2>3. wt' \in [exists : BOOLEAN, pending : SUBSET Work] /\ ~ wt'.exists /\ wt'.pending = {}
    BY <1>1, <1>3 DEF RepoInv, RepoTyped, Progress, Trees
  <2>4. Clean => wt.pending = {}
    BY <1>1 DEF RepoInv, RepoTyped, Progress, Clean
  <2>5. RepoTyped' /\ Trees' /\ WorkSafe'
    BY <1>1, <1>3, <2>1, <2>2, <2>3, <2>4 DEF RepoInv, RepoTyped, Trees, WorkSafe, Clean, Wanted
  <2>6. Repo!FilesFollowHead'
    BY <1>1, <1>3, <2>1 DEF RepoInv, Repo!FilesFollowHead
  <2>7. Progress(c)' /\ Merged(c)'
    BY <1>1, <1>3, <2>1, <2>2, <2>3 DEF RepoInv, Progress, Merged, Clean, Wanted
  <2>8. \A d \in Caller \ {c} : Progress(d)' /\ Merged(d)'
    BY <1>1, <1>3, <2>1, <2>2, <2>3, RepositoryAssumption DEF RepoInv, Progress, Merged, Clean, Wanted
  <2> QED BY <2>5, <2>6, <2>7, <2>8 DEF RepoInv
<1> QED
  BY <1>2, <1>3 DEF Repo!RemoveTree

\* The branch goes, unless it is to be kept.
LEMMA BranchStep ==
  ASSUME RepoInv, NEW c \in Caller, Repo!RemoveBranch(c)
  PROVE  RepoInv'
<1>1. UNCHANGED <<main, wt, row, sweep, past>> /\ call[c].pc = "branch" /\ lock = c /\ lock' = "free"
  BY DEF Repo!RemoveBranch, Repo!Unlock
<1>2. /\ call' \in [Caller -> OneCall] /\ call'[c].pc = "record"
      /\ call'[c].action = call[c].action /\ call'[c].status = call[c].status
      /\ \A d \in Caller \ {c} : call'[d] = call[d]
  BY GotoMoves DEF Repo!RemoveBranch
<1>3. /\ refs' \in [Branch -> SUBSET Commits]
      /\ refs'["base"] = refs["base"] /\ refs'["other"] = refs["other"]
      /\ refs'["task"] = IF call[c].action = "keep" THEN refs["task"] ELSE {}
  BY DEF Repo!RemoveBranch, Repo!Gone, RepoInv, RepoTyped, Branch
<1>4. call[c].action \in {"keep", "merge", "discard"} /\ ~ wt.exists
  BY <1>1 DEF RepoInv, RepoTyped, OneCall, Progress
<1>5. RepoTyped' /\ Trees' /\ WorkSafe'
  BY <1>1, <1>2, <1>3, <1>4 DEF RepoInv, RepoTyped, Trees, WorkSafe, Clean, Wanted, Progress, Merged
<1>6. Repo!FilesFollowHead'
  <2>1. refs'[main.head] = refs[main.head]
    BY <1>3 DEF RepoInv, RepoTyped
  <2> QED BY <1>1, <1>2, <2>1 DEF RepoInv, Repo!FilesFollowHead
<1>7. Progress(c)' /\ Merged(c)'
  BY <1>1, <1>2, <1>3, <1>4, RepositoryAssumption DEF RepoInv, Progress, Merged, Clean, Wanted
<1>8. \A d \in Caller \ {c} : Progress(d)' /\ Merged(d)'
  BY <1>1, <1>2, <1>3, <1>4, RepositoryAssumption DEF RepoInv, Progress, Merged, Clean, Wanted
<1> QED BY <1>5, <1>6, <1>7, <1>8 DEF RepoInv

\* The outcome is recorded unless the status has moved on.
LEMMA RecordStep ==
  ASSUME RepoInv, NEW c \in Caller, Repo!Record(c)
  PROVE  RepoInv'
<1>1. UNCHANGED <<refs, main, wt, lock, sweep, past>> /\ call[c].pc = "record" /\ Repo!Return(c)
  BY DEF Repo!Record
<1>2. call[c].action \in {"keep", "merge", "discard"} /\ ~ wt.exists
  BY <1>1 DEF RepoInv, RepoTyped, OneCall, Progress
<1>3. /\ row' \in [status : {"human_review", "aborted", "done", "cancelled"},
                   final : {"none", "keep", "merged"}, branch : BOOLEAN]
      /\ row'.final = "merged" => row.final = "merged" \/ call[c].action = "merge"
  <2>1. CASE row.status # call[c].status
    BY <2>1 DEF Repo!Record, RepoInv, RepoTyped
  <2>2. CASE row.status = call[c].status
    <3> DEFINE flag == row.branch /\ call[c].action = "keep"
    <3>1. flag \in BOOLEAN
      OBVIOUS
    <3>2. row' = [status |-> IF call[c].action = "discard" THEN "cancelled" ELSE "done",
                  final |-> CASE call[c].action = "keep" -> "keep"
                              [] call[c].action = "merge" -> "merged"
                              [] OTHER -> "none",
                  branch |-> flag]
      BY <2>2 DEF Repo!Record
    <3> HIDE DEF flag
    <3> QED BY <1>2, <3>1, <3>2
  <2> QED BY <2>1, <2>2
<1>4. RepoTyped'
  BY <1>1, <1>3, ReturnMoves DEF RepoInv, RepoTyped
<1>5. Trees' /\ WorkSafe'
  BY <1>1, <1>2, <1>3 DEF RepoInv, Trees, WorkSafe, Clean, Wanted, Progress, Merged
<1>6. Repo!FilesFollowHead'
  BY <1>1, ReturnMoves DEF RepoInv, Repo!FilesFollowHead
<1>7. Progress(c)' /\ Merged(c)'
  BY <1>1, ReturnMoves DEF RepoInv, Progress, Merged
<1>8. \A d \in Caller \ {c} : Progress(d)' /\ Merged(d)'
  BY <1>1, ReturnMoves DEF RepoInv, Progress, Merged, Clean, Wanted
<1> QED BY <1>4, <1>5, <1>6, <1>7, <1>8 DEF RepoInv

-----------------------------------------------------------------------------
(* The sweep, the user and a crash.                                        *)

\* git deletes the branch only when HEAD has all of it, and a branch of the user's
\* own has none of the work: what is wanted is on the base branch.
LEMMA SweepDeleteStep ==
  ASSUME RepoInv, Repo!SweepDelete
  PROVE  RepoInv'
<1>1. UNCHANGED <<main, wt, row, lock, call, past>> /\ lock = "free" /\ sweep' \in {"idle", "flag"}
  BY DEF Repo!SweepDelete
<1>2. CASE UNCHANGED refs
  BY <1>1, <1>2 DEF RepoInv, RepoTyped, Trees, WorkSafe, Progress, Merged, Clean, Wanted, Repo!FilesFollowHead
<1>3. CASE Repo!GitDeletes /\ refs' = [refs EXCEPT !.task = Repo!Gone]
  <2>1. /\ refs' \in [Branch -> SUBSET Commits] /\ refs'["task"] = {}
        /\ refs'["base"] = refs["base"] /\ refs'["other"] = refs["other"]
    BY <1>3 DEF Repo!Gone, RepoInv, RepoTyped, Branch
  <2>2. refs["task"] \subseteq refs[main.head] /\ ~ wt.exists /\ wt.pending = {}
    BY <1>3 DEF Repo!GitDeletes, RepoInv, Trees
  <2>3. Wanted \cap refs["other"] = {}
    <3>1. Wanted \subseteq Work
      BY DEF RepoInv, RepoTyped, Past, Wanted
    <3> QED BY <3>1, RepositoryAssumption DEF RepoInv, RepoTyped, Repo!Root
  <2>4. Clean => Wanted \subseteq refs["base"]
    BY <2>2, <2>3 DEF RepoInv, RepoTyped, WorkSafe
  <2>5. Clean' = Clean /\ Wanted' = Wanted
    BY <1>1 DEF Clean, Wanted
  <2>6. RepoTyped' /\ Trees' /\ WorkSafe'
    BY <1>1, <2>1, <2>2, <2>4, <2>5 DEF RepoInv, RepoTyped, Trees, WorkSafe
  <2>7. Repo!FilesFollowHead'
    <3>1. refs'[main.head] = refs[main.head]
      BY <2>1 DEF RepoInv, RepoTyped
    <3> QED BY <1>1, <3>1 DEF RepoInv, Repo!FilesFollowHead
  <2>8. \A c \in Caller : Progress(c)' /\ Merged(c)'
    BY <1>1, <2>1, <2>5 DEF RepoInv, Progress, Merged
  <2> QED BY <2>6, <2>7, <2>8 DEF RepoInv
<1> QED
  BY <1>2, <1>3 DEF Repo!SweepDelete

\* What the sweep notes and flags is nothing the invariant speaks of.
LEMMA SweepFlagStep ==
  ASSUME RepoInv, Repo!SweepCheck \/ Repo!SweepFlag
  PROVE  RepoInv'
<1>1. /\ UNCHANGED <<refs, main, wt, lock, call, past>> /\ sweep' \in {"idle", "delete", "flag"}
      /\ row' \in [status : {"human_review", "aborted", "done", "cancelled"},
                   final : {"none", "keep", "merged"}, branch : BOOLEAN]
      /\ row'.status = row.status /\ row'.final = row.final
  <2>1. CASE Repo!SweepCheck
    BY <2>1 DEF Repo!SweepCheck, RepoInv, RepoTyped
  <2>2. CASE Repo!SweepFlag
    BY <2>2 DEF Repo!SweepFlag, RepoInv, RepoTyped
  <2> QED BY <2>1, <2>2
<1> QED
  BY <1>1 DEF RepoInv, RepoTyped, Trees, WorkSafe, Progress, Merged, Clean, Wanted, Repo!FilesFollowHead

\* An edit made while a merge is at work came after its look at the checkout.
LEMMA EditStep ==
  ASSUME RepoInv, Repo!Edit
  PROVE  RepoInv'
<1>1. /\ UNCHANGED <<refs, wt, row, lock, call, sweep, past>>
      /\ main' \in [head : {"base", "other"}, edits : {"none", "early", "late"}, files : SUBSET Commits]
      /\ main'.head = main.head /\ main'.files = main.files
      /\ main'.edits = IF Repo!Merging THEN "late" ELSE "early"
  BY DEF Repo!Edit, RepoInv, RepoTyped
<1>2. RepoTyped' /\ Trees' /\ WorkSafe' /\ Repo!FilesFollowHead'
  BY <1>1 DEF RepoInv, RepoTyped, Trees, WorkSafe, Clean, Wanted, Repo!FilesFollowHead
<1>3. \A c \in Caller : Progress(c)' /\ Merged(c)'
  BY <1>1 DEF RepoInv, Progress, Merged, Clean, Wanted, Repo!Merging
<1> QED
  BY <1>2, <1>3 DEF RepoInv

\* A commit of the user's moves the branch that is checked out.
LEMMA UserCommitStep ==
  ASSUME RepoInv, NEW u \in UserCommit, Repo!Commit(u)
  PROVE  RepoInv'
<1>1. UNCHANGED <<wt, row, lock, call, sweep>>
  BY DEF Repo!Commit
<1>2. /\ refs' \in [Branch -> SUBSET Commits] /\ refs'["task"] = refs["task"]
      /\ refs'["other"] \subseteq refs["other"] \cup {u} /\ refs["base"] \subseteq refs'["base"]
      /\ refs'[main.head] = refs[main.head] \cup {u}
  BY DEF Repo!Commit, RepoInv, RepoTyped, Branch, Commits
<1>3. /\ main' \in [head : {"base", "other"}, edits : {"none", "early", "late"}, files : SUBSET Commits]
      /\ main'.head = main.head /\ main'.edits = "none" /\ main'.files = refs'[main.head]
  BY <1>2 DEF Repo!Commit, RepoInv, RepoTyped, Branch
<1>4. /\ past' \in Past /\ past'.work = past.work /\ past'.late = past.late
      /\ past'.discarded = past.discarded /\ past'.uncommitted = past.uncommitted
      /\ past.raced => past'.raced
  <2>1. past' = [past EXCEPT !.raced = (past.raced \/ Repo!Merging)]
    BY DEF Repo!Commit, Repo!Remember
  <2> QED BY <2>1 DEF RepoInv, RepoTyped, Past
<1>5. Clean' = Clean /\ Wanted' = Wanted
  BY <1>4 DEF Clean, Wanted
<1>6. RepoTyped' /\ Trees' /\ WorkSafe' /\ Repo!FilesFollowHead'
  BY <1>1, <1>2, <1>3, <1>4, <1>5 DEF RepoInv, RepoTyped, Trees, WorkSafe, Repo!FilesFollowHead
<1>7. \A c \in Caller : Progress(c)' /\ Merged(c)'
  BY <1>1, <1>2, <1>3, <1>4, <1>5 DEF RepoInv, Progress, Merged
<1> QED
  BY <1>6, <1>7 DEF RepoInv

\* A switch during a merge is remembered.
LEMMA SwitchStep ==
  ASSUME RepoInv, Repo!Switch
  PROVE  RepoInv'
<1>1. UNCHANGED <<refs, wt, row, lock, call, sweep>>
  BY DEF Repo!Switch
<1>2. /\ main' \in [head : {"base", "other"}, edits : {"none", "early", "late"}, files : SUBSET Commits]
      /\ main'.edits = "none" /\ main'.files = refs[main'.head]
  BY DEF Repo!Switch, RepoInv, RepoTyped, Branch
<1>3. /\ past' \in Past /\ past'.work = past.work /\ past'.late = past.late
      /\ past'.discarded = past.discarded /\ past'.uncommitted = past.uncommitted
      /\ past.raced \/ Repo!Merging => past'.raced
  <2>1. past' = [past EXCEPT !.raced = (past.raced \/ Repo!Merging)]
    BY DEF Repo!Switch, Repo!Remember
  <2> QED BY <2>1 DEF RepoInv, RepoTyped, Past
<1>4. Clean' = Clean /\ Wanted' = Wanted
  BY <1>3 DEF Clean, Wanted
<1>5. RepoTyped' /\ Trees' /\ WorkSafe' /\ Repo!FilesFollowHead'
  BY <1>1, <1>2, <1>3, <1>4 DEF RepoInv, RepoTyped, Trees, WorkSafe, Repo!FilesFollowHead
<1>6. \A c \in Caller : Progress(c)' /\ Merged(c)'
  BY <1>1, <1>2, <1>3, <1>4 DEF RepoInv, Progress, Merged, Repo!Merging
<1> QED
  BY <1>5, <1>6 DEF RepoInv

\* What the user adds to the task's branch is late once a merge has read it, and
\* after the merge the branch is gone.
LEMMA TaskCommitStep ==
  ASSUME RepoInv, NEW k \in Work, Repo!CommitToTask(k)
  PROVE  RepoInv'
<1>1. UNCHANGED <<main, wt, row, lock, call, sweep>> /\ refs["task"] # {}
  BY DEF Repo!CommitToTask, Repo!Gone
<1>2. /\ refs' \in [Branch -> SUBSET Commits] /\ refs'["task"] = refs["task"] \cup {k}
      /\ refs'["base"] = refs["base"] /\ refs'["other"] = refs["other"]
  BY DEF Repo!CommitToTask, RepoInv, RepoTyped, Branch, Commits
<1> DEFINE read == \E c \in Caller : call[c].pc \in {"state", "update", "reset", "remove", "branch"}
<1>3. /\ past' \in Past /\ past'.work = past.work \cup {k}
      /\ past'.late = IF read THEN past.late \cup {k} ELSE past.late
      /\ past'.discarded = past.discarded /\ past'.uncommitted = past.uncommitted
      /\ past'.raced = past.raced
  <2>1. past' = [past EXCEPT !.work = @ \cup {k}, !.late = IF read THEN @ \cup {k} ELSE @]
    BY DEF Repo!CommitToTask
  <2> HIDE DEF read
  <2> QED BY <2>1 DEF RepoInv, RepoTyped, Past
<1>4. Clean' = Clean /\ Wanted' \subseteq Wanted \cup {k} /\ (read => Wanted' \subseteq Wanted)
  BY <1>3 DEF Clean, Wanted
<1>5. RepoTyped' /\ Trees' /\ WorkSafe'
  BY <1>1, <1>2, <1>3, <1>4 DEF RepoInv, RepoTyped, Trees, WorkSafe
<1>6. Repo!FilesFollowHead'
  <2>1. refs'[main.head] = refs[main.head]
    BY <1>2 DEF RepoInv, RepoTyped
  <2> QED BY <1>1, <1>3, <2>1 DEF RepoInv, Repo!FilesFollowHead
<1>7. ASSUME NEW c \in Caller
      PROVE  Progress(c)' /\ Merged(c)'
  <2>1. Progress(c)'
    BY <1>1, <1>2, <1>3 DEF RepoInv, Progress
  <2>2. CASE read
    BY <1>1, <1>2, <1>4, <2>1, <2>2 DEF RepoInv, Progress, Merged
  <2>3. CASE ~ read
    <3>1. call[c].pc \notin {"state", "update", "reset", "remove", "branch"}
      BY <2>3
    <3>2. ~ (call[c].pc = "record" /\ call[c].action = "merge")
      BY <1>1 DEF RepoInv, Progress
    <3> QED BY <1>1, <2>1, <3>1, <3>2 DEF Merged
  <2> QED BY <2>1, <2>2, <2>3
<1> QED
  BY <1>5, <1>6, <1>7 DEF RepoInv

\* A crash forgets every call; one that was resetting the checkout is remembered.
LEMMA CrashStep ==
  ASSUME RepoInv, Repo!Crash
  PROVE  RepoInv'
<1>1. UNCHANGED <<refs, main, wt, row>> /\ lock' = "free" /\ sweep' = "idle"
  BY DEF Repo!Crash
<1>2. call' \in [Caller -> OneCall] /\ \A c \in Caller : call'[c].pc = "idle"
  BY DEF Repo!Crash, Repo!Idle, OneCall
<1>3. /\ past' \in Past /\ past'.work = past.work /\ past'.late = past.late
      /\ past'.discarded = past.discarded /\ past'.uncommitted = past.uncommitted
      /\ past.raced \/ (\E c \in Caller : call[c].pc = "reset") => past'.raced
  <2> DEFINE now == past.raced \/ \E c \in Caller : call[c].pc = "reset"
             count == past.faults + 1
  <2>1. past' = [past EXCEPT !.faults = count, !.raced = now]
    BY DEF Repo!Crash
  <2>2. now \in BOOLEAN /\ count \in Nat /\ past \in Past
    BY DEF RepoInv, RepoTyped, Past
  <2>3. now <=> past.raced \/ \E c \in Caller : call[c].pc = "reset"
    OBVIOUS
  <2> HIDE DEF now, count
  <2>4. past' \in Past /\ past'.raced = now /\ past'.work = past.work /\ past'.late = past.late
        /\ past'.discarded = past.discarded /\ past'.uncommitted = past.uncommitted
    BY <2>1, <2>2 DEF Past
  <2> QED BY <2>3, <2>4
<1>4. Clean' = Clean /\ Wanted' = Wanted
  BY <1>3 DEF Clean, Wanted
<1>5. RepoTyped' /\ Trees' /\ WorkSafe'
  BY <1>1, <1>2, <1>3, <1>4 DEF RepoInv, RepoTyped, Trees, WorkSafe
<1>6. Repo!FilesFollowHead'
  BY <1>1, <1>3 DEF RepoInv, Repo!FilesFollowHead
<1>7. \A c \in Caller : Progress(c)' /\ Merged(c)'
  BY <1>1, <1>2, RepositoryAssumption DEF Progress, Merged
<1> QED
  BY <1>5, <1>6, <1>7 DEF RepoInv

-----------------------------------------------------------------------------
(* The promises.                                                           *)

\* A step of a call.
LEMMA CallSteps ==
  ASSUME RepoInv, NEW c \in Caller,
         Repo!FinalizeStep(c) \/ \E a \in {"keep", "merge", "discard"} : Repo!Start(c, a)
  PROVE  RepoInv'
BY StartStep, CommitStep, BeginStep, StateStep, UpdateStep, ResetStep, TreeStep, BranchStep, RecordStep
   DEF Repo!FinalizeStep

\* The task has stopped, with any part of its work committed.
LEMMA RepoInit == Repo!Init => RepoInv
<1> SUFFICES ASSUME Repo!Init PROVE RepoInv
  OBVIOUS
<1>1. PICK done \in SUBSET Work :
        /\ refs = [base |-> {Repo!Root}, other |-> {Repo!Root}, task |-> {Repo!Root} \cup done]
        /\ \E pending \in SUBSET (Work \ done) : wt = [exists |-> TRUE, pending |-> pending]
  BY DEF Repo!Init
<1>2. /\ DOMAIN refs = Branch /\ refs["base"] = {Repo!Root} /\ refs["other"] = {Repo!Root}
      /\ refs["task"] = {Repo!Root} \cup done
  BY <1>1 DEF Branch
<1>3. wt \in [exists : BOOLEAN, pending : SUBSET Work] /\ wt.exists
  BY <1>1
<1>4. /\ main \in [head : {"base", "other"}, edits : {"none", "early", "late"}, files : SUBSET Commits]
      /\ main.head = "base" /\ main.edits = "none" /\ main.files = {Repo!Root}
  BY DEF Repo!Init, Commits
<1>5. /\ row \in [status : {"human_review", "aborted", "done", "cancelled"},
                  final : {"none", "keep", "merged"}, branch : BOOLEAN]
      /\ row.status \notin {"done", "cancelled"} /\ row.final = "none"
  BY DEF Repo!Init
<1>6. call \in [Caller -> OneCall] /\ \A c \in Caller : call[c].pc = "idle"
  BY DEF Repo!Init, Repo!Idle, OneCall
<1>7. past \in Past /\ past.work = done \cup wt.pending /\ past.late = {}
  <2>1. (refs.task \ {Repo!Root}) \cup wt.pending = done \cup wt.pending
    BY <1>2, RepositoryAssumption DEF Repo!Root
  <2>2. done \cup wt.pending \in SUBSET Work
    BY <1>3
  <2>3. past = [work |-> done \cup wt.pending, late |-> {}, discarded |-> FALSE,
                uncommitted |-> FALSE, raced |-> FALSE, faults |-> 0]
    BY <2>1 DEF Repo!Init
  <2> QED BY <2>2, <2>3 DEF Past
<1>8. refs \in [Branch -> SUBSET Commits] /\ refs["other"] \subseteq {Repo!Root} \cup UserCommit
  <2>1. refs = [b \in Branch |-> refs[b]]
    BY <1>1, <1>2
  <2>2. \A b \in Branch : refs[b] \in SUBSET Commits
    BY <1>2 DEF Branch, Commits
  <2> QED BY <1>2, <2>1, <2>2
<1>9. lock = "free" /\ sweep = "idle"
  BY DEF Repo!Init
<1>10. RepoTyped /\ Trees /\ WorkSafe
  BY <1>2, <1>3, <1>4, <1>5, <1>6, <1>7, <1>8, <1>9 DEF RepoTyped, Trees, WorkSafe, Wanted
<1>11. Repo!FilesFollowHead
  BY <1>2, <1>4 DEF Repo!FilesFollowHead
<1>12. \A c \in Caller : Progress(c) /\ Merged(c)
  BY <1>6, <1>9, RepositoryAssumption DEF Progress, Merged
<1> QED
  BY <1>10, <1>11, <1>12 DEF RepoInv

\* The invariant of the repository.
LEMMA RepoAlways == Spec => [](part = "repository" => RepoInv)
<1>1. Init => (part = "repository" => RepoInv)
  BY RepoInit DEF Init
<1>2. (part = "repository" => RepoInv) /\ [Next]_vars => (part = "repository" => RepoInv)'
  <2> SUFFICES ASSUME RepoInv, Repo!Next \/ UNCHANGED repository PROVE RepoInv'
    BY PartSteps
  <2>1. CASE UNCHANGED repository
    BY <2>1 DEF repository, RepoInv, RepoTyped, Past, Trees, WorkSafe, Progress, Merged, Clean, Wanted,
                Repo!FilesFollowHead
  <2> QED BY <2>1, CallSteps, SweepDeleteStep, SweepFlagStep, EditStep, UserCommitStep, SwitchStep,
             TaskCommitStep, CrashStep DEF Repo!Next
<1> QED
  BY <1>1, <1>2, PTL DEF Spec

\* No order of Finalize calls, sweeps, crashes and git commands of the user loses what
\* was done for the task, unless somebody discards it, its last commit fails or it
\* comes after the merge has read the branch (orchestrator/finalize.go, worktree/manager.go).
THEOREM WorkAlwaysKept == Spec => []WorkKept
<1>1. (part = "repository" => RepoInv) => WorkKept
  <2> SUFFICES ASSUME RepoInv, Clean PROVE Wanted \subseteq Repo!Kept
    BY DEF WorkKept, Repo!WorkKept, Clean, Wanted
  <2> QED BY DEF RepoInv, WorkSafe, Repo!Kept
<1> QED
  BY <1>1, RepoAlways, PTL

\* What the row calls merged is on the base branch, also when two calls finalize the
\* task at once and the user works on the base branch meanwhile.
THEOREM MergedAlwaysMerged == Spec => []MergedIsMerged
<1>1. (part = "repository" => RepoInv) => MergedIsMerged
  BY DEF MergedIsMerged, Repo!MergedIsMerged, RepoInv, WorkSafe, Clean, Wanted
<1> QED
  BY <1>1, RepoAlways, PTL

\* A merge onto the branch that is checked out brings its files along.
THEOREM FilesAlwaysFollow == Spec => []FilesFollowHead
<1>1. (part = "repository" => RepoInv) => FilesFollowHead
  BY DEF FilesFollowHead, RepoInv
<1> QED
  BY <1>1, RepoAlways, PTL

\* The base branch never loses a commit, and edits that were there when a merge
\* looked are not reset (worktree/manager.go, Merge: the old value given to update-ref
\* and the refusal of a dirty checkout).
THEOREM UserWorkSurvives == Spec => UserWorkKept
<1>1. (part = "repository" => RepoInv) /\ [Next]_vars => (part = "repository" => Repo!KeepsUserWork)
  <2> SUFFICES ASSUME RepoInv, Repo!Next \/ UNCHANGED repository PROVE Repo!KeepsUserWork
    BY PartSteps
  <2>1. \A c \in Caller : Repo!MergeReset(c) => main.edits # "early"
    BY DEF Repo!MergeReset, RepoInv, Progress
  <2>2. refs.base \subseteq refs'.base
    <3>1. CASE UNCHANGED refs
      BY <3>1
    <3>2. CASE \E c \in Caller : Repo!CommitPending(c) \/ Repo!RemoveBranch(c)
      BY <3>2 DEF Repo!CommitPending, Repo!RemoveBranch, RepoInv, RepoTyped, Branch
    <3>3. CASE \E c \in Caller : Repo!MergeUpdate(c)
      BY <3>3 DEF Repo!MergeUpdate, RepoInv, RepoTyped, Branch
    <3>4. CASE Repo!SweepDelete
      BY <3>4 DEF Repo!SweepDelete, RepoInv, RepoTyped, Branch
    <3>5. CASE \E u \in UserCommit : Repo!Commit(u)
      BY <3>5 DEF Repo!Commit, RepoInv, RepoTyped, Branch
    <3>6. CASE \E k \in Work : Repo!CommitToTask(k)
      BY <3>6 DEF Repo!CommitToTask, RepoInv, RepoTyped, Branch
    <3> QED BY <3>1, <3>2, <3>3, <3>4, <3>5, <3>6
            DEF repository, Repo!Next, Repo!FinalizeStep, Repo!Start, Repo!MergeBegin, Repo!MergeState,
                Repo!MergeReset, Repo!RemoveTree, Repo!Record, Repo!SweepCheck, Repo!SweepFlag,
                Repo!Edit, Repo!Switch, Repo!Crash
  <2> QED BY <2>1, <2>2 DEF Repo!KeepsUserWork
<1> QED
  BY <1>1, RepoAlways, PTL DEF UserWorkKept, Spec
=============================================================================
