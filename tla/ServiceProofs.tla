---------------------------- MODULE ServiceProofs ----------------------------
(***************************************************************************)
(* What the sidecar keeps true of the tasks table, its goroutines and its  *)
(* handlers, for any numbers of tasks, dispatchers, reviewers and callers, *)
(* any set of RPCs and any faults.                                         *)
(*                                                                         *)
(* First the types, with what every goroutine and handler holds where it   *)
(* is; then the registry of dispatchers and the semaphores; then what one  *)
(* step may do to a row, which every later invariant cites instead of the  *)
(* actions.                                                                *)
(***************************************************************************)
EXTENDS Service, TaskRulesProofs, FiniteSetTheorems

-----------------------------------------------------------------------------
(* What is held where: the task a goroutine or handler works on and the    *)
(* copy of its row, from the step that reads it to the last that uses it.  *)

DispatchersHold ==
  \A p \in Proc :
    /\ pc[p] # "idle" => job[p] \in Task
    /\ pc[p] \in {"claim", "worktree", "failing", "persist", "plan", "plan_ok", "agent"}
         => mem[p] \in Row
    /\ pc[p] = "failing" => result[p] \in {"runtime", "interrupted"}
    /\ pc[p] = "outcome" => result[p] \in {"ok", "runtime", "timeout"}
    /\ pc[p] = "complete" => result[p] \in {"ok", "runtime", "timeout", "abort"}

ReviewersHold ==
  \A v \in Rev :
    /\ rev[v].pc # "idle" => rev[v].task \in Task
    /\ rev[v].pc \in {"review", "judge"} => rev[v].mem \in Row

HandlersHold ==
  \A c \in Caller :
    /\ call[c].pc # "idle" => call[c].task \in Task
    /\ call[c].pc \notin {"idle", "enqueue", "cancel_get", "finalize_get", "removed_get"}
         => call[c].row \in Row
    /\ call[c].pc = "cancel_get" => "cancel" \in Ops
    /\ call[c].pc = "removed_get" => "remove_worktree" \in Ops

TablesTyped ==
  /\ rows \in [Task -> RowOrNone]
  /\ disk \in [Task -> BOOLEAN]
  /\ branch \in [Task -> BOOLEAN]
  /\ running \in [Task -> Proc \cup {None}]
  /\ aiReviews \in [Task -> Rev \cup {None}]
  /\ rootDone \in BOOLEAN
  /\ sems \in Seq(Nat \ {0}) /\ sems # <<>>

ProcsTyped ==
  /\ pc \in [Proc -> DispatchPc]
  /\ job \in [Proc -> Task \cup {None}]
  /\ permit \in [Proc -> 0 .. Len(sems)]
  /\ cancelled \subseteq Proc
  /\ aborted \subseteq Proc
  /\ mem \in [Proc -> RowOrNone]
  /\ result \in [Proc -> ErrorCode \cup {"ok", "abort"}]
  /\ DispatchersHold

RevsTyped ==
  /\ rev \in [Rev -> [pc : ReviewPc, task : Task \cup {None},
                      ctx : {"live", "cancelled", "timeout"}, mem : RowOrNone]]
  /\ ReviewersHold

CallsTyped ==
  /\ call \in [Caller -> [pc : HandlerPc, op : Ops \cup {"none"},
                         task : Task \cup {None}, row : RowOrNone]]
  /\ HandlersHold

\* TypeOK, with what is held where.
Typed == TablesTyped /\ ProcsTyped /\ RevsTyped /\ CallsTyped

\* The strengthened type invariant gives the one the runs check.
LEMMA TypedTypeOK == Typed => TypeOK
  BY DEF Typed, TypeOK, TablesTyped, ProcsTyped, RevsTyped, CallsTyped

-----------------------------------------------------------------------------
(* The statements the steps are made of keep the table typed.              *)

\* A transition under a copied status keeps the table typed, accepted or refused.
LEMMA TryTyped ==
  ASSUME rows \in [Task -> RowOrNone], NEW t \in Task, NEW from, NEW to \in Status,
         NEW code \in ErrorCode, Try(t, from, to, code)
  PROVE  rows' \in [Task -> RowOrNone]
<1>1. CASE TransitionAccepted(rows[t], from, to, code, "none")
  <2>1. rows[t] \in Row /\ "none" \in FinalizationKind
    BY <1>1 DEF TransitionAccepted, RowOrNone, FinalizationKind
  <2>2. Moved(rows[t], to, code, "none") \in Row
    BY <2>1, MovedTyped
  <2> QED BY <1>1, <2>2 DEF Try, RowOrNone
<1>2. CASE ~ TransitionAccepted(rows[t], from, to, code, "none")
  BY <1>2 DEF Try
<1> QED BY <1>1, <1>2

\* The same under a context that may be cancelled.
LEMMA TryCtxTyped ==
  ASSUME rows \in [Task -> RowOrNone], NEW t \in Task, NEW from, NEW to \in Status,
         NEW code \in ErrorCode, NEW done, TryCtx(done, t, from, to, code)
  PROVE  rows' \in [Task -> RowOrNone]
  BY TryTyped DEF TryCtx

\* UpdateFields writes a typed copy into a typed row.
LEMMA SaveTyped ==
  ASSUME rows \in [Task -> RowOrNone], NEW t \in Task, NEW r \in Row, Save(t, r)
  PROVE  rows' \in [Task -> RowOrNone]
<1>1. UpdateAccepted(rows[t], r) => rows[t] \in Row
  BY DEF UpdateAccepted, RowOrNone
<1> QED BY <1>1, RewrittenTyped DEF Save, RowOrNone

\* A handler's transition keeps the table typed.
LEMMA MoveTyped ==
  ASSUME rows \in [Task -> RowOrNone], NEW c \in Caller, call[c].task \in Task,
         NEW to \in Status, NEW code \in ErrorCode, NEW fin \in FinalizationKind,
         Move(c, to, code, fin)
  PROVE  rows' \in [Task -> RowOrNone]
<1> DEFINE t == call[c].task
           from == call[c].row.status
<1>1. CASE TransitionAccepted(rows[t], from, to, code, fin)
  <2>1. rows[t] \in Row
    BY <1>1 DEF TransitionAccepted, RowOrNone
  <2>2. Moved(rows[t], to, code, fin) \in Row
    BY <2>1, MovedTyped
  <2> QED BY <1>1, <2>2 DEF Move, RowOrNone
<1>2. CASE ~ TransitionAccepted(rows[t], from, to, code, fin)
  BY <1>2 DEF Move
<1> QED BY <1>1, <1>2

\* The branch flag alone is written by SetBranchExists.
LEMMA SetBranchTyped ==
  ASSUME rows \in [Task -> RowOrNone], NEW c \in Caller, NEW b \in BOOLEAN,
         SetBranchExists(c, b)
  PROVE  rows' \in [Task -> RowOrNone]
<1>1. \A r \in Row : [r EXCEPT !.branchExists = b] \in Row
  BY DEF Row
<1> QED BY <1>1 DEF SetBranchExists, RowOrNone

-----------------------------------------------------------------------------
\* Everything is typed when the sidecar starts.
LEMMA TypedInit == SInit => Typed
<1> SUFFICES ASSUME SInit PROVE Typed
  OBVIOUS
<1> USE DEF SInit, Init
<1>1. NewRow \in Row
  BY DEF NewRow, Row, Status, ErrorCode, FinalizationKind, Feedback
<1>2. <<Limit>> \in Seq(Nat \ {0}) /\ Len(<<Limit>>) = 1
  BY LimitAssumption
<1>3. TablesTyped
  BY <1>1, <1>2 DEF TablesTyped, RowOrNone
<1>3a. ProcsTyped
  BY <1>2 DEF ProcsTyped, DispatchersHold, RowOrNone, DispatchPc, Permitted, ErrorCode
<1>4. RevsTyped /\ CallsTyped
  BY DEF RevsTyped, CallsTyped, ReviewersHold, HandlersHold, IdleRev, IdleCall,
         RowOrNone, ReviewPc, HandlerPc
<1> QED BY <1>3, <1>3a, <1>4 DEF Typed

\* A step leaves typed what it leaves alone.
LEMMA TypedFrame ==
  ASSUME Typed
  PROVE  /\ UNCHANGED <<procs, sems>> => ProcsTyped'
         /\ UNCHANGED rev => RevsTyped'
         /\ UNCHANGED call => CallsTyped'
<1>1. UNCHANGED <<procs, sems>> => ProcsTyped'
  BY DEF Typed, ProcsTyped, procs, DispatchersHold
<1>2. UNCHANGED rev => RevsTyped'
  BY DEF Typed, RevsTyped, ReviewersHold
<1>3. UNCHANGED call => CallsTyped'
  BY DEF Typed, CallsTyped, HandlersHold
<1> QED BY <1>1, <1>2, <1>3

\* A step of dispatcher p that moves it on, with its copy and its result.
LEMMA ProcTyped ==
  ASSUME Typed, NEW p \in Proc, pc[p] # "idle",
         NEW next \in DispatchPc, NEW m \in RowOrNone,
         NEW r \in ErrorCode \cup {"ok", "abort"},
         pc' = [pc EXCEPT ![p] = next],
         mem' = [mem EXCEPT ![p] = m],
         result' = [result EXCEPT ![p] = r],
         UNCHANGED <<job, permit, cancelled, aborted, sems>>,
         next \in {"claim", "worktree", "failing", "persist", "plan", "plan_ok", "agent"} => m \in Row,
         next = "failing" => r \in {"runtime", "interrupted"},
         next = "outcome" => r \in {"ok", "runtime", "timeout"},
         next = "complete" => r \in {"ok", "runtime", "timeout", "abort"}
  PROVE  ProcsTyped'
  BY DEF Typed, ProcsTyped, DispatchersHold

\* The same when only the place changes.
LEMMA GotoTyped ==
  ASSUME Typed, NEW p \in Proc, pc[p] # "idle", NEW next \in DispatchPc, Goto(p, next),
         UNCHANGED <<job, permit, cancelled, aborted, sems, mem, result>>,
         next \in {"claim", "worktree", "failing", "persist", "plan", "plan_ok", "agent"}
           => mem[p] \in Row,
         next \notin {"failing", "outcome", "complete"}
  PROVE  ProcsTyped'
  BY DEF Typed, ProcsTyped, DispatchersHold, Goto

\* The dispatcher's writes keep the table typed.
LEMMA SaveMemTyped ==
  ASSUME Typed, NEW p \in Proc, job[p] \in Task, mem[p] \in Row, SaveMem(p) \/ UNCHANGED rows
  PROVE  rows' \in [Task -> RowOrNone]
  BY SaveTyped DEF SaveMem, Save, Typed, TablesTyped

\* The steps of a dispatcher keep everything typed.
LEMMA DispatchTyped ==
  ASSUME Typed, NEW p \in Proc, DispatchStep(p), UNCHANGED call
  PROVE  Typed'
<1> USE DEF DispatchPc, Permitted
<1>0. TablesTyped /\ ProcsTyped /\ RevsTyped /\ CallsTyped /\ CallsTyped'
  BY TypedFrame DEF Typed
<1>a. /\ mem = [mem EXCEPT ![p] = mem[p]] /\ mem[p] \in RowOrNone
      /\ result = [result EXCEPT ![p] = result[p]]
      /\ result[p] \in ErrorCode \cup {"ok", "abort"}
  BY <1>0 DEF ProcsTyped
<1>b. rows[job[p]] # Absent /\ pc[p] # "idle" => job[p] \in Task /\ rows[job[p]] \in Row
  BY <1>0 DEF TablesTyped, ProcsTyped, DispatchersHold, RowOrNone
<1>c. pc[p] # "idle" => job[p] \in Task
  BY <1>0 DEF ProcsTyped, DispatchersHold
<1>1. CASE TakeSem(p)
  <2>1. Len(sems) \in Nat
    BY <1>0 DEF TablesTyped
  <2>2. ProcsTyped'
    BY <1>0, <1>1, <2>1 DEF TakeSem, Goto, ProcsTyped, DispatchersHold
  <2>3. TablesTyped' /\ UNCHANGED rev
    BY <1>0, <1>1 DEF TakeSem, TablesTyped, registry
  <2> QED BY <1>0, <2>2, <2>3, TypedFrame DEF Typed
<1>2. CASE Acquire(p) \/ AcquireCancelled(p) \/ Release(p)
  <2>1. ProcsTyped'
    BY <1>2, GotoTyped DEF Acquire, AcquireCancelled, Release, control
  <2>2. TablesTyped' /\ UNCHANGED rev
    BY <1>0, <1>2 DEF Acquire, AcquireCancelled, Release, TablesTyped, registry
  <2> QED BY <1>0, <2>1, <2>2, TypedFrame DEF Typed
<1>3. CASE Lookup(p)
  <2>1. \A r \in Row : /\ Moved(r, "planning", "none", "none") \in Row
                      /\ [r EXCEPT !.status = "planning"] \in Row
    <3>1. "planning" \in Status /\ "none" \in ErrorCode /\ "none" \in FinalizationKind
      BY DEF Status, ErrorCode, FinalizationKind
    <3>2. \A r \in Row : Moved(r, "planning", "none", "none") \in Row
      BY <3>1, MovedTyped
    <3>3. \A r \in Row : [r EXCEPT !.status = "planning"] \in Row
      BY <3>1 DEF Row
    <3> QED BY <3>2, <3>3
  <2>2. PICK next \in {"release", "claim", "failing"}, m \in RowOrNone, r \in {result[p], "runtime"} :
          /\ pc' = [pc EXCEPT ![p] = next] /\ mem' = [mem EXCEPT ![p] = m]
          /\ result' = [result EXCEPT ![p] = r]
          /\ next # "release" => m \in Row
          /\ next = "failing" => r = "runtime"
    BY <1>3, <1>a, <1>b, <2>1 DEF Lookup, Goto, RowOrNone
  <2>3. ProcsTyped'
    BY <1>3, <1>a, <2>2, ProcTyped DEF Lookup, control, ErrorCode
  <2>4. TablesTyped' /\ UNCHANGED rev
    BY <1>0, <1>3, <1>b, <2>1
       DEF Lookup, TablesTyped, registry, RowOrNone, TransitionAccepted
  <2> QED BY <1>0, <2>3, <2>4, TypedFrame DEF Typed
<1>4. CASE Claim(p)
  <2> DEFINE to == IF PlannerOn THEN "planning" ELSE "in_progress"
  <2>1. job[p] \in Task /\ mem[p] \in Row /\ to \in Status /\ [mem[p] EXCEPT !.status = to] \in Row
    BY <1>0, <1>4 DEF Claim, ProcsTyped, DispatchersHold, Row, Status
  <2>2. ProcsTyped'
    BY <1>4, <1>a, <2>1, ProcTyped DEF Claim, Goto, control, RowOrNone
  <2>3. \/ UNCHANGED rows
        \/ /\ TransitionAccepted(rows[job[p]], "queued", to, "none", "none")
           /\ rows' = [rows EXCEPT ![job[p]] = Moved(rows[job[p]], to, "none", "none")]
    BY <1>4 DEF Claim
  <2>4. rows' \in [Task -> RowOrNone]
    BY <1>0, <2>1, <2>3, TryTyped DEF Try, TablesTyped, ErrorCode
  <2>5. TablesTyped' /\ UNCHANGED rev
    BY <1>0, <1>4, <2>4 DEF Claim, TablesTyped, registry
  <2> QED BY <1>0, <2>2, <2>5, TypedFrame DEF Typed
<1>5. CASE EnsureWorktree(p)
  <2>1. mem[p] \in Row /\ [mem[p] EXCEPT !.worktree = TRUE] \in Row
    BY ZenonT(60), <1>0, <1>5 DEF EnsureWorktree, ProcsTyped, DispatchersHold, Row
  <2>2. PICK next \in {"persist", "failing"}, m \in Row, r \in {result[p], "runtime", "interrupted"} :
          /\ pc' = [pc EXCEPT ![p] = next] /\ mem' = [mem EXCEPT ![p] = m]
          /\ result' = [result EXCEPT ![p] = r]
          /\ next = "failing" => r \in {"runtime", "interrupted"}
    BY <1>5, <1>a, <2>1 DEF EnsureWorktree, Goto
  <2>3. ProcsTyped'
    BY <1>5, <1>a, <2>2, ProcTyped DEF EnsureWorktree, control, ErrorCode, RowOrNone
  <2>4. TablesTyped' /\ UNCHANGED rev
    BY <1>0, <1>5 DEF EnsureWorktree, TablesTyped, registry
  <2> QED BY <1>0, <2>3, <2>4, TypedFrame DEF Typed
<1>6. CASE Fail(p)
  <2>1. result[p] \in ErrorCode /\ "failed" \in Status
    BY <1>0, <1>6 DEF Fail, ProcsTyped, DispatchersHold, ErrorCode, Status
  <2>2. rows' \in [Task -> RowOrNone]
    BY <1>0, <1>6, <1>c, <2>1, TryCtxTyped DEF Fail, TablesTyped
  <2>3. ProcsTyped'
    BY <1>6, GotoTyped DEF Fail, control
  <2>4. TablesTyped' /\ UNCHANGED rev
    BY <1>0, <1>6, <2>2 DEF Fail, TablesTyped, registry
  <2> QED BY <1>0, <2>3, <2>4, TypedFrame DEF Typed
<1>7. CASE Persist(p) \/ PlanReturns(p)
  <2>1. job[p] \in Task /\ mem[p] \in Row
    BY <1>0, <1>7 DEF Persist, PlanReturns, ProcsTyped, DispatchersHold
  <2>2. rows' \in [Task -> RowOrNone]
    BY <1>7, <2>1, SaveMemTyped DEF Persist, PlanReturns
  <2>3. PICK next \in {"plan", "agent", "plan_ok", "plan_failed"},
             r \in {result[p], "abort", "runtime"} :
          pc' = [pc EXCEPT ![p] = next] /\ result' = [result EXCEPT ![p] = r]
    BY <1>7, <1>a DEF Persist, PlanReturns, Goto
  <2>4. ProcsTyped'
    BY <1>7, <1>a, <2>1, <2>3, ProcTyped DEF Persist, PlanReturns, control, ErrorCode
  <2>5. TablesTyped' /\ UNCHANGED rev
    BY <1>0, <1>7, <2>2 DEF Persist, PlanReturns, TablesTyped, registry
  <2> QED BY <1>0, <2>4, <2>5, TypedFrame DEF Typed
<1>8. CASE PlanCommit(p)
  <2>1. job[p] \in Task /\ mem[p] \in Row /\ [mem[p] EXCEPT !.status = "in_progress"] \in Row
    BY <1>0, <1>8 DEF PlanCommit, ProcsTyped, DispatchersHold, Row, Status
  <2>2. PICK next \in {"agent", "failing"}, m \in Row, r \in {result[p], "runtime"} :
          /\ pc' = [pc EXCEPT ![p] = next] /\ mem' = [mem EXCEPT ![p] = m]
          /\ result' = [result EXCEPT ![p] = r]
          /\ next = "failing" => r = "runtime"
    BY <1>8, <1>a, <2>1 DEF PlanCommit, Goto
  <2>3. ProcsTyped'
    BY <1>8, <1>a, <2>2, ProcTyped DEF PlanCommit, control, ErrorCode, RowOrNone
  <2>4. Try(job[p], "planning", "in_progress", "none") \/ UNCHANGED rows
    BY <1>8 DEF PlanCommit, Try
  <2>5. rows' \in [Task -> RowOrNone]
    BY <1>0, <2>1, <2>4, TryTyped DEF TablesTyped, Status, ErrorCode
  <2>6. TablesTyped' /\ UNCHANGED rev
    BY <1>0, <1>8, <2>5 DEF PlanCommit, TablesTyped, registry
  <2> QED BY <1>0, <2>3, <2>6, TypedFrame DEF Typed
<1>9. CASE PlanAbandon(p)
  <2>1. rows' \in [Task -> RowOrNone]
    BY <1>0, <1>9, <1>c, TryCtxTyped DEF PlanAbandon, TablesTyped, Status, ErrorCode
  <2>2. ProcsTyped'
    BY <1>9, GotoTyped DEF PlanAbandon, control
  <2>3. TablesTyped' /\ UNCHANGED rev
    BY <1>0, <1>9, <2>1 DEF PlanAbandon, TablesTyped, registry
  <2> QED BY <1>0, <2>2, <2>3, TypedFrame DEF Typed
<1>10. CASE AgentReturns(p)
  <2>1. job[p] \in Task /\ mem[p] \in Row
    BY <1>0, <1>10 DEF AgentReturns, ProcsTyped, DispatchersHold
  <2>2. rows' \in [Task -> RowOrNone]
    BY <1>10, <2>1, SaveMemTyped DEF AgentReturns
  <2>3. PICK r \in {"ok", "runtime", "timeout"} :
          pc' = [pc EXCEPT ![p] = "outcome"] /\ result' = [result EXCEPT ![p] = r]
    BY <1>10 DEF AgentReturns, Goto
  <2>4. ProcsTyped'
    BY <1>10, <1>a, <2>3, ProcTyped DEF AgentReturns, control, ErrorCode
  <2>5. TablesTyped' /\ UNCHANGED rev
    BY <1>0, <1>10, <2>2 DEF AgentReturns, TablesTyped, registry
  <2> QED BY <1>0, <2>4, <2>5, TypedFrame DEF Typed
<1>11. CASE Outcome(p)
  <2>1. ProcsTyped'
    BY <1>0, <1>a, <1>11, ProcTyped DEF Outcome, Goto, control, ProcsTyped, DispatchersHold
  <2>2. TablesTyped' /\ UNCHANGED rev
    BY <1>0, <1>11 DEF Outcome, TablesTyped, registry
  <2> QED BY <1>0, <2>1, <2>2, TypedFrame DEF Typed
<1>12. CASE Complete(p)
  <2>1. job[p] \in Task
    BY <1>c, <1>12 DEF Complete
  <2>2. ProcsTyped'
    BY <1>12, GotoTyped DEF Complete, control
  <2>3. rows' \in [Task -> RowOrNone]
    BY <1>0, <1>12, <2>1, TryTyped DEF Complete, TablesTyped, Status, ErrorCode
  <2>4. TablesTyped'
    BY <1>0, <1>12, <2>3 DEF Complete, TablesTyped, registry
  <2>5. RevsTyped'
    <3>1. \/ UNCHANGED rev
          \/ \E v \in Rev : rev' = [rev EXCEPT ![v].pc = "register", ![v].task = job[p]]
      BY <1>12 DEF Complete
    <3>2. ASSUME NEW v \in Rev, rev' = [rev EXCEPT ![v].pc = "register", ![v].task = job[p]]
          PROVE  RevsTyped'
      BY ZenonT(60), <1>0, <2>1, <3>2 DEF RevsTyped, ReviewersHold, ReviewPc
    <3> QED BY <1>0, <3>1, <3>2, TypedFrame
  <2> QED BY <1>0, <2>2, <2>4, <2>5 DEF Typed
<1>13. CASE Unregister(p)
  <2>1. TablesTyped'
    BY <1>0, <1>13 DEF Unregister, TablesTyped
  <2>2. ProcsTyped'
    BY <1>0, <1>13 DEF Unregister, Goto, ProcsTyped, DispatchersHold, RowOrNone, ErrorCode, TablesTyped
  <2>3. UNCHANGED rev
    BY <1>13 DEF Unregister
  <2> QED BY <1>0, <2>1, <2>2, <2>3, TypedFrame DEF Typed
<1> QED
  BY <1>1, <1>2, <1>3, <1>4, <1>5, <1>6, <1>7, <1>8, <1>9, <1>10, <1>11, <1>12, <1>13
     DEF DispatchStep

-----------------------------------------------------------------------------
\* A reviewer moves on; only a copy it has read lets it review or judge.
LEMMA RevGotoTyped ==
  ASSUME Typed, NEW v \in Rev, rev[v].pc # "idle", NEW next \in ReviewPc, RevGoto(v, next),
         next \in {"review", "judge"} => rev[v].mem \in Row
  PROVE  RevsTyped'
  BY DEF Typed, RevsTyped, ReviewersHold, RevGoto

\* The reviewer's writes keep the table typed.
LEMMA RevSaveTyped ==
  ASSUME Typed, NEW v \in Rev, rev[v].task \in Task, NEW r \in Row,
         RevSave(v, r) \/ UNCHANGED rows
  PROVE  rows' \in [Task -> RowOrNone]
  BY SaveTyped DEF RevSave, Save, Typed, TablesTyped

\* Enqueue takes an idle slot, or changes nothing.
LEMMA EnqueueTyped ==
  ASSUME Typed, NEW t \in Task, Enqueue(t),
         UNCHANGED <<sems, permit, cancelled, aborted, mem, result>>
  PROVE  /\ ProcsTyped'
         /\ running' \in [Task -> Proc \cup {None}]
<1>1. CASE UNCHANGED <<running, pc, job>>
  BY <1>1, TypedFrame DEF procs, Typed, TablesTyped
<1>2. ASSUME NEW p \in Proc, running' = [running EXCEPT ![t] = p],
             pc' = [pc EXCEPT ![p] = "spawned"], job' = [job EXCEPT ![p] = t]
      PROVE  ProcsTyped' /\ running' \in [Task -> Proc \cup {None}]
  BY <1>2 DEF Typed, TablesTyped, ProcsTyped, DispatchersHold, DispatchPc
<1> QED BY <1>1, <1>2 DEF Enqueue

\* The steps of an AI reviewer keep everything typed.
LEMMA ReviewTyped ==
  ASSUME Typed, NEW v \in Rev, ReviewStep(v) \/ RevTimeout(v), UNCHANGED call
  PROVE  Typed'
<1> USE DEF ReviewPc
<1>0. TablesTyped /\ ProcsTyped /\ RevsTyped /\ CallsTyped /\ CallsTyped'
  BY TypedFrame DEF Typed
<1>a. rev[v].pc # "idle" => rev[v].task \in Task
  BY <1>0 DEF RevsTyped, ReviewersHold
<1>1. CASE RevRegister(v)
  <2>1. RevsTyped'
    BY <1>1, RevGotoTyped DEF RevRegister
  <2>2. TablesTyped'
    BY <1>0, <1>1 DEF RevRegister, TablesTyped
  <2>3. ProcsTyped'
    BY <1>1, TypedFrame DEF RevRegister
  <2> QED BY <1>0, <2>1, <2>2, <2>3 DEF Typed
<1>2. CASE RevGet(v)
  <2>1. rows[rev[v].task] # Absent => rows[rev[v].task] \in Row
    BY <1>0, <1>a, <1>2 DEF RevGet, TablesTyped, RowOrNone
  <2>2. \/ RevGoto(v, "exit")
        \/ \E m \in Row : rev' = [rev EXCEPT ![v].pc = "review", ![v].mem = m]
    BY <1>2, <2>1 DEF RevGet
  <2>3. ASSUME NEW m \in Row, rev' = [rev EXCEPT ![v].pc = "review", ![v].mem = m]
        PROVE  RevsTyped'
    BY <1>0, <1>a, <1>2, <2>3 DEF RevGet, RevsTyped, ReviewersHold, RowOrNone
  <2>4. RevsTyped'
    BY <1>2, <2>2, <2>3, RevGotoTyped DEF RevGet
  <2>5. TablesTyped' /\ ProcsTyped'
    BY <1>0, <1>2, TypedFrame DEF RevGet, TablesTyped, registry
  <2> QED BY <1>0, <2>4, <2>5 DEF Typed
<1>3. CASE RevTimeout(v)
  <2>1. RevsTyped'
    BY <1>0, <1>3 DEF RevTimeout, RevsTyped, ReviewersHold
  <2>2. TablesTyped' /\ ProcsTyped'
    BY <1>0, <1>3, TypedFrame DEF RevTimeout, TablesTyped, registry
  <2> QED BY <1>0, <2>1, <2>2 DEF Typed
<1>4. CASE RevReturns(v)
  <2>1. rev[v].mem \in Row /\ rev[v].task \in Task
    BY <1>0, <1>4 DEF RevReturns, RevsTyped, ReviewersHold
  <2>2. rows' \in [Task -> RowOrNone]
    BY <1>4, <2>1, RevSaveTyped DEF RevReturns
  <2>3. RevsTyped'
    BY <1>4, <2>1, RevGotoTyped DEF RevReturns
  <2>4. TablesTyped' /\ ProcsTyped'
    BY <1>0, <1>4, <2>2, TypedFrame DEF RevReturns, TablesTyped, registry
  <2> QED BY <1>0, <2>3, <2>4 DEF Typed
<1>5. CASE RevAbort(v) \/ RevApprove(v) \/ PassAdvance(v)
  <2>1. rows' \in [Task -> RowOrNone]
    BY <1>0, <1>a, <1>5, TryTyped, TryCtxTyped
       DEF RevAbort, RevApprove, PassAdvance, TablesTyped, Status, ErrorCode
  <2>2. RevsTyped'
    BY <1>5, RevGotoTyped DEF RevAbort, RevApprove, PassAdvance
  <2>3. TablesTyped' /\ ProcsTyped'
    BY <1>0, <1>5, <2>1, TypedFrame DEF RevAbort, RevApprove, PassAdvance, TablesTyped, registry
  <2> QED BY <1>0, <2>2, <2>3 DEF Typed
<1>6. CASE RevJudge(v)
  <2>1. rev[v].mem \in Row /\ rev[v].task \in Task /\ [rev[v].mem EXCEPT !.feedback = "ai"] \in Row
    BY <1>0, <1>6 DEF RevJudge, RevsTyped, ReviewersHold, Row, Feedback
  <2>2. rows' \in [Task -> RowOrNone]
    BY <1>6, <2>1, RevSaveTyped DEF RevJudge
  <2>3. RevsTyped'
    BY <1>6, RevGotoTyped DEF RevJudge
  <2>4. TablesTyped' /\ ProcsTyped'
    BY <1>0, <1>6, <2>2, TypedFrame DEF RevJudge, TablesTyped, registry
  <2> QED BY <1>0, <2>3, <2>4 DEF Typed
<1>7. CASE RevRequeue(v)
  <2>1. rows' \in [Task -> RowOrNone]
    BY <1>0, <1>a, <1>7, TryCtxTyped DEF RevRequeue, TablesTyped, Status, ErrorCode
  <2>2. RevsTyped'
    BY <1>7, RevGotoTyped DEF RevRequeue
  <2>3. TablesTyped' /\ ProcsTyped'
    BY <1>0, <1>7, <2>1, TypedFrame DEF RevRequeue, TablesTyped, registry
  <2> QED BY <1>0, <2>2, <2>3 DEF Typed
<1>8. CASE RevEnqueue(v)
  <2>1. ProcsTyped' /\ running' \in [Task -> Proc \cup {None}]
    BY <1>a, <1>8, EnqueueTyped DEF RevEnqueue
  <2>2. RevsTyped'
    BY <1>8, RevGotoTyped DEF RevEnqueue
  <2>3. TablesTyped'
    BY <1>0, <1>8, <2>1 DEF RevEnqueue, TablesTyped
  <2> QED BY <1>0, <2>1, <2>2, <2>3 DEF Typed
<1>9. CASE PassWait(v)
  <2>1. RevsTyped'
    BY <1>9, RevGotoTyped DEF PassWait
  <2>2. TablesTyped' /\ ProcsTyped'
    BY <1>0, <1>9, TypedFrame DEF PassWait, TablesTyped, registry
  <2> QED BY <1>0, <2>1, <2>2 DEF Typed
<1>10. CASE RevExit(v)
  <2>1. RevsTyped'
    BY <1>0, <1>10 DEF RevExit, RevsTyped, ReviewersHold, IdleRev, RowOrNone
  <2>2. TablesTyped' /\ ProcsTyped'
    BY <1>0, <1>a, <1>10, TypedFrame DEF RevExit, TablesTyped
  <2> QED BY <1>0, <2>1, <2>2 DEF Typed
<1> QED
  BY <1>1, <1>2, <1>3, <1>4, <1>5, <1>6, <1>7, <1>8, <1>9, <1>10 DEF ReviewStep

-----------------------------------------------------------------------------
\* The phases in which a handler has no copy of the row.
NoCopy == {"idle", "enqueue", "cancel_get", "finalize_get", "removed_get"}

\* A handler that begins holds a copy of a row, where its next phase needs one.
LEMMA BeginTyped ==
  ASSUME Typed, NEW c \in Caller, NEW op \in Ops, NEW next \in HandlerPc,
         NEW t \in Task, NEW r \in RowOrNone, Begin(c, op, next, t, r),
         next \notin NoCopy => r \in Row,
         next = "cancel_get" => op = "cancel",
         next = "removed_get" => op = "remove_worktree"
  PROVE  CallsTyped'
  BY DEF Typed, CallsTyped, HandlersHold, Begin, NoCopy

\* A handler that goes on keeps the copy it read.
LEMMA StepTyped ==
  ASSUME Typed, NEW c \in Caller, call[c].pc # "idle", NEW next \in HandlerPc, Step(c, next),
         next \notin NoCopy => call[c].row \in Row,
         next \notin {"cancel_get", "removed_get"}
  PROVE  CallsTyped'
  BY DEF Typed, CallsTyped, HandlersHold, Step, NoCopy

\* A handler that returns holds nothing.
LEMMA ReturnTyped ==
  ASSUME Typed, NEW c \in Caller, Return(c)
  PROVE  CallsTyped'
  BY DEF Typed, CallsTyped, HandlersHold, Return, IdleCall, HandlerPc, RowOrNone

\* A statement of a handler touches nothing but the table and its own record.
LEMMA StatementTyped ==
  ASSUME Typed, UNCHANGED <<disk, branch, registry, sems, procs, rev>>,
         rows' \in [Task -> RowOrNone], CallsTyped'
  PROVE  Typed'
<1>1. TablesTyped'
  BY DEF Typed, TablesTyped, registry
<1> QED BY <1>1, TypedFrame DEF Typed

\* Cancel reaches a registered goroutine and only marks its context.
LEMMA CancelTyped ==
  ASSUME Typed, NEW t \in Task, Cancel(t) \/ UNCHANGED <<cancelled, aborted, rev>>,
         UNCHANGED <<sems, pc, job, permit, mem, result>>
  PROVE  ProcsTyped' /\ RevsTyped'
<1>1. CASE UNCHANGED <<cancelled, aborted, rev>>
  BY <1>1, TypedFrame DEF procs
<1>2. CASE /\ running[t] # None
           /\ cancelled' = cancelled \cup {running[t]}
           /\ aborted' = aborted \cup {running[t]}
           /\ UNCHANGED rev
  BY <1>2, TypedFrame DEF Typed, TablesTyped, ProcsTyped, DispatchersHold
<1>3. CASE /\ aiReviews[t] # None
           /\ rev' = [rev EXCEPT ![aiReviews[t]].ctx = "cancelled"]
           /\ UNCHANGED <<cancelled, aborted>>
  <2>1. aiReviews[t] \in Rev
    BY <1>3 DEF Typed, TablesTyped
  <2> QED BY <1>3, <2>1, TypedFrame DEF procs, Typed, RevsTyped, ReviewersHold
<1> QED BY <1>1, <1>2, <1>3 DEF Cancel

\* A request keeps everything typed.
LEMMA RequestTyped ==
  ASSUME Typed, NEW c \in Caller, NEW t \in Task, Request(c, t)
  PROVE  Typed'
<1> USE DEF HandlerPc, NoCopy
<1>0. TablesTyped /\ (rows[t] # Absent => rows[t] \in Row) /\ Absent \in RowOrNone
      /\ rows[t] \in RowOrNone
  BY DEF Typed, TablesTyped, RowOrNone
<1>1. CASE RunTask(c, t)
  BY <1>0, <1>1, BeginTyped, StatementTyped DEF RunTask, Free, orchestrator, TablesTyped
<1>2. CASE RunUnauthenticated(c, t)
  BY <1>0, <1>2, BeginTyped, StatementTyped DEF RunUnauthenticated, Free, orchestrator, TablesTyped
<1>3. CASE CancelTask(c, t)
  <2>1. CallsTyped'
    BY <1>0, <1>3, BeginTyped, TypedFrame DEF CancelTask, Free
  <2>2. ProcsTyped' /\ RevsTyped'
    BY <1>3, CancelTyped DEF CancelTask
  <2>3. TablesTyped'
    BY <1>0, <1>3 DEF CancelTask, TablesTyped, registry
  <2> QED BY <2>1, <2>2, <2>3 DEF Typed
<1>4. CASE SubmitReview(c, t)
  BY <1>0, <1>4, BeginTyped, StatementTyped DEF SubmitReview, Free, orchestrator, TablesTyped
<1>5. CASE Finalize(c, t)
  BY <1>0, <1>5, BeginTyped, StatementTyped DEF Finalize, Free, orchestrator, TablesTyped
<1>6. CASE DeleteTask(c, t)
  BY <1>0, <1>6, BeginTyped, StatementTyped DEF DeleteTask, Free, orchestrator, TablesTyped
<1>7. CASE DeleteTaskBranch(c, t)
  BY <1>0, <1>7, BeginTyped, StatementTyped DEF DeleteTaskBranch, Free, orchestrator, TablesTyped
<1>8. CASE RemoveWorktree(c, t)
  <2>1. CallsTyped'
    BY <1>0, <1>8, BeginTyped DEF RemoveWorktree, Free
  <2>2. TablesTyped' /\ UNCHANGED <<procs, sems, rev>>
    BY <1>0, <1>8 DEF RemoveWorktree, TablesTyped, registry
  <2> QED BY <2>1, <2>2, TypedFrame DEF Typed
<1>9. CASE SyncBranch(c, t)
  BY <1>0, <1>9, BeginTyped, StatementTyped DEF SyncBranch, Free, orchestrator, TablesTyped
<1> QED
  BY <1>1, <1>2, <1>3, <1>4, <1>5, <1>6, <1>7, <1>8, <1>9 DEF Request

\* The statements of the handlers keep everything typed.
LEMMA HandlerTyped ==
  ASSUME Typed, NEW c \in Caller, HandlerStep(c) \/ HandlerFails(c)
  PROVE  Typed'
<1> USE DEF HandlerPc, NoCopy, At
<1> DEFINE t == call[c].task
           r == call[c].row
<1>0. /\ TablesTyped /\ CallsTyped
      /\ call[c].pc # "idle" => t \in Task
      /\ call[c].pc # "idle" /\ rows[t] # Absent => rows[t] \in Row
      /\ call[c].pc \notin NoCopy => r \in Row
      /\ rows \in [Task -> RowOrNone]
  BY DEF Typed, TablesTyped, CallsTyped, HandlersHold, RowOrNone
<1>1. CASE RunAuthFail(c) \/ CancelMove(c) \/ FinalizeMove(c) \/ RemovedMove(c)
  <2>1. PICK to \in Status, code \in ErrorCode, fin \in FinalizationKind : Move(c, to, code, fin)
    BY <1>1 DEF RunAuthFail, CancelMove, FinalizeMove, RemovedMove, Status, ErrorCode,
                FinalizationKind
  <2>2. t \in Task /\ Return(c) /\ UNCHANGED orchestrator
    BY <1>0, <1>1 DEF RunAuthFail, CancelMove, FinalizeMove, RemovedMove
  <2>3. rows' \in [Task -> RowOrNone]
    BY <1>0, <2>1, <2>2, MoveTyped
  <2> QED BY <2>2, <2>3, ReturnTyped, StatementTyped DEF orchestrator
<1>2. CASE RunAgain(c) \/ ReviewVerdict(c)
  <2>1. PICK to \in Status, code \in ErrorCode, fin \in FinalizationKind : Move(c, to, code, fin)
    BY <1>2 DEF RunAgain, ReviewVerdict, Status, ErrorCode, FinalizationKind
  <2>2. /\ t \in Task /\ call[c].pc # "idle" /\ UNCHANGED orchestrator
        /\ Step(c, "enqueue") \/ Return(c)
    BY <1>0, <1>2 DEF RunAgain, ReviewVerdict
  <2>3. rows' \in [Task -> RowOrNone]
    BY <1>0, <2>1, <2>2, MoveTyped
  <2> QED BY <2>2, <2>3, StepTyped, ReturnTyped, StatementTyped DEF orchestrator
<1>3. CASE CallEnqueue(c)
  <2>1. ProcsTyped' /\ running' \in [Task -> Proc \cup {None}]
    BY <1>0, <1>3, EnqueueTyped DEF CallEnqueue
  <2>2. TablesTyped'
    BY <1>0, <1>3, <2>1 DEF CallEnqueue, TablesTyped
  <2> QED BY <1>3, <2>1, <2>2, ReturnTyped, TypedFrame DEF CallEnqueue, Typed
<1>4. CASE CancelGet(c)
  <2>1. "cancel" \in Ops
    BY <1>4 DEF CancelGet, Typed, CallsTyped, HandlersHold
  <2> QED BY <1>0, <1>4, <2>1, BeginTyped, ReturnTyped, StatementTyped
             DEF CancelGet, orchestrator, RowOrNone
<1>5. CASE ReviewFeedback(c) \/ MarkMerged(c)
  <2>1. /\ t \in Task /\ r \in Row /\ [r EXCEPT !.feedback = "user"] \in Row
        /\ [r EXCEPT !.finalization = "merged"] \in Row
    BY <1>0, <1>5 DEF ReviewFeedback, MarkMerged, Row, Feedback, FinalizationKind
  <2>2. /\ UNCHANGED orchestrator
        /\ Step(c, "verdict") \/ Step(c, "clear_branch") \/ Return(c)
    BY <1>5 DEF ReviewFeedback, MarkMerged
  <2>3. rows' \in [Task -> RowOrNone]
    BY <1>0, <1>5, <2>1, SaveTyped DEF ReviewFeedback, MarkMerged
  <2>4. call[c].pc # "idle"
    BY <1>5 DEF ReviewFeedback, MarkMerged
  <2> QED BY <2>1, <2>2, <2>3, <2>4, StepTyped, ReturnTyped, StatementTyped DEF orchestrator
<1>6. CASE FinalizeGet(c)
  <2>1. call[c].op \in Ops \cup {"none"}
    BY <1>0 DEF CallsTyped
  <2>2. CallsTyped'
    BY <1>0, <1>6, <2>1, ReturnTyped
       DEF FinalizeGet, Begin, CallsTyped, HandlersHold, RowOrNone
  <2> QED BY <1>0, <1>6, <2>2, StatementTyped DEF FinalizeGet, orchestrator
<1>7. CASE FinalizeRemove(c) \/ MergeAgain(c) \/ DeleteWorktree(c) \/ DropBranch(c)
  <2>1. \/ Return(c)
        \/ call[c].pc # "idle" /\ \E next \in {"finalize_move", "mark_merged", "delete_row", "clear_branch"} :
             Step(c, next)
    BY <1>7 DEF FinalizeRemove, MergeAgain, DeleteWorktree, DropBranch
  <2>2. call[c].pc \notin NoCopy
    BY <1>7 DEF FinalizeRemove, MergeAgain, DeleteWorktree, DropBranch
  <2>3. CallsTyped'
    BY <1>0, <2>1, <2>2, StepTyped, ReturnTyped
  <2>4. TablesTyped' /\ UNCHANGED <<procs, sems, rev>>
    BY <1>0, <1>7, <2>2
       DEF FinalizeRemove, MergeAgain, DeleteWorktree, DropBranch, TablesTyped, registry
  <2> QED BY <2>3, <2>4, TypedFrame DEF Typed
<1>8. CASE ClearBranch(c) \/ SyncWrite(c)
  <2>1. r.branchExists \in BOOLEAN
    BY <1>0, <1>8 DEF ClearBranch, SyncWrite, Row
  <2>2. rows' \in [Task -> RowOrNone]
    BY <1>0, <1>8, <2>1, SetBranchTyped DEF ClearBranch, SyncWrite
  <2> QED BY <1>8, <2>2, ReturnTyped, StatementTyped DEF ClearBranch, SyncWrite, orchestrator
<1>9. CASE DeleteCancel(c)
  <2>1. CallsTyped'
    BY <1>0, <1>9, StepTyped DEF DeleteCancel
  <2>2. ProcsTyped' /\ RevsTyped'
    BY <1>0, <1>9, CancelTyped DEF DeleteCancel
  <2>3. TablesTyped'
    BY <1>0, <1>9 DEF DeleteCancel, TablesTyped, registry
  <2> QED BY <2>1, <2>2, <2>3 DEF Typed
<1>10. CASE DeleteRow(c)
  <2>1. rows' \in [Task -> RowOrNone]
    BY <1>0, <1>10 DEF DeleteRow, RowOrNone
  <2> QED BY <1>10, <2>1, ReturnTyped, StatementTyped DEF DeleteRow, orchestrator
<1>11. CASE RemovedGet(c)
  <2>1. "remove_worktree" \in Ops
    BY <1>11 DEF RemovedGet, Typed, CallsTyped, HandlersHold
  <2> QED BY <1>0, <1>11, <2>1, BeginTyped, ReturnTyped, StatementTyped
             DEF RemovedGet, orchestrator, RowOrNone
<1>12. CASE SyncCheck(c)
  <2>1. branch[t] \in BOOLEAN /\ [r EXCEPT !.branchExists = branch[t]] \in Row
    BY <1>0, <1>12 DEF SyncCheck, TablesTyped, Row
  <2>2. CallsTyped'
    BY <1>0, <1>12, <2>1, ReturnTyped
       DEF SyncCheck, CallsTyped, HandlersHold, RowOrNone
  <2> QED BY <1>0, <1>12, <2>2, StatementTyped DEF SyncCheck, orchestrator
<1>13. CASE HandlerFails(c)
  BY <1>0, <1>13, ReturnTyped, StatementTyped DEF HandlerFails, orchestrator
<1> QED
  BY <1>1, <1>2, <1>3, <1>4, <1>5, <1>6, <1>7, <1>8, <1>9, <1>10, <1>11, <1>12, <1>13
     DEF HandlerStep

\* A restart recovers typed rows and starts with nothing running.
LEMMA RestartTyped ==
  ASSUME Typed, Restart
  PROVE  Typed'
<1> USE DEF Restart
<1>1. \A t \in Task : rows[t] # Absent =>
         [Recovered(rows[t]) EXCEPT !.branchExists = branch[t]] \in Row
  <2> SUFFICES ASSUME NEW t \in Task, rows[t] # Absent
               PROVE  [Recovered(rows[t]) EXCEPT !.branchExists = branch[t]] \in Row
    OBVIOUS
  <2>1. rows[t] \in Row /\ branch[t] \in BOOLEAN
    BY DEF Typed, TablesTyped, RowOrNone
  <2> QED BY <2>1, RecoveredTyped DEF Row
<1>2. <<Limit>> \in Seq(Nat \ {0}) /\ Len(<<Limit>>) = 1 /\ <<Limit>> # <<>>
  BY LimitAssumption
<1>3. TablesTyped'
  BY <1>1, <1>2 DEF Typed, TablesTyped, RowOrNone
<1>4. ProcsTyped'
  BY <1>2 DEF ProcsTyped, DispatchersHold, DispatchPc, RowOrNone, ErrorCode
<1>5. RevsTyped' /\ CallsTyped'
  BY DEF RevsTyped, CallsTyped, ReviewersHold, HandlersHold, IdleRev, IdleCall, ReviewPc,
         HandlerPc, RowOrNone
<1> QED BY <1>3, <1>4, <1>5 DEF Typed

\* Every step keeps everything typed.
LEMMA TypedNext == Typed /\ [SNext]_allVars => Typed'
<1> SUFFICES ASSUME Typed, [SNext]_allVars PROVE Typed'
  OBVIOUS
<1>1. CASE Goroutines
  BY <1>1, DispatchTyped, ReviewTyped DEF Goroutines
<1>2. ASSUME NEW t \in Task, Reap(t) PROVE Typed'
  <2>1. TablesTyped' /\ UNCHANGED <<procs, sems, rev, call>>
    BY <1>2 DEF Reap, Typed, TablesTyped, registry
  <2> QED BY <2>1, TypedFrame DEF Typed
<1>3. CASE ChangeConcurrency
  <2>1. PICK n \in Nat \ {0} : sems' = Append(sems, n)
    BY <1>3, LimitsAssumption DEF ChangeConcurrency, SetConcurrency
  <2>2. sems \in Seq(Nat \ {0}) /\ Len(sems) \in Nat
    BY DEF Typed, TablesTyped
  <2>3. sems' \in Seq(Nat \ {0}) /\ Len(sems') = Len(sems) + 1 /\ sems' # <<>>
    BY <2>1, <2>2
  <2>4. TablesTyped'
    BY <1>3, <2>3 DEF ChangeConcurrency, SetConcurrency, Typed, TablesTyped, registry
  <2>5. ProcsTyped'
    BY <1>3, <2>2, <2>3
       DEF ChangeConcurrency, SetConcurrency, Typed, ProcsTyped, procs, DispatchersHold
  <2>6. UNCHANGED <<rev, call>>
    BY <1>3 DEF ChangeConcurrency, SetConcurrency
  <2> QED BY <2>4, <2>5, <2>6, TypedFrame DEF Typed
<1>4. CASE ShutDown
  <2>1. TablesTyped' /\ UNCHANGED <<procs, sems, rev, call>>
    BY <1>4 DEF ShutDown, Shutdown, Typed, TablesTyped
  <2> QED BY <2>1, TypedFrame DEF Typed
<1>5. CASE UNCHANGED allVars
  <2>1. TablesTyped' /\ UNCHANGED <<procs, sems, rev, call>>
    BY <1>5 DEF allVars, vars, procs, Typed, TablesTyped
  <2> QED BY <2>1, TypedFrame DEF Typed
<1> QED
  BY <1>1, <1>2, <1>3, <1>4, <1>5, RequestTyped, HandlerTyped, RestartTyped DEF SNext

\* Everything is typed in every state.
LEMMA TypedAlways == SSpec => []Typed
  BY TypedInit, TypedNext, PTL DEF SSpec

\* Type correctness of the tables, the goroutines and the handlers, whatever
\* the clients ask for and whatever fails.
THEOREM ServiceTypeCorrect == SSpec => []TypeOK
  BY TypedAlways, TypedTypeOK, PTL

-----------------------------------------------------------------------------
(* The registry.                                                           *)

\* What a step does to the registry of dispatchers: nothing, Enqueue of a task
\* that has none, the last step of a dispatcher, or the end of the process.
Registers(t, p) ==
  /\ ~ rootDone /\ running[t] = None /\ pc[p] = "idle"
  /\ running' = [running EXCEPT ![t] = p]
  /\ pc' = [pc EXCEPT ![p] = "spawned"]
  /\ job' = [job EXCEPT ![p] = t]
  /\ UNCHANGED <<rows, rootDone, permit, mem, sems>>

Unregisters(p) ==
  /\ pc[p] = "unregister"
  /\ running' = [running EXCEPT ![job[p]] = None]
  /\ pc' = [pc EXCEPT ![p] = "idle"]
  /\ job' = [job EXCEPT ![p] = None]
  /\ UNCHANGED <<rows, rootDone, sems>>
  /\ \A q \in Proc \ {p} : permit'[q] = permit[q]

KeepsRegistry ==
  /\ UNCHANGED <<running, job>>
  /\ \A p \in Proc : pc'[p] = "idle" <=> pc[p] = "idle"

\* Only a dispatcher itself moves on, except for its registration.
OthersStay(p) == \A q \in Proc \ {p} : pc'[q] = pc[q] /\ permit'[q] = permit[q]

\* A dispatcher changes the registry only when it leaves, and no other dispatcher.
LEMMA DispatchRegistry ==
  ASSUME Typed, NEW p \in Proc, DispatchStep(p)
  PROVE  /\ Unregisters(p) \/ (KeepsRegistry /\ UNCHANGED <<rootDone, sems>>)
         /\ OthersStay(p)
<1> USE DEF Typed, ProcsTyped, KeepsRegistry, OthersStay, Goto, control, registry
<1>1. CASE TakeSem(p) \/ Acquire(p) \/ AcquireCancelled(p) \/ Lookup(p) \/ Claim(p)
  BY <1>1 DEF TakeSem, Acquire, AcquireCancelled, Lookup, Claim
<1>2. CASE EnsureWorktree(p) \/ Fail(p) \/ Persist(p) \/ PlanReturns(p) \/ PlanCommit(p)
  BY <1>2 DEF EnsureWorktree, Fail, Persist, PlanReturns, PlanCommit
<1>3. CASE PlanAbandon(p) \/ AgentReturns(p) \/ Outcome(p) \/ Complete(p) \/ Release(p)
  BY <1>3 DEF PlanAbandon, AgentReturns, Outcome, Complete, Release
<1>4. CASE Unregister(p)
  BY <1>4 DEF Unregister, Unregisters
<1> QED BY <1>1, <1>2, <1>3, <1>4 DEF DispatchStep

-----------------------------------------------------------------------------
(* What a step may do to the table.                                        *)

\* A legal transition of t to one of `tos`, an UpdateFields or SetBranchExists
\* of t, the deletion of t.
MovesTo(t, tos) ==
  \E to \in tos, code \in ErrorCode, fin \in FinalizationKind :
    /\ rows[t] \in Row /\ CanTransition(rows[t].status, to)
    /\ Validate(Moved(rows[t], to, code, fin))
    /\ rows' = [rows EXCEPT ![t] = Moved(rows[t], to, code, fin)]

\* The copies of t that an UpdateFields may be about to write back.
Copies(t) ==
  {mem[p] : p \in {q \in Proc : job[q] = t /\ pc[q] \in {"persist", "plan"}}}
  \cup {rev[v].mem : v \in {w \in Rev : rev[w].task = t /\ rev[w].pc \in {"review", "judge"}}}
  \cup {call[c].row : c \in {d \in Caller : call[d].task = t
                                           /\ call[d].pc \in {"feedback", "mark_merged"}}}

\* The columns a copy can carry back into the row.
SameColumns(r, h) ==
  /\ r.status = h.status /\ r.started = h.started /\ r.worktree = h.worktree
  /\ r.reworkCount = h.reworkCount

Saves(t) ==
  \E r \in Row, h \in Copies(t) \cup {rows[t]} :
    /\ rows[t] \in Row /\ r.status = rows[t].status /\ SameColumns(r, h)
    /\ Validate(rows[t]) => Validate(r)
    /\ rows' = [rows EXCEPT ![t] = r]

Drops(t) == rows' = [rows EXCEPT ![t] = Absent]

\* Only dispatchers start a run.
BesideTargets == Status \ {"planning", "in_progress"}

BesideWrites(t) == MovesTo(t, BesideTargets) \/ Saves(t) \/ Drops(t)

\* The steps of reviewers, handlers and housekeeping, beside the dispatchers.
Beside ==
  /\ UNCHANGED <<running, pc, job, permit, mem, result>>
  /\ \/ UNCHANGED <<sems, rootDone>> /\ \E t \in Task : UNCHANGED rows \/ BesideWrites(t)
     \/ UNCHANGED <<rows, rootDone>> /\ \E n \in Nat \ {0} : sems' = Append(sems, n)
     \/ UNCHANGED <<rows, sems, rootDone>>
     \/ UNCHANGED <<rows, sems>> /\ rootDone' = TRUE

\* A transition the store accepts is one of the status graph.
LEMMA AcceptedMoves ==
  ASSUME Typed, NEW t \in Task, NEW from, NEW to, NEW code, NEW fin,
         TransitionAccepted(rows[t], from, to, code, fin)
  PROVE  /\ rows[t] \in Row /\ CanTransition(rows[t].status, to)
         /\ Validate(Moved(rows[t], to, code, fin))
<1>1. rows[t] \in Row /\ CanTransition(rows[t].status, to)
  BY DEF TransitionAccepted, Typed, TablesTyped, RowOrNone
<1>2. Validate(Moved(rows[t], to, code, fin))
  BY <1>1 DEF Moved, Row, Validate, TransitionAccepted
<1> QED BY <1>1, <1>2

\* A transition moves the row to one of the given statuses, or nowhere.
LEMMA TryMoves ==
  ASSUME Typed, NEW t \in Task, NEW from, NEW tos, NEW to \in tos, NEW code \in ErrorCode,
         NEW done, TryCtx(done, t, from, to, code) \/ Try(t, from, to, code)
  PROVE  UNCHANGED rows \/ MovesTo(t, tos)
  BY AcceptedMoves DEF TryCtx, Try, MovesTo, FinalizationKind

\* A handler's transition is a move that happens beside the dispatchers.
LEMMA MoveMoves ==
  ASSUME Typed, NEW c \in Caller, call[c].task \in Task, NEW to \in BesideTargets,
         NEW code \in ErrorCode, NEW fin \in FinalizationKind, Move(c, to, code, fin)
  PROVE  UNCHANGED rows \/ BesideWrites(call[c].task)
  BY AcceptedMoves DEF Move, MovesTo, BesideWrites

\* A write of a copy, but for the columns it sets, saves the row it was read from.
LEMMA SaveSaves ==
  ASSUME Typed, NEW t \in Task, NEW r \in Row, NEW h \in Copies(t), SameColumns(r, h),
         Save(t, r)
  PROVE  UNCHANGED rows \/ Saves(t)
<1>1. CASE ~ UpdateAccepted(rows[t], r)
  BY <1>1 DEF Save
<1>2. CASE UpdateAccepted(rows[t], r)
  <2>1. rows[t] \in Row /\ r.status = rows[t].status
    BY <1>2 DEF UpdateAccepted, Typed, TablesTyped, RowOrNone
  <2>2. Rewritten(rows[t], r) \in Row /\ SameColumns(Rewritten(rows[t], r), h)
    BY <2>1 DEF SameColumns, Rewritten, Row
  <2>3. Rewritten(rows[t], r).status = rows[t].status /\ Validate(Rewritten(rows[t], r))
    BY <1>2, <2>1, RewrittenTyped DEF UpdateAccepted, Validate, Rewritten, Row
  <2> QED BY <1>2, <2>1, <2>2, <2>3 DEF Save, Saves
<1> QED BY <1>1, <1>2

\* The write of the branch flag saves the row.
LEMMA SetBranchSaves ==
  ASSUME Typed, NEW c \in Caller, call[c].task \in Task, NEW b \in BOOLEAN,
         SetBranchExists(c, b)
  PROVE  UNCHANGED rows \/ Saves(call[c].task)
<1> DEFINE t == call[c].task
<1>1. CASE rows[t] = Absent
  BY <1>1 DEF SetBranchExists, Typed, TablesTyped
<1>2. CASE rows[t] # Absent
  <2>1. rows[t] \in Row
    BY <1>2 DEF Typed, TablesTyped, RowOrNone
  <2>2. [rows[t] EXCEPT !.branchExists = b] \in Row
        /\ [rows[t] EXCEPT !.branchExists = b].status = rows[t].status
    BY <2>1 DEF Row
  <2>3. rows' = [rows EXCEPT ![t] = [rows[t] EXCEPT !.branchExists = b]]
    BY <1>2 DEF SetBranchExists
  <2>4. LET r == [rows[t] EXCEPT !.branchExists = b]
        IN SameColumns(r, rows[t]) /\ (Validate(rows[t]) => Validate(r))
    BY <2>1 DEF SameColumns, Validate, Row
  <2> QED BY <2>1, <2>2, <2>3, <2>4 DEF Saves
<1> QED BY <1>1, <1>2

\* Enqueue registers a dispatcher, or finds one registered.
LEMMA EnqueueRegisters ==
  ASSUME Typed, NEW t \in Task, Enqueue(t), UNCHANGED <<rows, rootDone, permit, mem, sems>>
  PROVE  UNCHANGED <<running, pc, job>> \/ \E p \in Proc : Registers(t, p)
  BY DEF Enqueue, Registers

\* What a reviewer does to the table it does beside the dispatchers; it may register one.
LEMMA ReviewShape ==
  ASSUME Typed, NEW v \in Rev, ReviewStep(v) \/ RevTimeout(v)
  PROVE  Beside \/ \E t \in Task, p \in Proc : Registers(t, p)
<1> DEFINE t == rev[v].task
<1>0. rev[v].pc # "idle" => t \in Task
  BY DEF Typed, RevsTyped, ReviewersHold
<1>1. CASE RevRegister(v) \/ RevGet(v) \/ RevTimeout(v) \/ PassWait(v) \/ RevExit(v)
  BY <1>1 DEF RevRegister, RevGet, RevTimeout, PassWait, RevExit, Beside, registry, procs
<1>2. CASE RevReturns(v) \/ RevJudge(v)
  <2>1. t \in Task /\ rev[v].mem \in Row /\ [rev[v].mem EXCEPT !.feedback = "ai"] \in Row
    BY <1>2 DEF RevReturns, RevJudge, Typed, RevsTyped, ReviewersHold, Row, Feedback
  <2>2. /\ rev[v].mem \in Copies(t)
        /\ SameColumns(rev[v].mem, rev[v].mem)
        /\ SameColumns([rev[v].mem EXCEPT !.feedback = "ai"], rev[v].mem)
    BY <1>2, <2>1 DEF RevReturns, RevJudge, Copies, SameColumns, Row
  <2>3. \/ UNCHANGED rows \/ Save(t, rev[v].mem)
        \/ Save(t, [rev[v].mem EXCEPT !.feedback = "ai"])
    BY <1>2 DEF RevReturns, RevJudge, RevSave, Save
  <2>4. UNCHANGED rows \/ Saves(t)
    BY <2>1, <2>2, <2>3, SaveSaves
  <2> QED BY <1>2, <2>1, <2>4 DEF RevReturns, RevJudge, Beside, BesideWrites, registry, procs
<1>3. CASE RevAbort(v) \/ RevApprove(v) \/ PassAdvance(v) \/ RevRequeue(v)
  <2>1. t \in Task
    BY <1>0, <1>3 DEF RevAbort, RevApprove, PassAdvance, RevRequeue
  <2>2. UNCHANGED rows \/ MovesTo(t, BesideTargets)
    BY <1>3, <2>1, TryMoves
       DEF RevAbort, RevApprove, PassAdvance, RevRequeue, BesideTargets, Status, ErrorCode
  <2> QED BY <1>3, <2>1, <2>2
          DEF RevAbort, RevApprove, PassAdvance, RevRequeue, Beside, BesideWrites, registry, procs
<1>4. CASE RevEnqueue(v)
  BY <1>0, <1>4, EnqueueRegisters DEF RevEnqueue, Beside
<1> QED BY <1>1, <1>2, <1>3, <1>4 DEF ReviewStep

\* A request by itself changes nothing a dispatcher depends on.
LEMMA RequestShape ==
  ASSUME Typed, NEW c \in Caller, NEW t \in Task, Request(c, t)
  PROVE  Beside
<1> USE DEF Beside, orchestrator, registry, procs
<1>1. CASE RunTask(c, t) \/ RunUnauthenticated(c, t) \/ CancelTask(c, t) \/ SubmitReview(c, t)
  BY <1>1 DEF RunTask, RunUnauthenticated, CancelTask, SubmitReview
<1>2. CASE Finalize(c, t) \/ DeleteTask(c, t) \/ DeleteTaskBranch(c, t)
           \/ RemoveWorktree(c, t) \/ SyncBranch(c, t)
  BY <1>2 DEF Finalize, DeleteTask, DeleteTaskBranch, RemoveWorktree, SyncBranch
<1> QED BY <1>1, <1>2 DEF Request

\* What a handler does to the table it does beside the dispatchers; it may register one.
LEMMA HandlerShape ==
  ASSUME Typed, NEW c \in Caller, HandlerStep(c) \/ HandlerFails(c)
  PROVE  Beside \/ \E t \in Task, p \in Proc : Registers(t, p)
<1> USE DEF At
<1> DEFINE t == call[c].task
           r == call[c].row
<1>0. /\ call[c].pc # "idle" => t \in Task
      /\ call[c].pc \notin NoCopy => r \in Row
  BY DEF Typed, CallsTyped, HandlersHold, NoCopy
<1>1. CASE RunAuthFail(c) \/ CancelMove(c) \/ FinalizeMove(c) \/ RemovedMove(c)
           \/ RunAgain(c) \/ ReviewVerdict(c)
  <2>1. t \in Task /\ UNCHANGED orchestrator
    BY <1>0, <1>1 DEF RunAuthFail, CancelMove, FinalizeMove, RemovedMove, RunAgain, ReviewVerdict
  <2>2. PICK to \in BesideTargets, code \in ErrorCode, fin \in FinalizationKind :
          Move(c, to, code, fin)
    BY <1>1 DEF RunAuthFail, CancelMove, FinalizeMove, RemovedMove, RunAgain, ReviewVerdict,
                BesideTargets, Status, ErrorCode, FinalizationKind
  <2>3. UNCHANGED rows \/ BesideWrites(t)
    BY <2>1, <2>2, MoveMoves
  <2> QED BY <2>1, <2>3 DEF Beside, orchestrator, registry, procs
<1>2. CASE CallEnqueue(c)
  BY <1>0, <1>2, EnqueueRegisters DEF CallEnqueue, Beside
<1>3. CASE ReviewFeedback(c) \/ MarkMerged(c)
  <2>1. /\ t \in Task /\ [r EXCEPT !.feedback = "user"] \in Row
        /\ [r EXCEPT !.finalization = "merged"] \in Row
    BY <1>0, <1>3 DEF ReviewFeedback, MarkMerged, Row, Feedback, FinalizationKind, NoCopy
  <2>2. /\ r \in Copies(t)
        /\ SameColumns([r EXCEPT !.feedback = "user"], r)
        /\ SameColumns([r EXCEPT !.finalization = "merged"], r)
    BY <1>0, <1>3, <2>1 DEF ReviewFeedback, MarkMerged, Copies, SameColumns, Row, NoCopy
  <2>3. UNCHANGED rows \/ Saves(t)
    BY <1>3, <2>1, <2>2, SaveSaves DEF ReviewFeedback, MarkMerged
  <2> QED BY <1>3, <2>1, <2>3
          DEF ReviewFeedback, MarkMerged, Beside, BesideWrites, orchestrator, registry, procs
<1>4. CASE ClearBranch(c) \/ SyncWrite(c)
  <2>1. t \in Task /\ r.branchExists \in BOOLEAN
    BY <1>0, <1>4 DEF ClearBranch, SyncWrite, Row, NoCopy
  <2>2. UNCHANGED rows \/ Saves(t)
    BY <1>4, <2>1, SetBranchSaves DEF ClearBranch, SyncWrite
  <2> QED BY <1>4, <2>1, <2>2
          DEF ClearBranch, SyncWrite, Beside, BesideWrites, orchestrator, registry, procs
<1>5. CASE DeleteRow(c)
  BY <1>0, <1>5 DEF DeleteRow, Beside, BesideWrites, Drops, orchestrator, registry, procs
<1>6. CASE CancelGet(c) \/ FinalizeGet(c) \/ FinalizeRemove(c) \/ MergeAgain(c) \/ DeleteCancel(c)
  BY <1>6 DEF CancelGet, FinalizeGet, FinalizeRemove, MergeAgain, DeleteCancel, Beside,
              orchestrator, registry, procs
<1>7. CASE DeleteWorktree(c) \/ DropBranch(c) \/ RemovedGet(c) \/ SyncCheck(c) \/ HandlerFails(c)
  BY <1>7 DEF DeleteWorktree, DropBranch, RemovedGet, SyncCheck, HandlerFails, Beside,
              orchestrator, registry, procs
<1> QED BY <1>1, <1>2, <1>3, <1>4, <1>5, <1>6, <1>7 DEF HandlerStep

\* The steps of the sidecar, seen from the registry and the table.
LEMMA StepShape ==
  Typed /\ [SNext]_allVars =>
    \/ \E p \in Proc : DispatchStep(p)
    \/ \E t \in Task, p \in Proc : Registers(t, p)
    \/ Beside
    \/ Restart
<1> SUFFICES ASSUME Typed, [SNext]_allVars
             PROVE  \/ \E p \in Proc : DispatchStep(p)
                    \/ \E t \in Task, p \in Proc : Registers(t, p)
                    \/ Beside
                    \/ Restart
  OBVIOUS
<1>1. CASE Goroutines
  BY <1>1, ReviewShape DEF Goroutines
<1>2. CASE (\E t \in Task : Reap(t)) \/ ShutDown
  BY <1>2 DEF Reap, ShutDown, Shutdown, Beside, registry, procs
<1>3. CASE ChangeConcurrency
  BY <1>3, LimitsAssumption DEF ChangeConcurrency, SetConcurrency, Beside, registry, procs
<1>4. CASE UNCHANGED allVars
  BY <1>4 DEF allVars, vars, Beside
<1> QED
  BY <1>1, <1>2, <1>3, <1>4, RequestShape, HandlerShape DEF SNext

-----------------------------------------------------------------------------
(* One dispatcher per task.                                                *)

\* Every step keeps the registry and the dispatchers in agreement.
LEMMA OneDispatcherNext ==
  ASSUME Typed, OneDispatcher, [SNext]_allVars
  PROVE  OneDispatcher'
<1>1. /\ running \in [Task -> Proc \cup {None}] /\ pc \in [Proc -> DispatchPc]
      /\ job \in [Proc -> Task \cup {None}]
      /\ \A p \in Proc : pc[p] # "idle" => job[p] \in Task
  BY DEF Typed, TablesTyped, ProcsTyped, DispatchersHold
<1>2. CASE KeepsRegistry
  BY <1>2 DEF KeepsRegistry, OneDispatcher
<1>3. ASSUME NEW p \in Proc, Unregisters(p), OthersStay(p) PROVE OneDispatcher'
  BY <1>1, <1>3, ProcAssumption DEF Unregisters, OthersStay, OneDispatcher
<1>4. ASSUME NEW t \in Task, NEW p \in Proc, Registers(t, p) PROVE OneDispatcher'
  BY <1>1, <1>4, ProcAssumption DEF Registers, OneDispatcher
<1>5. CASE Beside
  BY <1>5 DEF Beside, OneDispatcher
<1>6. CASE Restart
  BY <1>6, ProcAssumption DEF Restart, OneDispatcher
<1> QED BY <1>2, <1>3, <1>4, <1>5, <1>6, StepShape, DispatchRegistry

\* Enqueue and the deferred unregister keep o.running in step with the
\* goroutines: a task never has two dispatchers, and Cancel reaches the one it
\* has, through refusals, cancellations, shutdown and restarts.
THEOREM OneDispatcherAlways == SSpec => []OneDispatcher
<1>1. SInit => OneDispatcher
  BY ProcAssumption DEF SInit, Init, OneDispatcher
<1> QED BY <1>1, OneDispatcherNext, TypedAlways, PTL DEF SSpec

-----------------------------------------------------------------------------
(* Permits.                                                                *)

\* With infinitely many dispatchers Cardinality says nothing of an infinite
\* set of holders: that it is finite belongs to the induction.
PermitsCounted ==
  \A s \in 1 .. Len(sems) :
    IsFiniteSet(Holders(s)) /\ Cardinality(Holders(s)) <= sems[s]

\* Only Acquire makes a dispatcher a holder.
LEMMA OnlyAcquireAdds ==
  ASSUME Typed, NEW p \in Proc, DispatchStep(p), ~ Acquire(p), NEW s \in 1 .. Len(sems)
  PROVE  Holders(s)' \subseteq Holders(s) /\ UNCHANGED sems
<1>1. pc'[p] \in Permitted => pc[p] \in Permitted /\ permit'[p] = permit[p]
  <2> USE DEF Typed, ProcsTyped, Permitted, Goto, control
  <2>1. CASE TakeSem(p) \/ AcquireCancelled(p) \/ Lookup(p) \/ Claim(p)
    BY <2>1 DEF TakeSem, AcquireCancelled, Lookup, Claim
  <2>2. CASE EnsureWorktree(p) \/ Fail(p) \/ Persist(p) \/ PlanReturns(p) \/ PlanCommit(p)
    BY <2>2 DEF EnsureWorktree, Fail, Persist, PlanReturns, PlanCommit
  <2>3. CASE PlanAbandon(p) \/ AgentReturns(p) \/ Outcome(p) \/ Complete(p) \/ Release(p)
    BY <2>3 DEF PlanAbandon, AgentReturns, Outcome, Complete, Release
  <2>4. CASE Unregister(p)
    BY <2>4 DEF Unregister
  <2> QED BY <2>1, <2>2, <2>3, <2>4 DEF DispatchStep
<1> QED BY <1>1, DispatchRegistry DEF OthersStay, Holders, Unregisters

\* Every step keeps the holders of each semaphore within its permits.
LEMMA PermitsNext ==
  ASSUME Typed, PermitsCounted, [SNext]_allVars
  PROVE  PermitsCounted'
<1>1. /\ sems \in Seq(Nat \ {0}) /\ Len(sems) \in Nat
      /\ permit \in [Proc -> 0 .. Len(sems)] /\ pc \in [Proc -> DispatchPc]
  BY DEF Typed, TablesTyped, ProcsTyped
<1>2. ASSUME UNCHANGED sems, \A s \in 1 .. Len(sems) : Holders(s)' \subseteq Holders(s)
      PROVE  PermitsCounted'
  <2> SUFFICES ASSUME NEW s \in 1 .. Len(sems)
               PROVE  IsFiniteSet(Holders(s)') /\ Cardinality(Holders(s)') <= sems[s]
    BY <1>2 DEF PermitsCounted
  <2>1. /\ IsFiniteSet(Holders(s)) /\ Cardinality(Holders(s)) <= sems[s] /\ sems[s] \in Nat
        /\ Holders(s)' \subseteq Holders(s)
    BY <1>1, <1>2 DEF PermitsCounted
  <2>2. /\ IsFiniteSet(Holders(s)') /\ Cardinality(Holders(s)') <= Cardinality(Holders(s))
        /\ Cardinality(Holders(s)') \in Nat /\ Cardinality(Holders(s)) \in Nat
    BY <2>1, FS_Subset, FS_CardinalityType
  <2> QED BY <2>1, <2>2
<1>3. ASSUME NEW p \in Proc, Acquire(p) PROVE PermitsCounted'
  <2> DEFINE k == permit[p]
  <2>1. UNCHANGED sems /\ UNCHANGED permit /\ pc' = [pc EXCEPT ![p] = "lookup"]
        /\ pc[p] = "acquire" /\ Cardinality(Holders(k)) < sems[k]
    BY <1>3 DEF Acquire, Goto, control
  <2> SUFFICES ASSUME NEW s \in 1 .. Len(sems)
               PROVE  IsFiniteSet(Holders(s)') /\ Cardinality(Holders(s)') <= sems[s]
    BY <2>1 DEF PermitsCounted
  <2>2. /\ IsFiniteSet(Holders(s)) /\ Cardinality(Holders(s)) <= sems[s]
        /\ sems[s] \in Nat /\ Cardinality(Holders(s)) \in Nat
    BY <1>1, FS_CardinalityType DEF PermitsCounted
  <2>3. CASE s = k
    <3>1. Holders(s)' = Holders(s) \cup {p} /\ p \notin Holders(s)
      BY <1>1, <2>1, <2>3 DEF Holders, Permitted
    <3>2. Cardinality(Holders(s)') = Cardinality(Holders(s)) + 1 /\ IsFiniteSet(Holders(s)')
      BY <2>2, <3>1, FS_AddElement
    <3> QED BY <2>1, <2>2, <2>3, <3>2
  <2>4. CASE s # k
    <3>1. Holders(s)' = Holders(s)
      BY <1>1, <2>1, <2>4 DEF Holders
    <3> QED BY <2>2, <3>1
  <2> QED BY <2>3, <2>4
<1>4. ASSUME NEW t \in Task, NEW p \in Proc, Registers(t, p) PROVE PermitsCounted'
  <2>1. \A s \in 1 .. Len(sems) : Holders(s)' \subseteq Holders(s)
    BY <1>1, <1>4 DEF Registers, Holders, Permitted
  <2> QED BY <1>2, <1>4, <2>1 DEF Registers
<1>5. CASE Beside
  <2>1. \A s \in Nat : Holders(s)' = Holders(s)
    BY <1>5 DEF Beside, Holders
  <2>2. CASE UNCHANGED sems
    BY <1>1, <1>2, <2>1, <2>2
  <2>3. ASSUME NEW n \in Nat \ {0}, sems' = Append(sems, n) PROVE PermitsCounted'
    <3> SUFFICES ASSUME NEW s \in 1 .. Len(sems')
                 PROVE  IsFiniteSet(Holders(s)) /\ Cardinality(Holders(s)) <= sems'[s]
      BY <2>1, <2>3, <1>1 DEF PermitsCounted
    <3>1. CASE s \in 1 .. Len(sems)
      BY <1>1, <2>3, <3>1 DEF PermitsCounted
    <3>2. CASE s = Len(sems) + 1
      <4>1. Holders(s) = {}
        BY <1>1, <3>2 DEF Holders
      <4>2. sems'[s] = n
        BY <1>1, <2>3, <3>2
      <4> QED BY <4>1, <4>2, FS_EmptySet
    <3> QED BY <1>1, <2>3, <3>1, <3>2
  <2> QED BY <1>5, <2>2, <2>3 DEF Beside
<1>6. CASE Restart
  <2>1. \A s \in Nat : Holders(s)' = {}
    BY <1>6 DEF Restart, Holders, Permitted
  <2>2. sems' = <<Limit>>
    BY <1>6 DEF Restart
  <2>3. Len(sems') = 1 /\ sems'[1] = Limit
    BY <2>2
  <2> QED BY <2>1, <2>3, FS_EmptySet, LimitAssumption DEF PermitsCounted
<1>7. ASSUME NEW p \in Proc, DispatchStep(p), ~ Acquire(p) PROVE PermitsCounted'
  <2>1. UNCHANGED sems
    BY <1>7, DispatchRegistry DEF Unregisters
  <2> QED BY <1>2, <1>7, <2>1, OnlyAcquireAdds
<1> QED BY <1>3, <1>4, <1>5, <1>6, <1>7, StepShape

\* sem.Acquire and sem.Release keep every semaphore within its limit, also the
\* ones SetConcurrency has replaced.
THEOREM PermitsAlwaysBounded == SSpec => []PermitsBounded
<1>1. SInit => PermitsCounted
  <2> SUFFICES ASSUME SInit PROVE PermitsCounted
    OBVIOUS
  <2>1. Len(sems) = 1 /\ sems[1] = Limit /\ \A s \in Nat : Holders(s) = {}
    BY DEF SInit, Init, Holders, Permitted
  <2> QED BY <2>1, FS_EmptySet, LimitAssumption DEF PermitsCounted
<1>2. PermitsCounted => PermitsBounded
  BY DEF PermitsCounted, PermitsBounded
<1> QED BY <1>1, <1>2, PermitsNext, TypedAlways, PTL DEF SSpec

-----------------------------------------------------------------------------
(* A row in_progress has its dispatcher.                                   *)

\* How a dispatcher moves its row.
LEMMA DispatchWrites ==
  ASSUME Typed, PlannerOn, NEW p \in Proc, DispatchStep(p)
  PROVE  LET t == job[p] IN
         \/ UNCHANGED rows
         \/ t \in Task /\ Saves(t)
         \/ t \in Task /\ MovesTo(t, BesideTargets \cup {"planning"})
         \/ /\ t \in Task /\ MovesTo(t, {"in_progress"})
            /\ pc[p] = "plan_ok" /\ pc'[p] = "agent"
<1> DEFINE t == job[p]
           anywhere == BesideTargets \cup {"planning"}
<1> USE DEF BesideTargets, Status, ErrorCode
<1>0. /\ pc[p] # "idle" => t \in Task
      /\ pc[p] = "failing" => result[p] \in ErrorCode
      /\ pc[p] \in {"persist", "plan"} => mem[p] \in Row
      /\ pc \in [Proc -> DispatchPc]
  BY DEF Typed, ProcsTyped, DispatchersHold
<1>1. CASE TakeSem(p) \/ Acquire(p) \/ AcquireCancelled(p) \/ EnsureWorktree(p) \/ Outcome(p)
           \/ Release(p) \/ Unregister(p)
  BY <1>1 DEF TakeSem, Acquire, AcquireCancelled, EnsureWorktree, Outcome, Release, Unregister
<1>2. CASE Lookup(p) \/ Claim(p)
  <2>1. UNCHANGED rows \/ Try(t, "queued", "planning", "none")
    BY <1>2 DEF Lookup, Claim, Try
  <2>2. t \in Task
    BY <1>0, <1>2 DEF Lookup, Claim
  <2> QED BY <2>1, <2>2, TryMoves
<1>3. CASE Persist(p) \/ PlanReturns(p)
  <2>1. t \in Task /\ mem[p] \in Row
    BY <1>0, <1>3 DEF Persist, PlanReturns
  <2>2. UNCHANGED rows \/ Save(t, mem[p])
    BY <1>3 DEF Persist, PlanReturns, SaveMem, Save
  <2>3. mem[p] \in Copies(t) /\ SameColumns(mem[p], mem[p])
    BY <1>3 DEF Persist, PlanReturns, Copies, SameColumns
  <2> QED BY <2>1, <2>2, <2>3, SaveSaves
<1>4. CASE PlanCommit(p)
  <2>1. t \in Task
    BY <1>0, <1>4 DEF PlanCommit
  <2>2. UNCHANGED rows \/ (Try(t, "planning", "in_progress", "none") /\ pc'[p] = "agent")
    BY <1>0, <1>4 DEF PlanCommit, Try, Goto
  <2> QED BY <1>4, <2>1, <2>2, TryMoves DEF PlanCommit
<1>5. CASE Fail(p) \/ PlanAbandon(p) \/ Complete(p)
  <2>1. t \in Task
    BY <1>0, <1>5 DEF Fail, PlanAbandon, Complete
  <2>2. UNCHANGED rows \/ MovesTo(t, anywhere)
    BY <1>0, <1>5, <2>1, TryMoves DEF Fail, PlanAbandon, Complete
  <2> QED BY <2>1, <2>2
<1>6. CASE AgentReturns(p)
  BY <1>6 DEF AgentReturns
<1> QED BY <1>1, <1>2, <1>3, <1>4, <1>5, <1>6 DEF DispatchStep

\* A dispatcher does not leave a run it owns before the row has left
\* in_progress: completeTask moves it, under a context nothing cancels.
LEMMA CompleteMoves ==
  ASSUME Typed, NEW p \in Proc, Complete(p)
  PROVE  LET t == job[p] IN
         t \in Task /\ (rows'[t] = Absent \/ rows'[t].status # "in_progress")
<1> DEFINE t == job[p]
<1>1. t \in Task /\ rows[t] \in RowOrNone /\ rows \in [Task -> RowOrNone]
  BY DEF Complete, Typed, TablesTyped, ProcsTyped, DispatchersHold
<1>2. SUFFICES ASSUME rows[t] \in Row, rows[t].status = "in_progress"
               PROVE  rows'[t].status # "in_progress"
  <2>1. CASE UNCHANGED rows
    BY <1>1, <2>1 DEF RowOrNone
  <2> QED BY <1>1 DEF RowOrNone, Complete, Try, TransitionAccepted
<1>3. \A to \in {"aborted", "ai_review", "failed"}, code \in {"none", "runtime", "timeout"} :
        (to = "failed" => code # "none") =>
          TransitionAccepted(rows[t], "in_progress", to, code, "none")
  BY <1>2, AbsentAssumption DEF TransitionAccepted, CanTransition, AllowedTransitions, Status
<1>4. \E to \in {"aborted", "ai_review", "failed"}, code \in {"none", "runtime", "timeout"} :
        rows' = [rows EXCEPT ![t] = Moved(rows[t], to, code, "none")]
  BY <1>3 DEF Complete, Try
<1> QED BY <1>1, <1>2, <1>4, MovedKeeps

\* What the writes say about the status of a row.
LEMMA StatusAfter ==
  ASSUME Typed, NEW t \in Task
  PROVE  /\ \A tos : MovesTo(t, tos) =>
              /\ rows'[t].status \in tos /\ CanTransition(rows[t].status, rows'[t].status)
              /\ rows[t] # Absent /\ rows[t] \in Row
         /\ Saves(t) => rows'[t].status = rows[t].status /\ rows'[t] \in Row /\ rows[t] \in Row
         /\ Drops(t) => rows'[t] = Absent
         /\ (\E tos : MovesTo(t, tos)) \/ Saves(t) \/ Drops(t)
              => \A u \in Task \ {t} : rows'[u] = rows[u]
<1>0. rows \in [Task -> RowOrNone] /\ Absent \notin Row
  BY AbsentAssumption DEF Typed, TablesTyped
<1>1. ASSUME NEW tos, MovesTo(t, tos)
      PROVE  /\ rows'[t].status \in tos /\ CanTransition(rows[t].status, rows'[t].status)
             /\ rows[t] # Absent /\ rows[t] \in Row
  BY <1>0, <1>1, MovedKeeps DEF MovesTo
<1>2. Saves(t) => rows'[t].status = rows[t].status /\ rows'[t] \in Row /\ rows[t] \in Row
  BY <1>0 DEF Saves
<1>3. Drops(t) => rows'[t] = Absent
  BY <1>0 DEF Drops
<1>4. (\E tos : MovesTo(t, tos)) \/ Saves(t) \/ Drops(t) => \A u \in Task \ {t} : rows'[u] = rows[u]
  BY <1>0 DEF MovesTo, Saves, Drops
<1> QED BY <1>1, <1>2, <1>3, <1>4

\* Every step leaves a row in progress with a dispatcher that works on it.
LEMMA OwnerNext ==
  ASSUME PlannerOn, Typed, OneDispatcher, InProgressHasOwner, [SNext]_allVars
  PROVE  InProgressHasOwner'
<1> DEFINE active == {"agent", "outcome", "complete"}
           InProgress(t) == rows[t] # Absent /\ rows[t].status = "in_progress"
<1>0. /\ running \in [Task -> Proc \cup {None}] /\ pc \in [Proc -> DispatchPc]
      /\ job \in [Proc -> Task \cup {None}] /\ rows \in [Task -> RowOrNone]
      /\ \A p \in Proc : pc[p] # "idle" => job[p] \in Task
      /\ Absent \notin Row
  BY AbsentAssumption DEF Typed, TablesTyped, ProcsTyped, DispatchersHold
<1>1. ASSUME NEW p \in Proc, DispatchStep(p) PROVE InProgressHasOwner'
  <2> SUFFICES ASSUME NEW t \in Task, InProgress(t)'
               PROVE  running'[t] # None /\ pc'[running'[t]] \in active
    BY DEF InProgressHasOwner
  <2>1. CASE ~ InProgress(t)
    <3>1. t = job[p] /\ pc[p] = "plan_ok" /\ pc'[p] = "agent"
      BY <1>0, <1>1, <2>1, DispatchWrites, StatusAfter DEF BesideTargets
    <3>2. running[t] = p /\ UNCHANGED running
      BY <1>1, <3>1, DispatchRegistry DEF OneDispatcher, Unregisters, KeepsRegistry
    <3> QED BY <3>1, <3>2, ProcAssumption
  <2>2. CASE InProgress(t)
    <3> DEFINE q == running[t]
    <3>1. q \in Proc /\ pc[q] \in active /\ job[q] = t
      BY <1>0, <2>2 DEF InProgressHasOwner, OneDispatcher
    <3>2. CASE q # p
      <4>1. running'[t] = q /\ pc'[q] = pc[q]
        BY <1>0, <1>1, <3>1, <3>2, DispatchRegistry
           DEF OneDispatcher, Unregisters, KeepsRegistry, OthersStay
      <4> QED BY <3>1, <4>1, ProcAssumption
    <3>3. CASE q = p
      <4>1. AgentReturns(p) \/ Outcome(p) \/ Complete(p)
        BY <1>1, <3>1, <3>3
           DEF DispatchStep, TakeSem, Acquire, AcquireCancelled, Lookup, Claim, EnsureWorktree,
               Fail, Persist, PlanReturns, PlanCommit, PlanAbandon, Release, Unregister
      <4>2. ~ Complete(p)
        BY <3>1, <3>3, CompleteMoves
      <4> QED BY <1>0, <3>1, <3>3, <4>1, <4>2, ProcAssumption
              DEF AgentReturns, Outcome, Goto, registry
    <3> QED BY <3>2, <3>3
  <2> QED BY <2>1, <2>2
<1>2. ASSUME NEW t \in Task, NEW p \in Proc, Registers(t, p) PROVE InProgressHasOwner'
  BY <1>0, <1>2, ProcAssumption DEF Registers, InProgressHasOwner
<1>3. CASE Beside
  <2> SUFFICES ASSUME NEW t \in Task, InProgress(t)' PROVE InProgress(t)
    BY <1>3 DEF Beside, InProgressHasOwner
  <2> QED BY <1>0, <1>3, StatusAfter DEF Beside, BesideWrites, BesideTargets
<1>4. CASE Restart
  <2> SUFFICES ASSUME NEW t \in Task, rows[t] # Absent
               PROVE  rows'[t].status # "in_progress"
    BY <1>4 DEF Restart, InProgressHasOwner
  <2>1. rows[t] \in Row
    BY <1>0 DEF RowOrNone
  <2>2. Recovered(rows[t]) \in Row /\ Recovered(rows[t]).status # "in_progress"
    BY <2>1, RecoveredTyped
  <2> QED BY <1>4, <2>2 DEF Restart, Row
<1> QED BY <1>1, <1>2, <1>3, <1>4, StepShape

\* With a planner, a task in_progress always has a live dispatcher that will
\* run completeTask for it: no cancellation, stale handler, failed statement,
\* shutdown or crash leaves a row behind in that column.
THEOREM InProgressAlwaysOwned ==
  ASSUME PlannerOn
  PROVE  SSpec => []InProgressHasOwner
<1>1. SInit => InProgressHasOwner
  BY DEF SInit, Init, InProgressHasOwner, NewRow
<1>2. Typed /\ OneDispatcher /\ InProgressHasOwner /\ [SNext]_allVars => InProgressHasOwner'
  BY OwnerNext
<1> QED BY <1>1, <1>2, TypedAlways, OneDispatcherAlways, PTL DEF SSpec

-----------------------------------------------------------------------------
(* The board's promise.                                                    *)

\* The card of a task, as the refinement maps it.
Card(t) == IF rows[t] = Absent THEN Absent ELSE rows[t].status

\* The board reads the status graph as the store does.
LEMMA SameGraph == Board!Status = Status /\ Board!AllowedTransitions = AllowedTransitions
  BY DEF Board!Status, Status, Board!AllowedTransitions, AllowedTransitions

\* A write to the table moves one card along an edge, discards it, or shows
\* nothing.
LEMMA CardAfter ==
  ASSUME Typed, NEW t \in Task, NEW tos \in SUBSET Status,
         MovesTo(t, tos) \/ Saves(t) \/ Drops(t) \/ UNCHANGED rows,
         tos \cap {"planning", "in_progress"} # {} => running[t] # None,
         UNCHANGED <<running, rootDone>>
  PROVE  Board!BoardNext \/ UNCHANGED Board!boardVars
<1> DEFINE s == [u \in Task |-> Card(u)]
<1>0. rows \in [Task -> RowOrNone] /\ Absent \notin Row
  BY AbsentAssumption DEF Typed, TablesTyped
<1>1. CASE UNCHANGED rows
  BY <1>1 DEF Board!boardVars
<1>2. CASE MovesTo(t, tos)
  <2>1. PICK to \in tos : rows'[t].status = to /\ CanTransition(rows[t].status, to)
                         /\ rows[t] # Absent /\ rows'[t] # Absent
    <3>1. rows'[t] # Absent
      BY SMTT(30), <1>0, <1>2, MovedTyped DEF MovesTo, Status
    <3> QED BY <1>2, <3>1, StatusAfter
  <2>2. /\ Card(t) = rows[t].status /\ Card(t)' = to
        /\ \A u \in Task \ {t} : Card(u)' = Card(u)
    BY <1>2, <2>1, StatusAfter DEF Card
  <2>3. to \in Status /\ to \in AllowedTransitions[Card(t)] /\ Card(t) # Absent
    BY <1>0, <1>2, <2>1, <2>2, AbsentAssumption, StatusAfter DEF CanTransition, Row
  <2>4. to \in {"planning", "in_progress"} => running[t] # None
    OBVIOUS
  <2>5. Board!MoveCard(t, to)
    BY <2>2, <2>3, <2>4, SameGraph DEF Board!MoveCard, Card
  <2> QED BY <2>3, <2>5, SameGraph DEF Board!BoardNext
<1>3. CASE Saves(t)
  <2>1. rows[t] # Absent /\ rows'[t] # Absent /\ rows'[t].status = rows[t].status
    BY <1>0, <1>3, StatusAfter
  <2>2. \A u \in Task : Card(u)' = Card(u)
    BY <1>3, <2>1, StatusAfter DEF Card
  <2> QED BY <2>2 DEF Card, Board!boardVars
<1>4. CASE Drops(t)
  <2>1. Board!Discard(t)
    BY <1>0, <1>4, StatusAfter DEF Board!Discard
  <2> QED BY <2>1 DEF Board!BoardNext
<1> QED BY <1>1, <1>2, <1>3, <1>4

\* Every step is a step of the board, or changes no card on it.
LEMMA BoardStep ==
  ASSUME PlannerOn, Typed, OneDispatcher, InProgressHasOwner, [SNext]_allVars
  PROVE  Board!BoardNext \/ UNCHANGED Board!boardVars
<1> USE DEF Board!boardVars
<1>0. /\ running \in [Task -> Proc \cup {None}] /\ pc \in [Proc -> DispatchPc]
      /\ rows \in [Task -> RowOrNone]
      /\ \A p \in Proc : pc[p] # "idle" => job[p] \in Task
      /\ Absent \notin Row
  BY AbsentAssumption DEF Typed, TablesTyped, ProcsTyped, DispatchersHold
<1>1. ASSUME NEW p \in Proc, DispatchStep(p), KeepsRegistry, UNCHANGED rootDone
      PROVE  Board!BoardNext \/ UNCHANGED Board!boardVars
  <2> DEFINE t == job[p]
  <2>1. CASE UNCHANGED rows
    BY <1>1, <2>1 DEF KeepsRegistry
  <2>2. CASE ~ UNCHANGED rows
    <3>1. t \in Task /\ \E tos \in SUBSET Status : MovesTo(t, tos) \/ Saves(t)
      BY <1>1, <2>2, DispatchWrites DEF BesideTargets, Status
    <3>2. pc[p] # "idle"
      BY <1>1 DEF DispatchStep, TakeSem, Acquire, AcquireCancelled, Lookup, Claim, EnsureWorktree,
                  Fail, Persist, PlanReturns, PlanCommit, PlanAbandon, AgentReturns, Outcome,
                  Complete, Release, Unregister
    <3>3. running[t] # None
      BY <3>1, <3>2, ProcAssumption DEF OneDispatcher
    <3> QED BY <1>1, <3>1, <3>3, CardAfter DEF KeepsRegistry
  <2> QED BY <2>1, <2>2
<1>2. ASSUME NEW p \in Proc, Unregisters(p)
      PROVE  Board!BoardNext \/ UNCHANGED Board!boardVars
  <2>1. PICK t \in Task : t = job[p] /\ running[t] = p
    BY <1>0, <1>2 DEF Unregisters, OneDispatcher
  <2>2. Card(t) # "in_progress"
    BY <1>0, <1>2, <2>1, AbsentAssumption DEF Unregisters, InProgressHasOwner, Card, Status
  <2>3. Board!Finish(t)
    BY <1>0, <1>2, <2>1, <2>2, ProcAssumption DEF Unregisters, Board!Finish, Card
  <2> QED BY <2>3 DEF Board!BoardNext
<1>3. ASSUME NEW t \in Task, NEW p \in Proc, Registers(t, p)
      PROVE  Board!BoardNext \/ UNCHANGED Board!boardVars
  <2>1. Board!Register(t)
    BY <1>0, <1>3, ProcAssumption DEF Registers, Board!Register
  <2> QED BY <2>1 DEF Board!BoardNext
<1>4. CASE Beside
  <2>1. ASSUME NEW t \in Task, BesideWrites(t), UNCHANGED rootDone
        PROVE  Board!BoardNext \/ UNCHANGED Board!boardVars
    BY <1>4, <2>1, CardAfter DEF Beside, BesideWrites, BesideTargets
  <2>2. CASE UNCHANGED rows /\ rootDone' = TRUE
    BY <1>4, <2>2 DEF Beside, Board!BoardNext, Board!Close
  <2> QED BY <1>4, <2>1, <2>2 DEF Beside
<1>5. CASE Restart
  <2>1. \A t \in Task : Card(t)' = IF Card(t) = "in_progress" THEN "failed" ELSE Card(t)
    <3> SUFFICES ASSUME NEW t \in Task, rows[t] # Absent
                 PROVE  Card(t)' = IF Card(t) = "in_progress" THEN "failed" ELSE Card(t)
      BY <1>5, AbsentAssumption DEF Restart, Card, Status
    <3>1. rows[t] \in Row
      BY <1>0 DEF RowOrNone
    <3>2. /\ Recovered(rows[t]) \in Row
          /\ Recovered(rows[t]).status = IF rows[t].status = "in_progress" THEN "failed"
                                         ELSE rows[t].status
      BY <3>1, RecoveredTyped
    <3>3. branch[t] \in BOOLEAN
      BY DEF Typed, TablesTyped
    <3>4. rows'[t] \in Row /\ rows'[t].status = Recovered(rows[t]).status
      BY <1>5, <3>2, <3>3 DEF Restart, Row
    <3> QED BY <1>0, <3>2, <3>4 DEF Card
  <2>2. Board!Crash
    BY <1>5, <2>1 DEF Restart, Board!Crash, Card
  <2> QED BY <2>2 DEF Board!BoardNext
<1> QED BY <1>1, <1>2, <1>3, <1>4, <1>5, StepShape, DispatchRegistry

\* With a planner, the sidecar implements the board: whatever the goroutines,
\* handlers, failures and restarts do shows as moves along the status graph, of
\* cards whose runs are registered when they start.
THEOREM BoardIsImplemented ==
  ASSUME PlannerOn
  PROVE  SSpec => BoardImplemented
<1>1. SInit => Board!BoardInit
  <2> SUFFICES ASSUME SInit PROVE Board!BoardInit
    OBVIOUS
  <2>1. NewRow \in Row /\ NewRow.status = "queued"
    BY DEF NewRow, Row, Status, ErrorCode, FinalizationKind, Feedback
  <2>2. \A t \in Task : rows[t] = NewRow /\ NewRow # Absent /\ running[t] = None
    BY <2>1, AbsentAssumption DEF SInit, Init
  <2>3. rootDone = FALSE
    BY DEF SInit, Init
  <2> QED BY <2>1, <2>2, <2>3 DEF Board!BoardInit
<1>2. Typed /\ OneDispatcher /\ InProgressHasOwner /\ [SNext]_allVars
        => [Board!BoardNext]_Board!boardVars
  BY BoardStep
<1>3. SSpec => []InProgressHasOwner
  BY InProgressAlwaysOwned
<1> QED
  BY <1>1, <1>2, <1>3, TypedAlways, OneDispatcherAlways, PTL DEF SSpec, BoardImplemented, Board!BoardSpec

-----------------------------------------------------------------------------
(* Where the copies come from.                                             *)

\* The phases in which a copy is held that is to be written back, or that
\* decides what is removed.
DispatchCopy == {"claim", "worktree", "persist", "plan"}
ReviewCopy == {"review", "judge"}
HandlerCopy == {"feedback", "merge_again", "mark_merged", "finalize_remove", "delete_cancel",
                "delete_worktree"}

\* A dispatcher's copy is the row as Lookup read it; Claim and ensureWorktree
\* then change its status and record the worktree.
DispatchRead(p) ==
  pc'[p] \in DispatchCopy =>
    \/ /\ pc[p] = "lookup" /\ pc'[p] = "claim" /\ job'[p] = job[p]
       /\ mem'[p] = rows[job[p]] /\ rows[job[p]] \in Row /\ UNCHANGED <<rows, disk>>
    \/ /\ pc[p] \in DispatchCopy /\ job'[p] = job[p]
       /\ mem'[p].started = mem[p].started /\ mem'[p].reworkCount = mem[p].reworkCount
       /\ mem'[p].worktree = mem[p].worktree \/ EnsureWorktree(p)
       /\ mem'[p].status = mem[p].status \/ Claim(p)

\* A reviewer's copy is the row it found in ai_review.
ReviewRead(v) ==
  rev'[v].pc \in ReviewCopy =>
    /\ rev'[v].task = rev[v].task
    /\ \/ /\ rev[v].pc = "get" /\ rev'[v].mem = rows[rev[v].task]
          /\ rows[rev[v].task] \in Row /\ rows[rev[v].task].status = "ai_review"
          /\ UNCHANGED <<rows, disk, branch, running, pc, job, permit, mem>>
       \/ rev[v].pc \in ReviewCopy /\ rev'[v].mem = rev[v].mem

\* A handler's copy is the row as its first statement read it.
HandlerRead(c) ==
  call'[c].pc \in HandlerCopy =>
    LET t == call'[c].task IN
    \/ /\ call[c].pc \notin HandlerCopy /\ rows[t] \in Row /\ call'[c].row = rows[t]
       /\ UNCHANGED <<rows, disk, branch, running, pc, job, permit, mem>>
       /\ call'[c].pc \in {"feedback", "merge_again", "finalize_remove", "delete_cancel",
                           "delete_worktree"}
       /\ call'[c].pc = "feedback" => rows[t].status \in {"ai_review", "human_review"}
       /\ call'[c].pc = "merge_again" => rows[t].status = "done"
       /\ call'[c].pc = "finalize_remove"
            => rows[t].worktree \/ (rows[t].status # "done" /\ rows[t].finalization = "keep")
    \/ /\ call[c].pc \in HandlerCopy /\ call'[c].task = call[c].task
       /\ call'[c].row = call[c].row
       /\ call'[c].pc \in {call[c].pc} \cup (IF call[c].pc = "merge_again" THEN {"mark_merged"} ELSE {})
                                     \cup (IF call[c].pc = "delete_cancel" THEN {"delete_worktree"} ELSE {})

\* The copy a dispatcher holds was read before, or is the row as it is now.
LEMMA DispatchCopies ==
  ASSUME Typed, [SNext]_allVars, NEW p \in Proc
  PROVE  DispatchRead(p)
<1> USE DEF DispatchCopy, DispatchRead
<1>0. /\ pc \in [Proc -> DispatchPc] /\ job \in [Proc -> Task \cup {None}]
      /\ mem \in [Proc -> RowOrNone] /\ rows \in [Task -> RowOrNone]
      /\ \A q \in Proc : /\ pc[q] \in DispatchCopy => mem[q] \in Row
                       /\ pc[q] # "idle" => job[q] \in Task
  BY DEF Typed, TablesTyped, ProcsTyped, DispatchersHold
<1>1. ASSUME NEW q \in Proc, DispatchStep(q), q # p PROVE DispatchRead(p)
  <2>1. pc'[p] = pc[p] /\ job'[p] = job[p] /\ mem'[p] = mem[p]
    BY <1>0, <1>1 DEF DispatchStep, TakeSem, Acquire, AcquireCancelled, Lookup, Claim, EnsureWorktree,
       Fail, Persist, PlanReturns, PlanCommit, PlanAbandon, AgentReturns, Outcome, Complete,
       Release, Unregister, Goto, control
  <2> QED BY <2>1
<1>2. ASSUME DispatchStep(p) PROVE DispatchRead(p)
  <2> USE <1>0 DEF Goto, control
  <2>1. CASE TakeSem(p) \/ Acquire(p) \/ AcquireCancelled(p) \/ Fail(p)
    BY <2>1 DEF TakeSem, Acquire, AcquireCancelled, Fail
  <2>2. CASE Lookup(p)
    BY <2>2 DEF Lookup, RowOrNone
  <2>3. CASE Claim(p)
    <3>1. pc'[p] \in {"worktree", "release"} /\ job' = job
      BY <2>3 DEF Claim
    <3>2. pc'[p] = "worktree" => \E to : mem'[p] = [mem[p] EXCEPT !.status = to]
      BY <2>3 DEF Claim
    <3>3. \A to : LET m == [mem[p] EXCEPT !.status = to]
                 IN /\ m.started = mem[p].started /\ m.reworkCount = mem[p].reworkCount
                    /\ m.worktree = mem[p].worktree
      BY <2>3 DEF Claim, Row
    <3>4. pc[p] = "claim"
      BY <2>3 DEF Claim
    <3> QED BY <2>3, <3>1, <3>2, <3>3, <3>4
  <2>4. CASE EnsureWorktree(p)
    <3>1. pc[p] = "worktree" /\ job' = job
      BY <2>4 DEF EnsureWorktree
    <3>2. mem' = mem \/ mem' = [mem EXCEPT ![p] = [mem[p] EXCEPT !.worktree = TRUE]]
      BY <2>4 DEF EnsureWorktree
    <3>3. LET m == [mem[p] EXCEPT !.worktree = TRUE]
          IN /\ m.started = mem[p].started /\ m.reworkCount = mem[p].reworkCount
             /\ m.status = mem[p].status
      BY <3>1 DEF Row
    <3> QED BY <2>4, <3>1, <3>2, <3>3
  <2>5. CASE Persist(p) \/ PlanReturns(p) \/ PlanCommit(p) \/ PlanAbandon(p)
    BY <2>5 DEF Persist, PlanReturns, PlanCommit, PlanAbandon
  <2>6. CASE AgentReturns(p) \/ Outcome(p) \/ Complete(p) \/ Release(p) \/ Unregister(p)
    BY <2>6 DEF AgentReturns, Outcome, Complete, Release, Unregister
  <2> QED BY <1>2, <2>1, <2>2, <2>3, <2>4, <2>5, <2>6 DEF DispatchStep
<1>3. ASSUME NEW t \in Task, NEW q \in Proc, Registers(t, q) PROVE DispatchRead(p)
  BY <1>0, <1>3 DEF Registers
<1>4. CASE Beside
  BY <1>4 DEF Beside
<1>5. CASE Restart
  BY <1>5 DEF Restart
<1> QED BY <1>1, <1>2, <1>3, <1>4, <1>5, StepShape

\* The copy a reviewer holds was read before, or is the row as it is now.
LEMMA ReviewCopies ==
  ASSUME Typed, [SNext]_allVars, NEW v \in Rev
  PROVE  ReviewRead(v)
<1> USE DEF ReviewCopy, ReviewRead
<1>0. /\ DOMAIN rev = Rev
      /\ rev \in [Rev -> [pc : ReviewPc, task : Task \cup {None},
                         ctx : {"live", "cancelled", "timeout"}, mem : RowOrNone]]
      /\ rev[v].pc # "idle" => rev[v].task \in Task
      /\ rows \in [Task -> RowOrNone] /\ aiReviews \in [Task -> Rev \cup {None}]
  BY DEF Typed, TablesTyped, RevsTyped, ReviewersHold
<1>1. CASE UNCHANGED rev
  BY <1>1
<1>2. ASSUME NEW w \in Rev, rev' = [rev EXCEPT ![w].ctx = "cancelled"] PROVE ReviewRead(v)
  BY <1>0, <1>2
<1>3. ASSUME NEW t \in Task, Cancel(t) PROVE ReviewRead(v)
  BY <1>0, <1>1, <1>2, <1>3 DEF Cancel
<1>4. ASSUME NEW p \in Proc, DispatchStep(p) PROVE ReviewRead(v)
  <2>1. CASE Complete(p)
    <3>1. \/ UNCHANGED rev
          \/ \E w \in Rev : rev' = [rev EXCEPT ![w].pc = "register", ![w].task = job[p]] /\ rev[w].pc = "idle"
      BY <2>1 DEF Complete
    <3> QED BY ZenonT(60), <1>0, <3>1
  <2>2. CASE ~ Complete(p)
    BY <1>1, <1>4, <2>2
       DEF DispatchStep, TakeSem, Acquire, AcquireCancelled, Lookup, Claim, EnsureWorktree, Fail,
           Persist, PlanReturns, PlanCommit, PlanAbandon, AgentReturns, Outcome, Release, Unregister
  <2> QED BY <2>1, <2>2
<1>5. ASSUME NEW w \in Rev, ReviewStep(w) \/ RevTimeout(w) PROVE ReviewRead(v)
  <2> USE <1>0 DEF RevGoto
  <2>1. CASE RevRegister(w) \/ RevTimeout(w) \/ RevReturns(w) \/ RevAbort(w) \/ RevApprove(w)
    BY <2>1 DEF RevRegister, RevTimeout, RevReturns, RevAbort, RevApprove
  <2>2. CASE RevGet(w)
    BY <2>2 DEF RevGet, RowOrNone, registry, procs
  <2>3. CASE RevJudge(w) \/ RevRequeue(w) \/ RevEnqueue(w) \/ PassWait(w) \/ PassAdvance(w)
    BY <2>3 DEF RevJudge, RevRequeue, RevEnqueue, PassWait, PassAdvance
  <2>4. CASE RevExit(w)
    BY <2>4 DEF RevExit, IdleRev
  <2> QED BY <1>5, <2>1, <2>2, <2>3, <2>4 DEF ReviewStep
<1>6. ASSUME NEW c \in Caller, NEW t \in Task, Request(c, t) PROVE ReviewRead(v)
  BY <1>1, <1>3, <1>6
     DEF Request, RunTask, RunUnauthenticated, CancelTask, SubmitReview, Finalize, DeleteTask,
         DeleteTaskBranch, RemoveWorktree, SyncBranch, orchestrator
<1>7. ASSUME NEW c \in Caller, HandlerStep(c) \/ HandlerFails(c) PROVE ReviewRead(v)
  <2>1. CASE DeleteCancel(c)
    <3>1. call[c].task \in Task
      BY <2>1 DEF DeleteCancel, At, Typed, CallsTyped, HandlersHold
    <3> QED BY <1>1, <1>3, <2>1, <3>1 DEF DeleteCancel
  <2>2. CASE ~ DeleteCancel(c)
    BY <1>1, <1>7, <2>2
       DEF HandlerStep, HandlerFails, RunAuthFail, RunAgain, CallEnqueue, CancelGet, CancelMove,
           ReviewFeedback, ReviewVerdict, FinalizeGet, FinalizeRemove, FinalizeMove, MergeAgain,
           MarkMerged, ClearBranch, DeleteWorktree, DeleteRow, DropBranch, RemovedGet,
           RemovedMove, SyncCheck, SyncWrite, orchestrator
  <2> QED BY <2>1, <2>2
<1>8. CASE (\E t \in Task : Reap(t)) \/ ChangeConcurrency \/ ShutDown \/ UNCHANGED allVars
  BY <1>1, <1>8 DEF Reap, ChangeConcurrency, SetConcurrency, ShutDown, Shutdown, allVars, vars
<1>9. CASE Restart
  BY <1>9 DEF Restart, IdleRev
<1> QED BY <1>4, <1>5, <1>6, <1>7, <1>8, <1>9 DEF SNext, Goroutines

\* The copy a handler holds was read before, or is the row as it is now.
LEMMA HandlerCopies ==
  ASSUME Typed, [SNext]_allVars, NEW c \in Caller
  PROVE  HandlerRead(c)
<1> USE DEF HandlerCopy, HandlerRead
<1>0. /\ DOMAIN call = Caller
      /\ call \in [Caller -> [pc : HandlerPc, op : Ops \cup {"none"},
                            task : Task \cup {None}, row : RowOrNone]]
      /\ call[c].pc # "idle" => call[c].task \in Task
      /\ rows \in [Task -> RowOrNone]
  BY DEF Typed, TablesTyped, CallsTyped, HandlersHold
<1>1. CASE UNCHANGED call
  BY <1>1
<1>2. ASSUME NEW d \in Caller, Return(d) PROVE HandlerRead(c)
  BY <1>0, <1>2 DEF Return, IdleCall
<1>3. ASSUME NEW d \in Caller, NEW t \in Task, Request(d, t) PROVE HandlerRead(c)
  <2> USE <1>0 DEF Begin, Free, orchestrator, registry, procs, RowOrNone
  <2>1. CASE RunTask(d, t) \/ RunUnauthenticated(d, t) \/ CancelTask(d, t)
    BY <2>1 DEF RunTask, RunUnauthenticated, CancelTask
  <2>2. CASE SubmitReview(d, t) \/ Finalize(d, t)
    BY <2>2 DEF SubmitReview, Finalize
  <2>3. CASE DeleteTask(d, t) \/ DeleteTaskBranch(d, t)
    BY <2>3 DEF DeleteTask, DeleteTaskBranch
  <2>4. CASE RemoveWorktree(d, t) \/ SyncBranch(d, t)
    BY <2>4 DEF RemoveWorktree, SyncBranch
  <2> QED BY <1>3, <2>1, <2>2, <2>3, <2>4 DEF Request
<1>4. ASSUME NEW d \in Caller, HandlerStep(d) PROVE HandlerRead(c)
  <2> USE <1>0 DEF At
  <2>1. CASE RunAuthFail(d) \/ CallEnqueue(d) \/ CancelMove(d) \/ FinalizeMove(d) \/ ClearBranch(d)
             \/ DeleteRow(d) \/ RemovedMove(d) \/ SyncWrite(d)
    BY <1>2, <2>1 DEF RunAuthFail, CallEnqueue, CancelMove, FinalizeMove, ClearBranch, DeleteRow,
                      RemovedMove, SyncWrite
  <2>2. CASE RunAgain(d) \/ ReviewFeedback(d) \/ ReviewVerdict(d) \/ FinalizeRemove(d)
             \/ MergeAgain(d) \/ MarkMerged(d) \/ DeleteCancel(d) \/ DeleteWorktree(d) \/ DropBranch(d)
    <3>1. Return(d) \/ \E next \in {"enqueue", "verdict", "finalize_move", "mark_merged",
                                   "clear_branch", "delete_worktree", "delete_row"} :
                         /\ Step(d, next)
                         /\ next = "mark_merged" => call[d].pc = "merge_again"
                         /\ next = "delete_worktree" => call[d].pc = "delete_cancel"
      BY <2>2 DEF RunAgain, ReviewFeedback, ReviewVerdict, FinalizeRemove, MergeAgain, MarkMerged,
                  DeleteCancel, DeleteWorktree, DropBranch
    <3> QED BY <1>2, <3>1 DEF Step
  <2>3. CASE CancelGet(d) \/ RemovedGet(d)
    BY <1>2, <2>3 DEF CancelGet, RemovedGet, Begin
  <2>4. CASE FinalizeGet(d)
    <3> DEFINE t == call[d].task
    <3>1. \/ Return(d)
          \/ /\ rows[t] # Absent /\ rows[t].status = "done"
             /\ Begin(d, call[d].op, "merge_again", t, rows[t])
          \/ /\ rows[t] # Absent
             /\ rows[t].worktree \/ (rows[t].status # "done" /\ rows[t].finalization = "keep")
             /\ Begin(d, call[d].op, "finalize_remove", t, rows[t])
      <4> DEFINE stands == rows[t].status \in {"human_review", "aborted"} /\ rows[t].worktree
                 kept == rows[t].finalization = "keep" /\ call[d].op = "merge" /\ rows[t].branchExists
                 next == IF rows[t].status = "done" THEN "merge_again" ELSE "finalize_remove"
      <4>1. \/ Return(d)
            \/ rows[t] # Absent /\ (stands \/ kept) /\ Begin(d, call[d].op, next, t, rows[t])
        BY <2>4 DEF FinalizeGet
      <4>2. rows[t].status = "done" => next = "merge_again"
        OBVIOUS
      <4>3. rows[t].status # "done" => next = "finalize_remove"
        OBVIOUS
      <4>4. stands \/ kept => rows[t].worktree \/ rows[t].finalization = "keep"
        OBVIOUS
      <4> HIDE DEF stands, kept, next
      <4>5. CASE rows[t].status = "done"
        BY <4>1, <4>2, <4>5 DEF Begin
      <4>6. CASE rows[t].status # "done"
        BY <4>1, <4>3, <4>4, <4>6 DEF Begin
      <4> QED BY <4>5, <4>6
    <3>2. d = c => t \in Task /\ call[c].pc = "finalize_get"
      BY <2>4 DEF FinalizeGet
    <3>3. UNCHANGED <<rows, disk, branch, running, pc, job, permit, mem>>
      BY <2>4 DEF FinalizeGet, orchestrator, registry, procs
    <3> QED BY <1>2, <3>1, <3>2, <3>3 DEF Begin, RowOrNone
  <2>5. CASE SyncCheck(d)
    BY <1>2, <2>5 DEF SyncCheck
  <2> QED BY <1>4, <2>1, <2>2, <2>3, <2>4, <2>5 DEF HandlerStep
<1>5. ASSUME NEW d \in Caller, HandlerFails(d) PROVE HandlerRead(c)
  BY <1>2, <1>5 DEF HandlerFails
<1>6. CASE Goroutines \/ (\E t \in Task : Reap(t)) \/ ChangeConcurrency \/ ShutDown \/ UNCHANGED allVars
  BY <1>1, <1>6 DEF Goroutines, Reap, ChangeConcurrency, SetConcurrency, ShutDown, Shutdown, allVars
<1>7. CASE Restart
  BY <1>7 DEF Restart, IdleCall
<1> QED BY <1>3, <1>4, <1>5, <1>6, <1>7 DEF SNext

-----------------------------------------------------------------------------
(* started_at.                                                             *)

\* What any step may do to one row.
LEMMA RowAfter ==
  ASSUME PlannerOn, Typed, [SNext]_allVars, NEW t \in Task
  PROVE  \/ rows'[t] = rows[t]
         \/ rows'[t] = Absent
         \/ Saves(t)
         \/ MovesTo(t, BesideTargets \cup {"planning"})
         \/ /\ MovesTo(t, {"in_progress"})
            /\ \E p \in Proc : DispatchStep(p) /\ job[p] = t /\ pc[p] = "plan_ok" /\ pc'[p] = "agent"
         \/ Restart
<1>1. ASSUME NEW p \in Proc, DispatchStep(p), job[p] # t PROVE rows'[t] = rows[t]
  BY <1>1, DispatchWrites, StatusAfter
<1>2. ASSUME NEW u \in Task, BesideWrites(u), u # t PROVE rows'[t] = rows[t]
  BY <1>2, StatusAfter DEF BesideWrites
<1>3. BesideWrites(t) => \/ rows'[t] = Absent \/ Saves(t)
                         \/ MovesTo(t, BesideTargets \cup {"planning"})
  BY StatusAfter DEF BesideWrites, MovesTo
<1>4. Beside => \/ rows'[t] = rows[t] \/ \E u \in Task : BesideWrites(u)
  BY DEF Beside
<1>5. \A u \in Task, p \in Proc : Registers(u, p) => rows'[t] = rows[t]
  BY DEF Registers
<1> QED BY <1>1, <1>2, <1>3, <1>4, <1>5, StepShape, DispatchWrites

\* The rows a run has started carry the stamp, and so do the copies that may be
\* written over them.
Stamped == {"in_progress", "ai_review", "human_review"}

RowsStamped ==
  \A t \in Task : rows[t] # Absent /\ rows[t].status \in Stamped => rows[t].started

CopiesStamped ==
  /\ \A p \in Proc : pc[p] \in DispatchCopy /\ rows[job[p]] # Absent
                      => mem[p].started = rows[job[p]].started
  /\ \A v \in Rev : rev[v].pc \in ReviewCopy
                     => rev[v].mem.status = "ai_review" /\ rev[v].mem.started
  /\ \A c \in Caller :
       /\ call[c].pc = "feedback"
            => call[c].row.status \in {"ai_review", "human_review"} /\ call[c].row.started
       /\ call[c].pc \in {"merge_again", "mark_merged"} /\ rows[call[c].task] # Absent
            => /\ rows[call[c].task].status = "done"
               /\ call[c].row.started = rows[call[c].task].started

\* So an accepted UpdateFields finds the stamp it carries.
LEMMA CopiesAgree ==
  ASSUME Typed, RowsStamped, CopiesStamped, NEW t \in Task, rows[t] \in Row,
         NEW h \in Copies(t), h.status = rows[t].status
  PROVE  h.started = rows[t].started
<1>1. rows[t] # Absent
  BY AbsentAssumption
<1>2. ASSUME NEW r \in Row, r.started PROVE r.started = TRUE
  BY <1>2 DEF Row
<1>3. ASSUME NEW p \in Proc, job[p] = t, pc[p] \in {"persist", "plan"}, h = mem[p]
      PROVE  h.started = rows[t].started
  BY <1>1, <1>3 DEF CopiesStamped, DispatchCopy
<1>4. ASSUME NEW v \in Rev, rev[v].task = t, rev[v].pc \in {"review", "judge"}, h = rev[v].mem
      PROVE  h.started = rows[t].started
  <2>1. h \in Row /\ h.started /\ h.status = "ai_review"
    BY <1>4 DEF CopiesStamped, ReviewCopy, Typed, RevsTyped, ReviewersHold
  <2>2. rows[t].started
    BY <1>1, <2>1 DEF RowsStamped, Stamped
  <2> QED BY <1>2, <2>1, <2>2
<1>5. ASSUME NEW c \in Caller, call[c].task = t, call[c].pc \in {"feedback", "mark_merged"},
             h = call[c].row
      PROVE  h.started = rows[t].started
  <2>1. CASE call[c].pc = "feedback"
    <3>1. h \in Row /\ h.started /\ h.status \in {"ai_review", "human_review"}
      BY <1>5, <2>1 DEF CopiesStamped, Typed, CallsTyped, HandlersHold
    <3>2. rows[t].started
      BY <1>1, <3>1 DEF RowsStamped, Stamped
    <3> QED BY <1>2, <3>1, <3>2
  <2>2. CASE call[c].pc = "mark_merged"
    BY <1>1, <1>5, <2>2 DEF CopiesStamped
  <2> QED BY <1>5, <2>1, <2>2
<1> QED BY <1>3, <1>4, <1>5 DEF Copies

\* A step only ever adds the stamp, and only by entering in_progress.
LEMMA StampAfter ==
  ASSUME PlannerOn, Typed, RowsStamped, CopiesStamped, [SNext]_allVars, NEW t \in Task,
         rows'[t] # Absent
  PROVE  /\ rows[t] # Absent /\ rows[t] \in Row /\ rows'[t] \in Row
         /\ \/ rows'[t].started = rows[t].started
            \/ /\ rows'[t].started = TRUE
               /\ \E p \in Proc : DispatchStep(p) /\ job[p] = t /\ pc[p] = "plan_ok" /\ pc'[p] = "agent"
         /\ rows'[t].status \in Stamped => rows'[t].started
         /\ rows[t].status = "done" => rows'[t].status = "done" /\ rows'[t].started = rows[t].started
<1> DEFINE Goal == /\ rows[t] # Absent /\ rows[t] \in Row /\ rows'[t] \in Row
                   /\ \/ rows'[t].started = rows[t].started
                      \/ /\ rows'[t].started = TRUE
                         /\ \E p \in Proc : DispatchStep(p) /\ job[p] = t /\ pc[p] = "plan_ok" /\ pc'[p] = "agent"
                   /\ rows'[t].status \in Stamped => rows'[t].started
                   /\ rows[t].status = "done" => rows'[t].status = "done" /\ rows'[t].started = rows[t].started
<1>0. /\ rows \in [Task -> RowOrNone] /\ rows'[t] \in Row /\ Absent \notin Row
      /\ rows[t] # Absent => rows[t] \in Row
  BY TypedNext, AbsentAssumption DEF Typed, TablesTyped, RowOrNone
<1>1. CASE rows'[t] = rows[t]
  BY <1>0, <1>1 DEF RowsStamped
<1>2. CASE Saves(t)
  <2>1. /\ rows[t] \in Row /\ rows[t] # Absent /\ rows'[t].status = rows[t].status
    BY <1>0, <1>2, StatusAfter
  <2>2. PICK h \in Copies(t) \cup {rows[t]} : rows'[t].started = h.started /\ h.status = rows[t].status
    BY <1>0, <1>2 DEF Saves, SameColumns
  <2>3. rows'[t].started = rows[t].started
    BY <2>1, <2>2, CopiesAgree
  <2> QED BY <1>0, <2>1, <2>3 DEF RowsStamped
<1>3. ASSUME NEW tos, NEW to \in tos, MovesTo(t, tos), rows'[t].status = to
      PROVE  /\ rows[t] # Absent /\ rows[t] \in Row
             /\ rows'[t].started = (rows[t].started \/ to = "in_progress")
             /\ to \in Stamped => rows'[t].started
             /\ rows[t].status # "done"
  <2>1. rows[t] # Absent /\ rows[t] \in Row /\ CanTransition(rows[t].status, to)
    BY <1>3, StatusAfter
  <2>2. rows'[t].started = (rows[t].started \/ to = "in_progress")
    BY <1>0, <1>3, MovedKeeps DEF MovesTo
  <2>3. to \in {"ai_review", "human_review"} => rows[t].status \in {"in_progress", "ai_review"}
    BY <2>1 DEF CanTransition, AllowedTransitions, Row, Status
  <2>4. rows[t].status # "done"
    BY <2>1 DEF CanTransition, AllowedTransitions, Status
  <2> QED BY <2>1, <2>2, <2>3, <2>4 DEF RowsStamped, Stamped
<1>4. CASE MovesTo(t, BesideTargets \cup {"planning"})
  <2>1. rows'[t].status # "in_progress" /\ rows'[t].status \in BesideTargets \cup {"planning"}
    BY <1>4, StatusAfter DEF BesideTargets
  <2>2. rows[t].started \in BOOLEAN
    BY <1>3, <1>4, <2>1 DEF Row
  <2>3. rows'[t].started = rows[t].started
    BY <1>3, <1>4, <2>1, <2>2
  <2> QED BY <1>0, <1>3, <1>4, <2>1, <2>3
<1>5. CASE /\ MovesTo(t, {"in_progress"})
           /\ \E p \in Proc : DispatchStep(p) /\ job[p] = t /\ pc[p] = "plan_ok" /\ pc'[p] = "agent"
  <2>1. rows'[t].status = "in_progress"
    BY <1>5, StatusAfter
  <2>2. rows'[t].started = TRUE
    BY <1>3, <1>5, <2>1
  <2> QED BY <1>0, <1>3, <1>5, <2>1, <2>2
<1>6. CASE Restart
  <2>1. rows[t] # Absent /\ rows[t] \in Row
    BY <1>0, <1>6 DEF Restart
  <2>2. branch[t] \in BOOLEAN
    BY DEF Typed, TablesTyped
  <2>3. rows'[t].started = rows[t].started
        /\ rows'[t].status = IF rows[t].status = "in_progress" THEN "failed" ELSE rows[t].status
    BY <1>6, <2>1, <2>2, RecoveredTyped DEF Restart, Row
  <2> QED BY <1>0, <2>1, <2>3 DEF RowsStamped, Stamped
<1> QED BY <1>1, <1>2, <1>4, <1>5, <1>6, RowAfter

\* Every step keeps the stamps of the rows, and of the copies written back over them.
LEMMA StampNext ==
  ASSUME PlannerOn, Typed, OneDispatcher, RowsStamped, CopiesStamped, [SNext]_allVars
  PROVE  RowsStamped' /\ CopiesStamped'
<1> USE DEF DispatchCopy, ReviewCopy
<1>0. /\ Typed' /\ rows' \in [Task -> RowOrNone] /\ rows \in [Task -> RowOrNone]
      /\ Absent \notin Row
  BY TypedNext, AbsentAssumption DEF Typed, TablesTyped
<1>1. RowsStamped'
  BY StampAfter DEF RowsStamped
<1>2. ASSUME NEW p \in Proc, pc'[p] \in DispatchCopy, rows'[job'[p]] # Absent
      PROVE  mem'[p].started = rows'[job'[p]].started
  <2>1. PICK t \in Task : t = job'[p]
    BY <1>0, <1>2 DEF Typed, ProcsTyped, DispatchersHold
  <2>2. t = job[p] /\ rows[t] # Absent
    BY <1>2, <2>1, DispatchCopies, StampAfter DEF DispatchRead
  <2>3. CASE rows'[t].started # rows[t].started
    <3>1. PICK q \in Proc : job[q] = t /\ pc[q] = "plan_ok" /\ pc'[q] = "agent"
      BY <1>2, <2>1, <2>3, StampAfter
    <3>2. pc[p] # "idle"
      BY <1>2, DispatchCopies DEF DispatchRead
    <3>3. q = p
      BY <2>1, <2>2, <3>1, <3>2 DEF OneDispatcher
    <3> QED BY <1>2, <3>1, <3>3
  <2>4. CASE rows'[t].started = rows[t].started
    BY <1>2, <2>1, <2>2, <2>4, DispatchCopies DEF DispatchRead, CopiesStamped
  <2> QED BY <2>3, <2>4
<1>3. ASSUME NEW v \in Rev, rev'[v].pc \in ReviewCopy
      PROVE  rev'[v].mem.status = "ai_review" /\ rev'[v].mem.started
  <2>1. CASE rev[v].pc \in ReviewCopy /\ rev'[v].mem = rev[v].mem
    BY <2>1 DEF CopiesStamped
  <2>2. CASE rev[v].pc = "get" /\ rev'[v].mem = rows[rev[v].task] /\ rows[rev[v].task] \in Row
             /\ rows[rev[v].task].status = "ai_review"
    <3>1. rev[v].task \in Task
      BY <2>2 DEF Typed, RevsTyped, ReviewersHold
    <3> QED BY <1>0, <2>2, <3>1 DEF RowsStamped, Stamped
  <2> QED BY <1>3, <2>1, <2>2, ReviewCopies DEF ReviewRead
<1>4. ASSUME NEW c \in Caller, call'[c].pc = "feedback"
      PROVE  call'[c].row.status \in {"ai_review", "human_review"} /\ call'[c].row.started
  <2>1. call'[c].task \in Task
    BY <1>0, <1>4 DEF Typed, CallsTyped, HandlersHold
  <2>2. CASE call[c].pc = "feedback" /\ call'[c].row = call[c].row
    BY <2>2 DEF CopiesStamped
  <2>3. CASE rows[call'[c].task] \in Row /\ call'[c].row = rows[call'[c].task]
             /\ rows[call'[c].task].status \in {"ai_review", "human_review"}
    BY <1>0, <2>1, <2>3 DEF RowsStamped, Stamped
  <2> QED BY <1>4, <2>2, <2>3, HandlerCopies DEF HandlerRead, HandlerCopy
<1>5. ASSUME NEW c \in Caller, call'[c].pc \in {"merge_again", "mark_merged"},
             rows'[call'[c].task] # Absent
      PROVE  /\ rows'[call'[c].task].status = "done"
             /\ call'[c].row.started = rows'[call'[c].task].started
  <2>1. PICK t \in Task : t = call'[c].task
    BY <1>0, <1>5 DEF Typed, CallsTyped, HandlersHold
  <2>2. CASE rows[t] \in Row /\ call'[c].row = rows[t] /\ UNCHANGED rows /\ rows[t].status = "done"
    BY <2>1, <2>2
  <2>3. CASE call[c].pc \in {"merge_again", "mark_merged"} /\ call[c].task = t
             /\ call'[c].row = call[c].row
    <3>1. rows'[t] # Absent
      BY <1>5, <2>1
    <3>2. rows[t] # Absent /\ (rows[t].status = "done" => rows'[t].status = "done" /\ rows'[t].started = rows[t].started)
      BY <3>1, StampAfter
    <3>3. rows[t].status = "done" /\ call[c].row.started = rows[t].started
      BY <2>3, <3>2 DEF CopiesStamped
    <3> QED BY <2>1, <2>3, <3>2, <3>3
  <2> QED BY <1>5, <2>1, <2>2, <2>3, HandlerCopies DEF HandlerRead, HandlerCopy
<1> QED BY <1>1, <1>2, <1>3, <1>4, <1>5 DEF CopiesStamped

\* No row is stamped and no copy is held at the start.
LEMMA StampInit == SInit => RowsStamped /\ CopiesStamped
<1> SUFFICES ASSUME SInit PROVE RowsStamped /\ CopiesStamped
  OBVIOUS
<1>1. \A t \in Task : rows[t].status = "queued"
  BY DEF SInit, Init, NewRow
<1>2. /\ \A p \in Proc : pc[p] = "idle"
      /\ \A v \in Rev : rev[v].pc = "idle"
      /\ \A c \in Caller : call[c].pc = "idle"
  BY DEF SInit, Init, IdleRev, IdleCall
<1>3. RowsStamped
  BY <1>1 DEF RowsStamped, Stamped
<1>4. CopiesStamped
  BY <1>2 DEF CopiesStamped, DispatchCopy, ReviewCopy
<1> QED BY <1>3, <1>4

\* started_at is written once and never lost, although dispatchers, reviewers
\* and handlers write whole rows back from copies they read long before: every
\* copy that can still be accepted carries the stamp the row has.
THEOREM StartedStampSurvives ==
  ASSUME PlannerOn
  PROVE  SSpec => StartedStampKept
<1>1. Typed /\ OneDispatcher /\ RowsStamped /\ CopiesStamped /\ [SNext]_allVars
        => RowsStamped' /\ CopiesStamped'
  BY StampNext
<1>2. Typed /\ RowsStamped /\ CopiesStamped /\ [SNext]_allVars
        => [\A t \in Task :
              rows[t] # Absent /\ rows[t].started => rows'[t] = Absent \/ rows'[t].started]_allVars
  BY StampAfter
<1> QED
  BY StampInit, <1>1, <1>2, TypedAlways, OneDispatcherAlways, PTL DEF SSpec, StartedStampKept

-----------------------------------------------------------------------------
(* Worktrees.                                                              *)

\* The dispatcher made or found the worktree and has still to record it.
Recording == {"persist", "plan"}

\* A worktree no row names and no dispatcher is about to name: ensureWorktree
\* refuses to touch it, so the row never will.
Adrift(t) == disk[t] /\ \A p \in Proc : job[p] = t => pc[p] \notin Recording

AdriftNext(t) == disk'[t] /\ \A p \in Proc : job'[p] = t => pc'[p] \notin Recording

\* A copy that would leave the worktree of t recorded as it is.
SameTree(r, t) ==
  rows[t] # Absent => r.worktree = rows[t].worktree /\ (~ r.worktree => Adrift(t))

RowsValid == \A t \in Task : rows[t] # Absent => Validate(rows[t])

TreesStand ==
  \A t \in Task :
    rows[t] # Absent /\ rows[t].status \in Stamped /\ ~ rows[t].worktree => disk[t]

DispatchersRecord ==
  \A p \in Proc : LET t == job[p] IN
    /\ pc[p] \in {"worktree"} \cup Recording => mem[p].status = "planning"
    /\ pc[p] \in Recording => mem[p].worktree
    /\ rows[t] # Absent =>
         /\ pc[p] \in {"claim", "worktree"} => mem[p].worktree = rows[t].worktree
         /\ pc[p] \in Recording \cup {"plan_ok"} /\ ~ rows[t].worktree => disk[t] /\ branch[t]
         /\ pc[p] \in {"worktree", "plan_ok"} \cup Recording => rows[t].status \notin Stamped

ReviewersRecord ==
  \A v \in Rev : rev[v].pc \in ReviewCopy => SameTree(rev[v].mem, rev[v].task)

HandlersRecord ==
  \A c \in Caller : LET t == call[c].task
                        r == call[c].row IN
    /\ call[c].pc = "feedback" => SameTree(r, t)
    /\ call[c].pc = "finalize_remove" => r.worktree
    /\ rows[t] # Absent =>
         /\ call[c].pc \in {"merge_again", "mark_merged"} => r.worktree = rows[t].worktree
         /\ call[c].pc \in {"finalize_remove", "delete_cancel", "delete_worktree"}
              => (r.worktree => rows[t].worktree)

TreesRecorded ==
  RowsValid /\ TreesStand /\ DispatchersRecord /\ ReviewersRecord /\ HandlersRecord

\* What a dispatcher does on its way from the row it read to the agent.
LEMMA DispatchTree ==
  ASSUME PlannerOn, Typed, [SNext]_allVars, NEW p \in Proc
  PROVE  LET t == job[p] IN
    /\ pc'[p] = "claim" =>
         \/ pc[p] = "claim" /\ job'[p] = t /\ mem'[p] = mem[p]
         \/ pc[p] = "lookup" /\ job'[p] = t /\ mem'[p] = rows[t] /\ UNCHANGED rows
    /\ pc'[p] = "worktree" =>
         \/ pc[p] = "worktree" /\ job'[p] = t /\ mem'[p] = mem[p]
         \/ /\ pc[p] = "claim" /\ job'[p] = t /\ rows'[t].status = "planning"
            /\ mem'[p].status = "planning" /\ mem'[p].worktree = mem[p].worktree
    /\ pc'[p] \in Recording \cup {"plan_ok"} =>
         \/ /\ pc[p] \in Recording \cup {"plan_ok"} /\ job'[p] = t /\ mem'[p] = mem[p]
            /\ pc'[p] \in Recording => pc[p] \in Recording
         \/ /\ pc[p] = "worktree" /\ pc'[p] = "persist" /\ job'[p] = t /\ UNCHANGED rows
            /\ mem'[p].status = mem[p].status /\ mem'[p].worktree
            /\ \/ mem[p].worktree /\ UNCHANGED <<disk, branch>>
               \/ ~ disk[t] /\ disk'[t] /\ branch'[t]
<1> DEFINE t == job[p]
           Goal == /\ pc'[p] = "claim" =>
                        \/ pc[p] = "claim" /\ job'[p] = t /\ mem'[p] = mem[p]
                        \/ pc[p] = "lookup" /\ job'[p] = t /\ mem'[p] = rows[t] /\ UNCHANGED rows
                   /\ pc'[p] = "worktree" =>
                        \/ pc[p] = "worktree" /\ job'[p] = t /\ mem'[p] = mem[p]
                        \/ /\ pc[p] = "claim" /\ job'[p] = t /\ rows'[t].status = "planning"
                           /\ mem'[p].status = "planning" /\ mem'[p].worktree = mem[p].worktree
                   /\ pc'[p] \in Recording \cup {"plan_ok"} =>
                        \/ /\ pc[p] \in Recording \cup {"plan_ok"} /\ job'[p] = t /\ mem'[p] = mem[p]
                           /\ pc'[p] \in Recording => pc[p] \in Recording
                        \/ /\ pc[p] = "worktree" /\ pc'[p] = "persist" /\ job'[p] = t /\ UNCHANGED rows
                           /\ mem'[p].status = mem[p].status /\ mem'[p].worktree
                           /\ \/ mem[p].worktree /\ UNCHANGED <<disk, branch>>
                              \/ ~ disk[t] /\ disk'[t] /\ branch'[t]
<1> USE DEF Recording
<1>0. /\ pc \in [Proc -> DispatchPc] /\ job \in [Proc -> Task \cup {None}]
      /\ mem \in [Proc -> RowOrNone] /\ rows \in [Task -> RowOrNone]
      /\ disk \in [Task -> BOOLEAN] /\ branch \in [Task -> BOOLEAN]
      /\ pc[p] \in {"claim", "worktree"} => mem[p] \in Row
      /\ pc[p] # "idle" => t \in Task
  BY DEF Typed, TablesTyped, ProcsTyped, DispatchersHold
<1>1. ASSUME NEW q \in Proc, DispatchStep(q), q # p PROVE Goal
  <2>1. pc'[p] = pc[p] /\ job'[p] = job[p] /\ mem'[p] = mem[p]
    BY <1>0, <1>1 DEF DispatchStep, TakeSem, Acquire, AcquireCancelled, Lookup, Claim, EnsureWorktree,
       Fail, Persist, PlanReturns, PlanCommit, PlanAbandon, AgentReturns, Outcome, Complete,
       Release, Unregister, Goto, control
  <2> QED BY <2>1
<1>2. ASSUME DispatchStep(p) PROVE Goal
  <2> USE <1>0 DEF Goto, control
  <2>1. CASE TakeSem(p) \/ Acquire(p) \/ AcquireCancelled(p) \/ Fail(p)
    BY <2>1 DEF TakeSem, Acquire, AcquireCancelled, Fail
  <2>2. CASE Lookup(p)
    BY <2>2 DEF Lookup, RowOrNone
  <2>3. CASE Claim(p)
    <3>1. pc[p] = "claim" /\ pc'[p] \in {"worktree", "release"} /\ job' = job
      BY <2>3 DEF Claim
    <3>2. pc'[p] = "worktree" => mem'[p] = [mem[p] EXCEPT !.status = "planning"]
      BY <2>3 DEF Claim
    <3>3. LET m == [mem[p] EXCEPT !.status = "planning"]
          IN m.status = "planning" /\ m.worktree = mem[p].worktree
      BY <3>1 DEF Row
    <3>4. pc'[p] = "worktree" => rows'[t].status = "planning"
      <4>1. pc'[p] = "worktree" => rows[t] \in Row /\ rows'[t] = Moved(rows[t], "planning", "none", "none")
        BY <2>3, <3>1 DEF Claim, TransitionAccepted, RowOrNone
      <4> QED BY <4>1, MovedKeeps
    <3> QED BY <3>1, <3>2, <3>3, <3>4
  <2>4. CASE EnsureWorktree(p)
    <3>1. pc[p] = "worktree" /\ job' = job /\ UNCHANGED rows /\ pc'[p] \in {"persist", "failing"}
      BY <2>4 DEF EnsureWorktree
    <3>2. pc'[p] = "persist" =>
            \/ mem[p].worktree /\ UNCHANGED <<disk, branch, mem>>
            \/ /\ ~ disk[t] /\ disk'[t] /\ branch'[t]
               /\ mem' = [mem EXCEPT ![p] = [mem[p] EXCEPT !.worktree = TRUE]]
      BY <2>4, <3>1 DEF EnsureWorktree
    <3>3. LET m == [mem[p] EXCEPT !.worktree = TRUE] IN m.worktree /\ m.status = mem[p].status
      BY <3>1 DEF Row
    <3> QED BY <3>1, <3>2, <3>3
  <2>5. CASE Persist(p) \/ PlanReturns(p)
    BY <2>5 DEF Persist, PlanReturns
  <2>6. CASE PlanCommit(p) \/ PlanAbandon(p)
    BY <2>6 DEF PlanCommit, PlanAbandon
  <2>7. CASE AgentReturns(p) \/ Outcome(p) \/ Complete(p) \/ Release(p) \/ Unregister(p)
    BY <2>7 DEF AgentReturns, Outcome, Complete, Release, Unregister
  <2> QED BY <1>2, <2>1, <2>2, <2>3, <2>4, <2>5, <2>6, <2>7 DEF DispatchStep
<1>3. ASSUME NEW u \in Task, NEW q \in Proc, Registers(u, q) PROVE Goal
  BY <1>0, <1>3 DEF Registers
<1>4. CASE Beside
  BY <1>4 DEF Beside
<1>5. CASE Restart
  BY <1>5 DEF Restart
<1> QED BY <1>1, <1>2, <1>3, <1>4, <1>5, StepShape

\* A user's removal, in its last statement: Finalize, or a deletion that goes
\* by what its copy of the row records.
Removes(c, t) ==
  /\ call[c].task = t
  /\ \/ FinalizeRemove(c) /\ call[c].pc = "finalize_remove"
     \/ DeleteWorktree(c) /\ call[c].pc = "delete_worktree" /\ call[c].row.worktree

\* What a step does to the worktree of t and to its branch.
LEMMA TreeAfter ==
  ASSUME "remove_worktree" \notin Ops, Typed, [SNext]_allVars, NEW t \in Task
  PROVE  \/ disk'[t] = disk[t] /\ (branch'[t] = branch[t] \/ ~ disk[t])
         \/ disk'[t] /\ branch'[t]
         \/ \E c \in Caller : Removes(c, t)
         \/ Orphan(t)
<1> DEFINE Kept == disk'[t] = disk[t] /\ (branch'[t] = branch[t] \/ ~ disk[t])
<1>0. disk \in [Task -> BOOLEAN] /\ branch \in [Task -> BOOLEAN]
  BY DEF Typed, TablesTyped
<1>1. CASE UNCHANGED <<disk, branch>>
  BY <1>1
<1>2. ASSUME NEW p \in Proc, DispatchStep(p)
      PROVE  Kept \/ (disk'[t] /\ branch'[t])
  <2>1. CASE EnsureWorktree(p)
    BY <1>0, <2>1 DEF EnsureWorktree
  <2>2. CASE ~ EnsureWorktree(p)
    BY <1>1, <1>2, <2>2
       DEF DispatchStep, TakeSem, Acquire, AcquireCancelled, Lookup, Claim, Fail, Persist,
           PlanReturns, PlanCommit, PlanAbandon, AgentReturns, Outcome, Complete, Release, Unregister
  <2> QED BY <2>1, <2>2
<1>3. ASSUME NEW v \in Rev, ReviewStep(v) \/ RevTimeout(v) PROVE Kept
  BY <1>1, <1>3
     DEF ReviewStep, RevTimeout, RevRegister, RevGet, RevReturns, RevAbort, RevApprove, RevJudge,
         RevRequeue, RevEnqueue, PassWait, PassAdvance, RevExit
<1>4. ASSUME NEW c \in Caller, NEW u \in Task, Request(c, u) PROVE Kept
  <2>1. ~ RemoveWorktree(c, u)
    BY DEF RemoveWorktree, Free
  <2> QED
    BY <1>1, <1>4, <2>1
       DEF Request, RunTask, RunUnauthenticated, CancelTask, SubmitReview, Finalize, DeleteTask,
           DeleteTaskBranch, SyncBranch, orchestrator
<1>5. ASSUME NEW c \in Caller, HandlerStep(c) \/ HandlerFails(c) PROVE Kept \/ Removes(c, t)
  <2> USE <1>0 DEF At
  <2>1. CASE FinalizeRemove(c) \/ DeleteWorktree(c)
    BY <2>1 DEF FinalizeRemove, DeleteWorktree, Removes
  <2>2. CASE MergeAgain(c) \/ DropBranch(c)
    <3>1. disk' = disk /\ (branch' = branch \/ (~ disk[call[c].task]
                                               /\ branch' = [branch EXCEPT ![call[c].task] = FALSE]))
      BY <2>2 DEF MergeAgain, DropBranch
    <3> QED BY <3>1
  <2>3. CASE ~ (FinalizeRemove(c) \/ DeleteWorktree(c) \/ MergeAgain(c) \/ DropBranch(c))
    BY <1>1, <1>5, <2>3
       DEF HandlerStep, HandlerFails, RunAuthFail, RunAgain, CallEnqueue, CancelGet, CancelMove,
           ReviewFeedback, ReviewVerdict, FinalizeGet, FinalizeMove, MarkMerged, ClearBranch,
           DeleteCancel, DeleteRow, RemovedGet, RemovedMove, SyncCheck, SyncWrite, orchestrator
  <2> QED BY <2>1, <2>2, <2>3
<1>6. ASSUME NEW u \in Task, Reap(u) PROVE Kept \/ Orphan(t)
  BY <1>0, <1>6 DEF Reap
<1>7. CASE Restart
  <2>1. /\ disk'[t] = (disk[t] /\ ~ Orphan(t))
        /\ branch'[t] = (branch[t] /\ ~ Orphan(t))
    BY <1>7 DEF Restart
  <2> QED BY <1>0, <2>1
<1>8. CASE ChangeConcurrency \/ ShutDown \/ UNCHANGED allVars
  BY <1>1, <1>8 DEF ChangeConcurrency, SetConcurrency, ShutDown, Shutdown, allVars, vars
<1> QED BY <1>2, <1>3, <1>4, <1>5, <1>6, <1>7, <1>8 DEF SNext, Goroutines

\* The worktree column only ever goes from empty to recorded, by the dispatcher
\* that made the worktree; and no row enters a review or leaves done behind it.
LEMMA TreeColumn ==
  ASSUME PlannerOn, Typed, RowsStamped, CopiesStamped, TreesRecorded, [SNext]_allVars,
         NEW t \in Task, rows'[t] # Absent
  PROVE  /\ rows[t] # Absent /\ rows[t] \in Row /\ rows'[t] \in Row
         /\ Validate(rows'[t])
         /\ \/ rows'[t].worktree = rows[t].worktree
            \/ /\ rows'[t].worktree /\ ~ rows[t].worktree /\ rows[t].status = "planning"
               /\ \E p \in Proc : job[p] = t /\ pc[p] \in Recording
         /\ \/ rows'[t].status \in Stamped => rows[t].status \in Stamped
            \/ \E p \in Proc : DispatchStep(p) /\ job[p] = t /\ pc[p] = "plan_ok" /\ pc'[p] = "agent"
<1>0. /\ rows \in [Task -> RowOrNone] /\ rows'[t] \in Row /\ Absent \notin Row
      /\ rows[t] # Absent => rows[t] \in Row
      /\ rows[t] # Absent => Validate(rows[t])
  BY TypedNext, AbsentAssumption DEF Typed, TablesTyped, RowOrNone, TreesRecorded, RowsValid
<1>1. CASE rows'[t] = rows[t]
  BY <1>0, <1>1
<1>2. CASE Saves(t)
  <2>1. /\ rows[t] \in Row /\ rows[t] # Absent /\ rows'[t].status = rows[t].status
    BY <1>0, <1>2, StatusAfter
  <2>2. PICK h \in Copies(t) \cup {rows[t]} :
          /\ rows'[t].worktree = h.worktree /\ h.status = rows[t].status
          /\ Validate(rows[t]) => Validate(rows'[t])
    BY <1>0, <1>2 DEF Saves, SameColumns
  <2>3. \/ rows'[t].worktree = rows[t].worktree
        \/ rows[t].status = "planning" /\ rows'[t].worktree = TRUE
           /\ \E p \in Proc : job[p] = t /\ pc[p] \in Recording
    <3>1. CASE h = rows[t]
      BY <2>2, <3>1
    <3>2. ASSUME NEW p \in Proc, job[p] = t, pc[p] \in Recording, h = mem[p]
          PROVE  /\ rows[t].status = "planning" /\ rows'[t].worktree = TRUE
                 /\ \E q \in Proc : job[q] = t /\ pc[q] \in Recording
      <4>1. h \in Row /\ h.worktree /\ h.status = "planning"
        BY <3>2 DEF TreesRecorded, DispatchersRecord, Recording, Typed, ProcsTyped, DispatchersHold
      <4> QED BY <2>2, <3>2, <4>1 DEF Row
    <3>3. ASSUME NEW v \in Rev, rev[v].task = t, rev[v].pc \in {"review", "judge"}, h = rev[v].mem
          PROVE  rows'[t].worktree = rows[t].worktree
      BY <2>1, <2>2, <3>3 DEF TreesRecorded, ReviewersRecord, SameTree, ReviewCopy
    <3>4. ASSUME NEW c \in Caller, call[c].task = t, call[c].pc \in {"feedback", "mark_merged"},
                 h = call[c].row
          PROVE  rows'[t].worktree = rows[t].worktree
      BY <2>1, <2>2, <3>4 DEF TreesRecorded, HandlersRecord, SameTree
    <3> QED BY <3>1, <3>2, <3>3, <3>4 DEF Copies, Recording
  <2> QED BY <1>0, <2>1, <2>2, <2>3 DEF Row
<1>3. ASSUME NEW tos, MovesTo(t, tos)
      PROVE  /\ rows[t] # Absent /\ rows[t] \in Row
             /\ rows'[t].worktree = rows[t].worktree /\ Validate(rows'[t])
             /\ rows'[t].status \in tos
             /\ rows'[t].status \in {"ai_review", "human_review"} => rows[t].status \in Stamped
  <2>1. rows[t] # Absent /\ rows[t] \in Row /\ CanTransition(rows[t].status, rows'[t].status)
        /\ rows'[t].status \in tos
    BY <1>3, StatusAfter
  <2>2. rows'[t].worktree = rows[t].worktree /\ Validate(rows'[t])
    BY <1>0, <1>3, MovedKeeps DEF MovesTo
  <2>3. rows'[t].status \in {"ai_review", "human_review"} => rows[t].status \in {"in_progress", "ai_review"}
    BY <2>1 DEF CanTransition, AllowedTransitions, Row, Status
  <2> QED BY <2>1, <2>2, <2>3 DEF Stamped
<1>4. CASE MovesTo(t, BesideTargets \cup {"planning"})
  BY <1>0, <1>3, <1>4 DEF BesideTargets, Stamped
<1>5. CASE /\ MovesTo(t, {"in_progress"})
           /\ \E p \in Proc : DispatchStep(p) /\ job[p] = t /\ pc[p] = "plan_ok" /\ pc'[p] = "agent"
  BY <1>0, <1>3, <1>5
<1>6. CASE Restart
  <2>1. rows[t] # Absent /\ rows[t] \in Row
    BY <1>0, <1>6 DEF Restart
  <2>2. branch[t] \in BOOLEAN
    BY DEF Typed, TablesTyped
  <2>3. rows'[t] = [Recovered(rows[t]) EXCEPT !.branchExists = branch[t]]
    BY <1>6, <2>1 DEF Restart
  <2>4. rows'[t].worktree = rows[t].worktree
        /\ rows'[t].status = IF rows[t].status = "in_progress" THEN "failed" ELSE rows[t].status
    BY <2>1, <2>2, <2>3, RecoveredTyped DEF Row
  <2>5. Validate(rows'[t])
    BY <1>0, <2>1, <2>3 DEF Recovered, Row, Validate, Status
  <2> QED BY <1>0, <2>1, <2>4, <2>5 DEF Stamped
<1> QED BY <1>1, <1>2, <1>4, <1>5, <1>6, RowAfter

\* A worktree that only the disk knows of stays, with its branch.
LEMMA DiskKept ==
  ASSUME "remove_worktree" \notin Ops, Typed, TreesRecorded, [SNext]_allVars,
         NEW t \in Task, rows[t] # Absent, ~ rows[t].worktree, disk[t]
  PROVE  disk'[t] /\ (branch[t] => branch'[t])
<1>1. ASSUME NEW c \in Caller, Removes(c, t) PROVE FALSE
  BY <1>1 DEF Removes, TreesRecorded, HandlersRecord
<1> QED BY <1>1, TreeAfter DEF Orphan

\* An adrift worktree stays so.
LEMMA StaysAdrift ==
  ASSUME PlannerOn, "remove_worktree" \notin Ops, Typed, TreesRecorded, [SNext]_allVars,
         NEW t \in Task, rows[t] # Absent, ~ rows[t].worktree, Adrift(t)
  PROVE  AdriftNext(t)
<1>1. disk'[t]
  BY DiskKept DEF Adrift
<1>2. ASSUME NEW p \in Proc, job'[p] = t, pc'[p] \in Recording PROVE FALSE
  <2>1. CASE pc[p] \in Recording /\ job'[p] = job[p]
    BY <1>2, <2>1 DEF Adrift
  <2>2. CASE pc[p] = "worktree" /\ job'[p] = job[p] /\ (mem[p].worktree \/ ~ disk[job[p]])
    BY <1>2, <2>2 DEF Adrift, TreesRecorded, DispatchersRecord
  <2> QED BY <1>2, <2>1, <2>2, DispatchTree
<1> QED BY <1>1, <1>2 DEF AdriftNext

\* A copy that agrees with its row goes on agreeing.
LEMMA SameTreeNext ==
  ASSUME PlannerOn, "remove_worktree" \notin Ops, Typed, RowsStamped, CopiesStamped,
         TreesRecorded, [SNext]_allVars, NEW t \in Task, NEW r, SameTree(r, t),
         rows'[t] # Absent
  PROVE  r.worktree = rows'[t].worktree /\ (~ r.worktree => AdriftNext(t))
<1>1. rows[t] # Absent /\ r.worktree = rows[t].worktree /\ (~ r.worktree => Adrift(t))
  BY TreeColumn DEF SameTree
<1>2. rows'[t].worktree = rows[t].worktree
  BY <1>1, TreeColumn DEF Adrift
<1> QED BY <1>1, <1>2, StaysAdrift

\* Every step keeps the record of the worktrees that must not be forgotten.
LEMMA TreeNext ==
  ASSUME PlannerOn, "remove_worktree" \notin Ops, Typed, OneDispatcher, RowsStamped,
         CopiesStamped, TreesRecorded, [SNext]_allVars
  PROVE  TreesRecorded'
<1> USE DEF Recording
<1>0. /\ Typed' /\ RowsStamped' /\ CopiesStamped'
      /\ rows \in [Task -> RowOrNone] /\ rows' \in [Task -> RowOrNone]
  BY TypedNext, StampNext DEF Typed, TablesTyped
<1>1. RowsValid'
  BY TreeColumn DEF RowsValid
<1>2. TreesStand'
  <2> SUFFICES ASSUME NEW t \in Task, rows'[t] # Absent, rows'[t].status \in Stamped,
                      ~ rows'[t].worktree
               PROVE  disk'[t]
    BY DEF TreesStand
  <2>1. rows[t] # Absent /\ ~ rows[t].worktree
    BY TreeColumn
  <2>2. disk[t]
    <3>1. CASE rows[t].status \in Stamped
      BY <2>1, <3>1 DEF TreesRecorded, TreesStand
    <3>2. ASSUME NEW p \in Proc, job[p] = t, pc[p] = "plan_ok" PROVE disk[t]
      BY <2>1, <3>2 DEF TreesRecorded, DispatchersRecord
    <3> QED BY <3>1, <3>2, TreeColumn
  <2> QED BY <2>1, <2>2, DiskKept
<1>3. DispatchersRecord'
  <2> SUFFICES ASSUME NEW p \in Proc
               PROVE  LET t == job'[p] IN
                      /\ pc'[p] \in {"worktree"} \cup Recording => mem'[p].status = "planning"
                      /\ pc'[p] \in Recording => mem'[p].worktree
                      /\ rows'[t] # Absent =>
                           /\ pc'[p] \in {"claim", "worktree"} => mem'[p].worktree = rows'[t].worktree
                           /\ pc'[p] \in Recording \cup {"plan_ok"} /\ ~ rows'[t].worktree
                                => disk'[t] /\ branch'[t]
                           /\ pc'[p] \in {"worktree", "plan_ok"} \cup Recording
                                => rows'[t].status \notin Stamped
    BY DEF DispatchersRecord
  <2> DEFINE t == job'[p]
             Way == {"claim", "worktree", "plan_ok"} \cup Recording
  <2>0. pc'[p] \in Way => t \in Task /\ job[p] = t /\ pc[p] \in Way \cup {"lookup"}
    BY <1>0, DispatchTree DEF Typed, ProcsTyped, DispatchersHold
  <2>1. pc'[p] \in {"worktree"} \cup Recording => mem'[p].status = "planning"
    BY DispatchTree DEF TreesRecorded, DispatchersRecord
  <2>2. pc'[p] \in Recording => mem'[p].worktree
    BY DispatchTree DEF TreesRecorded, DispatchersRecord
  <2>3. ASSUME rows'[t] # Absent, pc'[p] \in {"claim", "worktree"}
        PROVE  mem'[p].worktree = rows'[t].worktree
    <3>1. t \in Task /\ job[p] = t /\ rows[t] # Absent
      BY <2>0, <2>3, TreeColumn
    <3>2. CASE pc[p] = "lookup"
      BY <2>3, <3>1, <3>2, DispatchTree
    <3>3. CASE pc[p] \in {"claim", "worktree"}
      <4>1. mem'[p].worktree = mem[p].worktree /\ mem[p].worktree = rows[t].worktree
        BY <2>3, <3>1, <3>3, DispatchTree DEF TreesRecorded, DispatchersRecord
      <4>2. \A q \in Proc : job[q] = t /\ pc[q] # "idle" => q = p
        BY <3>1, <3>3 DEF OneDispatcher
      <4>3. rows'[t].worktree = rows[t].worktree
        BY <2>3, <3>1, <3>3, <4>2, TreeColumn
      <4> QED BY <4>1, <4>3
    <3> QED BY <2>3, <3>2, <3>3, DispatchTree
  <2>4. ASSUME rows'[t] # Absent, pc'[p] \in Recording \cup {"plan_ok"}, ~ rows'[t].worktree
        PROVE  disk'[t] /\ branch'[t]
    <3>1. t \in Task /\ job[p] = t /\ rows[t] # Absent /\ ~ rows[t].worktree
      BY <2>0, <2>4, TreeColumn
    <3>2. CASE pc[p] \in Recording \cup {"plan_ok"}
      BY <3>1, <3>2, DiskKept DEF TreesRecorded, DispatchersRecord
    <3>3. CASE pc[p] = "worktree"
      <4>1. ~ mem[p].worktree
        BY <3>1, <3>3 DEF TreesRecorded, DispatchersRecord
      <4> QED BY <2>4, <3>1, <3>3, <4>1, DispatchTree
    <3> QED BY <2>4, <3>2, <3>3, DispatchTree
  <2>5. ASSUME rows'[t] # Absent, pc'[p] \in {"worktree", "plan_ok"} \cup Recording
        PROVE  rows'[t].status \notin Stamped
    <3>1. t \in Task /\ job[p] = t /\ rows[t] # Absent
      BY <2>0, <2>5, TreeColumn
    <3>2. CASE pc[p] = "claim"
      BY <2>5, <3>1, <3>2, DispatchTree DEF Stamped
    <3>3. CASE pc[p] \in {"worktree", "plan_ok"} \cup Recording
      <4>1. rows[t].status \notin Stamped
        BY <3>1, <3>3 DEF TreesRecorded, DispatchersRecord
      <4>2. \A q \in Proc : job[q] = t /\ pc[q] = "plan_ok" => q = p
        BY <3>1, <3>3 DEF OneDispatcher
      <4> QED BY <2>5, <3>1, <4>1, <4>2, TreeColumn
    <3> QED BY <2>5, <3>2, <3>3, DispatchTree
  <2> QED BY <2>1, <2>2, <2>3, <2>4, <2>5
<1>4. ReviewersRecord'
  <2> SUFFICES ASSUME NEW v \in Rev, rev'[v].pc \in ReviewCopy, rows'[rev'[v].task] # Absent
               PROVE  LET t == rev'[v].task
                          r == rev'[v].mem
                      IN r.worktree = rows'[t].worktree /\ (~ r.worktree => AdriftNext(t))
    BY DEF ReviewersRecord, SameTree, Adrift, AdriftNext
  <2> DEFINE t == rev'[v].task
  <2>1. t \in Task /\ rev[v].task = t
    BY <1>0, ReviewCopies DEF ReviewRead, ReviewCopy, Typed, RevsTyped, ReviewersHold
  <2>2. CASE rev[v].pc \in ReviewCopy /\ rev'[v].mem = rev[v].mem
    BY <2>1, <2>2, SameTreeNext DEF TreesRecorded, ReviewersRecord
  <2>3. CASE /\ rev'[v].mem = rows[t] /\ rows[t].status = "ai_review"
             /\ UNCHANGED <<rows, disk, pc, job>>
    <3>1. ~ rows[t].worktree => disk[t]
      BY <2>1, <2>3 DEF TreesRecorded, TreesStand, Stamped
    <3>2. \A p \in Proc : job[p] = t => pc[p] \notin Recording
      BY <2>1, <2>3 DEF TreesRecorded, DispatchersRecord, Stamped
    <3> QED BY <2>1, <2>3, <3>1, <3>2 DEF AdriftNext
  <2> QED BY <2>1, <2>2, <2>3, ReviewCopies DEF ReviewRead
<1>5. HandlersRecord'
  <2> SUFFICES ASSUME NEW c \in Caller
               PROVE  LET t == call'[c].task
                          r == call'[c].row IN
                      /\ call'[c].pc = "feedback" /\ rows'[t] # Absent
                           => r.worktree = rows'[t].worktree /\ (~ r.worktree => AdriftNext(t))
                      /\ call'[c].pc = "finalize_remove" => r.worktree
                      /\ rows'[t] # Absent =>
                           /\ call'[c].pc \in {"merge_again", "mark_merged"} => r.worktree = rows'[t].worktree
                           /\ call'[c].pc \in {"finalize_remove", "delete_cancel", "delete_worktree"}
                                => (r.worktree => rows'[t].worktree)
    BY DEF HandlersRecord, SameTree, Adrift, AdriftNext
  <2> DEFINE t == call'[c].task
             r == call'[c].row
  <2>0. call'[c].pc \in HandlerCopy => t \in Task
    BY <1>0 DEF HandlerCopy, Typed, CallsTyped, HandlersHold
  <2> DEFINE Read == /\ rows[t] \in Row /\ r = rows[t]
                     /\ UNCHANGED <<rows, disk, branch, running, pc, job, permit, mem>>
             Held == call[c].pc \in HandlerCopy /\ call[c].task = t /\ call[c].row = r
  <2>1. ASSUME call'[c].pc = "feedback", rows'[t] # Absent
        PROVE  r.worktree = rows'[t].worktree /\ (~ r.worktree => AdriftNext(t))
    <3>1. CASE Held /\ call[c].pc = "feedback"
      BY <2>0, <2>1, <3>1, SameTreeNext DEF HandlerCopy, TreesRecorded, HandlersRecord
    <3>2. CASE Read /\ rows[t].status \in {"ai_review", "human_review"}
      <4>1. ~ rows[t].worktree => disk[t]
        BY <2>0, <2>1, <3>2 DEF HandlerCopy, TreesRecorded, TreesStand, Stamped
      <4>2. \A p \in Proc : job[p] = t => pc[p] \notin Recording
        BY <2>0, <2>1, <3>2 DEF HandlerCopy, TreesRecorded, DispatchersRecord, Stamped
      <4> QED BY <3>2, <4>1, <4>2 DEF AdriftNext
    <3> QED BY <2>1, <3>1, <3>2, HandlerCopies DEF HandlerRead, HandlerCopy
  <2>2. ASSUME call'[c].pc = "finalize_remove" PROVE r.worktree
    <3>1. CASE Held /\ call[c].pc = "finalize_remove"
      BY <3>1 DEF TreesRecorded, HandlersRecord
    <3>2. CASE Read /\ (rows[t].worktree \/ (rows[t].status # "done" /\ rows[t].finalization = "keep"))
      BY <2>0, <2>2, <3>2, AbsentAssumption
         DEF HandlerCopy, TreesRecorded, RowsValid, Validate
    <3> QED BY <2>2, <3>1, <3>2, HandlerCopies DEF HandlerRead, HandlerCopy
  <2>3. ASSUME rows'[t] # Absent, call'[c].pc \in {"merge_again", "mark_merged"}
        PROVE  r.worktree = rows'[t].worktree
    <3>1. t \in Task /\ rows[t] # Absent
      BY <2>0, <2>3, TreeColumn DEF HandlerCopy
    <3>2. CASE Held /\ call[c].pc \in {"merge_again", "mark_merged"}
      <4>1. rows[t].status = "done" /\ r.worktree = rows[t].worktree
        BY <3>1, <3>2 DEF CopiesStamped, TreesRecorded, HandlersRecord
      <4> QED BY <2>3, <3>1, <4>1, TreeColumn
    <3>3. CASE Read
      BY <3>3
    <3> QED BY <2>3, <3>2, <3>3, HandlerCopies DEF HandlerRead, HandlerCopy
  <2>4. ASSUME rows'[t] # Absent, r.worktree,
               call'[c].pc \in {"finalize_remove", "delete_cancel", "delete_worktree"}
        PROVE  rows'[t].worktree
    <3>1. t \in Task /\ rows[t] # Absent
      BY <2>0, <2>4, TreeColumn DEF HandlerCopy
    <3>2. CASE Held /\ call[c].pc \in {"finalize_remove", "delete_cancel", "delete_worktree"}
      <4>1. rows[t].worktree
        BY <2>4, <3>1, <3>2 DEF TreesRecorded, HandlersRecord
      <4> QED BY <2>4, <3>1, <4>1, TreeColumn
    <3>3. CASE Read
      BY <2>4, <3>3
    <3> QED BY <2>4, <3>2, <3>3, HandlerCopies DEF HandlerRead, HandlerCopy
  <2> QED BY <2>1, <2>2, <2>3, <2>4
<1> QED BY <1>1, <1>2, <1>3, <1>4, <1>5 DEF TreesRecorded

\* What the row records is on disk with its branch until a user asks for the
\* removal: no failure, cancellation, crash, shutdown or housekeeping takes a
\* recorded worktree, and no row comes to record one that is not there.  It is
\* stated without the RPC that removes a directory from the worktree list: that
\* one may take the directory between ensureWorktree and the statement that
\* records it.
THEOREM WorktreesAreKept ==
  ASSUME PlannerOn, "remove_worktree" \notin Ops
  PROVE  SSpec => WorktreeKept
<1>1. SInit => RowsStamped /\ CopiesStamped /\ TreesRecorded
  <2> SUFFICES ASSUME SInit PROVE RowsStamped /\ CopiesStamped /\ TreesRecorded
    OBVIOUS
  <2>1. \A t \in Task : rows[t].status = "queued" /\ Validate(rows[t])
    BY DEF SInit, Init, NewRow, Validate
  <2>2. /\ \A p \in Proc : pc[p] = "idle"
        /\ \A v \in Rev : rev[v].pc = "idle"
        /\ \A c \in Caller : call[c].pc = "idle"
    BY DEF SInit, Init, IdleRev, IdleCall
  <2>3. RowsStamped /\ CopiesStamped
    BY StampInit
  <2>4. TreesRecorded
    BY <2>1, <2>2
       DEF TreesRecorded, RowsValid, TreesStand, DispatchersRecord, ReviewersRecord,
           HandlersRecord, Stamped, Recording, ReviewCopy
  <2> QED BY <2>3, <2>4
<1>2. Typed /\ OneDispatcher /\ RowsStamped /\ CopiesStamped /\ TreesRecorded /\ [SNext]_allVars
        => RowsStamped' /\ CopiesStamped' /\ TreesRecorded'
  BY StampNext, TreeNext
<1>3. Typed /\ RowsStamped /\ CopiesStamped /\ TreesRecorded /\ [SNext]_allVars
        => [\A t \in Task : Backed(t) /\ ~ Backed(t)' => \E c \in Caller : AsksRemoval(c, t)]_allVars
  <2> SUFFICES ASSUME Typed, RowsStamped, CopiesStamped, TreesRecorded, [SNext]_allVars,
                      NEW t \in Task, Backed(t), ~ Backed(t)'
               PROVE  \E c \in Caller : AsksRemoval(c, t)
    OBVIOUS
  <2>1. rows'[t] # Absent /\ rows'[t].worktree /\ ~ (disk'[t] /\ branch'[t])
    BY DEF Backed
  <2>2. CASE rows[t].worktree
    <3>1. rows[t] # Absent /\ disk[t] /\ branch[t]
      BY <2>1, <2>2, TreeColumn DEF Backed
    <3>2. \E c \in Caller : Removes(c, t)
      BY <2>1, <3>1, TreeAfter DEF Orphan
    <3> QED BY <3>2 DEF Removes, AsksRemoval
  <2>3. CASE ~ rows[t].worktree
    <3>1. rows[t] # Absent /\ \E p \in Proc : job[p] = t /\ pc[p] \in Recording
      BY <2>1, <2>3, TreeColumn
    <3>2. disk[t] /\ branch[t]
      BY <2>3, <3>1 DEF TreesRecorded, DispatchersRecord
    <3> QED BY <2>1, <2>3, <3>1, <3>2, DiskKept
  <2> QED BY <2>2, <2>3
<1> QED
  BY <1>1, <1>2, <1>3, TypedAlways, OneDispatcherAlways, PTL DEF SSpec, WorktreeKept

-----------------------------------------------------------------------------
(* The rework loop.                                                        *)

\* The RPCs by which a user decides, or ends, a review that is under way.
Interfering == {"run_unauth", "cancel", "rework", "approve", "reject"}

\* Without them no handler moves a row out of ai_review.
HandlersQuiet ==
  \A c \in Caller :
    /\ call[c].pc \notin {"auth_fail", "cancel_get", "cancel_move", "feedback", "verdict"}
    /\ call[c].pc = "rerun" => call[c].row.status \in {"aborted", "failed"}

\* Without the RPCs that decide a review, no handler is on its way to decide one.
LEMMA QuietNext ==
  ASSUME Interfering \cap Ops = {}, Typed, HandlersQuiet, [SNext]_allVars
  PROVE  HandlersQuiet'
<1> SUFFICES ASSUME NEW c \in Caller
             PROVE  /\ call'[c].pc \notin {"auth_fail", "cancel_get", "cancel_move", "feedback", "verdict"}
                    /\ call'[c].pc = "rerun" => call'[c].row.status \in {"aborted", "failed"}
  BY DEF HandlersQuiet
<1> DEFINE Goal == /\ call'[c].pc \notin {"auth_fail", "cancel_get", "cancel_move", "feedback", "verdict"}
                   /\ call'[c].pc = "rerun" => call'[c].row.status \in {"aborted", "failed"}
<1> USE DEF HandlersQuiet
<1>0. /\ DOMAIN call = Caller
      /\ call \in [Caller -> [pc : HandlerPc, op : Ops \cup {"none"},
                            task : Task \cup {None}, row : RowOrNone]]
      /\ {"run_unauth", "cancel", "rework", "approve", "reject"} \cap Ops = {}
  BY DEF Typed, CallsTyped, Interfering
<1>1. CASE UNCHANGED call
  BY <1>1
<1>2. ASSUME NEW d \in Caller, Return(d) PROVE Goal
  BY <1>0, <1>2 DEF Return, IdleCall
<1>3. ASSUME NEW d \in Caller, NEW next, Step(d, next),
             next \notin {"auth_fail", "cancel_get", "cancel_move", "feedback", "verdict", "rerun"}
      PROVE  Goal
  BY <1>0, <1>3 DEF Step
<1>4. ASSUME NEW d \in Caller, NEW op, NEW next, NEW u, NEW r, Begin(d, op, next, u, r),
             next \notin {"auth_fail", "cancel_get", "cancel_move", "feedback", "verdict"},
             next = "rerun" => r.status \in {"aborted", "failed"}
      PROVE  Goal
  BY <1>0, <1>4 DEF Begin
<1>5. ASSUME NEW d \in Caller, NEW t \in Task, Request(d, t) PROVE Goal
  <2>1. ~ (RunUnauthenticated(d, t) \/ CancelTask(d, t) \/ SubmitReview(d, t))
    BY <1>0 DEF RunUnauthenticated, CancelTask, SubmitReview, Free
  <2>2. CASE RunTask(d, t)
    BY <1>4, <2>2 DEF RunTask
  <2>3. CASE Finalize(d, t) \/ DeleteTask(d, t)
    BY <1>4, <2>3 DEF Finalize, DeleteTask
  <2>4. CASE DeleteTaskBranch(d, t) \/ RemoveWorktree(d, t) \/ SyncBranch(d, t)
    BY <1>4, <2>4 DEF DeleteTaskBranch, RemoveWorktree, SyncBranch
  <2> QED BY <1>5, <2>1, <2>2, <2>3, <2>4 DEF Request
<1>6. ASSUME NEW d \in Caller, HandlerStep(d) PROVE Goal
  <2> USE <1>6 DEF At
  <2>1. ~ (RunAuthFail(d) \/ CancelGet(d) \/ CancelMove(d) \/ ReviewFeedback(d) \/ ReviewVerdict(d))
    BY DEF RunAuthFail, CancelGet, CancelMove, ReviewFeedback, ReviewVerdict
  <2>2. CASE CallEnqueue(d) \/ FinalizeMove(d) \/ ClearBranch(d) \/ DeleteRow(d)
             \/ RemovedMove(d) \/ SyncWrite(d)
    BY <1>2, <2>2 DEF CallEnqueue, FinalizeMove, ClearBranch, DeleteRow, RemovedMove, SyncWrite
  <2>3. CASE RunAgain(d) \/ FinalizeRemove(d) \/ MergeAgain(d) \/ MarkMerged(d)
    BY <1>2, <1>3, <2>3 DEF RunAgain, FinalizeRemove, MergeAgain, MarkMerged
  <2>4. CASE DeleteCancel(d) \/ DeleteWorktree(d) \/ DropBranch(d)
    BY <1>2, <1>3, <2>4 DEF DeleteCancel, DeleteWorktree, DropBranch
  <2>5. CASE FinalizeGet(d) \/ RemovedGet(d)
    <3>1. Return(d) \/ \E op, u, r : \E next \in {"merge_again", "finalize_remove", "removed_move"} :
                         Begin(d, op, next, u, r)
      BY <2>5 DEF FinalizeGet, RemovedGet
    <3> QED BY <1>2, <1>4, <3>1
  <2>6. CASE SyncCheck(d)
    <3>1. Return(d) \/ \E b : call' = [call EXCEPT ![d].pc = "sync_write", ![d].row.branchExists = b]
      BY <2>6 DEF SyncCheck
    <3> QED BY <1>0, <1>2, <3>1
  <2> QED BY <2>1, <2>2, <2>3, <2>4, <2>5, <2>6 DEF HandlerStep
<1>7. ASSUME NEW d \in Caller, HandlerFails(d) PROVE Goal
  BY <1>2, <1>7 DEF HandlerFails
<1>8. CASE Goroutines \/ (\E t \in Task : Reap(t)) \/ ChangeConcurrency \/ ShutDown \/ UNCHANGED allVars
  BY <1>1, <1>8 DEF Goroutines, Reap, ChangeConcurrency, SetConcurrency, ShutDown, Shutdown, allVars
<1>9. CASE Restart
  BY <1>9 DEF Restart, IdleCall
<1> QED BY <1>5, <1>6, <1>7, <1>8, <1>9 DEF SNext

\* A dispatcher that has claimed its row believes it in planning.
DispatchersPlan ==
  \A p \in Proc : pc[p] \in {"worktree", "failing", "persist", "plan", "plan_ok"}
                    => mem[p].status = "planning"

\* A dispatcher that has claimed its row holds a copy of it in planning.
LEMMA PlanNext ==
  ASSUME PlannerOn, Typed, DispatchersPlan, [SNext]_allVars
  PROVE  DispatchersPlan'
<1> DEFINE Way == {"worktree", "failing", "persist", "plan", "plan_ok"}
<1> SUFFICES ASSUME NEW p \in Proc, pc'[p] \in Way PROVE mem'[p].status = "planning"
  BY DEF DispatchersPlan
<1>0. /\ pc \in [Proc -> DispatchPc] /\ mem \in [Proc -> RowOrNone]
      /\ rows \in [Task -> RowOrNone]
      /\ pc[p] \in {"claim", "worktree"} => mem[p] \in Row
      /\ pc[p] # "idle" => job[p] \in Task
  BY DEF Typed, TablesTyped, ProcsTyped, DispatchersHold
<1>1. CASE pc[p] \in Way /\ mem'[p] = mem[p]
  BY <1>1 DEF DispatchersPlan
<1>2. ASSUME NEW q \in Proc, DispatchStep(q), q # p PROVE mem'[p].status = "planning"
  <2>1. pc'[p] = pc[p] /\ mem'[p] = mem[p]
    BY <1>0, <1>2 DEF DispatchStep, TakeSem, Acquire, AcquireCancelled, Lookup, Claim, EnsureWorktree,
       Fail, Persist, PlanReturns, PlanCommit, PlanAbandon, AgentReturns, Outcome, Complete,
       Release, Unregister, Goto
  <2> QED BY <1>1, <2>1
<1>3. ASSUME DispatchStep(p) PROVE mem'[p].status = "planning"
  <2> USE <1>0 DEF Goto
  <2>1. CASE TakeSem(p) \/ Acquire(p) \/ AcquireCancelled(p) \/ Fail(p)
    BY <2>1 DEF TakeSem, Acquire, AcquireCancelled, Fail
  <2>2. CASE Lookup(p)
    <3>1. mem' = [mem EXCEPT ![p] = [rows[job[p]] EXCEPT !.status = "planning"]] /\ rows[job[p]] \in Row
      BY <2>2 DEF Lookup, RowOrNone
    <3> QED BY <3>1 DEF Row
  <2>3. CASE Claim(p)
    <3>1. mem' = [mem EXCEPT ![p] = [mem[p] EXCEPT !.status = "planning"]] /\ mem[p] \in Row
      BY <2>3 DEF Claim
    <3> QED BY <3>1 DEF Row
  <2>4. CASE EnsureWorktree(p)
    <3>1. pc[p] = "worktree" /\ (mem' = mem \/ mem' = [mem EXCEPT ![p] = [mem[p] EXCEPT !.worktree = TRUE]])
      BY <2>4 DEF EnsureWorktree
    <3> QED BY <3>1 DEF Row, DispatchersPlan
  <2>5. CASE Persist(p) \/ PlanReturns(p)
    BY <1>1, <2>5 DEF Persist, PlanReturns
  <2>6. CASE PlanCommit(p) \/ PlanAbandon(p)
    BY <1>1, <2>6 DEF PlanCommit, PlanAbandon
  <2>7. CASE AgentReturns(p) \/ Outcome(p) \/ Complete(p) \/ Release(p) \/ Unregister(p)
    BY <2>7 DEF AgentReturns, Outcome, Complete, Release, Unregister
  <2> QED BY <1>3, <2>1, <2>2, <2>3, <2>4, <2>5, <2>6, <2>7 DEF DispatchStep
<1>4. ASSUME NEW u \in Task, NEW q \in Proc, Registers(u, q) PROVE mem'[p].status = "planning"
  BY <1>0, <1>1, <1>4 DEF Registers
<1>5. CASE Beside
  BY <1>1, <1>5 DEF Beside
<1>6. CASE Restart
  BY <1>6 DEF Restart
<1> QED BY <1>2, <1>3, <1>4, <1>5, <1>6, StepShape

\* The phases in which a reviewer may still move its row.
InCharge == {"register", "get", "review", "abort", "approve", "judge", "requeue", "wait", "advance"}

\* Reviewer v moves its row out of ai_review and is done with it; only a
\* requeue counts.
Decides(v) ==
  /\ rev[v].pc \in {"abort", "approve", "requeue", "advance"}
  /\ rev'[v].pc \notin InCharge
  /\ LET t == rev[v].task IN
     \/ rows'[t].reworkCount = rows[t].reworkCount
     \/ rev[v].pc = "requeue" /\ rows'[t].reworkCount = rows[t].reworkCount + 1

\* A row leaves ai_review by its reviewer.
LEMMA FromReview ==
  ASSUME PlannerOn, Interfering \cap Ops = {}, Typed, HandlersQuiet, DispatchersPlan,
         [SNext]_allVars, NEW t \in Task, rows[t] # Absent, rows[t].status = "ai_review",
         rows'[t] # Absent
  PROVE  \/ Saves(t)
         \/ rows'[t].status = "ai_review" /\ rows'[t].reworkCount = rows[t].reworkCount
         \/ \E v \in Rev : rev[v].task = t /\ Decides(v)
<1> DEFINE Stays == rows'[t].status = "ai_review" /\ rows'[t].reworkCount = rows[t].reworkCount
           Goal == Saves(t) \/ Stays \/ \E v \in Rev : rev[v].task = t /\ Decides(v)
<1>0. /\ rows \in [Task -> RowOrNone] /\ rows[t] \in Row /\ rows'[t] \in Row
      /\ rev \in [Rev -> [pc : ReviewPc, task : Task \cup {None},
                         ctx : {"live", "cancelled", "timeout"}, mem : RowOrNone]]
  BY TypedNext DEF Typed, TablesTyped, RevsTyped, RowOrNone
<1>1. CASE rows'[t] = rows[t]
  BY <1>1
<1>2. ASSUME NEW u, u # t, Saves(u) \/ Drops(u) \/ \E r : rows' = [rows EXCEPT ![u] = r]
      PROVE  rows'[t] = rows[t]
  BY <1>0, <1>2 DEF Saves, Drops
<1>3. ASSUME NEW u, NEW from, NEW to, NEW code, NEW done,
             Try(u, from, to, code) \/ TryCtx(done, u, from, to, code),
             from \in Status \ {"ai_review"}
      PROVE  rows'[t] = rows[t]
  BY <1>0, <1>2, <1>3 DEF Try, TryCtx, TransitionAccepted
<1>4. ASSUME NEW p \in Proc, DispatchStep(p) PROVE Goal
  <2> DEFINE u == job[p]
  <2>1. CASE TakeSem(p) \/ Acquire(p) \/ AcquireCancelled(p) \/ EnsureWorktree(p) \/ Outcome(p)
             \/ Release(p) \/ Unregister(p) \/ AgentReturns(p)
    BY <1>1, <2>1 DEF TakeSem, Acquire, AcquireCancelled, EnsureWorktree, Outcome, Release,
                      Unregister, AgentReturns
  <2>2. CASE Lookup(p) \/ Claim(p)
    <3>1. UNCHANGED rows \/ Try(u, "queued", "planning", "none")
      BY <2>2 DEF Lookup, Claim, Try
    <3> QED BY <1>1, <1>3, <3>1 DEF Status
  <2>3. CASE Persist(p) \/ PlanReturns(p)
    <3>1. pc[p] \in {"persist", "plan"} /\ (UNCHANGED rows \/ SaveMem(p))
      BY <2>3 DEF Persist, PlanReturns
    <3>2. mem[p].status = "planning"
      BY <3>1 DEF DispatchersPlan
    <3>3. rows'[t] = rows[t]
      BY <1>0, <3>1, <3>2 DEF SaveMem, UpdateAccepted
    <3> QED BY <1>1, <3>3
  <2>4. CASE PlanCommit(p)
    <3>1. UNCHANGED rows \/ Try(u, "planning", "in_progress", "none")
      BY <2>4 DEF PlanCommit, Try
    <3> QED BY <1>1, <1>3, <3>1 DEF Status
  <2>5. CASE Fail(p)
    <3>1. mem[p].status = "planning"
      BY <2>5 DEF Fail, DispatchersPlan
    <3>2. TryCtx(CtxDone(p), u, "planning", "failed", result[p])
      BY <2>5, <3>1 DEF Fail
    <3> QED BY <1>1, <1>3, <3>2 DEF Status
  <2>6. CASE PlanAbandon(p)
    <3>1. TryCtx(CtxDone(p), u, "planning", "aborted", "none") \/ TryCtx(CtxDone(p), u, "planning", "failed", "runtime")
      BY <2>6 DEF PlanAbandon
    <3> QED BY <1>1, <1>3, <3>1 DEF Status
  <2>7. CASE Complete(p)
    <3>1. \E to, code : Try(u, "in_progress", to, code)
      BY <2>7 DEF Complete
    <3> QED BY <1>1, <1>3, <3>1 DEF Status
  <2> QED BY <1>4, <2>1, <2>2, <2>3, <2>4, <2>5, <2>6, <2>7 DEF DispatchStep
<1>5. ASSUME NEW v \in Rev, ReviewStep(v) \/ RevTimeout(v) PROVE Goal
  <2> DEFINE u == rev[v].task
  <2>0. rev[v].pc # "idle" => u \in Task
    BY DEF Typed, RevsTyped, ReviewersHold
  <2>1. CASE RevRegister(v) \/ RevGet(v) \/ RevTimeout(v) \/ PassWait(v) \/ RevExit(v) \/ RevEnqueue(v)
    BY <1>1, <2>1 DEF RevRegister, RevGet, RevTimeout, PassWait, RevExit, RevEnqueue
  <2>2. CASE RevReturns(v) \/ RevJudge(v)
    <3>1. u \in Task /\ rev[v].mem \in Row /\ [rev[v].mem EXCEPT !.feedback = "ai"] \in Row
      BY <2>2 DEF RevReturns, RevJudge, Typed, RevsTyped, ReviewersHold, Row, Feedback
    <3>2. /\ rev[v].mem \in Copies(u)
          /\ SameColumns(rev[v].mem, rev[v].mem)
          /\ SameColumns([rev[v].mem EXCEPT !.feedback = "ai"], rev[v].mem)
      BY <2>2, <3>1 DEF RevReturns, RevJudge, Copies, SameColumns, Row
    <3>3. \/ UNCHANGED rows \/ Save(u, rev[v].mem)
          \/ Save(u, [rev[v].mem EXCEPT !.feedback = "ai"])
      BY <2>2 DEF RevReturns, RevJudge, RevSave, Save
    <3>4. UNCHANGED rows \/ Saves(u)
      BY <3>1, <3>2, <3>3, SaveSaves
    <3> QED BY <1>1, <1>2, <3>4
  <2>3. CASE RevAbort(v) \/ RevApprove(v) \/ PassAdvance(v) \/ RevRequeue(v)
    <3>1. u \in Task /\ rev[v].pc \in {"abort", "approve", "requeue", "advance"}
      BY <2>0, <2>3 DEF RevAbort, RevApprove, PassAdvance, RevRequeue
    <3>2. rev'[v].pc \notin InCharge
      BY <1>0, <2>3 DEF RevAbort, RevApprove, PassAdvance, RevRequeue, RevGoto, InCharge
    <3>3. PICK to \in {"aborted", "human_review", "queued"} :
            /\ UNCHANGED rows \/ rows' = [rows EXCEPT ![u] = Moved(rows[u], to, "none", "none")]
            /\ to = "queued" => rev[v].pc = "requeue"
      BY <2>3 DEF RevAbort, RevApprove, PassAdvance, RevRequeue, Try, TryCtx
    <3>4. CASE u = t /\ rows'[t] = Moved(rows[t], to, "none", "none")
      <4>1. Moved(rows[t], to, "none", "none").reworkCount = ReworkAfter(rows[t].reworkCount, "ai_review", to)
        BY <1>0 DEF Moved, Row
      <4>2. \/ rows'[t].reworkCount = rows[t].reworkCount
            \/ rev[v].pc = "requeue" /\ rows'[t].reworkCount = rows[t].reworkCount + 1
        BY <1>0, <3>3, <3>4, <4>1 DEF ReworkAfter, Terminal, Row
      <4> QED BY <3>1, <3>2, <3>4, <4>2 DEF Decides
    <3> QED BY <1>0, <1>1, <1>2, <3>3, <3>4
  <2> QED BY <1>5, <2>1, <2>2, <2>3 DEF ReviewStep
<1>6. ASSUME NEW c \in Caller, NEW u \in Task, Request(c, u) PROVE Goal
  BY <1>1, <1>6
     DEF Request, RunTask, RunUnauthenticated, CancelTask, SubmitReview, Finalize, DeleteTask,
         DeleteTaskBranch, RemoveWorktree, SyncBranch
<1>7. ASSUME NEW c \in Caller, HandlerStep(c) \/ HandlerFails(c) PROVE Goal
  <2> DEFINE u == call[c].task
             r == call[c].row
  <2> USE DEF At
  <2>0. /\ call[c].pc # "idle" => u \in Task
        /\ call[c].pc \notin NoCopy => r \in Row
    BY DEF Typed, CallsTyped, HandlersHold, NoCopy
  <2>1. ~ (RunAuthFail(c) \/ CancelGet(c) \/ CancelMove(c) \/ ReviewFeedback(c) \/ ReviewVerdict(c))
    BY DEF RunAuthFail, CancelGet, CancelMove, ReviewFeedback, ReviewVerdict, HandlersQuiet
  <2>2. CASE FinalizeMove(c) \/ RemovedMove(c) \/ RunAgain(c)
    <3>1. PICK to \in {"done", "cancelled", "queued"}, fin \in FinalizationKind :
            /\ Move(c, to, "none", fin)
            /\ to = "queued" => r.status \in {"aborted", "failed"}
      BY <2>2 DEF FinalizeMove, RemovedMove, RunAgain, HandlersQuiet, FinalizationKind
    <3>2. rows'[t] = rows[t]
      <4>1. CASE u # t
        BY <1>0, <3>1, <4>1 DEF Move
      <4>2. CASE u = t
        BY <1>0, <3>1, <4>2 DEF Move, TransitionAccepted, CanTransition, AllowedTransitions, Status
      <4> QED BY <4>1, <4>2
    <3> QED BY <1>1, <3>2
  <2>3. CASE MarkMerged(c)
    <3>1. u \in Task /\ r \in Row /\ [r EXCEPT !.finalization = "merged"] \in Row
      BY <2>0, <2>3 DEF MarkMerged, Row, FinalizationKind, NoCopy
    <3>2. r \in Copies(u) /\ SameColumns([r EXCEPT !.finalization = "merged"], r)
      BY <2>3, <3>1 DEF MarkMerged, Copies, SameColumns, Row
    <3>3. UNCHANGED rows \/ Saves(u)
      BY <2>3, <3>1, <3>2, SaveSaves DEF MarkMerged
    <3> QED BY <1>1, <1>2, <3>3
  <2>4. CASE ClearBranch(c) \/ SyncWrite(c)
    <3>1. u \in Task /\ r.branchExists \in BOOLEAN
      BY <2>0, <2>4 DEF ClearBranch, SyncWrite, Row, NoCopy
    <3>2. UNCHANGED rows \/ Saves(u)
      BY <2>4, <3>1, SetBranchSaves DEF ClearBranch, SyncWrite
    <3> QED BY <1>1, <1>2, <3>2
  <2>5. CASE DeleteRow(c)
    BY <1>0, <1>1, <1>2, <2>5 DEF DeleteRow, Drops
  <2>6. CASE CallEnqueue(c) \/ FinalizeGet(c) \/ FinalizeRemove(c) \/ MergeAgain(c) \/ DeleteCancel(c)
             \/ DeleteWorktree(c) \/ DropBranch(c) \/ RemovedGet(c) \/ SyncCheck(c) \/ HandlerFails(c)
    BY <1>1, <2>6
       DEF CallEnqueue, FinalizeGet, FinalizeRemove, MergeAgain, DeleteCancel, DeleteWorktree,
           DropBranch, RemovedGet, SyncCheck, HandlerFails
  <2> QED BY <1>7, <2>1, <2>2, <2>3, <2>4, <2>5, <2>6 DEF HandlerStep
<1>8. CASE (\E u \in Task : Reap(u)) \/ ChangeConcurrency \/ ShutDown \/ UNCHANGED allVars
  BY <1>1, <1>8 DEF Reap, ChangeConcurrency, SetConcurrency, ShutDown, Shutdown, allVars, vars
<1>9. CASE Restart
  <2>1. rows'[t] = [rows[t] EXCEPT !.branchExists = branch[t]]
    BY <1>9 DEF Restart, Recovered
  <2> QED BY <1>0, <2>1 DEF Row
<1> QED BY <1>4, <1>5, <1>6, <1>7, <1>8, <1>9 DEF SNext, Goroutines

\* Where the reviewers of a step come from: from the review they are at, or from
\* the run that has just moved its row to ai_review.
ReviewerAfter(v) ==
  /\ rev'[v].pc \in InCharge =>
       \/ rev[v].pc \in InCharge /\ rev'[v].task = rev[v].task
       \/ LET t == rev'[v].task IN
          /\ rev[v].pc = "idle" /\ t \in Task
          /\ rows[t] # Absent /\ rows[t].status = "in_progress"
          /\ rows'[t].status = "ai_review"
          /\ rev'[v].pc = "register"
          /\ \A w \in Rev \ {v} : rev'[w] = rev[w]
  /\ rev'[v].pc = "requeue" =>
       \/ rev[v].pc = "requeue"
       \/ rev[v].pc = "judge" /\ ~ AtCap(rev[v].mem)

\* A reviewer is new, is in the same review, or moved on by itself.
LEMMA ReviewersCome ==
  ASSUME Typed, [SNext]_allVars, NEW v \in Rev
  PROVE  ReviewerAfter(v)
<1> USE DEF InCharge
<1>0. /\ DOMAIN rev = Rev
      /\ rev \in [Rev -> [pc : ReviewPc, task : Task \cup {None},
                         ctx : {"live", "cancelled", "timeout"}, mem : RowOrNone]]
      /\ rows \in [Task -> RowOrNone] /\ aiReviews \in [Task -> Rev \cup {None}]
  BY DEF Typed, TablesTyped, RevsTyped
<1>1. CASE rev'[v].pc = rev[v].pc /\ rev'[v].task = rev[v].task
  BY <1>1 DEF ReviewerAfter
<1>2. CASE rev'[v].pc \notin InCharge
  BY <1>2 DEF ReviewerAfter
<1>3. ASSUME NEW t \in Task, Cancel(t) PROVE ReviewerAfter(v)
  BY <1>0, <1>1, <1>3 DEF Cancel
<1>4. ASSUME NEW p \in Proc, DispatchStep(p) PROVE ReviewerAfter(v)
  <2>1. CASE Complete(p)
    <3> DEFINE t == job[p]
    <3>1. t \in Task
      BY <2>1 DEF Complete, Typed, ProcsTyped, DispatchersHold
    <3>2. \/ UNCHANGED rev
          \/ \E w \in Rev : /\ rev[w].pc = "idle"
                            /\ rev' = [rev EXCEPT ![w].pc = "register", ![w].task = t]
                            /\ TransitionAccepted(rows[t], "in_progress", "ai_review", "none", "none")
                            /\ rows' = [rows EXCEPT ![t] = Moved(rows[t], "ai_review", "none", "none")]
      BY <2>1 DEF Complete, Try
    <3>3. CASE UNCHANGED rev
      BY <1>1, <3>3
    <3>4. ASSUME NEW w \in Rev, rev[w].pc = "idle",
                 rev' = [rev EXCEPT ![w].pc = "register", ![w].task = t],
                 TransitionAccepted(rows[t], "in_progress", "ai_review", "none", "none"),
                 rows' = [rows EXCEPT ![t] = Moved(rows[t], "ai_review", "none", "none")]
          PROVE  ReviewerAfter(v)
      <4>1. CASE w # v
        BY <1>0, <1>1, <3>4, <4>1
      <4>2. CASE w = v
        <5>1. rows[t] \in Row /\ rows[t] # Absent /\ rows[t].status = "in_progress"
          BY <1>0, <3>1, <3>4 DEF TransitionAccepted, RowOrNone
        <5>2. rows'[t].status = "ai_review"
          BY <1>0, <3>1, <3>4, <5>1, MovedKeeps
        <5>3. rev'[v].pc = "register" /\ rev'[v].task = t /\ \A x \in Rev \ {v} : rev'[x] = rev[x]
          BY <1>0, <3>4, <4>2
        <5> QED BY <3>1, <3>4, <4>2, <5>1, <5>2, <5>3 DEF ReviewerAfter
      <4> QED BY <4>1, <4>2
    <3> QED BY <3>2, <3>3, <3>4
  <2>2. CASE ~ Complete(p)
    <3>1. UNCHANGED rev
      BY <1>4, <2>2
         DEF DispatchStep, TakeSem, Acquire, AcquireCancelled, Lookup, Claim, EnsureWorktree, Fail,
             Persist, PlanReturns, PlanCommit, PlanAbandon, AgentReturns, Outcome, Release, Unregister
    <3> QED BY <1>1, <3>1
  <2> QED BY <2>1, <2>2
<1>5. ASSUME NEW w \in Rev, ReviewStep(w) \/ RevTimeout(w) PROVE ReviewerAfter(v)
  <2>1. CASE w # v
    <3>1. rev'[v] = rev[v]
      BY <1>0, <1>5, <2>1
         DEF ReviewStep, RevTimeout, RevRegister, RevGet, RevReturns, RevAbort, RevApprove, RevJudge,
             RevRequeue, RevEnqueue, PassWait, PassAdvance, RevExit, RevGoto
    <3> QED BY <1>1, <3>1
  <2>2. CASE w = v
    <3> USE <1>0 DEF RevGoto
    <3>1. CASE RevRegister(v) \/ RevReturns(v) \/ PassWait(v) \/ RevTimeout(v)
      BY <3>1 DEF RevRegister, RevReturns, PassWait, RevTimeout, ReviewerAfter
    <3>2. CASE RevGet(v)
      BY <3>2 DEF RevGet, ReviewerAfter
    <3>3. CASE RevAbort(v) \/ RevApprove(v) \/ RevRequeue(v) \/ RevEnqueue(v) \/ PassAdvance(v)
      BY <1>2, <3>3 DEF RevAbort, RevApprove, RevRequeue, RevEnqueue, PassAdvance
    <3>4. CASE RevJudge(v)
      BY <3>4 DEF RevJudge, ReviewerAfter
    <3>5. CASE RevExit(v)
      BY <1>2, <3>5 DEF RevExit, IdleRev
    <3> QED BY <1>5, <2>2, <3>1, <3>2, <3>3, <3>4, <3>5 DEF ReviewStep
  <2> QED BY <2>1, <2>2
<1>6. ASSUME NEW c \in Caller, NEW t \in Task, Request(c, t) PROVE ReviewerAfter(v)
  <2>1. UNCHANGED rev \/ Cancel(t)
    BY <1>6
       DEF Request, RunTask, RunUnauthenticated, CancelTask, SubmitReview, Finalize, DeleteTask,
           DeleteTaskBranch, RemoveWorktree, SyncBranch, orchestrator
  <2> QED BY <1>1, <1>3, <2>1
<1>7. ASSUME NEW c \in Caller, HandlerStep(c) \/ HandlerFails(c) PROVE ReviewerAfter(v)
  <2>1. CASE DeleteCancel(c)
    <3>1. call[c].task \in Task
      BY <2>1 DEF DeleteCancel, At, Typed, CallsTyped, HandlersHold
    <3> QED BY <1>1, <1>3, <2>1, <3>1 DEF DeleteCancel
  <2>2. CASE ~ DeleteCancel(c)
    <3>1. UNCHANGED rev
      BY <1>7, <2>2
         DEF HandlerStep, HandlerFails, RunAuthFail, RunAgain, CallEnqueue, CancelGet, CancelMove,
             ReviewFeedback, ReviewVerdict, FinalizeGet, FinalizeRemove, FinalizeMove, MergeAgain,
             MarkMerged, ClearBranch, DeleteWorktree, DeleteRow, DropBranch, RemovedGet,
             RemovedMove, SyncCheck, SyncWrite, orchestrator
    <3> QED BY <1>1, <3>1
  <2> QED BY <2>1, <2>2
<1>8. CASE (\E t \in Task : Reap(t)) \/ ChangeConcurrency \/ ShutDown \/ UNCHANGED allVars
  BY <1>1, <1>8 DEF Reap, ChangeConcurrency, SetConcurrency, ShutDown, Shutdown, allVars, vars
<1>9. CASE Restart
  BY <1>2, <1>9 DEF Restart, IdleRev
<1> QED BY <1>4, <1>5, <1>6, <1>7, <1>8, <1>9 DEF SNext, Goroutines

\* No count, in the table or in a copy that may be written to it, is past the cap.
CountsCapped ==
  /\ ReworkWithinCap
  /\ \A p \in Proc : pc[p] \in DispatchCopy => mem[p].reworkCount <= ReworkCap
  /\ \A v \in Rev : rev[v].pc \in ReviewCopy => rev[v].mem.reworkCount <= ReworkCap
  /\ \A c \in Caller : call[c].pc \in {"merge_again", "mark_merged"}
                         => call[c].row.reworkCount <= ReworkCap

\* A review has one reviewer, the row waits for it, and what it decides by is
\* what the row says.
OneReviewer ==
  \A v \in Rev : rev[v].pc \in InCharge =>
    /\ \A w \in Rev : rev[w].pc \in InCharge /\ rev[w].task = rev[v].task => w = v
    /\ rows[rev[v].task] # Absent =>
         /\ rows[rev[v].task].status = "ai_review"
         /\ rev[v].pc \in ReviewCopy => rev[v].mem.reworkCount = rows[rev[v].task].reworkCount
         /\ rev[v].pc = "requeue" => rows[rev[v].task].reworkCount < ReworkCap

LoopBounded == HandlersQuiet /\ DispatchersPlan /\ CountsCapped /\ OneReviewer

\* What a save may do to the count: nothing past the cap, and to a row under
\* review nothing at all.
LEMMA SaveCounts ==
  ASSUME Typed, CopiesStamped, LoopBounded, NEW t \in Task, rows[t] # Absent, Saves(t)
  PROVE  /\ rows'[t].reworkCount <= ReworkCap
         /\ rows[t].status = "ai_review" => rows'[t].reworkCount = rows[t].reworkCount
<1> USE DEF LoopBounded
<1>0. rows \in [Task -> RowOrNone] /\ rows[t] \in Row
  BY AbsentAssumption DEF Saves, Typed, TablesTyped
<1>1. PICK h \in Copies(t) \cup {rows[t]} :
        rows'[t].reworkCount = h.reworkCount /\ h.status = rows[t].status
  BY <1>0 DEF Saves, SameColumns
<1>2. CASE h = rows[t]
  BY <1>1, <1>2 DEF CountsCapped, ReworkWithinCap
<1>3. ASSUME NEW p \in Proc, job[p] = t, pc[p] \in {"persist", "plan"}, h = mem[p]
      PROVE  h.reworkCount <= ReworkCap /\ rows[t].status # "ai_review"
  BY <1>1, <1>3 DEF CountsCapped, DispatchCopy, DispatchersPlan
<1>4. ASSUME NEW v \in Rev, rev[v].task = t, rev[v].pc \in {"review", "judge"}, h = rev[v].mem
      PROVE  h.reworkCount <= ReworkCap /\ h.reworkCount = rows[t].reworkCount
  BY <1>4 DEF CountsCapped, OneReviewer, InCharge, ReviewCopy
<1>5. ASSUME NEW c \in Caller, call[c].task = t, call[c].pc \in {"feedback", "mark_merged"},
             h = call[c].row
      PROVE  h.reworkCount <= ReworkCap /\ rows[t].status # "ai_review"
  BY <1>5 DEF CountsCapped, HandlersQuiet, CopiesStamped
<1> QED BY <1>1, <1>2, <1>3, <1>4, <1>5 DEF Copies

\* What any step does to the count.
LEMMA CountAfter ==
  ASSUME PlannerOn, Interfering \cap Ops = {}, Typed, CopiesStamped, LoopBounded,
         [SNext]_allVars, NEW t \in Task, rows'[t] # Absent
  PROVE  /\ rows[t] # Absent /\ rows[t] \in Row
         /\ rows'[t].reworkCount <= ReworkCap
         /\ rows[t].status = "ai_review" =>
              \/ rows'[t].status = "ai_review" /\ rows'[t].reworkCount = rows[t].reworkCount
              \/ \E v \in Rev : rev[v].task = t /\ Decides(v)
<1> USE DEF LoopBounded
<1>0. /\ rows \in [Task -> RowOrNone] /\ rows'[t] \in Row /\ Absent \notin Row
      /\ ReworkCap \in Nat
      /\ rows[t] # Absent => rows[t] \in Row /\ rows[t].reworkCount \in Nat
                             /\ rows[t].reworkCount <= ReworkCap
  BY TypedNext, AbsentAssumption, LimitAssumption
     DEF Typed, TablesTyped, RowOrNone, CountsCapped, ReworkWithinCap, Row
<1>1. rows[t] # Absent
  BY ZenonT(60), <1>0, RowAfter, StatusAfter DEF Restart
<1>2. rows[t].status = "ai_review" =>
        \/ rows'[t].status = "ai_review" /\ rows'[t].reworkCount = rows[t].reworkCount
        \/ \E v \in Rev : rev[v].task = t /\ Decides(v)
  BY <1>1, FromReview, SaveCounts, StatusAfter
<1>3. rows'[t].reworkCount <= ReworkCap
  <2>1. CASE rows'[t] = rows[t]
    BY <1>0, <1>1, <2>1
  <2>2. CASE Saves(t)
    BY <1>1, <2>2, SaveCounts
  <2>3. CASE rows[t].status = "ai_review"
    <3>1. ASSUME NEW v \in Rev, rev[v].task = t, Decides(v)
          PROVE  rows'[t].reworkCount <= ReworkCap
      BY <1>0, <1>1, <3>1 DEF Decides, OneReviewer, InCharge
    <3> QED BY <1>0, <1>1, <1>2, <2>3, <3>1
  <2>4. ASSUME NEW tos, MovesTo(t, tos), rows[t].status # "ai_review"
        PROVE  rows'[t].reworkCount <= ReworkCap
    <3>1. PICK to, code, fin : rows'[t] = Moved(rows[t], to, code, fin)
      BY <1>0, <2>4 DEF MovesTo
    <3>2. rows'[t].reworkCount = ReworkAfter(rows[t].reworkCount, rows[t].status, to)
      BY <1>0, <1>1, <3>1 DEF Moved, Row
    <3> QED BY <1>0, <1>1, <2>4, <3>2 DEF ReworkAfter
  <2>5. CASE Restart
    <3>1. rows'[t] = [Recovered(rows[t]) EXCEPT !.branchExists = branch[t]]
      BY <1>1, <2>5 DEF Restart
    <3>2. rows'[t].reworkCount = rows[t].reworkCount
      BY <1>0, <1>1, <3>1 DEF Recovered, Row
    <3> QED BY <1>0, <1>1, <3>2
  <2> QED BY <1>0, <2>1, <2>2, <2>3, <2>4, <2>5, RowAfter
<1> QED BY <1>0, <1>1, <1>2, <1>3

\* Every step keeps the rework loop within its bound.
LEMMA LoopNext ==
  ASSUME PlannerOn, Interfering \cap Ops = {}, Typed, CopiesStamped, LoopBounded,
         [SNext]_allVars
  PROVE  LoopBounded'
<1> USE DEF LoopBounded
<1>0. /\ Typed' /\ rows \in [Task -> RowOrNone] /\ ReworkCap \in Nat /\ Absent \notin Row
      /\ \A t \in Task : rows[t] \in Row => rows[t].reworkCount \in Nat
                                           /\ rows[t].reworkCount <= ReworkCap
  BY TypedNext, LimitAssumption, AbsentAssumption
     DEF Typed, TablesTyped, CountsCapped, ReworkWithinCap, Row
<1>1. HandlersQuiet' /\ DispatchersPlan'
  BY QuietNext, PlanNext
<1>2. CountsCapped'
  <2>1. ReworkWithinCap'
    BY CountAfter DEF ReworkWithinCap
  <2>2. ASSUME NEW p \in Proc, pc'[p] \in DispatchCopy PROVE mem'[p].reworkCount <= ReworkCap
    <3>1. pc[p] = "lookup" => job[p] \in Task
      BY DEF Typed, ProcsTyped, DispatchersHold
    <3> QED BY <1>0, <2>2, <3>1, DispatchCopies DEF DispatchRead, CountsCapped
  <2>3. ASSUME NEW v \in Rev, rev'[v].pc \in ReviewCopy PROVE rev'[v].mem.reworkCount <= ReworkCap
    <3>1. rev[v].pc = "get" => rev[v].task \in Task
      BY DEF Typed, RevsTyped, ReviewersHold
    <3> QED BY <1>0, <2>3, <3>1, ReviewCopies DEF ReviewRead, CountsCapped
  <2>4. ASSUME NEW c \in Caller, call'[c].pc \in {"merge_again", "mark_merged"}
        PROVE  call'[c].row.reworkCount <= ReworkCap
    <3>1. call'[c].task \in Task
      BY <1>0, <2>4 DEF Typed, CallsTyped, HandlersHold
    <3> QED BY <1>0, <2>4, <3>1, HandlerCopies DEF HandlerRead, HandlerCopy, CountsCapped
  <2> QED BY <2>1, <2>2, <2>3, <2>4 DEF CountsCapped
<1>3. OneReviewer'
  <2> SUFFICES ASSUME NEW v \in Rev, rev'[v].pc \in InCharge
               PROVE  LET t == rev'[v].task IN
                      /\ \A w \in Rev : rev'[w].pc \in InCharge /\ rev'[w].task = t => w = v
                      /\ rows'[t] # Absent =>
                           /\ rows'[t].status = "ai_review"
                           /\ rev'[v].pc \in ReviewCopy => rev'[v].mem.reworkCount = rows'[t].reworkCount
                           /\ rev'[v].pc = "requeue" => rows'[t].reworkCount < ReworkCap
    BY DEF OneReviewer
  <2> DEFINE t == rev'[v].task
  <2>0. t \in Task
    BY <1>0 DEF Typed, RevsTyped, ReviewersHold, InCharge
  <2>1. CASE rev[v].pc \in InCharge /\ rev[v].task = t
    <3>1. \A w \in Rev : rev'[w].pc \in InCharge /\ rev'[w].task = t => w = v
      BY <2>1, ReviewersCome DEF ReviewerAfter, OneReviewer
    <3>2. ASSUME rows'[t] # Absent
          PROVE  /\ rows'[t].status = "ai_review"
                 /\ rev'[v].pc \in ReviewCopy => rev'[v].mem.reworkCount = rows'[t].reworkCount
                 /\ rev'[v].pc = "requeue" => rows'[t].reworkCount < ReworkCap
      <4>1. rows[t] # Absent /\ rows[t].status = "ai_review" /\ rows[t] \in Row
        BY <2>0, <2>1, <3>2, CountAfter DEF OneReviewer
      <4>2. ASSUME NEW u \in Rev, rev[u].task = t, Decides(u) PROVE FALSE
        BY <2>1, <4>2 DEF Decides, OneReviewer, InCharge
      <4>3. rows'[t].status = "ai_review" /\ rows'[t].reworkCount = rows[t].reworkCount
        BY <2>0, <3>2, <4>1, <4>2, CountAfter
      <4>4. rev'[v].pc \in ReviewCopy => rev'[v].mem.reworkCount = rows'[t].reworkCount
        BY <2>1, <4>1, <4>3, ReviewCopies DEF ReviewRead, OneReviewer
      <4>5. rev'[v].pc = "requeue" => rows'[t].reworkCount < ReworkCap
        <5>1. CASE rev[v].pc = "requeue"
          BY <2>1, <4>1, <4>3, <5>1 DEF OneReviewer
        <5>2. CASE rev[v].pc = "judge" /\ ~ AtCap(rev[v].mem)
          <6>1. rev[v].mem.reworkCount = rows[t].reworkCount
            BY <2>1, <4>1, <5>2 DEF OneReviewer, ReviewCopy
          <6>2. rows[t].reworkCount \in Nat
            BY <4>1 DEF Row
          <6> QED BY <1>0, <4>3, <5>2, <6>1, <6>2 DEF AtCap
        <5> QED BY <5>1, <5>2, ReviewersCome DEF ReviewerAfter
      <4> QED BY <4>3, <4>4, <4>5
    <3> QED BY <3>1, <3>2
  <2>2. CASE /\ rev[v].pc = "idle" /\ rows[t] # Absent /\ rows[t].status = "in_progress"
             /\ rows'[t].status = "ai_review" /\ rev'[v].pc = "register"
             /\ \A w \in Rev \ {v} : rev'[w] = rev[w]
    <3>1. \A w \in Rev : rev'[w].pc \in InCharge /\ rev'[w].task = t => w = v
      BY <2>2 DEF OneReviewer
    <3> QED BY <2>2, <3>1 DEF ReviewCopy
  <2> QED BY <2>1, <2>2, ReviewersCome DEF ReviewerAfter
<1> QED BY <1>1, <1>2, <1>3

\* The rework loop is bounded by its cap although the cap is judged by a copy
\* of the row: a review has one reviewer, nothing moves the row while it works,
\* and every copy that may be saved carries a count within the cap.  Stated for
\* a system whose users do not decide reviews that are under way: a rework they
\* ask for is one the cap does not stop.
THEOREM LoopAlwaysBounded ==
  ASSUME PlannerOn, Interfering \cap Ops = {}
  PROVE  SSpec => []ReworkWithinCap
<1>1. SInit => LoopBounded
  <2> SUFFICES ASSUME SInit PROVE LoopBounded
    OBVIOUS
  <2>1. \A t \in Task : rows[t].reworkCount = 0
    BY DEF SInit, Init, NewRow
  <2>2. /\ \A p \in Proc : pc[p] = "idle"
        /\ \A v \in Rev : rev[v].pc = "idle"
        /\ \A c \in Caller : call[c].pc = "idle"
    BY DEF SInit, Init, IdleRev, IdleCall
  <2> QED
    BY <2>1, <2>2, LimitAssumption
       DEF LoopBounded, HandlersQuiet, DispatchersPlan, CountsCapped, ReworkWithinCap, OneReviewer,
           DispatchCopy, ReviewCopy, InCharge
<1>2. Typed /\ OneDispatcher /\ RowsStamped /\ CopiesStamped /\ LoopBounded /\ [SNext]_allVars
        => RowsStamped' /\ CopiesStamped' /\ LoopBounded'
  BY StampNext, LoopNext
<1>3. LoopBounded => ReworkWithinCap
  BY DEF LoopBounded, CountsCapped
<1> QED
  BY StampInit, <1>1, <1>2, <1>3, TypedAlways, OneDispatcherAlways, PTL DEF SSpec
=============================================================================
