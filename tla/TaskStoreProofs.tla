--------------------------- MODULE TaskStoreProofs ---------------------------
(***************************************************************************)
(* The tasks table stays valid whatever stale copies its clients write     *)
(* back, for any sets of tasks and clients.                                *)
(***************************************************************************)
EXTENDS TaskStore, TaskRulesProofs

-----------------------------------------------------------------------------
\* Type correctness of the store for every set of tasks and clients.
THEOREM TypeCorrect == Spec => []TypeOK
<1>1. Init => TypeOK
  BY DEF Init, TypeOK
<1>2. TypeOK /\ [Next]_vars => TypeOK'
  <2> SUFFICES ASSUME TypeOK, [Next]_vars PROVE TypeOK'
    OBVIOUS
  <2> USE DEF TypeOK
  <2>1. ASSUME NEW t \in Task, Create(t) PROVE TypeOK'
    <3>1. NewRow \in Row
      BY DEF NewRow, Row, Status, ErrorCode, FinalizationKind, Feedback
    <3> QED BY <2>1, <3>1 DEF Create
  <2>2. ASSUME NEW t \in Task, Delete(t) PROVE TypeOK'
    BY <2>2 DEF Delete
  <2>3. ASSUME NEW t \in Task, NEW b \in BOOLEAN, SetBranchExists(t, b) PROVE TypeOK'
    <3>1. rows[t] \in Row
      BY <2>3 DEF SetBranchExists
    <3>2. [rows[t] EXCEPT !.branchExists = b] \in Row
      BY <3>1 DEF Row
    <3> QED BY <2>3, <3>2 DEF SetBranchExists
  <2>4. ASSUME NEW t \in Task, NEW from \in Status, NEW to \in Status, NEW code \in Codes,
               NEW fin \in FinalizationKind, Transition(t, from, to, code, fin)
        PROVE  TypeOK'
    <3>1. rows[t] \in Row /\ code \in ErrorCode
      BY <2>4, CodesAssumption DEF Transition, TransitionAccepted
    <3>2. Moved(rows[t], to, code, fin) \in Row
      BY <3>1, MovedTyped
    <3> QED BY <2>4, <3>2 DEF Transition
  <2>5. ASSUME NEW c \in Client, NEW t \in Task, Get(c, t) PROVE TypeOK'
    <3>1. [id |-> t, row |-> rows[t]] \in Held
      BY <2>5 DEF Get, Held
    <3> QED BY <2>5, <3>1 DEF Get
  <2>6. ASSUME NEW c \in Client, Edit(c) PROVE TypeOK'
    <3>1. copy[c] \in Held /\ copy[c].row \in Row
      BY <2>6 DEF Edit, Held
    <3>2. PICK r \in {[copy[c].row EXCEPT !.feedback = f] : f \in {"ai", "user"}}
                     \cup {[copy[c].row EXCEPT !.worktree = TRUE]}
                     \cup (IF copy[c].row.finalization = "keep"
                           THEN {[copy[c].row EXCEPT !.finalization = "merged"]} ELSE {}) :
                copy' = [copy EXCEPT ![c].row = r]
      BY <2>6 DEF Edit
    <3>3. r \in Row
      BY ZenonT(60), <3>1, <3>2 DEF Row, Feedback, FinalizationKind
    <3>4. [copy[c] EXCEPT !.row = r] \in Held
      BY <3>1, <3>3 DEF Held
    <3> QED BY <2>6, <3>2, <3>4 DEF Edit
  <2>7. ASSUME NEW c \in Client, UpdateFields(c) PROVE TypeOK'
    <3>1. /\ copy[c] \in Held /\ copy[c].id \in Task /\ copy[c].row \in Row
          /\ rows[copy[c].id] \in Row
      BY <2>7 DEF UpdateFields, UpdateAccepted, Held
    <3>2. Rewritten(rows[copy[c].id], copy[c].row) \in Row
      BY <3>1 DEF Rewritten, Row
    <3> QED BY <2>7, <3>1, <3>2 DEF UpdateFields
  <2>8. ASSUME NEW c \in Client, NEW to \in Status, Claim(c, to) PROVE TypeOK'
    <3>1. /\ copy[c] \in Held /\ copy[c].id \in Task /\ copy[c].row \in Row
          /\ rows[copy[c].id] \in Row
      BY <2>8 DEF Claim, TransitionAccepted, Held
    <3>2. Moved(rows[copy[c].id], to, "none", "none") \in Row
      BY <3>1, MovedTyped DEF ErrorCode, FinalizationKind
    <3>3. [copy[c] EXCEPT !.row.status = to] \in Held
      <4>1. [copy[c].row EXCEPT !.status = to] \in Row
        BY <3>1 DEF Row
      <4> QED BY <3>1, <4>1 DEF Held
    <3> QED BY <2>8, <3>1, <3>2, <3>3 DEF Claim
  <2>9. CASE Restart
    <3>1. \A t \in Task : Recovered(rows[t]) \in Row \cup {Absent}
      BY ZenonT(60) DEF Recovered, Row, Status, ErrorCode
    <3> QED BY <2>9, <3>1 DEF Restart
  <2>10. CASE UNCHANGED vars
    BY <2>10 DEF vars
  <2> QED
    BY <2>1, <2>2, <2>3, <2>4, <2>5, <2>6, <2>7, <2>8, <2>9, <2>10 DEF Next
<1> QED
  BY <1>1, <1>2, PTL DEF Spec

\* Rows always satisfy Task.Validate and finished_at marks exactly the settled
\* statuses: the inductive invariant adds that no in-memory copy carries a
\* finish stamp its status does not have.
THEOREM StoreInvariant == Spec => []Inv
<1>1. Init => Inv
  BY DEF Init, Inv, RowsValid, FinishedIffSettled, CopiesConsistent, RowsUsed
<1>2. TypeOK /\ TypeOK' /\ Inv /\ [Next]_vars => Inv'
  <2> SUFFICES ASSUME TypeOK, TypeOK', Inv, [Next]_vars PROVE Inv'
    OBVIOUS
  <2> USE DEF Inv, RowsValid, FinishedIffSettled, CopiesConsistent, RowsUsed, TypeOK
  <2>1. ASSUME NEW t \in Task, Create(t) PROVE Inv'
    BY <2>1 DEF Create, NewRow, Validate, StampsFinished
  <2>2. ASSUME NEW t \in Task, Delete(t) PROVE Inv'
    BY <2>2 DEF Delete
  <2>3. ASSUME NEW t \in Task, NEW b \in BOOLEAN, SetBranchExists(t, b) PROVE Inv'
    BY <2>3 DEF SetBranchExists, Validate, Row
  <2>4. ASSUME NEW t \in Task, NEW from \in Status, NEW to \in Status, NEW code \in Codes,
               NEW fin \in FinalizationKind, Transition(t, from, to, code, fin)
        PROVE  Inv'
    <3>1. rows[t] \in Row /\ code \in ErrorCode /\ TransitionAccepted(rows[t], from, to, code, fin)
      BY <2>4, CodesAssumption DEF Transition, TransitionAccepted
    <3>2. LET m == Moved(rows[t], to, code, fin)
          IN Validate(m) /\ m.status = to /\ (m.finished <=> to \in StampsFinished)
      BY <3>1, AbsentAssumption, MovedGood
    <3>3. RowsUsed'
      BY <2>4, <3>1 DEF Transition, TransitionAccepted
    <3>4. RowsValid' /\ FinishedIffSettled'
      BY <2>4, <3>2 DEF Transition
    <3>5. CopiesConsistent'
      BY <2>4 DEF Transition
    <3> QED BY <3>3, <3>4, <3>5
  <2>5. ASSUME NEW c \in Client, NEW t \in Task, Get(c, t) PROVE Inv'
    BY <2>5 DEF Get
  <2>6. ASSUME NEW c \in Client, Edit(c) PROVE Inv'
    <3>1. copy[c] \in Held /\ copy[c].row \in Row
      BY <2>6 DEF Edit, Held
    <3>2. PICK r \in {[copy[c].row EXCEPT !.feedback = f] : f \in {"ai", "user"}}
                     \cup {[copy[c].row EXCEPT !.worktree = TRUE]}
                     \cup (IF copy[c].row.finalization = "keep"
                           THEN {[copy[c].row EXCEPT !.finalization = "merged"]} ELSE {}) :
                copy' = [copy EXCEPT ![c].row = r]
      BY <2>6 DEF Edit
    <3>3. r.status = copy[c].row.status /\ r.finished = copy[c].row.finished
      BY <3>1, <3>2 DEF Row
    <3> QED BY <2>6, <3>1, <3>2, <3>3 DEF Edit, Held
  <2>7. ASSUME NEW c \in Client, UpdateFields(c) PROVE Inv'
    <3>1. /\ copy[c].id \in Task /\ copy[c].row \in Row /\ rows[copy[c].id] \in Row
          /\ UpdateAccepted(rows[copy[c].id], copy[c].row)
      BY <2>7 DEF UpdateFields, UpdateAccepted, Held
    <3>2. LET m == Rewritten(rows[copy[c].id], copy[c].row)
          IN Validate(m) /\ (m.finished <=> m.status \in StampsFinished)
      BY <2>7, <3>1, RewrittenGood DEF UpdateFields
    <3>3. RowsUsed'
      BY <2>7, <3>1 DEF UpdateFields, UpdateAccepted
    <3>4. RowsValid' /\ FinishedIffSettled'
      BY <2>7, <3>1, <3>2 DEF UpdateFields
    <3>5. CopiesConsistent'
      BY <2>7 DEF UpdateFields
    <3> QED BY <3>3, <3>4, <3>5
  <2>8. ASSUME NEW c \in Client, NEW to \in Status, Claim(c, to) PROVE Inv'
    <3> DEFINE t == copy[c].id
               from == copy[c].row.status
               m == Moved(rows[t], to, "none", "none")
    <3>1. /\ copy[c] \in Held /\ t \in Task /\ copy[c].row \in Row /\ rows[t] \in Row
          /\ from \in Status
          /\ TransitionAccepted(rows[t], from, to, "none", "none")
          /\ rows' = [rows EXCEPT ![t] = m]
          /\ copy' = [copy EXCEPT ![c].row.status = to]
          /\ from \in {"queued", "planning"} /\ to \in {"planning", "in_progress"}
      BY <2>8 DEF Claim, TransitionAccepted, Held, Row
    <3>1a. /\ rows[t].finished <=> rows[t].status \in StampsFinished
          /\ "none" \in ErrorCode /\ "none" \in FinalizationKind
      BY <3>1 DEF TransitionAccepted, ErrorCode, FinalizationKind
    <3>2. Validate(m) /\ m.status = to /\ (m.finished <=> to \in StampsFinished)
      BY ONLY <3>1, <3>1a, MovedGood
    <3>3. /\ copy'[c].row.status = to
          /\ copy'[c].row.finished = copy[c].row.finished
          /\ \A d \in Client \ {c} : copy'[d] = copy[d]
      BY <3>1 DEF Held, Row
    <3>4. CopiesConsistent'
      BY <2>8, <3>1, <3>3 DEF Claim, StampsFinished
    <3>5. RowsValid' /\ FinishedIffSettled'
      BY <3>1, <3>2
    <3>6. RowsUsed'
      BY <2>8, <3>1 DEF Claim, TransitionAccepted
    <3> QED BY <3>4, <3>5, <3>6
  <2>9. CASE Restart
    <3>1. ASSUME NEW t \in Task, Recovered(rows[t]) # Absent
          PROVE  /\ Validate(Recovered(rows[t]))
                 /\ Recovered(rows[t]).finished <=> Recovered(rows[t]).status \in StampsFinished
      <4>1. rows[t] \in Row
        BY <3>1 DEF Recovered
      <4> QED BY <4>1, AbsentAssumption, RecoveredGood
    <3>2. RowsUsed'
      BY <2>9 DEF Restart, Recovered
    <3>3. RowsValid' /\ FinishedIffSettled' /\ CopiesConsistent'
      BY <2>9, <3>1 DEF Restart
    <3> QED BY <3>2, <3>3
  <2>10. CASE UNCHANGED vars
    BY <2>10 DEF vars
  <2> QED
    BY <2>1, <2>2, <2>3, <2>4, <2>5, <2>6, <2>7, <2>8, <2>9, <2>10 DEF Next
<1> QED
  BY <1>1, <1>2, TypeCorrect, PTL DEF Spec

\* finished_at is set exactly while the row is done, aborted or cancelled
\* (task_store.go, Transition), whatever stale copies UpdateFields writes back.
THEOREM StampsFollowStatus == Spec => []FinishedIffSettled
<1>1. Inv => FinishedIffSettled
  BY DEF Inv
<1> QED
  BY <1>1, StoreInvariant, PTL

-----------------------------------------------------------------------------
\* The status graph leaves no edge out of done and cancelled.
LEMMA ClosedHasNoEdge ==
  \A from \in {"done", "cancelled"}, to \in Status : ~ CanTransition(from, to)
  BY DEF CanTransition, AllowedTransitions, Status

\* A finalized or discarded task keeps its status until its row is deleted,
\* also through restarts and stale UpdateFields.
THEOREM ClosedTasksStayClosed == Spec => ClosedStaysClosed
<1>1. TypeOK /\ Inv /\ Next =>
        \A t \in Task : rows[t] # Absent /\ rows[t].status \in {"done", "cancelled"} =>
           rows'[t] = Absent \/ rows'[t].status = rows[t].status
  <2> SUFFICES ASSUME TypeOK, Inv, Next, NEW t \in Task,
                      rows[t] # Absent, rows[t].status \in {"done", "cancelled"}
               PROVE  rows'[t] = Absent \/ rows'[t].status = rows[t].status
    OBVIOUS
  <2> USE DEF TypeOK
  <2>1. ASSUME NEW u \in Task, Create(u) \/ Delete(u) PROVE rows'[t] = Absent \/ rows'[t] = rows[t]
    BY <2>1 DEF Create, Delete, Inv, RowsUsed
  <2>2. ASSUME NEW u \in Task, NEW b \in BOOLEAN, SetBranchExists(u, b)
        PROVE  rows'[t].status = rows[t].status
    BY <2>2 DEF SetBranchExists, Row
  <2>3. ASSUME NEW u \in Task, NEW from \in Status, NEW to \in Status, NEW code \in Codes,
               NEW fin \in FinalizationKind, Transition(u, from, to, code, fin)
        PROVE  rows'[t] = rows[t]
    BY <2>3, ClosedHasNoEdge DEF Transition, TransitionAccepted
  <2>4. ASSUME NEW c \in Client, NEW u \in Task, Get(c, u) PROVE rows'[t] = rows[t]
    BY <2>4 DEF Get
  <2>5. ASSUME NEW c \in Client, Edit(c) PROVE rows'[t] = rows[t]
    BY <2>5 DEF Edit
  <2>6. ASSUME NEW c \in Client, UpdateFields(c) PROVE rows'[t].status = rows[t].status
    BY <2>6 DEF UpdateFields, UpdateAccepted, Rewritten, Held, Row
  <2>7. ASSUME NEW c \in Client, NEW to \in Status, Claim(c, to) PROVE rows'[t] = rows[t]
    BY <2>7, ClosedHasNoEdge DEF Claim, TransitionAccepted
  <2>8. CASE Restart
    BY <2>8 DEF Restart, Recovered, Row
  <2> QED
    BY <2>1, <2>2, <2>3, <2>4, <2>5, <2>6, <2>7, <2>8 DEF Next
<1> QED
  BY <1>1, TypeCorrect, StoreInvariant, PTL DEF Spec, ClosedStaysClosed
=============================================================================
