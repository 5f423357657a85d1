--------------------------- MODULE TaskRulesProofs ---------------------------
(***************************************************************************)
(* What the row operators of TaskRules return and preserve, for every row: *)
(* the lemmas the proofs of the store and of the sidecar share.            *)
(***************************************************************************)
EXTENDS TaskRules, TLAPS

-----------------------------------------------------------------------------
\* Transition writes a row.
LEMMA MovedTyped ==
  ASSUME NEW r \in Row, NEW to \in Status, NEW code \in ErrorCode,
         NEW fin \in FinalizationKind
  PROVE  Moved(r, to, code, fin) \in Row
<1>1. ReworkAfter(r.reworkCount, r.status, to) \in Nat
  BY DEF ReworkAfter, Row
<1>2. /\ (IF to = "failed" THEN code ELSE "none") \in ErrorCode
      /\ (IF to = "done" THEN fin ELSE "none") \in FinalizationKind
  BY DEF ErrorCode, FinalizationKind
<1>3. /\ (r.started \/ to = "in_progress") \in BOOLEAN
      /\ (to \in StampsFinished \/ (r.finished /\ to # "queued")) \in BOOLEAN
  OBVIOUS
<1> QED BY <1>1, <1>2, <1>3 DEF Moved, Row

\* Transition writes a valid row with the right finish stamp.
LEMMA MovedGood ==
  ASSUME NEW r \in Row, NEW from \in Status, NEW to \in Status,
         NEW code \in ErrorCode, NEW fin \in FinalizationKind,
         TransitionAccepted(r, from, to, code, fin),
         r.finished <=> r.status \in StampsFinished
  PROVE  LET m == Moved(r, to, code, fin)
         IN /\ m \in Row
            /\ m.status = to
            /\ Validate(m)
            /\ m.finished <=> to \in StampsFinished
<1> DEFINE m == Moved(r, to, code, fin)
<1>1. m \in Row /\ m.status = to
  BY ZenonT(60), MovedTyped DEF Moved, Row
<1>2. Validate(m)
  BY DEF Moved, Row, Validate, TransitionAccepted
<1>3. m.finished <=> to \in StampsFinished
  BY DEF Moved, Row, TransitionAccepted, CanTransition, AllowedTransitions,
         StampsFinished, Status
<1> QED BY <1>1, <1>2, <1>3

\* UpdateFields keeps the status of the row and takes the rest from a copy of
\* the same status, so validity and the finish stamp carry over.
LEMMA RewrittenGood ==
  ASSUME NEW r \in Row, NEW c \in Row, UpdateAccepted(r, c),
         c.finished <=> c.status \in StampsFinished
  PROVE  LET m == Rewritten(r, c)
         IN /\ m \in Row
            /\ m.status = r.status
            /\ Validate(m)
            /\ m.finished <=> r.status \in StampsFinished
  BY DEF Rewritten, UpdateAccepted, Row, Validate

\* RecoverRunning turns an in_progress row into a valid failed one.
LEMMA RecoveredGood ==
  ASSUME NEW r \in Row, Validate(r), r.finished <=> r.status \in StampsFinished
  PROVE  LET m == Recovered(r)
         IN /\ m \in Row
            /\ Validate(m)
            /\ m.finished <=> m.status \in StampsFinished
  BY AbsentAssumption
     DEF Recovered, Row, Validate, StampsFinished, Status, ErrorCode

-----------------------------------------------------------------------------
\* UpdateFields writes a row, whatever copy it takes the columns from.
LEMMA RewrittenTyped ==
  ASSUME NEW r \in Row, NEW c \in Row
  PROVE  /\ Rewritten(r, c) \in Row
         /\ Rewritten(r, c).status = r.status
         /\ Rewritten(r, c).worktree = c.worktree
         /\ Rewritten(r, c).started = c.started
  BY DEF Rewritten, Row

\* A transition leaves the worktree alone and never clears started_at.
LEMMA MovedKeeps ==
  ASSUME NEW r \in Row, NEW to, NEW code, NEW fin
  PROVE  /\ Moved(r, to, code, fin).status = to
         /\ Moved(r, to, code, fin).worktree = r.worktree
         /\ Moved(r, to, code, fin).started = (r.started \/ to = "in_progress")
  BY DEF Moved, Row

\* Crash recovery keeps the columns it is not about.
LEMMA RecoveredTyped ==
  ASSUME NEW r \in Row
  PROVE  /\ Recovered(r) \in Row
         /\ Recovered(r).worktree = r.worktree
         /\ Recovered(r).started = r.started
         /\ Recovered(r).status = IF r.status = "in_progress" THEN "failed" ELSE r.status
  BY AbsentAssumption DEF Recovered, Row, Status, ErrorCode
=============================================================================
