--------------------------- MODULE SubtasksProofs ---------------------------
(***************************************************************************)
(* Whatever the plan, the number of slots, the failures and the edits: the *)
(* sessions of a round follow its plan, and an error ends the round.       *)
(***************************************************************************)
EXTENDS Subtasks, FiniteSetTheorems, TLAPS

-----------------------------------------------------------------------------
(* The invariants.                                                         *)

\* What the loop reads of a row.
Shaped(r) == {"status", "deps", "paths"} \subseteq DOMAIN r

Tables ==
  /\ DOMAIN rows \subseteq Id /\ DOMAIN subs \subseteq Id /\ fresh \subseteq Id
  /\ \A x \in DOMAIN rows : Shaped(rows[x])
  /\ \A x \in DOMAIN subs : Shaped(subs[x])
  /\ edit # None => Shaped(edit.row)
  /\ pc # "wave" => DOMAIN wave = {}
  /\ pc \in {"reset", "schedule", "wave", "cascade"} =>
       remaining \cup todo \cup DOMAIN wave \subseteq DOMAIN subs

\* Between waves and during one, the loop's books agree with its copies.
Books ==
  pc \in {"reset", "schedule", "wave"} =>
    /\ failed = {}
    /\ done \subseteq DOMAIN subs \ remaining
    /\ todo \subseteq remaining
    /\ pc # "reset" => todo = {}
    /\ \A x \in done : subs[x].status = "done"
    /\ \A x \in remaining \ (todo \cup DOMAIN wave) : subs[x].status = "pending"

\* A session's status tells where it is; an error is remembered.
Session(x) ==
  /\ wave[x] \in {"waiting", "running", "ended"}
  /\ wave[x] = "waiting" => subs[x].status = "pending"
  /\ wave[x] = "running" => subs[x].status = "doing"
  /\ wave[x] = "ended"   => subs[x].status = "done" \/ waveErr
  /\ subs[x].deps \subseteq done

Apart(S) == \A x, y \in S : x # y => ~ Overlap(subs[x].paths, subs[y].paths)

Waves ==
  pc = "wave" =>
    /\ DOMAIN wave \subseteq remaining
    /\ \A x \in DOMAIN wave : Session(x)
    /\ Apart(DOMAIN wave)

Slots == Cardinality(InStep("running")) <= Limit

-----------------------------------------------------------------------------
(* The operators.                                                          *)

\* The path test does not depend on the order of its arguments.
LEMMA OverlapSymmetric == \A P, Q : Overlap(P, Q) => Overlap(Q, P)
<1>1. \A p, q : pathsIntersect(p, q) => pathsIntersect(q, p)
  BY Zenon DEF pathsIntersect
<1> QED
  BY <1>1, Zenon DEF Overlap

\* A packed batch holds no two subtasks that overlap.
LEMMA PackedApart ==
  ASSUME NEW S, NEW rank \in Ranks(S), NEW batch \in SUBSET S, Packed(batch, S, rank)
  PROVE  Apart(batch)
<1> SUFFICES ASSUME NEW x \in batch, NEW y \in batch, x # y
             PROVE  ~ Overlap(subs[x].paths, subs[y].paths)
  BY DEF Apart
<1>1. rank \in [S -> 1 .. Cardinality(S)] /\ rank[x] # rank[y]
  BY DEF Ranks, Bijection, Injection, IsInjective
<1>2. CASE rank[y] < rank[x]
  BY <1>2 DEF Packed
<1>3. CASE rank[x] < rank[y]
  BY <1>3, OverlapSymmetric DEF Packed
<1>4. rank[x] \in Int /\ rank[y] \in Int
  BY <1>1
<1> QED
  BY <1>1, <1>2, <1>3, <1>4

\* Setting the status of a copy changes nothing else.
LEMMA StatusSet ==
  ASSUME NEW f, NEW g, NEW x \in DOMAIN f, Shaped(f[x]), NEW s, g = [f EXCEPT ![x].status = s]
  PROVE  /\ DOMAIN g = DOMAIN f
         /\ g[x].status = s /\ g[x].deps = f[x].deps /\ g[x].paths = f[x].paths
         /\ Shaped(g[x])
         /\ \A y \in DOMAIN f \ {x} : g[y] = f[y]
  BY DEF Shaped

\* Update replaces at most the row it is given.
LEMMA UpdateKeepsShape ==
  ASSUME NEW x, NEW copy, NEW c, Shaped(copy), \A y \in DOMAIN rows : Shaped(rows[y]),
         Update(x, copy, c)
  PROVE  DOMAIN rows' = DOMAIN rows /\ \A y \in DOMAIN rows' : Shaped(rows'[y])
  BY DEF Update

\* Inserted rows are the rows given and the ones that were there.
LEMMA InsertKeepsShape ==
  ASSUME NEW new, Insert(new), \A x \in DOMAIN new : Shaped(new[x]),
         \A x \in DOMAIN rows : Shaped(rows[x])
  PROVE  DOMAIN rows' = DOMAIN new \cup DOMAIN rows /\ \A x \in DOMAIN rows' : Shaped(rows'[x])
  BY DEF Insert

-----------------------------------------------------------------------------
(* The tables keep their shape.                                            *)

\* Every row, copy and edit in flight has the fields the loop reads, and the
\* loop's books name only subtasks it has a copy of.
THEOREM TablesShaped == Spec => []Tables
<1>1. Init => Tables
  BY DEF Init, Tables
<1>2. Tables /\ [Next]_vars => Tables'
  <2> SUFFICES ASSUME Tables, [Next]_vars PROVE Tables'
    OBVIOUS
  <2> USE DEF Tables
  <2>1. CASE CreatePlan
    <3>1. PICK S \in SUBSET fresh : \E deps \in [S -> SUBSET S], paths \in [S -> PathSets] :
            /\ Insert([x \in S |-> [status |-> "pending", deps |-> deps[x], paths |-> paths[x],
                                    order |-> OrderIdx(deps)[x], round |-> MaxRound + 1]])
            /\ fresh' = fresh \ S
      BY <2>1, Zenon DEF CreatePlan, NewUlids
    <3>2. PICK deps \in [S -> SUBSET S] : \E paths \in [S -> PathSets] :
            Insert([x \in S |-> [status |-> "pending", deps |-> deps[x], paths |-> paths[x],
                                 order |-> OrderIdx(deps)[x], round |-> MaxRound + 1]])
      BY <3>1
    <3>3. PICK paths \in [S -> PathSets] :
            Insert([x \in S |-> [status |-> "pending", deps |-> deps[x], paths |-> paths[x],
                                 order |-> OrderIdx(deps)[x], round |-> MaxRound + 1]])
      BY <3>2
    <3> DEFINE new == [x \in S |-> [status |-> "pending", deps |-> deps[x], paths |-> paths[x],
                                    order |-> OrderIdx(deps)[x], round |-> MaxRound + 1]]
    <3>4. DOMAIN new = S /\ \A x \in S : Shaped(new[x])
      BY DEF Shaped
    <3>5. DOMAIN rows' = S \cup DOMAIN rows /\ \A x \in DOMAIN rows' : Shaped(rows'[x])
      <4>1. Insert(new)
        BY <3>3, Zenon
      <4> HIDE DEF new
      <4> QED BY <4>1, <3>4, InsertKeepsShape
    <3> HIDE DEF new
    <3> QED BY <2>1, <3>1, <3>5 DEF CreatePlan, loop
  <2>2. CASE PlanRefused
    BY <2>2 DEF PlanRefused
  <2>3. CASE SkipPlanning
    BY <2>3 DEF SkipPlanning, loop
  <2>4. CASE List
    BY <2>4 DEF List, Restrict, LatestRound
  <2>5. CASE SingleSession
    BY <2>5 DEF SingleSession
  <2>6. ASSUME NEW x \in DOMAIN subs, NEW s, NEW c,
               subs' = [subs EXCEPT ![x].status = s], Update(x, subs'[x], c)
        PROVE  /\ DOMAIN rows' = DOMAIN rows /\ \A y \in DOMAIN rows' : Shaped(rows'[y])
               /\ DOMAIN subs' = DOMAIN subs /\ \A y \in DOMAIN subs' : Shaped(subs'[y])
    <3>1. DOMAIN subs' = DOMAIN subs /\ \A y \in DOMAIN subs' : Shaped(subs'[y])
      BY <2>6, StatusSet
    <3> QED BY <2>6, <3>1, UpdateKeepsShape
  <2>7. ASSUME NEW x \in todo, ResetStatus(x) PROVE Tables'
    BY <2>6, <2>7 DEF ResetStatus
  <2>8. ASSUME NEW x \in todo, CascadeCancel(x) PROVE Tables'
    BY <2>6, <2>8 DEF CascadeCancel
  <2>9. CASE StartWave
    BY <2>9 DEF StartWave, Ready
  <2>10. ASSUME NEW x \in DOMAIN wave, BeginSubtask(x) PROVE Tables'
    BY <2>6, <2>10 DEF BeginSubtask
  <2>11. ASSUME NEW x \in DOMAIN wave, LeaveWave(x) PROVE Tables'
    BY <2>11 DEF LeaveWave
  <2>12. ASSUME NEW x \in DOMAIN wave, EndSubtask(x) PROVE Tables'
    BY <2>6, <2>12 DEF EndSubtask
  <2>13. CASE Reconcile
    BY <2>13 DEF Reconcile, AfterWave
  <2>14. CASE RoundDone \/ RoundFailed \/ CancelContext
    BY <2>14 DEF RoundDone, RoundFailed, CancelContext, loop
  <2>15. CASE Restart
    BY <2>15 DEF Restart
  <2>16. CASE CreateSubtask
    <3>1. PICK x \in fresh :
            /\ fresh' = fresh \ {x}
            /\ \E status \in SubtaskStatus, deps \in SUBSET (Id \ {x}), paths \in PathSets,
                  order \in 1 .. 1 + Cardinality(DOMAIN rows) :
                 Insert([y \in {x} |-> [status |-> status, deps |-> deps, paths |-> paths,
                                        order |-> order, round |-> 1]])
      BY <2>16, Zenon DEF CreateSubtask
    <3>2. \E new : Insert(new) /\ DOMAIN new = {x} /\ Shaped(new[x])
      <4>1. PICK status \in SubtaskStatus, deps \in SUBSET (Id \ {x}), paths \in PathSets,
                 order \in 1 .. 1 + Cardinality(DOMAIN rows) :
              Insert([y \in {x} |-> [status |-> status, deps |-> deps, paths |-> paths,
                                     order |-> order, round |-> 1]])
        BY <3>1, Zenon
      <4> WITNESS [y \in {x} |-> [status |-> status, deps |-> deps, paths |-> paths,
                                  order |-> order, round |-> 1]]
      <4> QED BY <4>1 DEF Shaped
    <3>3. DOMAIN rows' = {x} \cup DOMAIN rows /\ \A y \in DOMAIN rows' : Shaped(rows'[y])
      BY <3>2, InsertKeepsShape
    <3> QED BY <2>16, <3>1, <3>3 DEF CreateSubtask, loop
  <2>17. ASSUME NEW x \in DOMAIN rows, UpdateSubtask(x) PROVE Tables'
    BY <2>17 DEF UpdateSubtask, loop, Users
  <2>18. CASE UpdateWrite
    BY <2>18 DEF UpdateWrite, loop, Update, Shaped
  <2>19. ASSUME NEW x \in DOMAIN rows, DeleteSubtask(x) PROVE Tables'
    BY <2>19 DEF DeleteSubtask, loop, Users, Restrict
  <2>20. CASE ReorderSubtasks
    BY <2>20 DEF ReorderSubtasks, loop, Users, Shaped
  <2>21. CASE UNCHANGED vars
    BY <2>21 DEF vars, loop
  <2> QED
    BY <2>1, <2>2, <2>3, <2>4, <2>5, <2>7, <2>8, <2>9, <2>10, <2>11, <2>12, <2>13, <2>14,
       <2>15, <2>16, <2>17, <2>18, <2>19, <2>20, <2>21
       DEF Next, Run, Work, Edit
<1> QED
  BY <1>1, <1>2, PTL DEF Spec

-----------------------------------------------------------------------------
(* The books and the waves.                                                *)

RoundInv == Tables /\ Books /\ Waves

\* A step that touches no copy, no book and no session.
LEMMA RoundUntouched ==
  ASSUME RoundInv, UNCHANGED <<loop, pc>> PROVE Books' /\ Waves'
  BY DEF RoundInv, Books, Waves, Session, Apart, loop

\* Paths and dependencies of a copy never change while a wave runs.
LEMMA ApartKept ==
  ASSUME NEW S, Apart(S), \A x \in S : subs'[x].paths = subs[x].paths
  PROVE  \A x, y \in S : x # y => ~ Overlap(subs'[x].paths, subs'[y].paths)
  BY DEF Apart

\* Between the waves and during one, what the loop counts as done is done, what
\* it has not scheduled is pending, and every session of a wave has had its
\* dependencies done before it started.
THEOREM RoundInvariant == Spec => []RoundInv
<1>1. Init => Books /\ Waves
  BY DEF Init, Books, Waves
<1>2. RoundInv /\ Tables' /\ [Next]_vars => Books' /\ Waves'
  <2> SUFFICES ASSUME RoundInv, Tables', [Next]_vars PROVE Books' /\ Waves'
    OBVIOUS
  <2> USE DEF RoundInv
  <2>1. CASE CreatePlan \/ PlanRefused \/ SkipPlanning \/ SingleSession \/ RoundDone
             \/ RoundFailed \/ Restart
    BY <2>1 DEF CreatePlan, PlanRefused, SkipPlanning, SingleSession, RoundDone, RoundFailed,
                Restart, Books, Waves
  <2>2. CASE List
    BY <2>2 DEF List, Restrict, Tables, Books, Waves
  <2>3. ASSUME NEW x \in todo, ResetStatus(x) PROVE Books' /\ Waves'
    <3>1. x \in DOMAIN subs /\ x \in remaining /\ DOMAIN wave = {} /\ Shaped(subs[x])
      BY <2>3 DEF ResetStatus, Tables, Books
    <3>2. /\ DOMAIN subs' = DOMAIN subs /\ subs'[x].status = "pending"
          /\ \A y \in DOMAIN subs \ {x} : subs'[y] = subs[y]
      BY <2>3, <3>1, StatusSet DEF ResetStatus
    <3> QED BY <2>3, <3>1, <3>2 DEF ResetStatus, Tables, Books, Waves
  <2>4. ASSUME NEW x \in todo, CascadeCancel(x) PROVE Books' /\ Waves'
    BY <2>4 DEF CascadeCancel, Books, Waves
  <2>5. CASE StartWave
    <3>1. PICK rank \in Ranks(Ready), batch \in SUBSET Ready :
            /\ Packed(batch, Ready, rank)
            /\ wave' = [x \in batch |-> "waiting"]
      BY <2>5, Zenon DEF StartWave
    <3>2. Apart(batch)
      BY <3>1, PackedApart
    <3>3. \A x \in batch : x \in remaining /\ subs[x].status = "pending" /\ subs[x].deps \subseteq done
      BY <2>5, <3>1 DEF StartWave, Ready, Tables, Books
    <3>4. Books'
      BY <2>5, <3>1 DEF StartWave, Tables, Books
    <3>5. DOMAIN wave' = batch /\ \A x \in batch : wave'[x] = "waiting"
      BY <3>1
    <3> QED BY <2>5, <3>2, <3>3, <3>4, <3>5 DEF StartWave, Waves, Session, Apart
  <2>6. ASSUME NEW x \in DOMAIN wave, BeginSubtask(x) \/ EndSubtask(x) PROVE Books' /\ Waves'
    <3>1. x \in DOMAIN subs /\ x \in remaining /\ Shaped(subs[x]) /\ pc = "wave" /\ pc' = "wave"
          /\ DOMAIN wave \subseteq remaining /\ remaining \subseteq DOMAIN subs /\ todo = {}
      BY <2>6 DEF BeginSubtask, EndSubtask, Tables, Waves, Books
    <3>2. PICK s : subs' = [subs EXCEPT ![x].status = s] /\ s \in {"doing", "done", "failed"}
      BY <2>6 DEF BeginSubtask, EndSubtask
    <3>3. /\ DOMAIN subs' = DOMAIN subs
          /\ subs'[x].deps = subs[x].deps /\ subs'[x].paths = subs[x].paths
          /\ \A y \in DOMAIN subs \ {x} : subs'[y] = subs[y]
      BY <3>1, <3>2, StatusSet
    <3>4. DOMAIN wave' = DOMAIN wave /\ \A y \in DOMAIN wave \ {x} : wave'[y] = wave[y]
      BY <2>6 DEF BeginSubtask, EndSubtask
    <3>5. failed' = failed /\ done' = done /\ remaining' = remaining /\ todo' = todo
      BY <2>6 DEF BeginSubtask, EndSubtask
    <3>6. waveErr => waveErr'
      BY <2>6, Zenon DEF BeginSubtask, EndSubtask
    <3>7. Books'
      BY <3>1, <3>3, <3>4, <3>5 DEF Books
    <3>8. Session(x)'
      <4>1. CASE BeginSubtask(x)
        <5>1. subs'[x].status = "doing"
          BY <3>1, <4>1, StatusSet DEF BeginSubtask
        <5> QED BY <3>1, <3>3, <3>5, <4>1, <5>1 DEF BeginSubtask, Waves, Session
      <4>2. CASE EndSubtask(x)
        <5>1. PICK result \in {"done", "failed"} :
                /\ subs' = [subs EXCEPT ![x].status = result]
                /\ waveErr' = (waveErr \/ result = "failed")
          BY <4>2, Zenon DEF EndSubtask
        <5>2. result = "done" \/ waveErr'
          BY <5>1, Zenon
        <5>3. subs'[x].status = result
          BY <3>1, <5>1, StatusSet
        <5> QED BY <3>1, <3>3, <4>2, <5>2, <5>3 DEF EndSubtask, Waves, Session
      <4> QED BY <2>6, <4>1, <4>2
    <3>9. \A y \in DOMAIN wave \ {x} : Session(y)'
      BY <3>1, <3>3, <3>4, <3>5, <3>6 DEF Waves, Session
    <3>10. Apart(DOMAIN wave)'
      <4>1. \A y \in DOMAIN wave : subs'[y].paths = subs[y].paths
        BY <3>1, <3>3
      <4> QED BY <3>1, <3>4, <4>1, ApartKept DEF Waves, Apart
    <3> QED BY <3>1, <3>4, <3>5, <3>7, <3>8, <3>9, <3>10 DEF Waves
  <2>7. ASSUME NEW x \in DOMAIN wave, LeaveWave(x) PROVE Books' /\ Waves'
    BY <2>7 DEF LeaveWave, Books, Waves, Session, Apart
  <2>8. CASE Reconcile
    <3>1. CASE waveErr
      BY <2>8, <3>1 DEF Reconcile, AfterWave, Books, Waves
    <3>2. CASE ~ waveErr
      <4>1. \A x \in DOMAIN wave : wave[x] = "ended"
        BY <2>8 DEF Reconcile, InStep
      <4>2. \A x \in DOMAIN wave : subs[x].status = "done"
        BY <2>8, <3>2, <4>1 DEF Reconcile, Waves, Session
      <4>3. failed' = {} /\ done' = done \cup DOMAIN wave
        BY <2>8, <4>2 DEF Reconcile, Books
      <4> QED BY <2>8, <3>2, <4>2, <4>3 DEF Reconcile, AfterWave, Tables, Books, Waves
    <3> QED BY <3>1, <3>2
  <2>9. CASE CreateSubtask \/ UpdateWrite \/ ReorderSubtasks \/ CancelContext \/ UNCHANGED vars
    BY <2>9, RoundUntouched
    DEF CreateSubtask, UpdateWrite, ReorderSubtasks, CancelContext, vars
  <2>10. ASSUME NEW x \in DOMAIN rows, UpdateSubtask(x) \/ DeleteSubtask(x)
         PROVE  Books' /\ Waves'
    BY <2>10, RoundUntouched DEF UpdateSubtask, DeleteSubtask
  <2> QED
    BY <2>1, <2>2, <2>3, <2>4, <2>5, <2>6, <2>7, <2>8, <2>9, <2>10 DEF Next, Run, Work, Edit
<1>3. RoundInv <=> Tables /\ (Books /\ Waves)
  BY DEF RoundInv
<1> QED
  BY <1>1, <1>2, <1>3, TablesShaped, PTL DEF Spec

\* An error ends the round: the loop never goes on with a failed dependency.
THEOREM FailureIsLast == Spec => []FailureEndsRound
<1>1. RoundInv => FailureEndsRound
  BY DEF RoundInv, Books, FailureEndsRound
<1> QED
  BY <1>1, RoundInvariant, PTL

\* The semaphore bounds the sessions that run.
LEMMA SlotsKept == Spec => []Slots
<1>1. Init => Slots
  BY FS_EmptySet, LimitAssumption DEF Init, Slots, InStep
<1>2. Tables /\ Tables' /\ Slots /\ [Next]_vars => Slots'
  <2> SUFFICES ASSUME Tables, Tables', Slots, [Next]_vars PROVE Slots'
    OBVIOUS
  <2>1. IsFiniteSet(InStep("running")) /\ Cardinality(InStep("running")) \in Nat
    <3>1. InStep("running") \in SUBSET DOMAIN wave /\ DOMAIN wave \in SUBSET Id
      BY DEF Tables, InStep
    <3> QED BY <3>1, FS_Subset, FS_CardinalityType, IdAssumption
  <2>2. ASSUME InStep("running")' \in SUBSET InStep("running") PROVE Slots'
    <3>1. IsFiniteSet(InStep("running")') /\ Cardinality(InStep("running")') <= Cardinality(InStep("running"))
      BY <2>1, <2>2, FS_Subset
    <3>2. Cardinality(InStep("running")') \in Nat
      BY <3>1, FS_CardinalityType
    <3> QED BY <2>1, <3>1, <3>2, LimitAssumption DEF Slots
  <2>3. ASSUME UNCHANGED wave PROVE Slots'
    BY <2>3 DEF Slots, InStep
  <2>4. CASE StartWave \/ Reconcile \/ Restart
    <3>1. InStep("running")' = {}
      BY <2>4 DEF StartWave, Reconcile, Restart, InStep
    <3> QED BY <2>2, <3>1
  <2>5. ASSUME NEW x \in DOMAIN wave, BeginSubtask(x) PROVE Slots'
    <3>1. InStep("running")' = InStep("running") \cup {x}
      BY <2>5 DEF BeginSubtask, InStep
    <3>2. Cardinality(InStep("running")') <= Cardinality(InStep("running")) + 1
      BY SMTT(30), <2>1, <3>1, FS_AddElement
    <3>3. Cardinality(InStep("running")') \in Nat
      BY <2>1, <3>1, FS_AddElement
    <3>4. Cardinality(InStep("running")) < Limit
      BY <2>5 DEF BeginSubtask
    <3> QED BY <2>1, <3>2, <3>3, <3>4, LimitAssumption DEF Slots
  <2>6. ASSUME NEW x \in DOMAIN wave, LeaveWave(x) \/ EndSubtask(x) PROVE Slots'
    <3>1. wave' = [wave EXCEPT ![x] = "ended"]
      BY <2>6 DEF LeaveWave, EndSubtask
    <3> QED BY <2>2, <3>1 DEF InStep
  <2>7. CASE CreatePlan \/ PlanRefused \/ SkipPlanning \/ CancelContext \/ List \/ SingleSession
             \/ RoundDone \/ RoundFailed \/ UNCHANGED vars
    BY <2>3, <2>7 DEF CreatePlan, PlanRefused, SkipPlanning, CancelContext, List, SingleSession,
                      RoundDone, RoundFailed, loop, vars
  <2>8. ASSUME NEW x \in todo, ResetStatus(x) \/ CascadeCancel(x) PROVE Slots'
    BY <2>3, <2>8 DEF ResetStatus, CascadeCancel
  <2>9. CASE Edit
    BY <2>3, <2>9 DEF Edit, CreateSubtask, UpdateWrite, ReorderSubtasks, UpdateSubtask,
                      DeleteSubtask, loop
  <2> QED
    BY <2>4, <2>5, <2>6, <2>7, <2>8, <2>9 DEF Next, Run, Work
<1> QED
  BY <1>1, <1>2, TablesShaped, PTL DEF Spec

\* Every session runs after what it depends on, within the slots, and apart
\* from the sessions it could disturb.
THEOREM PlanFollowed == Spec => []SessionsFollowPlan
<1>1. RoundInv /\ Slots => SessionsFollowPlan
  BY DEF RoundInv, Tables, Books, Waves, Session, Apart, Slots, InStep, SessionsFollowPlan
<1> QED
  BY <1>1, RoundInvariant, SlotsKept, PTL

-----------------------------------------------------------------------------
(* Induction over finite sets, as a smallest counterexample.               *)

\* Among the subsets of a finite set there are smallest ones.
LEMMA SmallestSubset ==
  ASSUME NEW S, IsFiniteSet(S), NEW F \in SUBSET (SUBSET S), F # {}
  PROVE  \E T \in F : \A U \in F : U \subseteq T => U = T
<1>1. IsWellFoundedOn(StrictSubsetOrdering(S), SUBSET S)
  BY FS_StrictSubsetOrderingWellFounded, FS_FiniteSubsetsOfFinite
<1>2. PICK T \in F : \A U \in F : ~ (<<U, T>> \in StrictSubsetOrdering(S))
  <2> DEFINE R == StrictSubsetOrdering(S)
  <2>1. IsWellFoundedOn(R, SUBSET S) /\ F \subseteq SUBSET S /\ F # {}
    BY <1>1
  <2> HIDE DEF R
  <2>2. \E T \in F : \A U \in F : ~ (<<U, T>> \in R)
    BY <2>1, WFMin
  <2> QED BY <2>2 DEF R
<1>3. \A U \in F : U \subseteq T => U = T
  BY <1>2 DEF StrictSubsetOrdering
<1> QED
  BY <1>3

\* A function from a non-empty finite set into the naturals has a greatest value.
LEMMA GreatestValue ==
  ASSUME NEW D, IsFiniteSet(D), D # {}, NEW f, \A x \in D : f[x] \in Nat
  PROVE  \E x \in D : \A y \in D : f[y] <= f[x]
<1> DEFINE Best(S) == \E x \in S : \A y \in S : f[y] <= f[x]
           F == {S \in SUBSET D : S # {} /\ ~ Best(S)}
<1>1. SUFFICES ASSUME F # {} PROVE FALSE
  <2>1. D \in SUBSET D
    OBVIOUS
  <2> QED BY <2>1
<1>2. PICK T \in F : \A U \in F : U \subseteq T => U = T
  <2>1. F \in SUBSET (SUBSET D)
    OBVIOUS
  <2> HIDE DEF F
  <2> QED BY <1>1, <2>1, SmallestSubset
<1>3. T \subseteq D /\ T # {} /\ ~ Best(T)
  BY <1>2
<1>4. PICK x \in T : TRUE
  BY <1>3
<1>5. T \ {x} # {} => Best(T \ {x})
  <2> DEFINE U == T \ {x}
  <2>1. U \subseteq T /\ U # T /\ U \in SUBSET D
    BY <1>3, <1>4
  <2>2. U \notin F
    BY <1>2, <2>1
  <2> HIDE DEF U, Best
  <2>3. U # {} => Best(U)
    BY <2>1, <2>2
  <2> QED BY <2>3 DEF U
<1>6. CASE T \ {x} = {}
  <2>1. \A y \in T : y = x
    BY <1>6
  <2> QED BY <1>3, <1>4, <2>1
<1>7. CASE T \ {x} # {}
  <2>1. PICK m \in T \ {x} : \A y \in T \ {x} : f[y] <= f[m]
    BY <1>5, <1>7
  <2>2. f[m] \in Nat /\ f[x] \in Nat /\ \A y \in T : f[y] \in Nat
    BY <1>3, <1>4
  <2>3. CASE f[x] <= f[m]
    BY <1>3, <2>1, <2>3
  <2>4. CASE f[m] <= f[x]
    <3>1. \A y \in T : f[y] <= f[x]
      BY <2>1, <2>2, <2>4
    <3> QED BY <1>3, <1>4, <3>1
  <2> QED BY <2>2, <2>3, <2>4
<1> QED
  BY <1>6, <1>7

-----------------------------------------------------------------------------
(* The rounds.                                                             *)

\* The fields a row has, but for its position in the plan.
Filled(r) ==
  /\ Shaped(r) /\ "round" \in DOMAIN r
  /\ r.status \in SubtaskStatus /\ r.paths \in PathSets /\ r.round \in Nat \ {0}

Rounds ==
  /\ edits \in Nat
  /\ rows = [x \in DOMAIN rows |-> rows[x]]
  /\ \A x \in DOMAIN rows : Filled(rows[x])
  /\ \A x \in DOMAIN subs : Filled(subs[x])
  /\ edit # None => Filled(edit.row)
  /\ fresh \cap (DOMAIN rows \cup DOMAIN subs) = {}
  /\ edit # None => edit.id \notin fresh

\* A copy, and an edit in flight, are of the round of their row, and no row is
\* of a later round than the one that runs.
Latest ==
  /\ \A x \in DOMAIN subs \cap DOMAIN rows : subs[x].round = rows[x].round
  /\ edit # None /\ edit.id \in DOMAIN rows => edit.row.round = rows[edit.id].round
  /\ pc \in {"reset", "schedule", "wave", "cascade"} =>
       \A x \in DOMAIN subs, y \in DOMAIN rows : rows[y].round <= subs[x].round

\* A function without arguments is the empty sequence.
LEMMA NoRows == \A f : f = [x \in {} |-> f[x]] => f = <<>>
  OBVIOUS

\* The rounds of the table have a last one.
LEMMA LastRound ==
  ASSUME Tables, Rounds
  PROVE  /\ MaxRound \in Nat
         /\ \A x \in DOMAIN rows : rows[x].round <= MaxRound
         /\ \A x \in DOMAIN rows : (\A y \in DOMAIN rows : rows[y].round <= rows[x].round) =>
              rows[x].round = MaxRound
<1>1. CASE DOMAIN rows = {}
  <2>1. rows = <<>>
    BY <1>1, NoRows DEF Rounds
  <2>2. MaxRound = 0
    BY <2>1 DEF MaxRound
  <2> QED BY <1>1, <2>2
<1>2. CASE DOMAIN rows # {}
  <2> DEFINE f == [x \in DOMAIN rows |-> rows[x].round]
             M == {rows[x].round : x \in DOMAIN rows}
  <2>1. \A x \in DOMAIN rows : rows[x].round \in Nat
    BY DEF Rounds, Filled
  <2>2. IsFiniteSet(DOMAIN rows)
    BY FS_Subset, IdAssumption DEF Tables
  <2>3. \A x \in DOMAIN rows : f[x] \in Nat
    BY <2>1
  <2>4. PICK m \in DOMAIN rows : \A y \in DOMAIN rows : f[y] <= f[m]
    <3> HIDE DEF f
    <3> QED BY <1>2, <2>2, <2>3, GreatestValue
  <2>5. rows[m].round \in M /\ \A x \in DOMAIN rows : rows[x].round <= rows[m].round
    BY <2>4
  <2>6. rows # <<>>
    BY <1>2
  <2>7. MaxRound \in M /\ \A x \in DOMAIN rows : rows[x].round <= MaxRound
    BY <2>5, <2>6 DEF MaxRound
  <2> QED BY <2>1, <2>7
<1> QED BY <1>1, <1>2

\* Setting the status of a copy keeps its round and its fields.
LEMMA StatusFills ==
  ASSUME NEW f, NEW g, NEW x \in DOMAIN f, NEW s \in SubtaskStatus,
         g = [f EXCEPT ![x].status = s], \A y \in DOMAIN f : Filled(f[y])
  PROVE  /\ DOMAIN g = DOMAIN f
         /\ \A y \in DOMAIN f : Filled(g[y]) /\ g[y].round = f[y].round
<1>1. g[x] = [f[x] EXCEPT !.status = s] /\ Filled(f[x])
  OBVIOUS
<1>2. Filled(g[x]) /\ g[x].round = f[x].round
  BY <1>1 DEF Filled, Shaped
<1> QED
  BY <1>2

\* An update under the round of its row keeps the rounds of the table.
LEMMA UpdateFills ==
  ASSUME NEW x, NEW copy, NEW c, Rounds, Filled(copy),
         x \in DOMAIN rows => copy.round = rows[x].round, Update(x, copy, c)
  PROVE  /\ DOMAIN rows' = DOMAIN rows /\ rows' = [y \in DOMAIN rows' |-> rows'[y]]
         /\ \A y \in DOMAIN rows : Filled(rows'[y]) /\ rows'[y].round = rows[y].round
         /\ \A y \in DOMAIN rows : y # x => rows'[y] = rows[y]
<1>1. rows' = rows \/ (x \in DOMAIN rows /\ rows' = [rows EXCEPT ![x] = copy])
  BY DEF Update
<1> QED
  BY <1>1 DEF Rounds

\* Inserting rows under new identifiers keeps the rounds of the others.
LEMMA InsertFills ==
  ASSUME NEW new, Rounds, DOMAIN new \subseteq fresh, Insert(new), \A x \in DOMAIN new : Filled(new[x])
  PROVE  /\ DOMAIN rows' = DOMAIN new \cup DOMAIN rows /\ rows' = [y \in DOMAIN rows' |-> rows'[y]]
         /\ \A x \in DOMAIN rows' : Filled(rows'[x])
         /\ \A x \in DOMAIN rows : rows'[x] = rows[x]
         /\ \A x \in DOMAIN new : rows'[x] = new[x]
<1>1. DOMAIN new \cap DOMAIN rows = {}
  BY DEF Rounds
<1> QED
  BY <1>1 DEF Rounds, Insert

\* The rounds of the copies and the rows agree, and the round that runs is the
\* last one of the table until the loop is done with it.
LEMMA RoundsAgree == Spec => [](Rounds /\ Latest)
<1>1. Init => Rounds /\ Latest
  <2> SUFFICES ASSUME Init PROVE Rounds /\ Latest
    OBVIOUS
  <2>1. DOMAIN rows = {} /\ DOMAIN subs = {} /\ edit = None /\ edits = 0 /\ pc = "idle"
    BY DEF Init
  <2>2. rows = [x \in DOMAIN rows |-> rows[x]]
    BY DEF Init
  <2> QED BY <2>1, <2>2 DEF Rounds, Latest
<1>2. Tables /\ Tables' /\ Rounds /\ Latest /\ [Next]_vars => Rounds' /\ Latest'
  <2> SUFFICES ASSUME Tables, Tables', Rounds, Latest, [Next]_vars PROVE Rounds' /\ Latest'
    OBVIOUS
  <2>1. CASE CreatePlan
    <3>1. PICK S \in SUBSET fresh : \E deps \in [S -> SUBSET S], paths \in [S -> PathSets] :
            /\ Insert([x \in S |-> [status |-> "pending", deps |-> deps[x], paths |-> paths[x],
                                    order |-> OrderIdx(deps)[x], round |-> MaxRound + 1]])
            /\ fresh' = fresh \ S
      BY <2>1, Zenon DEF CreatePlan, NewUlids
    <3>2. PICK deps \in [S -> SUBSET S] : \E paths \in [S -> PathSets] :
            Insert([x \in S |-> [status |-> "pending", deps |-> deps[x], paths |-> paths[x],
                                 order |-> OrderIdx(deps)[x], round |-> MaxRound + 1]])
      BY <3>1
    <3>3. PICK paths \in [S -> PathSets] :
            Insert([x \in S |-> [status |-> "pending", deps |-> deps[x], paths |-> paths[x],
                                 order |-> OrderIdx(deps)[x], round |-> MaxRound + 1]])
      BY <3>2
    <3> DEFINE new == [x \in S |-> [status |-> "pending", deps |-> deps[x], paths |-> paths[x],
                                    order |-> OrderIdx(deps)[x], round |-> MaxRound + 1]]
    <3>4. MaxRound + 1 \in Nat \ {0}
      BY LastRound
    <3>5. DOMAIN new = S /\ \A x \in S : Filled(new[x])
      BY <3>4 DEF Filled, Shaped, SubtaskStatus
    <3>6. Insert(new)
      BY <3>3, Zenon
    <3> HIDE DEF new
    <3>7. /\ DOMAIN rows' = S \cup DOMAIN rows /\ rows' = [y \in DOMAIN rows' |-> rows'[y]]
          /\ \A x \in DOMAIN rows' : Filled(rows'[x])
          /\ \A x \in DOMAIN rows : rows'[x] = rows[x]
      BY <3>5, <3>6, InsertFills
    <3>8. UNCHANGED <<subs, edit, edits>> /\ fresh' = fresh \ S /\ pc' = "planned"
      BY <2>1, <3>1 DEF CreatePlan, loop
    <3>9. DOMAIN subs \cap S = {} /\ (edit # None => edit.id \notin S)
      BY DEF Rounds
    <3> QED BY <3>7, <3>8, <3>9 DEF Rounds, Latest
  <2>2. CASE PlanRefused \/ SingleSession
    <3>1. subs' = <<>> /\ DOMAIN subs' = {}
      BY <2>2 DEF PlanRefused, SingleSession
    <3>2. UNCHANGED <<rows, fresh, edit, edits>> /\ pc' = "idle"
      BY <2>2 DEF PlanRefused, SingleSession
    <3> QED BY <3>1, <3>2 DEF Rounds, Latest
  <2>3. CASE List
    <3>1. /\ subs' = Restrict(rows, LatestRound) /\ UNCHANGED <<rows, fresh, edit, edits>>
      BY <2>3 DEF List
    <3>2. /\ DOMAIN subs' = LatestRound /\ LatestRound \subseteq DOMAIN rows
          /\ \A x \in LatestRound : subs'[x] = rows[x] /\ rows[x].round = MaxRound
      BY <3>1 DEF Restrict, LatestRound
    <3>3. \A y \in DOMAIN rows : rows[y].round <= MaxRound
      BY LastRound
    <3> QED BY <3>1, <3>2, <3>3 DEF Rounds, Latest
  <2>4. ASSUME NEW x \in DOMAIN subs, NEW s \in SubtaskStatus, NEW c,
               subs' = [subs EXCEPT ![x].status = s], Update(x, subs'[x], c),
               UNCHANGED <<fresh, edit, edits>>,
               pc' = pc, pc \in {"reset", "schedule", "wave", "cascade"}
        PROVE  Rounds' /\ Latest'
    <3>1. /\ DOMAIN subs' = DOMAIN subs
          /\ \A y \in DOMAIN subs : Filled(subs'[y]) /\ subs'[y].round = subs[y].round
      BY <2>4, StatusFills DEF Rounds
    <3>2. x \in DOMAIN rows => subs'[x].round = rows[x].round
      BY <3>1 DEF Latest
    <3>3. Filled(subs'[x])
      BY <3>1
    <3>4. /\ DOMAIN rows' = DOMAIN rows /\ rows' = [y \in DOMAIN rows' |-> rows'[y]]
          /\ \A y \in DOMAIN rows : Filled(rows'[y]) /\ rows'[y].round = rows[y].round
      BY <2>4, <3>2, <3>3, UpdateFills
    <3>5. Rounds'
      BY <2>4, <3>1, <3>4 DEF Rounds
    <3> QED BY <2>4, <3>1, <3>4, <3>5 DEF Latest
  <2>5. {"pending", "doing", "done", "failed"} \subseteq SubtaskStatus
    BY DEF SubtaskStatus
  <2>6. ASSUME NEW x \in todo, ResetStatus(x) \/ CascadeCancel(x) PROVE Rounds' /\ Latest'
    <3>1. x \in DOMAIN subs
      BY <2>6 DEF ResetStatus, CascadeCancel, Tables
    <3>2. CASE ResetStatus(x)
      BY <2>4, <2>5, <3>1, <3>2 DEF ResetStatus
    <3>3. CASE CascadeCancel(x)
      BY <2>4, <2>5, <3>1, <3>3 DEF CascadeCancel
    <3> QED BY <2>6, <3>2, <3>3
  <2>7. ASSUME NEW x \in DOMAIN wave, BeginSubtask(x) \/ EndSubtask(x) PROVE Rounds' /\ Latest'
    <3>1. x \in DOMAIN subs
      BY <2>7 DEF BeginSubtask, EndSubtask, Tables
    <3>2. CASE BeginSubtask(x)
      BY <2>4, <2>5, <3>1, <3>2 DEF BeginSubtask
    <3>3. CASE EndSubtask(x)
      BY <2>4, <2>5, <3>1, <3>3 DEF EndSubtask
    <3> QED BY <2>7, <3>2, <3>3
  <2>8. CASE StartWave
    BY <2>8 DEF StartWave, Rounds, Latest
  <2>9. ASSUME NEW x \in DOMAIN wave, LeaveWave(x) PROVE Rounds' /\ Latest'
    BY <2>9 DEF LeaveWave, Rounds, Latest
  <2>10. CASE Reconcile
    <3>1. UNCHANGED <<rows, fresh, subs, edit, edits>> /\ pc = "wave"
      BY <2>10 DEF Reconcile
    <3> QED BY <3>1 DEF Rounds, Latest
  <2>11. CASE SkipPlanning \/ RoundDone \/ RoundFailed \/ CancelContext \/ UNCHANGED vars
    <3>1. /\ UNCHANGED <<rows, fresh, subs, edit, edits>>
          /\ pc' = pc \/ pc' \in {"idle", "planned"}
      BY <2>11 DEF SkipPlanning, RoundDone, RoundFailed, CancelContext, vars, loop
    <3> QED BY <3>1 DEF Rounds, Latest
  <2>12. CASE Restart
    <3>1. /\ subs' = <<>> /\ DOMAIN subs' = {} /\ edit' = None /\ pc' = "idle"
          /\ UNCHANGED <<rows, fresh, edits>>
      BY <2>12 DEF Restart
    <3> QED BY <3>1 DEF Rounds, Latest
  <2>13. CASE CreateSubtask
    <3>1. PICK x \in fresh :
            /\ fresh' = fresh \ {x}
            /\ \E status \in SubtaskStatus, deps \in SUBSET (Id \ {x}), paths \in PathSets,
                  order \in 1 .. 1 + Cardinality(DOMAIN rows) :
                 Insert([y \in {x} |-> [status |-> status, deps |-> deps, paths |-> paths,
                                        order |-> order, round |-> 1]])
      BY <2>13, Zenon DEF CreateSubtask
    <3>2. \E new : Insert(new) /\ DOMAIN new = {x} /\ Filled(new[x]) /\ new[x].round = 1
      <4>1. PICK status \in SubtaskStatus, deps \in SUBSET (Id \ {x}), paths \in PathSets,
                 order \in 1 .. 1 + Cardinality(DOMAIN rows) :
              Insert([y \in {x} |-> [status |-> status, deps |-> deps, paths |-> paths,
                                     order |-> order, round |-> 1]])
        BY <3>1, Zenon
      <4> WITNESS [y \in {x} |-> [status |-> status, deps |-> deps, paths |-> paths,
                                  order |-> order, round |-> 1]]
      <4> QED BY <4>1 DEF Filled, Shaped
    <3>3. PICK new : Insert(new) /\ DOMAIN new = {x} /\ Filled(new[x]) /\ new[x].round = 1
      BY <3>2
    <3>4. /\ DOMAIN rows' = {x} \cup DOMAIN rows /\ rows' = [y \in DOMAIN rows' |-> rows'[y]]
          /\ \A y \in DOMAIN rows' : Filled(rows'[y])
          /\ \A y \in DOMAIN rows : rows'[y] = rows[y]
          /\ rows'[x].round = 1
      BY <3>1, <3>3, InsertFills
    <3>5. UNCHANGED <<subs, edit, pc>> /\ edits' = edits + 1
      BY <2>13 DEF CreateSubtask, Users, loop
    <3>6. x \notin DOMAIN subs /\ x \notin DOMAIN rows /\ (edit # None => edit.id # x)
      BY <3>1 DEF Rounds
    <3>7. \A y \in DOMAIN subs : 1 <= subs[y].round
      BY DEF Rounds, Filled
    <3>8. Rounds'
      BY <3>1, <3>4, <3>5, <3>6 DEF Rounds
    <3> QED BY <3>4, <3>5, <3>6, <3>7, <3>8 DEF Latest
  <2>14. ASSUME NEW x \in DOMAIN rows, UpdateSubtask(x) PROVE Rounds' /\ Latest'
    <3>1. /\ UNCHANGED <<rows, fresh, subs, pc>> /\ edits' = edits + 1
          /\ edit' = [id |-> x, row |-> rows[x]]
      BY <2>14 DEF UpdateSubtask, Users, loop
    <3>2. edit'.id = x /\ edit'.row = rows[x] /\ x \notin fresh /\ Filled(rows[x])
      BY <3>1 DEF Rounds
    <3> QED BY <3>1, <3>2 DEF Rounds, Latest
  <2>15. CASE UpdateWrite
    <3>1. /\ edit # None /\ edit' = None /\ UNCHANGED <<fresh, subs, pc, edits>>
          /\ \E status \in {edit.row.status} \cup SubtaskStatus :
               Update(edit.id, [edit.row EXCEPT !.status = status], FALSE)
      BY <2>15 DEF UpdateWrite, loop
    <3>2. Filled(edit.row)
      BY <3>1 DEF Rounds
    <3>3. PICK status \in SubtaskStatus :
            Update(edit.id, [edit.row EXCEPT !.status = status], FALSE)
      BY <3>1, <3>2 DEF Filled
    <3> DEFINE copy == [edit.row EXCEPT !.status = status]
    <3>4. Filled(copy) /\ copy.round = edit.row.round
      BY <3>2 DEF Filled, Shaped
    <3>5. edit.id \in DOMAIN rows => copy.round = rows[edit.id].round
      BY <3>1, <3>4 DEF Latest
    <3> HIDE DEF copy
    <3>6. Update(edit.id, copy, FALSE)
      BY <3>3 DEF copy
    <3>7. /\ DOMAIN rows' = DOMAIN rows /\ rows' = [y \in DOMAIN rows' |-> rows'[y]]
          /\ \A y \in DOMAIN rows : Filled(rows'[y]) /\ rows'[y].round = rows[y].round
      BY <3>4, <3>5, <3>6, UpdateFills
    <3> QED BY <3>1, <3>7 DEF Rounds, Latest
  <2>16. ASSUME NEW x \in DOMAIN rows, DeleteSubtask(x) PROVE Rounds' /\ Latest'
    <3>1. /\ UNCHANGED <<fresh, subs, pc, edit>> /\ edits' = edits + 1
          /\ rows' = Restrict(rows, DOMAIN rows \ {x})
      BY <2>16 DEF DeleteSubtask, Users, loop
    <3>2. /\ DOMAIN rows' = DOMAIN rows \ {x} /\ rows' = [y \in DOMAIN rows' |-> rows'[y]]
          /\ \A y \in DOMAIN rows' : rows'[y] = rows[y]
      BY <3>1 DEF Restrict
    <3>3. DOMAIN rows' \subseteq DOMAIN rows /\ \A y \in DOMAIN rows' : rows'[y] = rows[y]
      BY <3>2
    <3>4. rows' = [y \in DOMAIN rows' |-> rows'[y]]
      BY <3>2
    <3>5. Rounds'
      <4>1. \A y \in DOMAIN rows' : Filled(rows'[y])
        BY <3>3 DEF Rounds
      <4>2. fresh' \cap (DOMAIN rows' \cup DOMAIN subs') = {}
        BY <3>1, <3>3 DEF Rounds
      <4>3. edits' \in Nat /\ (\A y \in DOMAIN subs' : Filled(subs'[y]))
        BY <3>1 DEF Rounds
      <4>4. edit' # None => Filled(edit'.row) /\ edit'.id \notin fresh'
        BY <3>1 DEF Rounds
      <4> QED BY <3>4, <4>1, <4>2, <4>3, <4>4 DEF Rounds
    <3>6. Latest'
      BY <3>1, <3>3 DEF Latest
    <3> QED BY <3>5, <3>6
  <2>17. CASE ReorderSubtasks
    <3>1. /\ UNCHANGED <<fresh, subs, pc, edit>> /\ edits' = edits + 1
          /\ \E S \in SUBSET DOMAIN rows : \E position \in Bijection(S, 0 .. Cardinality(S) - 1) :
               rows' = [x \in DOMAIN rows |->
                         IF x \in S THEN [rows[x] EXCEPT !.order = position[x]] ELSE rows[x]]
      BY <2>17 DEF ReorderSubtasks, Users, loop
    <3>a. PICK S \in SUBSET DOMAIN rows : \E position \in Bijection(S, 0 .. Cardinality(S) - 1) :
            rows' = [x \in DOMAIN rows |->
                      IF x \in S THEN [rows[x] EXCEPT !.order = position[x]] ELSE rows[x]]
      BY <3>1, Zenon
    <3>2. PICK position \in Bijection(S, 0 .. Cardinality(S) - 1) :
            rows' = [x \in DOMAIN rows |->
                      IF x \in S THEN [rows[x] EXCEPT !.order = position[x]] ELSE rows[x]]
      BY <3>a, Zenon
    <3>3. /\ DOMAIN rows' = DOMAIN rows /\ rows' = [y \in DOMAIN rows' |-> rows'[y]]
      BY <3>2
    <3>4. ASSUME NEW y \in DOMAIN rows
          PROVE  Filled(rows'[y]) /\ rows'[y].round = rows[y].round
      <4>1. Filled(rows[y])
        BY DEF Rounds
      <4>2. rows'[y] = rows[y] \/ rows'[y] = [rows[y] EXCEPT !.order = position[y]]
        BY <3>2
      <4> QED BY <4>1, <4>2 DEF Filled, Shaped
    <3> QED BY <3>1, <3>3, <3>4 DEF Rounds, Latest
  <2> QED
    BY <2>1, <2>2, <2>3, <2>6, <2>7, <2>8, <2>9, <2>10, <2>11, <2>12, <2>13, <2>14, <2>15,
       <2>16, <2>17 DEF Next, Run, Work, Edit
<1> QED
  BY <1>1, <1>2, TablesShaped, PTL DEF Spec

\* The rows of earlier rounds are history: whatever a run does with its copies,
\* only a user changes a row of a round before the last (orchestrator.go:743-921,
\* subtask_store.go Update and CreatePlan).
THEOREM HistoryIsKept == Spec => HistoryKept
<1>1. Tables /\ Rounds /\ Latest /\ [Next]_vars =>
        [ \A x \in DOMAIN rows :
            rows[x].round < MaxRound /\ edits' = edits /\ edit' = edit =>
              x \in DOMAIN rows' /\ rows'[x] = rows[x] ]_vars
  <2> SUFFICES ASSUME Tables, Rounds, Latest, Next, NEW x \in DOMAIN rows,
                      rows[x].round < MaxRound, edits' = edits, edit' = edit
               PROVE  x \in DOMAIN rows' /\ rows'[x] = rows[x]
    BY DEF vars
  <2>1. edits \in Nat /\ edits' # edits + 1
    BY DEF Rounds
  <2>2. CASE UNCHANGED rows
    BY <2>2
  <2>3. ASSUME NEW S \in SUBSET fresh, NEW new, DOMAIN new = S, Insert(new)
        PROVE  x \in DOMAIN rows' /\ rows'[x] = rows[x]
    <3>1. x \notin S
      BY DEF Rounds
    <3> QED BY <2>3, <3>1 DEF Insert
  <2>4. CASE CreatePlan
    <3>1. PICK S \in SUBSET fresh : \E deps \in [S -> SUBSET S], paths \in [S -> PathSets] :
            Insert([y \in S |-> [status |-> "pending", deps |-> deps[y], paths |-> paths[y],
                                 order |-> OrderIdx(deps)[y], round |-> MaxRound + 1]])
      BY <2>4, Zenon DEF CreatePlan
    <3>2. PICK deps \in [S -> SUBSET S] : \E paths \in [S -> PathSets] :
            Insert([y \in S |-> [status |-> "pending", deps |-> deps[y], paths |-> paths[y],
                                 order |-> OrderIdx(deps)[y], round |-> MaxRound + 1]])
      BY <3>1
    <3>3. PICK paths \in [S -> PathSets] :
            Insert([y \in S |-> [status |-> "pending", deps |-> deps[y], paths |-> paths[y],
                                 order |-> OrderIdx(deps)[y], round |-> MaxRound + 1]])
      BY <3>2
    <3> DEFINE new == [y \in S |-> [status |-> "pending", deps |-> deps[y], paths |-> paths[y],
                                    order |-> OrderIdx(deps)[y], round |-> MaxRound + 1]]
    <3>4. DOMAIN new = S
      OBVIOUS
    <3>5. Insert(new)
      BY <3>3, Zenon
    <3> HIDE DEF new
    <3> QED BY <2>3, <3>4, <3>5
  <2>5. ASSUME NEW y \in DOMAIN subs, NEW copy, NEW c, Update(y, copy, c),
               pc \in {"reset", "schedule", "wave", "cascade"}
        PROVE  x \in DOMAIN rows' /\ rows'[x] = rows[x]
    <3>1. CASE x = y
      <4>1. \A z \in DOMAIN rows : rows[z].round <= rows[x].round
        BY <2>5, <3>1 DEF Latest
      <4>2. rows[x].round = MaxRound /\ MaxRound \in Nat
        BY <4>1, LastRound
      <4> QED BY <4>2
    <3>2. CASE x # y
      BY <2>5, <3>2 DEF Update
    <3> QED BY <3>1, <3>2
  <2>6. ASSUME NEW y \in todo, ResetStatus(y) \/ CascadeCancel(y)
        PROVE  x \in DOMAIN rows' /\ rows'[x] = rows[x]
    BY <2>5, <2>6 DEF ResetStatus, CascadeCancel, Tables
  <2>7. ASSUME NEW y \in DOMAIN wave, BeginSubtask(y) \/ LeaveWave(y) \/ EndSubtask(y)
        PROVE  x \in DOMAIN rows' /\ rows'[x] = rows[x]
    BY <2>2, <2>5, <2>7 DEF BeginSubtask, LeaveWave, EndSubtask, Tables
  <2>8. CASE PlanRefused \/ SkipPlanning \/ List \/ SingleSession \/ StartWave \/ Reconcile
             \/ RoundDone \/ RoundFailed \/ CancelContext \/ Restart
    BY <2>2, <2>8 DEF PlanRefused, SkipPlanning, List, SingleSession, StartWave, Reconcile,
       RoundDone, RoundFailed, CancelContext, Restart
  <2>9. ~ Edit
    BY <2>1 DEF Edit, CreateSubtask, UpdateWrite, ReorderSubtasks, UpdateSubtask, DeleteSubtask,
       Users
  <2> QED
    BY <2>4, <2>6, <2>7, <2>8, <2>9 DEF Next, Run, Work
<1> QED
  BY <1>1, TablesShaped, RoundsAgree, PTL DEF Spec, HistoryKept

-----------------------------------------------------------------------------
(* The last wave, and the promises of a round.                             *)

\* The copies are divided between what is done and what remains; only a running
\* session is marked doing; the flag tells whether the wave takes all that remains.
Divided ==
  /\ pc \in {"reset", "schedule", "wave", "cascade"} <=> outcome = "open"
  /\ pc \in {"reset", "schedule", "wave"} => DOMAIN subs = done \cup remaining
  /\ pc = "reset" => done = {} /\ remaining # {}
  /\ pc = "schedule" => (remaining = {} => final)
  /\ pc = "wave" => (final <=> DOMAIN wave = remaining)
  /\ outcome = "ok" /\ (\A x \in DOMAIN subs : subs[x].status = "done") => final
  /\ pc = "wave" => \A x \in DOMAIN wave : wave[x] # "running" => subs[x].status # "doing"
  /\ pc = "cascade" => \A x \in DOMAIN subs : subs[x].status # "doing"
  /\ pc = "cascade" => \A x \in todo : subs[x].status = "pending"

\* The copies stay divided that way in every state.
LEMMA CopiesDivided == Spec => []Divided
<1>1. Init => Divided
  BY DEF Init, Divided
<1>2. RoundInv /\ Divided /\ [Next]_vars => Divided'
  <2> SUFFICES ASSUME RoundInv, Divided, [Next]_vars PROVE Divided'
    OBVIOUS
  <2> USE DEF RoundInv
  <2>1. CASE CreatePlan \/ SkipPlanning
    <3>1. pc = "idle" /\ pc' = "planned" /\ UNCHANGED <<outcome, subs, final>>
      BY <2>1 DEF CreatePlan, SkipPlanning, loop
    <3> QED BY <3>1 DEF Divided
  <2>2. CASE PlanRefused \/ SingleSession \/ Restart
    <3>1. pc' \in {"idle", "planned"} /\ outcome' \in {"none", "single"}
      BY <2>2 DEF PlanRefused, SingleSession, Restart
    <3> QED BY <3>1 DEF Divided
  <2>3. CASE List
    <3>1. /\ pc' = "reset" /\ outcome' = "open" /\ done' = {} /\ remaining' = LatestRound
          /\ LatestRound # {} /\ DOMAIN subs' = LatestRound
      BY <2>3 DEF List, Restrict, LatestRound
    <3> QED BY <3>1 DEF Divided
  <2>4. ASSUME NEW x \in todo, ResetStatus(x) PROVE Divided'
    <3>1. pc = "reset" /\ UNCHANGED <<pc, outcome, done, remaining, final>> /\ DOMAIN subs' = DOMAIN subs
      BY <2>4 DEF ResetStatus
    <3> QED BY <3>1 DEF Divided
  <2>5. ASSUME NEW x \in todo, CascadeCancel(x) PROVE Divided'
    <3>1. /\ pc = "cascade" /\ UNCHANGED <<pc, outcome>> /\ todo' = todo \ {x}
          /\ subs' = [subs EXCEPT ![x].status = "failed"]
      BY <2>5 DEF CascadeCancel
    <3>2. x \in DOMAIN subs /\ Shaped(subs[x]) /\ todo \subseteq DOMAIN subs
      BY <2>5, <3>1 DEF Tables
    <3>3. /\ DOMAIN subs' = DOMAIN subs /\ subs'[x].status = "failed"
          /\ \A y \in DOMAIN subs \ {x} : subs'[y] = subs[y]
      BY <3>1, <3>2, StatusSet
    <3> QED BY <3>1, <3>2, <3>3 DEF Divided
  <2>6. CASE StartWave
    <3>1. PICK batch \in SUBSET Ready : wave' = [x \in batch |-> "waiting"] /\ final' = (batch = remaining)
      BY <2>6, Zenon DEF StartWave, IsFinal
    <3>2. /\ pc \in {"schedule", "reset"} /\ pc' = "wave" /\ todo = {}
          /\ UNCHANGED <<outcome, subs, done, remaining>>
      BY <2>6 DEF StartWave, Books
    <3>3. DOMAIN wave' = batch /\ batch \subseteq remaining /\ DOMAIN wave = {}
      BY <3>1, <3>2 DEF Ready, Tables
    <3>4. \A x \in batch : subs'[x].status = "pending"
      BY <3>2, <3>3 DEF Books
    <3> QED BY <3>1, <3>2, <3>3, <3>4 DEF Divided
  <2>7. ASSUME NEW x \in DOMAIN wave, BeginSubtask(x) \/ EndSubtask(x) PROVE Divided'
    <3>1. /\ pc = "wave" /\ UNCHANGED <<pc, outcome, done, remaining, final>>
          /\ x \in DOMAIN subs /\ Shaped(subs[x]) /\ DOMAIN wave \subseteq DOMAIN subs
      BY <2>7 DEF BeginSubtask, EndSubtask, Tables
    <3>2. PICK s \in {"doing", "done", "failed"} :
            subs' = [subs EXCEPT ![x].status = s] /\ (s = "doing" => BeginSubtask(x))
      BY <2>7 DEF BeginSubtask, EndSubtask
    <3>3. /\ DOMAIN subs' = DOMAIN subs /\ subs'[x].status = s
          /\ \A y \in DOMAIN subs \ {x} : subs'[y] = subs[y]
      BY <3>1, <3>2, StatusSet
    <3>4. /\ DOMAIN wave' = DOMAIN wave /\ \A y \in DOMAIN wave \ {x} : wave'[y] = wave[y]
          /\ s = "doing" => wave'[x] = "running"
      BY <2>7, <3>2 DEF BeginSubtask, EndSubtask
    <3> QED BY <3>1, <3>2, <3>3, <3>4 DEF Divided
  <2>8. ASSUME NEW x \in DOMAIN wave, LeaveWave(x) PROVE Divided'
    <3>1. /\ pc = "wave" /\ UNCHANGED <<pc, outcome, subs, done, remaining, final>>
          /\ wave' = [wave EXCEPT ![x] = "ended"] /\ wave[x] = "waiting"
      BY <2>8 DEF LeaveWave
    <3>2. /\ DOMAIN wave' = DOMAIN wave
          /\ \A y \in DOMAIN wave : wave'[y] # "running" => wave[y] # "running"
      BY <3>1
    <3> QED BY <3>1, <3>2 DEF Divided
  <2>9. CASE Reconcile
    <3>1. /\ pc = "wave" /\ UNCHANGED <<outcome, subs, final>>
          /\ remaining' = remaining \ DOMAIN wave /\ DOMAIN wave \subseteq remaining
          /\ \A x \in DOMAIN wave : wave[x] = "ended"
      BY <2>9 DEF Reconcile, InStep, Waves
    <3>2. \A x \in DOMAIN subs : subs[x].status # "doing"
      BY <3>1 DEF Divided, Books
    <3>3. CASE waveErr
      <4>1. pc' = "cascade" /\ todo' = remaining'
        BY <2>9, <3>3 DEF Reconcile, AfterWave
      <4>2. \A x \in todo' : subs[x].status = "pending"
        BY <3>1, <4>1 DEF Books
      <4> QED BY <3>1, <3>2, <4>1, <4>2 DEF Divided
    <3>4. CASE ~ waveErr
      <4>1. \A x \in DOMAIN wave : subs[x].status = "done"
        BY <3>1, <3>4 DEF Waves, Session
      <4>2. pc' = "schedule" /\ done' = done \cup DOMAIN wave
        BY <2>9, <3>4, <4>1 DEF Reconcile, AfterWave
      <4>3. remaining' = {} => final'
        BY <3>1 DEF Divided
      <4>4. DOMAIN subs' = done' \cup remaining'
        BY <3>1, <4>2 DEF Divided
      <4> QED BY <3>1, <4>2, <4>3, <4>4 DEF Divided
    <3> QED BY <3>3, <3>4
  <2>10. CASE RoundDone
    <3>1. /\ pc \in {"schedule", "reset"} /\ todo = {} /\ DOMAIN wave = {}
          /\ pc' = "idle" /\ outcome' = "ok" /\ UNCHANGED <<subs, final>>
      BY <2>10 DEF RoundDone, Books, Tables, loop
    <3>2. \A x \in remaining : x \in DOMAIN subs /\ subs[x].status = "pending"
      BY <3>1 DEF Books, Tables
    <3>3. (\A x \in DOMAIN subs : subs[x].status = "done") => final
      BY <3>1, <3>2 DEF Divided
    <3> QED BY <3>1, <3>3 DEF Divided
  <2>11. CASE RoundFailed
    <3>1. pc' = "idle" /\ outcome' = "failed"
      BY <2>11 DEF RoundFailed
    <3> QED BY <3>1 DEF Divided
  <2>12. CASE UNCHANGED <<loop, pc, outcome>>
    BY <2>12 DEF Divided, loop
  <2>13. CASE Edit \/ CancelContext \/ UNCHANGED vars
    BY <2>12, <2>13 DEF Edit, CreateSubtask, UpdateWrite, ReorderSubtasks, UpdateSubtask,
       DeleteSubtask, CancelContext, vars
  <2> QED
    BY <2>1, <2>2, <2>3, <2>4, <2>5, <2>6, <2>7, <2>8, <2>9, <2>10, <2>11, <2>13
       DEF Next, Run, Work
<1> QED
  BY <1>1, <1>2, RoundInvariant, PTL DEF Spec

\* A wave is told that it is the last one exactly when nothing comes after it, so
\* the whole change is verified once all of it is there (orchestrator.go:800-830).
THEOREM LastWaveVerifies == Spec => []FinalWaveVerifies
<1>1. RoundInv /\ Divided => FinalWaveVerifies
  <2> SUFFICES ASSUME RoundInv, Divided PROVE FinalWaveVerifies
    OBVIOUS
  <2>1. ASSUME final, pc = "wave", NEW x \in DOMAIN subs \ DOMAIN wave
        PROVE  subs[x].status = "done"
    BY <2>1 DEF RoundInv, Divided, Books
  <2> QED BY <2>1 DEF Divided, FinalWaveVerifies
<1> QED
  BY <1>1, RoundInvariant, CopiesDivided, PTL

-----------------------------------------------------------------------------
(* The loop keeps the promises of PlanRound.                               *)

\* On the paths planners declare, the path test sees every clash.
PathTestRight == \A P, Q \in PathSets : Clash(P, Q) => Overlap(P, Q)

\* How the loop's copies look to PlanRound.
PlanSeen  == IF Open THEN [x \in DOMAIN subs |-> [deps |-> subs[x].deps, paths |-> subs[x].paths]]
                     ELSE <<>>
PhaseSeen == IF Open THEN [x \in DOMAIN subs |-> Phase(x)] ELSE <<>>
ToldSeen  == IF Open THEN outcome ELSE "none"

RoundSeen == Tables /\ RoundInv /\ Slots /\ Rounds /\ Divided

\* A step that leaves the plan, the phases and the outcome as they are.
LEMMA SeenKept ==
  ASSUME UNCHANGED <<outcome>>, DOMAIN subs' = DOMAIN subs,
         \A x \in DOMAIN subs :
           subs'[x].deps = subs[x].deps /\ subs'[x].paths = subs[x].paths /\ Phase(x)' = Phase(x)
  PROVE  UNCHANGED <<PlanSeen, PhaseSeen, ToldSeen>>
<1>1. Open' = Open
  BY DEF Open
<1>2. [x \in DOMAIN subs |-> Phase(x)]' = [x \in DOMAIN subs |-> Phase(x)]
  OBVIOUS
<1>3. [x \in DOMAIN subs |-> [deps |-> subs[x].deps, paths |-> subs[x].paths]]'
        = [x \in DOMAIN subs |-> [deps |-> subs[x].deps, paths |-> subs[x].paths]]
  OBVIOUS
<1> QED
  BY <1>1, <1>2, <1>3 DEF PlanSeen, PhaseSeen, ToldSeen

\* While a wave runs, the subtasks seen as running are the sessions that run, and
\* those seen as done are the ones the loop counts, or sessions that have ended.
LEMMA WaveSeen ==
  ASSUME RoundSeen, pc = "wave"
  PROVE  /\ {x \in DOMAIN PhaseSeen : PhaseSeen[x] = "running"} = InStep("running")
         /\ done \subseteq {x \in DOMAIN PhaseSeen : PhaseSeen[x] = "done"}
         /\ DOMAIN PhaseSeen = DOMAIN subs /\ \A x \in DOMAIN subs : PhaseSeen[x] = Phase(x)
<1>1. Open
  BY DEF RoundSeen, Divided, Open
<1>2. DOMAIN PhaseSeen = DOMAIN subs /\ \A x \in DOMAIN subs : PhaseSeen[x] = Phase(x)
  BY <1>1 DEF PhaseSeen
<1>3. \A x \in DOMAIN subs : Phase(x) = "running" <=> subs[x].status = "doing"
  BY DEF RoundSeen, Rounds, Filled, SubtaskStatus, Phase
<1>4. \A x \in done : x \in DOMAIN subs /\ Phase(x) = "done"
  BY DEF RoundSeen, RoundInv, Books, Phase
<1>5. \A x \in DOMAIN subs : subs[x].status = "doing" <=> x \in InStep("running")
  BY DEF RoundSeen, RoundInv, Books, Waves, Session, Divided, Tables, InStep
<1>6. InStep("running") \subseteq DOMAIN subs
  BY DEF RoundSeen, Tables, InStep
<1> QED
  BY <1>2, <1>3, <1>4, <1>5, <1>6

\* The write of a status shows as the phase of one subtask.
LEMMA PhaseWritten ==
  ASSUME RoundSeen, Open, pc # "reset", UNCHANGED <<outcome, pc>>, NEW x \in DOMAIN subs,
         NEW s, subs' = [subs EXCEPT ![x].status = s]
  PROVE  /\ PlanSeen' = PlanSeen /\ ToldSeen' = ToldSeen
         /\ PhaseSeen' = [PhaseSeen EXCEPT ![x] = IF s = "doing" THEN "running" ELSE s]
<1>1. /\ DOMAIN subs' = DOMAIN subs /\ subs'[x].status = s
      /\ subs'[x].deps = subs[x].deps /\ subs'[x].paths = subs[x].paths
      /\ \A y \in DOMAIN subs \ {x} : subs'[y] = subs[y]
  <2>1. Shaped(subs[x])
    BY DEF RoundSeen, Tables
  <2> QED BY <2>1, StatusSet
<1>2. Open' = Open
  BY DEF Open
<1>3. [y \in DOMAIN subs |-> [deps |-> subs[y].deps, paths |-> subs[y].paths]]'
        = [y \in DOMAIN subs |-> [deps |-> subs[y].deps, paths |-> subs[y].paths]]
  BY <1>1
<1>4. /\ Phase(x)' = IF s = "doing" THEN "running" ELSE s
      /\ \A y \in DOMAIN subs \ {x} : Phase(y)' = Phase(y)
  BY <1>1 DEF Phase
<1>5. [y \in DOMAIN subs |-> Phase(y)]'
        = [[y \in DOMAIN subs |-> Phase(y)] EXCEPT ![x] = IF s = "doing" THEN "running" ELSE s]
  BY <1>1, <1>4
<1> QED
  BY <1>2, <1>3, <1>5 DEF PlanSeen, PhaseSeen, ToldSeen

\* PlanRound counts as the loop does.
LEMMA SameCount == \A S : Round!Cardinality(S) = Cardinality(S)
  BY Zenon DEF Round!Cardinality, Cardinality

\* A session that begins starts a subtask whose dependencies are done, within the
\* slots, clear of every session that runs.
LEMMA BeginStarts ==
  ASSUME PathTestRight, RoundSeen, NEW x \in DOMAIN wave, BeginSubtask(x)
  PROVE  x \in DOMAIN PhaseSeen /\ Round!Start(x)
<1>1. /\ pc = "wave" /\ UNCHANGED <<pc, outcome>> /\ wave[x] = "waiting"
      /\ Cardinality(InStep("running")) < Limit
      /\ subs' = [subs EXCEPT ![x].status = "doing"]
  BY DEF BeginSubtask
<1>2. x \in DOMAIN subs /\ outcome = "open" /\ Open
  BY <1>1 DEF RoundSeen, Tables, Divided, Open
<1>3. /\ PlanSeen' = PlanSeen /\ ToldSeen' = ToldSeen
      /\ PhaseSeen' = [PhaseSeen EXCEPT ![x] = "running"]
  <2>1. pc # "reset"
    BY <1>1
  <2> QED BY <1>1, <1>2, <2>1, PhaseWritten
<1>4. subs[x].status = "pending" /\ subs[x].deps \subseteq done
  BY <1>1 DEF RoundSeen, RoundInv, Waves, Session
<1>5. PhaseSeen[x] = "pending" /\ x \in DOMAIN PhaseSeen
  BY <1>1, <1>2, <1>4, WaveSeen DEF Phase
<1>6. ToldSeen = "open" /\ \A y \in DOMAIN subs : PlanSeen[y].deps = subs[y].deps
                                                  /\ PlanSeen[y].paths = subs[y].paths
  BY <1>2 DEF ToldSeen, PlanSeen
<1>7. {y \in DOMAIN PhaseSeen : PhaseSeen[y] = "running"} = InStep("running")
  BY <1>1, WaveSeen
<1>8. PlanSeen[x].deps \subseteq {y \in DOMAIN PhaseSeen : PhaseSeen[y] = "done"}
  BY <1>1, <1>2, <1>4, <1>6, WaveSeen
<1>9. \A y \in InStep("running") : ~ Clash(PlanSeen[x].paths, PlanSeen[y].paths)
  <2> SUFFICES ASSUME NEW y \in InStep("running")
               PROVE  ~ Clash(PlanSeen[x].paths, PlanSeen[y].paths)
    OBVIOUS
  <2>1. y \in DOMAIN wave /\ y # x /\ y \in DOMAIN subs
    BY <1>1 DEF InStep, RoundSeen, Tables
  <2>2. ~ Overlap(subs[x].paths, subs[y].paths)
    BY <1>1, <2>1 DEF RoundSeen, RoundInv, Waves, Apart
  <2>3. subs[x].paths \in PathSets /\ subs[y].paths \in PathSets
    BY <1>2, <2>1 DEF RoundSeen, Rounds, Filled
  <2>4. ~ Clash(subs[x].paths, subs[y].paths)
    BY <2>2, <2>3 DEF PathTestRight
  <2> QED BY <1>2, <1>6, <2>1, <2>4
<1>10. Cardinality({y \in DOMAIN PhaseSeen : PhaseSeen[y] = "running"}) < Limit
  BY <1>1, <1>7
<1>11. \A y \in {z \in DOMAIN PhaseSeen : PhaseSeen[z] = "running"} :
         ~ Clash(PlanSeen[x].paths, PlanSeen[y].paths)
  BY <1>7, <1>9
<1>12. x \in {y \in DOMAIN PhaseSeen :
              PlanSeen[y].deps \subseteq {z \in DOMAIN PhaseSeen : PhaseSeen[z] = "done"}}
  BY <1>5, <1>8
<1>13. ToldSeen = "open" /\ PhaseSeen[x] = "pending" /\ UNCHANGED <<PlanSeen, ToldSeen>>
  BY <1>3, <1>5, <1>6
<1>14. Round!Start(x)
  BY <1>3, <1>10, <1>11, <1>12, <1>13, SameCount, Zenon
     DEF Round!Start, Round!Free, Round!Done, Round!Running, PlanSeen, PhaseSeen, ToldSeen
<1> QED
  BY <1>5, <1>14

\* A session that ends finishes a subtask that was seen as running.
LEMMA EndFinishes ==
  ASSUME RoundSeen, NEW x \in DOMAIN wave, EndSubtask(x)
  PROVE  x \in DOMAIN PhaseSeen /\ Round!Finish(x)
<1>1. /\ pc = "wave" /\ UNCHANGED <<pc, outcome>> /\ wave[x] = "running"
      /\ \E result \in {"done", "failed"} : subs' = [subs EXCEPT ![x].status = result]
  BY DEF EndSubtask
<1>2. x \in DOMAIN subs /\ Open
  BY <1>1 DEF RoundSeen, Tables, Divided, Open
<1>3. PICK result \in {"done", "failed"} : subs' = [subs EXCEPT ![x].status = result]
  BY <1>1
<1>4. /\ PlanSeen' = PlanSeen /\ ToldSeen' = ToldSeen
      /\ PhaseSeen' = [PhaseSeen EXCEPT ![x] = result]
  <2>1. pc # "reset"
    BY <1>1
  <2> QED BY <1>1, <1>2, <1>3, <2>1, PhaseWritten
<1>5. x \in DOMAIN PhaseSeen /\ PhaseSeen[x] = "running"
  BY <1>1, <1>2, WaveSeen DEF InStep
<1>6. Round!Finish(x)
  BY <1>4, <1>5, Zenon DEF Round!Finish, PlanSeen, PhaseSeen, ToldSeen
<1> QED
  BY <1>5, <1>6

\* Loading the rows of the round opens it, with everything pending.
LEMMA ListOpens ==
  ASSUME RoundSeen, Tables', List
  PROVE  Round!Open
<1>1. /\ pc = "planned" /\ pc' = "reset" /\ outcome' = "open"
  BY DEF List
<1>2. outcome # "open" /\ Open' /\ DOMAIN subs' \subseteq Id
  BY <1>1 DEF RoundSeen, Divided, Open, Tables
<1>3. ToldSeen # "open" /\ ToldSeen' = "open"
  BY <1>1, <1>2 DEF ToldSeen
<1>4. DOMAIN PlanSeen' = DOMAIN subs'
  BY <1>2 DEF PlanSeen
<1>5. PhaseSeen' = [x \in DOMAIN PlanSeen' |-> "pending"]
  <2>1. ASSUME NEW x \in DOMAIN subs' PROVE Phase(x)' = "pending"
    BY <1>1 DEF Phase
  <2>2. [x \in DOMAIN subs |-> Phase(x)]' = [x \in DOMAIN subs' |-> "pending"]
    BY <2>1
  <2> QED BY <1>2, <1>4, <2>2 DEF PhaseSeen
<1>6. DOMAIN PlanSeen' \subseteq Id
  BY <1>2, <1>4
<1> QED
  BY <1>3, <1>5, <1>6, Zenon DEF Round!Open, PlanSeen, PhaseSeen, ToldSeen

\* When the loop finds nothing ready, nothing that could run is left.
LEMMA DoneSucceeds ==
  ASSUME RoundSeen, RoundDone
  PROVE  Round!Succeed
<1>1. /\ pc \in {"schedule", "reset"} /\ pc' = "idle" /\ todo = {} /\ outcome' = "ok"
      /\ DOMAIN wave = {} /\ UNCHANGED subs /\ Ready = {}
  BY DEF RoundDone, RoundSeen, RoundInv, Books, Tables, NothingReady, loop
<1>2. outcome = "open" /\ Open /\ Open'
  BY <1>1 DEF RoundSeen, Divided, Open
<1>3. /\ failed = {} /\ DOMAIN subs = done \cup remaining
      /\ \A x \in remaining : subs[x].status = "pending" /\ x \notin done
      /\ \A x \in done : subs[x].status = "done"
      /\ pc = "reset" => done = {}
  BY <1>1 DEF RoundSeen, RoundInv, Divided, Books
<1>4. \A x \in DOMAIN subs : Phase(x)' = Phase(x)
  BY <1>1, <1>3 DEF Phase
<1>5. \A x \in DOMAIN subs : Phase(x) = "done" <=> x \in done
  BY <1>1, <1>3 DEF Phase
<1>6. /\ DOMAIN PhaseSeen = DOMAIN subs /\ \A x \in DOMAIN subs : PhaseSeen[x] = Phase(x)
      /\ \A x \in DOMAIN subs : PlanSeen[x].deps = subs[x].deps
  BY <1>2 DEF PhaseSeen, PlanSeen
<1>7. {x \in DOMAIN PhaseSeen : PhaseSeen[x] = "done"} = done
  BY <1>3, <1>5, <1>6
<1>8. {x \in DOMAIN PhaseSeen : PlanSeen[x].deps \subseteq
                                  {z \in DOMAIN PhaseSeen : PhaseSeen[z] = "done"}}
        \subseteq {z \in DOMAIN PhaseSeen : PhaseSeen[z] = "done"}
  <2> SUFFICES ASSUME NEW x \in DOMAIN subs, subs[x].deps \subseteq done PROVE x \in done
    BY <1>6, <1>7
  <2> QED BY <1>1, <1>3 DEF Ready
<1>9. PhaseSeen' = PhaseSeen /\ PlanSeen' = PlanSeen
  <2>1. /\ [x \in DOMAIN subs |-> Phase(x)]' = [x \in DOMAIN subs |-> Phase(x)]
        /\ [x \in DOMAIN subs |-> [deps |-> subs[x].deps, paths |-> subs[x].paths]]'
             = [x \in DOMAIN subs |-> [deps |-> subs[x].deps, paths |-> subs[x].paths]]
    BY <1>1, <1>4
  <2> QED BY <1>2, <2>1 DEF PhaseSeen, PlanSeen
<1>10. ToldSeen = "open" /\ ToldSeen' = "ok"
  BY <1>1, <1>2 DEF ToldSeen
<1> QED
  BY <1>8, <1>9, <1>10, Zenon
     DEF Round!Succeed, Round!Free, Round!Done, PlanSeen, PhaseSeen, ToldSeen

\* After an error the loop gives up the subtasks that were never scheduled, one by
\* one, and then the round.
LEMMA CascadeGivesUp ==
  ASSUME RoundSeen, RoundFailed \/ \E x \in todo : CascadeCancel(x)
  PROVE  Round!GiveUp
<1>1. pc = "cascade" /\ outcome = "open" /\ Open
  BY DEF RoundFailed, CascadeCancel, RoundSeen, Divided, Open
<1>2. DOMAIN PhaseSeen = DOMAIN subs /\ \A x \in DOMAIN subs : PhaseSeen[x] = Phase(x)
  BY <1>1 DEF PhaseSeen
<1>3. {x \in DOMAIN PhaseSeen : PhaseSeen[x] = "running"} = {}
  BY <1>1, <1>2 DEF RoundSeen, Divided, Rounds, Filled, SubtaskStatus, Phase
<1> DEFINE Pending  == {x \in DOMAIN PhaseSeen : PhaseSeen[x] = "pending"}
           Given(S) == [x \in DOMAIN PhaseSeen |-> IF x \in S THEN "failed" ELSE PhaseSeen[x]]
           Gives    == /\ PlanSeen' = PlanSeen /\ ToldSeen = "open"
                       /\ ToldSeen' \in {"open", "failed"}
                       /\ \E S \in SUBSET Pending : PhaseSeen' = Given(S)
<1>4. Gives
  <2>1. CASE RoundFailed
    <3>1. pc' = "idle" /\ outcome' = "failed" /\ UNCHANGED subs /\ Open'
      BY <2>1 DEF RoundFailed, Open, loop
    <3>2. \A x \in DOMAIN subs : Phase(x)' = Phase(x)
      BY <1>1, <3>1 DEF Phase
    <3>3. PhaseSeen' = PhaseSeen /\ PlanSeen' = PlanSeen
      <4>1. /\ [x \in DOMAIN subs |-> Phase(x)]' = [x \in DOMAIN subs |-> Phase(x)]
            /\ [x \in DOMAIN subs |-> [deps |-> subs[x].deps, paths |-> subs[x].paths]]'
                 = [x \in DOMAIN subs |-> [deps |-> subs[x].deps, paths |-> subs[x].paths]]
        BY <3>1, <3>2
      <4> QED BY <1>1, <3>1, <4>1 DEF PhaseSeen, PlanSeen
    <3>4. PhaseSeen = [x \in DOMAIN PhaseSeen |-> PhaseSeen[x]]
      BY <1>1 DEF PhaseSeen
    <3>5. ToldSeen = "open" /\ ToldSeen' = "failed"
      BY <1>1, <3>1 DEF ToldSeen
    <3>6. {} \in SUBSET Pending /\ PhaseSeen' = Given({})
      BY <3>3, <3>4
    <3> QED BY <3>3, <3>5, <3>6
  <2>2. ASSUME NEW x \in todo, CascadeCancel(x) PROVE Gives
    <3>1. /\ UNCHANGED <<pc, outcome>> /\ subs' = [subs EXCEPT ![x].status = "failed"]
          /\ x \in DOMAIN subs
      BY <1>1, <2>2 DEF CascadeCancel, RoundSeen, Tables
    <3>2. /\ PlanSeen' = PlanSeen /\ ToldSeen' = ToldSeen
          /\ PhaseSeen' = [PhaseSeen EXCEPT ![x] = "failed"]
      <4>1. pc # "reset"
        BY <1>1
      <4> QED BY <1>1, <3>1, <4>1, PhaseWritten
    <3>3. PhaseSeen[x] = "pending" /\ x \in DOMAIN PhaseSeen
      BY <1>1, <1>2, <2>2, <3>1 DEF RoundSeen, Divided, Phase
    <3>4. PhaseSeen = [y \in DOMAIN PhaseSeen |-> PhaseSeen[y]] /\ ToldSeen = "open"
      BY <1>1 DEF PhaseSeen, ToldSeen
    <3>5. {x} \in SUBSET Pending /\ PhaseSeen' = Given({x})
      BY <3>2, <3>3, <3>4
    <3> QED BY <3>2, <3>4, <3>5
  <2> QED
    BY <2>1, <2>2
<1> QED
  BY <1>3, <1>4, Zenon DEF Round!GiveUp, Round!Running, PlanSeen, PhaseSeen, ToldSeen

\* Every step of the loop, of the users and of the sidecar is a step of PlanRound
\* or leaves everything it sees as it was.
LEMMA RoundStep ==
  ASSUME PathTestRight, RoundSeen, Tables', [Next]_vars
  PROVE  Round!RoundNext \/ UNCHANGED <<PlanSeen, PhaseSeen, ToldSeen>>
<1>1. ASSUME UNCHANGED <<subs, outcome>>, pc # "reset", pc' # "reset"
      PROVE  UNCHANGED <<PlanSeen, PhaseSeen, ToldSeen>>
  BY <1>1, SeenKept DEF Phase
<1>2. ASSUME UNCHANGED <<subs, outcome, pc>>
      PROVE  UNCHANGED <<PlanSeen, PhaseSeen, ToldSeen>>
  BY <1>2, SeenKept DEF Phase
<1>3. CASE CreatePlan \/ SkipPlanning
  BY <1>1, <1>3 DEF CreatePlan, SkipPlanning, loop
<1>4. CASE PlanRefused \/ SingleSession \/ Restart
  <2>1. outcome' \in {"none", "single"}
    BY <1>4 DEF PlanRefused, SingleSession, Restart
  <2>2. PlanSeen' = <<>> /\ PhaseSeen' = <<>> /\ ToldSeen' = "none"
    BY <2>1 DEF Open, PlanSeen, PhaseSeen, ToldSeen
  <2>3. Round!Crash
    BY <2>2, Zenon DEF Round!Crash, PlanSeen, PhaseSeen, ToldSeen
  <2> QED BY <2>3 DEF Round!RoundNext
<1>5. CASE List
  BY <1>5, ListOpens DEF Round!RoundNext
<1>6. ASSUME NEW x \in todo, ResetStatus(x)
      PROVE  UNCHANGED <<PlanSeen, PhaseSeen, ToldSeen>>
  <2>1. /\ pc = "reset" /\ UNCHANGED <<pc, outcome>> /\ x \in DOMAIN subs
        /\ subs' = [subs EXCEPT ![x].status = "pending"]
    BY <1>6 DEF ResetStatus, RoundSeen, Tables
  <2>2. Shaped(subs[x])
    BY <2>1 DEF RoundSeen, Tables
  <2>3. /\ DOMAIN subs' = DOMAIN subs
        /\ \A y \in DOMAIN subs : subs'[y].deps = subs[y].deps /\ subs'[y].paths = subs[y].paths
    BY <2>1, <2>2, StatusSet
  <2> QED BY <2>1, <2>3, SeenKept DEF Phase
<1>7. ASSUME NEW x \in todo, CascadeCancel(x)
      PROVE  Round!RoundNext \/ UNCHANGED <<PlanSeen, PhaseSeen, ToldSeen>>
  BY <1>7, CascadeGivesUp DEF Round!RoundNext
<1>8. CASE StartWave
  <2>1. /\ pc \in {"schedule", "reset"} /\ pc' = "wave" /\ UNCHANGED <<subs, outcome>>
        /\ todo = {} /\ DOMAIN wave = {}
    BY <1>8 DEF StartWave, RoundSeen, RoundInv, Books, Tables
  <2>2. ASSUME NEW x \in DOMAIN subs PROVE Phase(x)' = Phase(x)
    <3>1. pc = "reset" => subs[x].status = "pending"
      BY <2>1 DEF RoundSeen, RoundInv, Books, Divided
    <3> QED BY <2>1, <3>1 DEF Phase
  <2> QED BY <2>1, <2>2, SeenKept
<1>9. ASSUME NEW x \in DOMAIN wave, BeginSubtask(x) \/ LeaveWave(x) \/ EndSubtask(x)
      PROVE  Round!RoundNext \/ UNCHANGED <<PlanSeen, PhaseSeen, ToldSeen>>
  <2>1. CASE BeginSubtask(x)
    <3>1. x \in DOMAIN PhaseSeen /\ Round!Start(x)
      BY <2>1, BeginStarts
    <3> QED BY <3>1, Zenon DEF Round!RoundNext, PhaseSeen
  <2>2. CASE EndSubtask(x)
    <3>1. x \in DOMAIN PhaseSeen /\ Round!Finish(x)
      BY <2>2, EndFinishes
    <3> QED BY <3>1, Zenon DEF Round!RoundNext, PhaseSeen
  <2>3. CASE LeaveWave(x)
    BY <1>2, <2>3 DEF LeaveWave
  <2> QED BY <1>9, <2>1, <2>2, <2>3
<1>10. CASE Reconcile
  BY <1>1, <1>10 DEF Reconcile, AfterWave
<1>11. CASE RoundDone
  BY <1>11, DoneSucceeds DEF Round!RoundNext
<1>12. CASE RoundFailed
  BY <1>12, CascadeGivesUp DEF Round!RoundNext
<1>13. CASE Edit \/ CancelContext \/ UNCHANGED vars
  <2>1. UNCHANGED <<subs, outcome, pc>>
    BY <1>13 DEF Edit, CreateSubtask, UpdateWrite, ReorderSubtasks, UpdateSubtask,
       DeleteSubtask, CancelContext, vars, loop
  <2> QED BY <1>2, <2>1
<1> QED
  BY <1>3, <1>4, <1>5, <1>6, <1>7, <1>8, <1>9, <1>10, <1>11, <1>12, <1>13
     DEF Next, Run, Work

\* Where the path test sees every clash, the loop keeps the promises of PlanRound:
\* a session starts only when all it depends on is done, within the slots, and
\* never beside a session that may write the same file; a success leaves nothing
\* behind that could have run; only what never ran is given up
\* (orchestrator.go:743-921).
THEOREM RoundIsImplemented ==
  ASSUME PathTestRight
  PROVE  Spec => RoundImplemented
<1>1. Init => Round!RoundInit
  <2>1. Init => ~ Open
    BY DEF Init, Open
  <2> QED BY <2>1 DEF Round!RoundInit
<1>2. RoundSeen /\ Tables' /\ [Next]_vars => [Round!RoundNext]_(Round!roundVars)
  <2>1. UNCHANGED <<PlanSeen, PhaseSeen, ToldSeen>> => UNCHANGED Round!roundVars
    BY Zenon DEF Round!roundVars, PlanSeen, PhaseSeen, ToldSeen
  <2> QED BY <2>1, RoundStep
<1>3. RoundSeen <=> Tables /\ RoundInv /\ Slots /\ Rounds /\ Divided
  BY DEF RoundSeen
<1> QED
  BY <1>1, <1>2, <1>3, TablesShaped, RoundInvariant, SlotsKept, RoundsAgree, CopiesDivided, PTL
     DEF Spec, RoundImplemented, Round!RoundSpec

-----------------------------------------------------------------------------
(* The types, where the planner's sort is right (PlanGraph!SortRight).      *)

RowsTyped ==
  /\ \A x \in DOMAIN rows : rows[x] \in Row
  /\ \A x \in DOMAIN subs : subs[x] \in Row
  /\ edit # None => edit.id \in Id /\ edit.row \in Row

LoopTyped ==
  /\ pc \in {"idle", "planned", "reset", "schedule", "wave", "cascade"}
  /\ outcome \in {"none", "open", "ok", "failed", "single"}
  /\ remaining \cup done \cup failed \cup todo \cup DOMAIN wave \subseteq Id
  /\ \A x \in DOMAIN wave : wave[x] \in {"waiting", "running", "ended"}

FlagsTyped == {planner, final, waveErr, ctxDone} \subseteq BOOLEAN

\* The table never holds more rows than there are identifiers.
LEMMA RowsFinite ==
  ASSUME Tables
  PROVE  IsFiniteSet(DOMAIN rows) /\ \A S \in SUBSET DOMAIN rows : Cardinality(S) \in Nat
<1>1. \A S \in SUBSET DOMAIN rows : IsFiniteSet(S)
  BY FS_Subset, IdAssumption DEF Tables
<1> QED
  BY <1>1, FS_CardinalityType

\* A plan is inserted under new identifiers, as a round of its own, numbered with
\* every dependency before what depends on it.
LEMMA PlanInserted ==
  ASSUME SortRight(Id), Tables, Rounds, CreatePlan
  PROVE  \E new :
           /\ DOMAIN new \subseteq fresh /\ Insert(new)
           /\ \A x \in DOMAIN new :
                /\ new[x] \in Row /\ new[x].round = MaxRound + 1
                /\ \A y \in new[x].deps : y \in DOMAIN new /\ new[y].order < new[x].order
<1>1. PICK S \in SUBSET fresh : \E deps \in [S -> SUBSET S], paths \in [S -> PathSets] :
        /\ Accepted(deps)
        /\ Insert([x \in S |-> [status |-> "pending", deps |-> deps[x], paths |-> paths[x],
                                order |-> OrderIdx(deps)[x], round |-> MaxRound + 1]])
  BY Zenon DEF CreatePlan
<1>2. PICK deps \in [S -> SUBSET S] : \E paths \in [S -> PathSets] :
        /\ Accepted(deps)
        /\ Insert([x \in S |-> [status |-> "pending", deps |-> deps[x], paths |-> paths[x],
                                order |-> OrderIdx(deps)[x], round |-> MaxRound + 1]])
  BY <1>1
<1>3. PICK paths \in [S -> PathSets] :
        /\ Accepted(deps)
        /\ Insert([x \in S |-> [status |-> "pending", deps |-> deps[x], paths |-> paths[x],
                                order |-> OrderIdx(deps)[x], round |-> MaxRound + 1]])
  BY <1>2
<1> DEFINE order == OrderIdx(deps)
           new == [x \in S |-> [status |-> "pending", deps |-> deps[x], paths |-> paths[x],
                                order |-> order[x], round |-> MaxRound + 1]]
<1>4. S \subseteq Id /\ MaxRound + 1 \in Nat
  BY LastRound DEF Tables
<1>5. \A x \in S : order[x] \in Nat /\ \A y \in deps[x] : order[y] < order[x]
  <2>1. Accepted(deps) /\ S \in SUBSET Id /\ deps \in [S -> SUBSET S]
    BY <1>3, <1>4
  <2> HIDE DEF order
  <2> QED BY <2>1 DEF SortRight, order
<1>6. Insert(new)
  BY <1>3, Zenon
<1> HIDE DEF order
<1>7. ASSUME NEW x \in S
      PROVE  /\ new[x] \in Row /\ new[x].round = MaxRound + 1
             /\ \A y \in new[x].deps : y \in S /\ new[y].order < new[x].order
  <2>1. deps[x] \subseteq S /\ paths[x] \in PathSets /\ order[x] \in Nat
    BY <1>5
  <2>2. new[x] \in Row /\ new[x].round = MaxRound + 1
    BY <1>4, <2>1 DEF Row, SubtaskStatus
  <2>3. ASSUME NEW y \in new[x].deps PROVE y \in S /\ new[y].order < new[x].order
    <3>1. y \in deps[x] /\ y \in S
      BY <2>1, <2>3
    <3> QED BY <1>5, <3>1
  <2> QED BY <2>2, <2>3
<1>8. DOMAIN new = S
  OBVIOUS
<1> HIDE DEF new
<1> QED
  BY <1>6, <1>7, <1>8

\* A manual subtask is inserted alone, under a new identifier.
LEMMA ManualInserted ==
  ASSUME Tables, CreateSubtask
  PROVE  \E new : /\ DOMAIN new \subseteq fresh /\ Insert(new)
                  /\ \A x \in DOMAIN new : new[x] \in Row
<1>1. PICK x \in fresh :
        \E status \in SubtaskStatus, deps \in SUBSET (Id \ {x}), paths \in PathSets,
           order \in 1 .. 1 + Cardinality(DOMAIN rows) :
          Insert([y \in {x} |-> [status |-> status, deps |-> deps, paths |-> paths,
                                 order |-> order, round |-> 1]])
  BY Zenon DEF CreateSubtask
<1>2. PICK status \in SubtaskStatus, deps \in SUBSET (Id \ {x}), paths \in PathSets,
           order \in 1 .. 1 + Cardinality(DOMAIN rows) :
        Insert([y \in {x} |-> [status |-> status, deps |-> deps, paths |-> paths,
                               order |-> order, round |-> 1]])
  BY <1>1, Zenon
<1> DEFINE new == [y \in {x} |-> [status |-> status, deps |-> deps, paths |-> paths,
                                  order |-> order, round |-> 1]]
<1>3. order \in Nat
  BY RowsFinite
<1>4. DOMAIN new = {x} /\ new[x] \in Row
  BY <1>3 DEF Row
<1>5. Insert(new)
  BY <1>2, Zenon
<1> HIDE DEF new
<1> QED
  BY <1>4, <1>5

\* The write of a status keeps the types of the copy and of its row.
LEMMA StatusTyped ==
  ASSUME RowsTyped, NEW x \in DOMAIN subs, NEW s \in SubtaskStatus, NEW c,
         subs' = [subs EXCEPT ![x].status = s], Update(x, subs'[x], c), UNCHANGED edit
  PROVE  RowsTyped'
<1>1. subs[x] \in Row /\ DOMAIN subs' = DOMAIN subs /\ subs'[x] = [subs[x] EXCEPT !.status = s]
      /\ \A y \in DOMAIN subs : y # x => subs'[y] = subs[y]
  BY DEF RowsTyped
<1>2. subs'[x] \in Row
  BY <1>1 DEF Row
<1>3. \A y \in DOMAIN rows' : rows'[y] \in Row
  BY <1>2 DEF RowsTyped, Update
<1> QED
  BY <1>1, <1>2, <1>3 DEF RowsTyped

\* The rows, the copies and the edit in flight keep their types.
LEMMA RowsTypedNext ==
  ASSUME SortRight(Id), Tables, Rounds, RowsTyped, [Next]_vars
  PROVE  RowsTyped'
<1>1. {"pending", "doing", "done", "failed"} \subseteq SubtaskStatus
  BY DEF SubtaskStatus
<1>2. CASE CreatePlan
  <2>1. PICK new : Insert(new) /\ \A x \in DOMAIN new : new[x] \in Row
    BY <1>2, PlanInserted
  <2>2. \A x \in DOMAIN rows' : rows'[x] \in Row
    BY <2>1 DEF Insert, RowsTyped
  <2>3. UNCHANGED <<subs, edit>>
    BY <1>2 DEF CreatePlan, loop
  <2> QED BY <2>2, <2>3 DEF RowsTyped
<1>3. CASE CreateSubtask
  <2>1. PICK new : Insert(new) /\ \A x \in DOMAIN new : new[x] \in Row
    BY <1>3, ManualInserted
  <2>2. \A y \in DOMAIN rows' : rows'[y] \in Row
    BY <2>1 DEF Insert, RowsTyped
  <2>3. UNCHANGED <<subs, edit>>
    BY <1>3 DEF CreateSubtask, loop
  <2> QED BY <2>2, <2>3 DEF RowsTyped
<1>4. CASE PlanRefused \/ SingleSession \/ Restart
  <2>1. DOMAIN subs' = {} /\ UNCHANGED rows /\ (edit' = edit \/ edit' = None)
    BY <1>4 DEF PlanRefused, SingleSession, Restart
  <2> QED BY <2>1 DEF RowsTyped
<1>5. CASE List
  <2>1. UNCHANGED <<rows, edit>> /\ DOMAIN subs' = LatestRound
        /\ \A x \in LatestRound : x \in DOMAIN rows /\ subs'[x] = rows[x]
    BY <1>5 DEF List, Restrict, LatestRound
  <2> QED BY <2>1 DEF RowsTyped
<1>6. ASSUME NEW x \in todo, ResetStatus(x) \/ CascadeCancel(x) PROVE RowsTyped'
  <2>1. x \in DOMAIN subs
    BY <1>6 DEF ResetStatus, CascadeCancel, Tables
  <2>2. CASE ResetStatus(x)
    BY <1>1, <2>1, <2>2, StatusTyped DEF ResetStatus
  <2>3. CASE CascadeCancel(x)
    BY <1>1, <2>1, <2>3, StatusTyped DEF CascadeCancel
  <2> QED BY <1>6, <2>2, <2>3
<1>7. ASSUME NEW x \in DOMAIN wave, BeginSubtask(x) \/ EndSubtask(x) PROVE RowsTyped'
  <2>1. x \in DOMAIN subs
    BY <1>7 DEF BeginSubtask, EndSubtask, Tables
  <2>2. CASE BeginSubtask(x)
    BY <1>1, <2>1, <2>2, StatusTyped DEF BeginSubtask
  <2>3. CASE EndSubtask(x)
    BY <1>1, <2>1, <2>3, StatusTyped DEF EndSubtask
  <2> QED BY <1>7, <2>2, <2>3
<1>8. CASE UpdateWrite
  <2>1. /\ edit # None /\ edit' = None /\ UNCHANGED subs
        /\ \E status \in {edit.row.status} \cup SubtaskStatus :
             Update(edit.id, [edit.row EXCEPT !.status = status], FALSE)
    BY <1>8 DEF UpdateWrite, loop
  <2>2. edit.row \in Row
    BY <2>1 DEF RowsTyped
  <2>3. PICK status \in SubtaskStatus : Update(edit.id, [edit.row EXCEPT !.status = status], FALSE)
    BY <2>1, <2>2 DEF Row
  <2>4. [edit.row EXCEPT !.status = status] \in Row
    BY <2>2 DEF Row
  <2>5. \A x \in DOMAIN rows' : rows'[x] \in Row
    BY <2>3, <2>4 DEF RowsTyped, Update
  <2> QED BY <2>1, <2>5 DEF RowsTyped
<1>9. CASE ReorderSubtasks
  <2>1. PICK S \in SUBSET DOMAIN rows : \E position \in Bijection(S, 0 .. Cardinality(S) - 1) :
          rows' = [x \in DOMAIN rows |->
                    IF x \in S THEN [rows[x] EXCEPT !.order = position[x]] ELSE rows[x]]
    BY <1>9, Zenon DEF ReorderSubtasks
  <2>2. PICK position \in Bijection(S, 0 .. Cardinality(S) - 1) :
          rows' = [x \in DOMAIN rows |->
                    IF x \in S THEN [rows[x] EXCEPT !.order = position[x]] ELSE rows[x]]
    BY <2>1, Zenon
  <2>3. Cardinality(S) \in Nat /\ position \in [S -> 0 .. Cardinality(S) - 1]
    BY RowsFinite DEF Bijection, Injection
  <2>4. \A x \in S : position[x] \in Nat
    BY <2>3
  <2>5. ASSUME NEW x \in DOMAIN rows PROVE rows'[x] \in Row
    <3>1. rows[x] \in Row
      BY DEF RowsTyped
    <3>2. rows'[x] = IF x \in S THEN [rows[x] EXCEPT !.order = position[x]] ELSE rows[x]
      BY <2>2
    <3> QED BY <2>4, <3>1, <3>2 DEF Row
  <2>6. UNCHANGED <<subs, edit>> /\ DOMAIN rows' = DOMAIN rows
    BY <1>9, <2>2 DEF ReorderSubtasks, loop
  <2> QED BY <2>5, <2>6 DEF RowsTyped
<1>10. ASSUME NEW x \in DOMAIN rows, UpdateSubtask(x) PROVE RowsTyped'
  <2>1. UNCHANGED <<rows, subs>> /\ edit'.id = x /\ edit'.row = rows[x] /\ x \in Id
    BY <1>10 DEF UpdateSubtask, loop, Tables
  <2> QED BY <2>1 DEF RowsTyped
<1>11. ASSUME NEW x \in DOMAIN rows, DeleteSubtask(x) PROVE RowsTyped'
  <2>1. UNCHANGED <<subs, edit>> /\ DOMAIN rows' \subseteq DOMAIN rows
        /\ \A y \in DOMAIN rows' : rows'[y] = rows[y]
    BY <1>11 DEF DeleteSubtask, loop, Restrict
  <2> QED BY <2>1 DEF RowsTyped
<1>12. CASE UNCHANGED <<rows, subs, edit>>
  BY <1>12 DEF RowsTyped
<1>13. CASE SkipPlanning \/ StartWave \/ Reconcile \/ RoundDone \/ RoundFailed \/ CancelContext
            \/ UNCHANGED vars \/ \E x \in DOMAIN wave : LeaveWave(x)
  BY <1>12, <1>13 DEF SkipPlanning, StartWave, LeaveWave, Reconcile, RoundDone, RoundFailed,
     CancelContext, vars, loop
<1> QED
  BY <1>2, <1>3, <1>4, <1>5, <1>6, <1>7, <1>8, <1>9, <1>10, <1>11, <1>13
     DEF Next, Run, Work, Edit

\* The books of the loop name subtasks, its program counter and its sessions are
\* where the code can be.
LEMMA LoopTypedNext ==
  ASSUME Tables, LoopTyped, [Next]_vars
  PROVE  LoopTyped'
<1> USE DEF LoopTyped
<1>1. CASE CreatePlan \/ PlanRefused \/ SkipPlanning \/ SingleSession \/ RoundDone \/ RoundFailed
           \/ CancelContext \/ Restart \/ UNCHANGED vars
  BY <1>1 DEF CreatePlan, PlanRefused, SkipPlanning, SingleSession, RoundDone, RoundFailed,
     CancelContext, Restart, vars, loop
<1>2. CASE List
  BY <1>2 DEF List, LatestRound, Tables
<1>3. ASSUME NEW x \in todo, ResetStatus(x) \/ CascadeCancel(x) PROVE LoopTyped'
  BY <1>3 DEF ResetStatus, CascadeCancel
<1>4. CASE StartWave
  <2>1. PICK batch \in SUBSET Ready : wave' = [x \in batch |-> "waiting"]
    BY <1>4, Zenon DEF StartWave
  <2>2. DOMAIN wave' = batch /\ batch \subseteq remaining /\ \A x \in batch : wave'[x] = "waiting"
    BY <2>1 DEF Ready
  <2> QED BY <1>4, <2>2 DEF StartWave
<1>5. ASSUME NEW x \in DOMAIN wave, BeginSubtask(x) \/ LeaveWave(x) \/ EndSubtask(x)
      PROVE  LoopTyped'
  <2>1. /\ UNCHANGED <<pc, outcome, remaining, done, failed, todo>>
        /\ DOMAIN wave' = DOMAIN wave
        /\ \A y \in DOMAIN wave : wave'[y] \in {wave[y], "running", "ended"}
    BY <1>5 DEF BeginSubtask, LeaveWave, EndSubtask
  <2> QED BY <2>1
<1>6. CASE Reconcile
  <2>1. /\ pc' \in {"schedule", "cascade"} /\ outcome' = outcome /\ DOMAIN wave' = {}
        /\ remaining' \subseteq remaining /\ todo' \subseteq remaining
        /\ done' \subseteq done \cup DOMAIN wave /\ failed' \subseteq failed \cup DOMAIN wave
    BY <1>6 DEF Reconcile, AfterWave
  <2> QED BY <2>1
<1>7. CASE Edit
  BY <1>7 DEF Edit, CreateSubtask, UpdateWrite, ReorderSubtasks, UpdateSubtask, DeleteSubtask, loop
<1> QED
  BY <1>1, <1>2, <1>3, <1>4, <1>5, <1>6, <1>7 DEF Next, Run, Work

\* The flags are flags.
LEMMA FlagsTypedNext ==
  ASSUME FlagsTyped, [Next]_vars
  PROVE  FlagsTyped'
<1> USE DEF FlagsTyped
<1>1. CASE UNCHANGED <<planner, final, waveErr, ctxDone>>
  BY <1>1
<1>2. CASE CreatePlan \/ PlanRefused \/ SkipPlanning \/ List \/ SingleSession \/ Restart
  BY <1>2 DEF CreatePlan, PlanRefused, SkipPlanning, List, SingleSession, Restart, loop
<1>3. CASE StartWave
  <2>1. final' \in BOOLEAN
    BY <1>3, Zenon DEF StartWave, IsFinal
  <2> QED BY <1>3, <2>1 DEF StartWave
<1>4. ASSUME NEW x \in DOMAIN wave, EndSubtask(x) PROVE FlagsTyped'
  <2>1. waveErr' \in BOOLEAN
    BY <1>4, Zenon DEF EndSubtask
  <2> QED BY <1>4, <2>1 DEF EndSubtask
<1>5. ASSUME NEW x \in DOMAIN wave, BeginSubtask(x) \/ LeaveWave(x) PROVE FlagsTyped'
  BY <1>5 DEF BeginSubtask, LeaveWave
<1>6. CASE CancelContext \/ RoundDone \/ RoundFailed \/ Reconcile \/ UNCHANGED vars
           \/ \E x \in todo : ResetStatus(x) \/ CascadeCancel(x)
  BY <1>6 DEF CancelContext, RoundDone, RoundFailed, Reconcile, ResetStatus, CascadeCancel,
     vars, loop
<1>7. CASE Edit
  BY <1>7 DEF Edit, CreateSubtask, UpdateWrite, ReorderSubtasks, UpdateSubtask, DeleteSubtask, loop
<1> QED
  BY <1>1, <1>2, <1>3, <1>4, <1>5, <1>6, <1>7 DEF Next, Run, Work

\* The table, the loop's copies and books, and the edit in flight stay what the
\* code takes them to be: in particular every row has a natural position, given by
\* the planner's sort, by the user or by a reordering (subtask_store.go:80-320).
THEOREM SubtasksTypeCorrect ==
  ASSUME SortRight(Id)
  PROVE  Spec => []TypeOK
<1> DEFINE Typed == RowsTyped /\ LoopTyped /\ FlagsTyped
<1>1. Init => Typed
  <2> SUFFICES ASSUME Init PROVE Typed
    OBVIOUS
  <2>1. DOMAIN rows = {} /\ DOMAIN subs = {} /\ DOMAIN wave = {} /\ edit = None
    BY DEF Init
  <2>2. RowsTyped /\ LoopTyped
    BY <2>1 DEF Init, RowsTyped, LoopTyped
  <2>3. FlagsTyped
    BY DEF Init, FlagsTyped
  <2> QED BY <2>2, <2>3
<1>2. Tables /\ Rounds /\ Typed /\ [Next]_vars => Typed'
  BY RowsTypedNext, LoopTypedNext, FlagsTypedNext
<1>3. Tables /\ Rounds /\ Typed => TypeOK
  BY DEF Tables, Rounds, RowsTyped, LoopTyped, FlagsTyped, TypeOK
<1> QED
  BY <1>1, <1>2, <1>3, TablesShaped, RoundsAgree, PTL DEF Spec

-----------------------------------------------------------------------------
(* A round nobody disturbed is settled in the table.                       *)

\* Until a user edits them, rows depend on rows of their own round that come
\* before them, and the copies agree with the rows on that.
Planned ==
  edits = 0 =>
    /\ edit = None
    /\ \A x \in DOMAIN rows : \A y \in rows[x].deps :
         y \in DOMAIN rows /\ rows[y].round = rows[x].round /\ rows[y].order < rows[x].order
    /\ \A x \in DOMAIN subs :
         x \in DOMAIN rows /\ subs[x].deps = rows[x].deps /\ subs[x].order = rows[x].order
    /\ \A x \in DOMAIN subs : subs[x].deps \subseteq DOMAIN subs

\* Until something disturbs the run, the rows are what the copies are.
Mirrored ==
  /\ faults \in Nat
  /\ faults = 0 /\ edits = 0 /\ ~ ctxDone /\ pc # "planned" =>
       \A x \in DOMAIN subs : x \in DOMAIN rows /\ rows[x] = subs[x]

\* Without a cancellation a session ends done or failed, and so does the round.
Settling ==
  ~ ctxDone =>
    /\ pc = "wave" => \A x \in DOMAIN wave : wave[x] = "ended" => subs[x].status \in {"done", "failed"}
    /\ pc = "cascade" => \A x \in DOMAIN subs \ todo : subs[x].status \in {"done", "failed"}
    /\ pc = "idle" /\ outcome = "failed" =>
         \A x \in DOMAIN subs : subs[x].status \in {"done", "failed"}
    /\ pc = "idle" /\ outcome = "ok" /\ edits = 0 =>
         \A x \in DOMAIN subs : subs[x].status = "done"

\* A function from a non-empty finite set into the naturals has a least value.
LEMMA LeastValue ==
  ASSUME NEW D, IsFiniteSet(D), D # {}, NEW f, \A x \in D : f[x] \in Nat
  PROVE  \E x \in D : \A y \in D : f[x] <= f[y]
<1>1. PICK m \in D : \A y \in D : f[y] <= f[m]
  BY GreatestValue
<1> DEFINE g == [x \in D |-> f[m] - f[x]]
<1>2. \A x \in D : g[x] \in Nat
  BY <1>1
<1>3. PICK x \in D : \A y \in D : g[y] <= g[x]
  <2> HIDE DEF g
  <2> QED BY <1>2, GreatestValue
<1>4. \A y \in D : f[x] <= f[y]
  <2> SUFFICES ASSUME NEW y \in D PROVE f[x] <= f[y]
    OBVIOUS
  <2>1. f[m] - f[y] <= f[m] - f[x]
    BY <1>3
  <2>2. f[m] \in Nat /\ f[x] \in Nat /\ f[y] \in Nat
    OBVIOUS
  <2> QED BY <2>1, <2>2
<1> QED
  BY <1>4

\* As long as nothing failed and something remains of an unedited round, something
\* is ready.
LEMMA SomethingReady ==
  ASSUME Tables, Divided, RowsTyped, Planned, edits = 0, pc \in {"reset", "schedule"},
         remaining # {}
  PROVE  Ready # {}
<1>1. DOMAIN subs = done \cup remaining /\ remaining \subseteq DOMAIN subs
  BY DEF Divided
<1> DEFINE f == [x \in remaining |-> subs[x].order]
<1>2. IsFiniteSet(remaining)
  BY <1>1, FS_Subset, IdAssumption DEF Tables
<1>3. \A x \in remaining : f[x] \in Nat
  BY <1>1 DEF RowsTyped, Row
<1>4. PICK x \in remaining : \A y \in remaining : f[x] <= f[y]
  <2> HIDE DEF f
  <2> QED BY <1>2, <1>3, LeastValue
<1>5. \A y \in subs[x].deps : y \in DOMAIN subs /\ subs[y].order < subs[x].order
  BY <1>1 DEF Planned
<1>6. \A y \in subs[x].deps : y \notin remaining
  <2> SUFFICES ASSUME NEW y \in subs[x].deps, y \in remaining PROVE FALSE
    OBVIOUS
  <2>1. f[x] <= f[y] /\ f[y] < f[x] /\ f[x] \in Nat /\ f[y] \in Nat
    BY <1>3, <1>4, <1>5
  <2> HIDE DEF f
  <2> QED BY <2>1
<1>7. subs[x].deps \subseteq done
  BY <1>1, <1>5, <1>6
<1> QED
  BY <1>7 DEF Ready

\* The write of a status touches neither the plan nor, undisturbed, the agreement of
\* the copies with their rows.
LEMMA StatusSettles ==
  ASSUME Tables, RowsTyped, Latest, Planned, Mirrored, NEW x \in DOMAIN subs,
         NEW s \in SubtaskStatus, NEW c, c => ctxDone,
         subs' = [subs EXCEPT ![x].status = s], Update(x, subs'[x], c),
         UNCHANGED <<edit, edits, ctxDone, pc>>, pc # "planned"
  PROVE  Planned' /\ Mirrored'
<1>1. /\ DOMAIN subs' = DOMAIN subs /\ \A y \in DOMAIN subs : y # x => subs'[y] = subs[y]
      /\ subs'[x].deps = subs[x].deps /\ subs'[x].order = subs[x].order
      /\ subs'[x].round = subs[x].round
  BY DEF RowsTyped, Row
<1>2. /\ DOMAIN rows' = DOMAIN rows /\ \A y \in DOMAIN rows : y # x => rows'[y] = rows[y]
      /\ x \in DOMAIN rows => rows'[x] \in {rows[x], subs'[x]}
  BY DEF Update
<1>3. ASSUME edits = 0
      PROVE  \A y \in DOMAIN rows : /\ rows'[y].deps = rows[y].deps /\ rows'[y].order = rows[y].order
                                    /\ rows'[y].round = rows[y].round
  BY <1>1, <1>2, <1>3 DEF Planned, Latest
<1>4. Planned'
  BY <1>1, <1>2, <1>3 DEF Planned
<1>5. Mirrored'
  <2>1. CASE CallFails(c)
    <3>1. (c /\ UNCHANGED faults) \/ (faults < MaxFaults /\ faults' = faults + 1)
      BY <2>1, Zenon DEF CallFails
    <3>2. CASE c
      <4>1. ctxDone'
        BY <3>2
      <4>2. faults' \in Nat
        BY <3>1 DEF Mirrored
      <4> QED BY <4>1, <4>2 DEF Mirrored
    <3>3. CASE ~ c
      <4>1. faults' = faults + 1
        BY <3>1, <3>3
      <4> QED BY <4>1 DEF Mirrored
    <3> QED BY <3>2, <3>3
  <2>2. CASE ~ CallFails(c)
    <3>1. UNCHANGED faults /\ (x \in DOMAIN rows => rows'[x] = subs'[x])
      BY <2>2 DEF Update
    <3> QED BY <1>1, <1>2, <3>1 DEF Mirrored
  <2> QED BY <2>1, <2>2
<1> QED
  BY <1>4, <1>5

\* Every step keeps the plan, and undisturbed steps keep copies and rows together.
LEMMA PlannedNext ==
  ASSUME SortRight(Id), Tables, RowsTyped, Rounds, Latest, Planned, Mirrored, [Next]_vars
  PROVE  Planned' /\ Mirrored'
<1>1. {"pending", "doing", "done", "failed"} \subseteq SubtaskStatus /\ edits \in Nat
  BY DEF SubtaskStatus, Rounds
<1>2. CASE CreatePlan
  <2>1. PICK new : /\ DOMAIN new \subseteq fresh /\ Insert(new)
                   /\ \A x \in DOMAIN new :
                        /\ new[x] \in Row /\ new[x].round = MaxRound + 1
                        /\ \A y \in new[x].deps : y \in DOMAIN new /\ new[y].order < new[x].order
    BY <1>2, PlanInserted
  <2>2. UNCHANGED <<subs, edit, edits, faults>> /\ pc' = "planned"
    BY <1>2 DEF CreatePlan, loop
  <2>3. /\ DOMAIN rows' = DOMAIN new \cup DOMAIN rows /\ DOMAIN new \cap DOMAIN rows = {}
        /\ \A x \in DOMAIN new : rows'[x] = new[x]
        /\ \A x \in DOMAIN rows : rows'[x] = rows[x]
    BY <2>1 DEF Insert, Rounds
  <2>4. ASSUME edits = 0, NEW x \in DOMAIN rows', NEW y \in rows'[x].deps
        PROVE  y \in DOMAIN rows' /\ rows'[y].round = rows'[x].round /\ rows'[y].order < rows'[x].order
    <3>1. CASE x \in DOMAIN new
      BY <2>1, <2>3, <2>4, <3>1
    <3>2. CASE x \in DOMAIN rows
      BY <2>3, <2>4, <3>2 DEF Planned
    <3> QED BY <2>3, <3>1, <3>2
  <2>5. Planned'
    BY <2>2, <2>3, <2>4 DEF Planned
  <2> QED BY <2>2, <2>5 DEF Mirrored
<1>3. CASE PlanRefused \/ SingleSession \/ Restart
  <2>1. DOMAIN subs' = {} /\ UNCHANGED <<rows, edits>> /\ (edit' = edit \/ edit' = None)
    BY <1>3 DEF PlanRefused, SingleSession, Restart
  <2>2. faults' \in Nat
    BY <1>3 DEF PlanRefused, SingleSession, Restart, CallFails, Mirrored
  <2> QED BY <2>1, <2>2 DEF Planned, Mirrored
<1>4. CASE List
  <2>1. /\ UNCHANGED <<rows, edit, edits, faults>> /\ DOMAIN subs' = LatestRound
        /\ \A x \in LatestRound : x \in DOMAIN rows /\ subs'[x] = rows[x]
        /\ LatestRound = {x \in DOMAIN rows : rows[x].round = MaxRound}
    BY <1>4 DEF List, Restrict, LatestRound
  <2> QED BY <2>1 DEF Planned, Mirrored
<1>5. ASSUME NEW x \in todo, ResetStatus(x) \/ CascadeCancel(x) PROVE Planned' /\ Mirrored'
  <2>1. x \in DOMAIN subs
    BY <1>5 DEF ResetStatus, CascadeCancel, Tables
  <2>2. CASE ResetStatus(x)
    BY <1>1, <2>1, <2>2, StatusSettles DEF ResetStatus
  <2>3. CASE CascadeCancel(x)
    BY <1>1, <2>1, <2>3, StatusSettles DEF CascadeCancel
  <2> QED BY <1>5, <2>2, <2>3
<1>6. ASSUME NEW x \in DOMAIN wave, BeginSubtask(x) \/ EndSubtask(x) PROVE Planned' /\ Mirrored'
  <2>1. x \in DOMAIN subs
    BY <1>6 DEF BeginSubtask, EndSubtask, Tables
  <2>2. CASE BeginSubtask(x)
    BY <1>1, <2>1, <2>2, StatusSettles DEF BeginSubtask
  <2>3. CASE EndSubtask(x)
    <3>1. PICK result \in {"done", "failed"} : subs' = [subs EXCEPT ![x].status = result]
      BY <2>3 DEF EndSubtask
    <3>2. Update(x, subs'[x], ctxDone) /\ UNCHANGED <<edit, edits, ctxDone, pc>> /\ pc = "wave"
      BY <2>3 DEF EndSubtask
    <3> QED BY <1>1, <2>1, <3>1, <3>2, StatusSettles
  <2> QED BY <1>6, <2>2, <2>3
<1>7. ASSUME UNCHANGED <<rows, subs, edit, edits, faults>>, pc' = "planned" \/ pc # "planned",
             ctxDone => ctxDone' \/ pc' = "planned"
      PROVE  Planned' /\ Mirrored'
  BY <1>7 DEF Planned, Mirrored
<1>8. CASE SkipPlanning
  BY <1>7, <1>8 DEF SkipPlanning, loop
<1>9. CASE StartWave \/ Reconcile \/ RoundDone \/ RoundFailed \/ \E x \in DOMAIN wave : LeaveWave(x)
  BY <1>7, <1>9 DEF StartWave, Reconcile, RoundDone, RoundFailed, LeaveWave, loop
<1>10. CASE CancelContext
  BY <1>10 DEF CancelContext, loop, Planned, Mirrored
<1>11. CASE UNCHANGED vars
  BY <1>11 DEF vars, loop, Planned, Mirrored
<1>12. ASSUME edits' # 0, UNCHANGED faults PROVE Planned' /\ Mirrored'
  BY <1>12 DEF Planned, Mirrored
<1>13. CASE CreateSubtask \/ ReorderSubtasks \/ \E x \in DOMAIN rows : UpdateSubtask(x) \/ DeleteSubtask(x)
  <2>1. edits' = edits + 1 /\ UNCHANGED faults
    BY <1>13 DEF CreateSubtask, ReorderSubtasks, UpdateSubtask, DeleteSubtask, Users
  <2> QED BY <1>1, <1>12, <2>1
<1>14. CASE UpdateWrite
  <2>1. edits' # 0
    BY <1>14 DEF UpdateWrite, Planned
  <2>2. faults' \in Nat
    BY <1>14 DEF UpdateWrite, Update, CallFails, Mirrored
  <2> QED BY <2>1, <2>2 DEF Planned, Mirrored
<1> QED
  BY <1>2, <1>3, <1>4, <1>5, <1>6, <1>8, <1>9, <1>10, <1>11, <1>13, <1>14
     DEF Next, Run, Work, Edit

\* Every step keeps what a round settles.
LEMMA SettlingNext ==
  ASSUME RoundInv, Divided, RowsTyped, Rounds, Planned, Settling, [Next]_vars
  PROVE  Settling'
<1>1. CASE CreatePlan \/ SkipPlanning \/ List
  <2>1. pc' \in {"planned", "reset"}
    BY <1>1 DEF CreatePlan, SkipPlanning, List
  <2> QED BY <2>1 DEF Settling
<1>2. CASE PlanRefused \/ SingleSession \/ Restart
  <2>1. outcome' \in {"none", "single"} /\ pc' = "idle"
    BY <1>2 DEF PlanRefused, SingleSession, Restart
  <2> QED BY <2>1 DEF Settling
<1>3. ASSUME NEW x \in todo, ResetStatus(x) PROVE Settling'
  <2>1. pc' = "reset"
    BY <1>3 DEF ResetStatus
  <2> QED BY <2>1 DEF Settling
<1>4. ASSUME NEW x \in todo, CascadeCancel(x) PROVE Settling'
  <2>1. /\ pc = "cascade" /\ UNCHANGED <<pc, ctxDone>> /\ todo' = todo \ {x}
        /\ subs' = [subs EXCEPT ![x].status = "failed"]
        /\ x \in DOMAIN subs /\ Shaped(subs[x])
    BY <1>4 DEF CascadeCancel, RoundInv, Tables
  <2>2. /\ DOMAIN subs' = DOMAIN subs /\ subs'[x].status = "failed"
        /\ \A y \in DOMAIN subs \ {x} : subs'[y] = subs[y]
    BY <2>1, StatusSet
  <2> QED BY <2>1, <2>2 DEF Settling
<1>5. CASE StartWave
  <2>1. pc' = "wave" /\ \A x \in DOMAIN wave' : wave'[x] = "waiting"
    BY <1>5 DEF StartWave
  <2> QED BY <2>1 DEF Settling
<1>6. ASSUME NEW x \in DOMAIN wave, BeginSubtask(x) \/ EndSubtask(x) PROVE Settling'
  <2>1. /\ pc = "wave" /\ UNCHANGED <<pc, ctxDone>> /\ x \in DOMAIN subs /\ Shaped(subs[x])
        /\ DOMAIN wave \subseteq DOMAIN subs
    BY <1>6 DEF BeginSubtask, EndSubtask, RoundInv, Tables
  <2>2. PICK s \in {"doing", "done", "failed"} :
          subs' = [subs EXCEPT ![x].status = s] /\ (s = "doing" => BeginSubtask(x))
    BY <1>6 DEF BeginSubtask, EndSubtask
  <2>3. /\ DOMAIN subs' = DOMAIN subs /\ subs'[x].status = s
        /\ \A y \in DOMAIN subs \ {x} : subs'[y] = subs[y]
    BY <2>1, <2>2, StatusSet
  <2>4. /\ DOMAIN wave' = DOMAIN wave /\ \A y \in DOMAIN wave \ {x} : wave'[y] = wave[y]
        /\ s = "doing" => wave'[x] = "running"
    BY <1>6, <2>2 DEF BeginSubtask, EndSubtask
  <2> QED BY <2>1, <2>2, <2>3, <2>4 DEF Settling
<1>7. ASSUME NEW x \in DOMAIN wave, LeaveWave(x) PROVE Settling'
  BY <1>7 DEF LeaveWave, Settling
<1>8. CASE Reconcile
  <2>1. /\ pc = "wave" /\ pc' \in {"cascade", "schedule"} /\ UNCHANGED <<subs, ctxDone>>
        /\ pc' = "cascade" => todo' = remaining \ DOMAIN wave
        /\ \A x \in DOMAIN wave : wave[x] = "ended"
    BY <1>8 DEF Reconcile, AfterWave, InStep
  <2>2. DOMAIN subs = done \cup remaining /\ \A x \in done : subs[x].status = "done"
    BY <2>1 DEF Divided, RoundInv, Books
  <2> QED BY <2>1, <2>2 DEF Settling
<1>9. CASE RoundDone
  <2>1. /\ pc \in {"schedule", "reset"} /\ Ready = {} /\ UNCHANGED <<subs, edits>>
        /\ pc' = "idle" /\ outcome' = "ok"
    BY <1>9 DEF RoundDone, NothingReady, loop
  <2>2. edits = 0 => remaining = {}
    BY <2>1, SomethingReady DEF RoundInv
  <2>3. DOMAIN subs = done \cup remaining /\ \A x \in done : subs[x].status = "done"
    BY <2>1 DEF Divided, RoundInv, Books
  <2> QED BY <2>1, <2>2, <2>3 DEF Settling
<1>10. CASE RoundFailed
  BY <1>10 DEF RoundFailed, loop, Settling
<1>11. CASE CancelContext
  BY <1>11 DEF CancelContext, Settling
<1>12. ASSUME UNCHANGED <<loop, pc, ctxDone, outcome>>, edits' = 0 => edits = 0 PROVE Settling'
  BY <1>12 DEF loop, Settling
<1>13. CASE Edit
  <2>1. UNCHANGED <<loop, pc, ctxDone, outcome>> /\ edits' \in {edits, edits + 1} /\ edits \in Nat
    BY <1>13 DEF Edit, CreateSubtask, UpdateWrite, ReorderSubtasks, UpdateSubtask, DeleteSubtask,
       Users, Rounds
  <2> QED BY <1>12, <2>1
<1>14. CASE UNCHANGED vars
  BY <1>12, <1>14 DEF vars
<1> QED
  BY <1>1, <1>2, <1>3, <1>4, <1>5, <1>6, <1>7, <1>8, <1>9, <1>10, <1>11, <1>13, <1>14
     DEF Next, Run, Work

\* When no write failed, nobody edited the rows and the run was not cancelled, the
\* table shows what the run did: after a success every subtask of the round is done,
\* because a plan whose dependencies come first always has something ready, and
\* after a failure every one is done or failed (orchestrator.go:743-921).
THEOREM RoundsSettle ==
  ASSUME SortRight(Id)
  PROVE  Spec => []RowsSettled
<1> DEFINE Settled == RowsTyped /\ Planned /\ Mirrored /\ Settling
<1>1. Init => Settled
  <2> SUFFICES ASSUME Init PROVE Settled
    OBVIOUS
  <2>1. /\ DOMAIN rows = {} /\ DOMAIN subs = {} /\ DOMAIN wave = {} /\ edit = None
        /\ faults = 0 /\ pc = "idle"
    BY DEF Init
  <2> QED BY <2>1 DEF RowsTyped, Planned, Mirrored, Settling
<1>2. Tables /\ RoundInv /\ Divided /\ Rounds /\ Latest /\ Settled /\ [Next]_vars => Settled'
  BY RowsTypedNext, PlannedNext, SettlingNext
<1>3. Settled => RowsSettled
  BY DEF Mirrored, Settling, RowsSettled
<1> QED
  BY <1>1, <1>2, <1>3, TablesShaped, RoundInvariant, RoundsAgree, CopiesDivided, PTL DEF Spec
=============================================================================
