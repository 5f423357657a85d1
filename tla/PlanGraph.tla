------------------------------ MODULE PlanGraph ------------------------------
(***************************************************************************)
(* The check the planner's answer goes through before it is stored: the    *)
(* dependency graph is sorted topologically (Kahn's algorithm) and a cycle *)
(* is an error.  A graph is a function from each subtask to the set of     *)
(* subtasks it depends on; identifiers are numbers, in the order in which  *)
(* the code sorts ULIDs.                                                   *)
(***************************************************************************)
EXTENDS Integers, Sequences, FiniteSets, SequencesExt

\* One round of the queue: emit its head, free the successors that waited
\* for nothing else.
Emit(deps, ids, s) ==
  LET id == Head(s.ready)
      indeg == [x \in DOMAIN deps |-> s.indeg[x] - (IF id \in deps[x] THEN 1 ELSE 0)]
      Freed(x) == id \in deps[x] /\ indeg[x] = 0
  IN  [ready |-> Tail(s.ready) \o SelectSeq(ids, Freed),
       indeg |-> indeg,
       out   |-> Append(s.out, id)]

\* The subtasks in dependency order; those on a cycle, or behind one, are missing.
topoSort(deps) ==
  LET ids == SetToSortSeq(DOMAIN deps, <)
      NoDeps(x) == deps[x] = {}
      step[n \in 0 .. Len(ids)] ==
        IF n = 0
        THEN [ready |-> SelectSeq(ids, NoDeps),
              indeg |-> [x \in DOMAIN deps |-> Cardinality(deps[x])],
              out   |-> <<>>]
        ELSE IF step[n - 1].ready = <<>> THEN step[n - 1]
             ELSE Emit(deps, ids, step[n - 1])
  IN  step[Len(ids)].out

\* normalisePlan refuses empty plans, self-dependencies, references to
\* subtasks outside the plan, and cycles.
Accepted(deps) ==
  /\ DOMAIN deps # {}
  /\ \A x \in DOMAIN deps : deps[x] \subseteq DOMAIN deps \ {x}
  /\ Len(topoSort(deps)) = Cardinality(DOMAIN deps)

\* OrderIdx is the position in the sorted plan, from 0.
OrderIdx(deps) ==
  [x \in DOMAIN deps |-> CHOOSE i \in 0 .. Cardinality(DOMAIN deps) - 1 : topoSort(deps)[i + 1] = x]

-----------------------------------------------------------------------------
(* What the algorithm is for, without the algorithm.                       *)

\* No set of subtasks waits for itself.
Acyclic(deps) == \A T \in SUBSET DOMAIN deps : T # {} => \E x \in T : deps[x] \cap T = {}

\* An accepted plan is numbered with every dependency before what depends on it.
SortRight(S) ==
  \A D \in SUBSET S : \A deps \in [D -> SUBSET D] :
    Accepted(deps) =>
      \A x \in D : /\ OrderIdx(deps)[x] \in Nat
                   /\ \A y \in deps[x] : OrderIdx(deps)[y] < OrderIdx(deps)[x]

\* A plan over its own subtasks is refused exactly when it is empty or cyclic.
RefusedRight(S) ==
  \A D \in SUBSET S : \A deps \in [D -> SUBSET D] : Accepted(deps) <=> D # {} /\ Acyclic(deps)
=============================================================================
