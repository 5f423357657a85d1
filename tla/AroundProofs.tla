---------------------------- MODULE AroundProofs ----------------------------
(***************************************************************************)
(* What the components around the core promise, for any number of actors   *)
(* and of the things they act on: the sidecar's lifecycle, the charter and *)
(* the trust gate of the memory.                                           *)
(***************************************************************************)
EXTENDS Around, FiniteSetTheorems, TLAPS

-----------------------------------------------------------------------------
(* The sidecar's lifecycle.                                                *)

Alive  == {"starting", "ready", "serving", "stopping", "closing"}
Ending == {"stopping", "closing", "dead"}
OneProcess ==
  [pc : {"none", "spawned", "starting", "ready", "serving", "stopping", "closing", "dead"},
   version : Version \cup {Nobody}, recorded : BOOLEAN, parent : Ui \cup {Nobody}]
OneUi ==
  [pc : {"off", "connect", "version", "evict", "taskkill", "delete", "spawn", "wait", "up", "failed"},
   version : Version \cup {Nobody}, found : Sidecar!Process \cup {Nobody},
   child : Sidecar!Process \cup {Nobody}, serving : BOOLEAN]

LifecycleTyped ==
  /\ proc \in [Sidecar!Process -> OneProcess]
  /\ ui \in [Ui -> OneUi]
  /\ file \in Sidecar!Process \cup {Nobody}
  /\ mutex \in Sidecar!Process \cup {Nobody}
  /\ lost \subseteq Sidecar!Process

\* The mutex is held by the one sidecar that is alive behind it, and only a
\* sidecar that has served has a record.
MutexHeld ==
  \A p \in Sidecar!Process :
    /\ mutex = p <=> proc[p].pc \in Alive
    /\ proc[p].recorded => proc[p].pc \in {"serving", "stopping", "closing"}

\* A UI looks for a sidecar it has found, and starts one of its own only when a
\* sidecar it found serving has ended or is ending.
UiKnows ==
  \A u \in Ui :
    /\ ui[u].pc \in {"connect", "version", "evict", "taskkill", "delete"} => ui[u].found # Nobody
    /\ ui[u].serving => /\ ui[u].found # Nobody
                        /\ proc[ui[u].found].pc \in {"serving"} \cup Ending
                        /\ ui[u].pc \in {"delete", "spawn", "wait"} =>
                             proc[ui[u].found].pc \in Ending
    /\ ui[u].child # Nobody <=> ui[u].pc = "wait"

LifecycleInv == LifecycleTyped /\ MutexHeld /\ UiKnows /\ Sidecar!EndpointFound

\* What Kill leaves: the processes named are dead, the others as they were.
LEMMA KillEnds ==
  ASSUME LifecycleInv, NEW dead \in SUBSET Sidecar!Process, Sidecar!Kill(dead)
  PROVE  /\ proc' \in [Sidecar!Process -> OneProcess]
         /\ mutex' \in Sidecar!Process \cup {Nobody}
         /\ MutexHeld'
         /\ \A p \in Sidecar!Process :
              \/ proc'[p] = proc[p]
              \/ p \in dead /\ proc'[p].pc = "dead" /\ ~ proc'[p].recorded
         /\ \A p \in dead : proc'[p].pc \in {"none", "dead"}
<1>1. /\ proc' = [p \in Sidecar!Process |-> IF p \in dead /\ proc[p].pc # "none"
                                            THEN [pc |-> "dead", version |-> Nobody,
                                                  recorded |-> FALSE, parent |-> Nobody]
                                            ELSE proc[p]]
      /\ mutex' = IF mutex \in dead THEN Nobody ELSE mutex
  BY DEF Sidecar!Kill, Sidecar!NoProcess
<1>2. proc' \in [Sidecar!Process -> OneProcess]
  BY <1>1 DEF LifecycleInv, LifecycleTyped, OneProcess
<1>3. Nobody \notin Sidecar!Process
  BY NobodyAssumption DEF Sidecar!Process
<1>4. MutexHeld'
  BY <1>1, <1>3 DEF LifecycleInv, LifecycleTyped, MutexHeld, Alive
<1>5. mutex' \in Sidecar!Process \cup {Nobody}
  BY <1>1 DEF LifecycleInv, LifecycleTyped
<1> QED
  BY <1>1, <1>2, <1>4, <1>5

\* A sidecar that moves on keeps what the invariant says, unless it serves anew.
LEMMA ProcMoves ==
  ASSUME LifecycleInv, NEW p \in Sidecar!Process, NEW moved \in OneProcess,
         proc' = [proc EXCEPT ![p] = moved], UNCHANGED <<ui, lost>>,
         file' \in Sidecar!Process \cup {Nobody}, mutex' \in Sidecar!Process \cup {Nobody},
         MutexHeld',
         proc[p].pc \in {"serving"} \cup Ending => moved.pc \in Ending,
         \A q \in Sidecar!Process : proc'[q].pc = "serving" /\ proc'[q].recorded /\ q \notin lost => file' = q
  PROVE  LifecycleInv'
<1>1. /\ proc' \in [Sidecar!Process -> OneProcess] /\ proc'[p] = moved
      /\ \A q \in Sidecar!Process \ {p} : proc'[q] = proc[q]
  BY DEF LifecycleInv, LifecycleTyped
<1>2. LifecycleTyped'
  BY <1>1 DEF LifecycleInv, LifecycleTyped
<1>3. UiKnows'
  <2> SUFFICES ASSUME NEW u \in Ui, ui[u].serving
               PROVE  /\ ui[u].found # Nobody
                      /\ proc'[ui[u].found].pc \in {"serving"} \cup Ending
                      /\ ui[u].pc \in {"delete", "spawn", "wait"} => proc'[ui[u].found].pc \in Ending
    BY DEF LifecycleInv, UiKnows
  <2>1. ui[u].found \in Sidecar!Process
    BY DEF LifecycleInv, LifecycleTyped, UiKnows, OneUi
  <2> QED BY <1>1, <2>1 DEF LifecycleInv, UiKnows
<1>4. Sidecar!EndpointFound'
  BY DEF Sidecar!EndpointFound
<1> QED
  BY <1>2, <1>3, <1>4 DEF LifecycleInv

\* A UI that moves on keeps what the invariant says of it.
LEMMA UiMoves ==
  ASSUME LifecycleInv, NEW u \in Ui, NEW now \in OneUi, ui' = [ui EXCEPT ![u] = now],
         UNCHANGED <<proc, file, mutex, lost>>,
         now.pc \in {"connect", "version", "evict", "taskkill", "delete"} => now.found # Nobody,
         now.serving => /\ now.found # Nobody
                        /\ proc[now.found].pc \in {"serving"} \cup Ending
                        /\ now.pc \in {"delete", "spawn", "wait"} => proc[now.found].pc \in Ending,
         now.child # Nobody <=> now.pc = "wait"
  PROVE  LifecycleInv'
<1>1. ui' \in [Ui -> OneUi] /\ ui'[u] = now /\ \A v \in Ui \ {u} : ui'[v] = ui[v]
  BY DEF LifecycleInv, LifecycleTyped
<1>2. LifecycleTyped' /\ MutexHeld' /\ Sidecar!EndpointFound'
  BY <1>1 DEF LifecycleInv, LifecycleTyped, MutexHeld, Sidecar!EndpointFound
<1>3. UiKnows'
  BY <1>1 DEF LifecycleInv, UiKnows
<1> QED
  BY <1>2, <1>3 DEF LifecycleInv

\* Processes that end leave everything else as it was.
LEMMA DeathsKeep ==
  ASSUME LifecycleInv, NEW dead \in SUBSET Sidecar!Process, Sidecar!Kill(dead),
         UNCHANGED <<ui, file, lost>>
  PROVE  LifecycleInv'
<1> USE KillEnds DEF LifecycleInv
<1>1. LifecycleTyped'
  BY DEF LifecycleTyped
<1>2. \A p \in Sidecar!Process : proc'[p].pc # proc[p].pc => proc'[p].pc = "dead"
  OBVIOUS
<1>3. UiKnows'
  <2> SUFFICES ASSUME NEW u \in Ui, ui[u].serving
               PROVE  /\ ui[u].found # Nobody
                      /\ proc'[ui[u].found].pc \in {"serving"} \cup Ending
                      /\ ui[u].pc \in {"delete", "spawn", "wait"} => proc'[ui[u].found].pc \in Ending
    BY DEF UiKnows
  <2>1. ui[u].found \in Sidecar!Process
    BY DEF LifecycleTyped, UiKnows, OneUi
  <2> QED BY <1>2, <2>1 DEF UiKnows, Ending
<1>4. Sidecar!EndpointFound'
  BY DEF Sidecar!EndpointFound
<1> QED
  BY <1>1, <1>3, <1>4

\* A step of a sidecar keeps the invariant: while one serves, or is about to, no
\* other is between the mutex and its release.
LEMMA SidecarKeeps ==
  ASSUME LifecycleInv, NEW p \in Sidecar!Process, Sidecar!SidecarStep(p)
  PROVE  LifecycleInv'
<1> USE DEF LifecycleInv, LifecycleTyped, OneProcess
<1>0. Nobody \notin Sidecar!Process /\ {p} \in SUBSET Sidecar!Process
  BY NobodyAssumption DEF Sidecar!Process
<1> DEFINE Row(pc) == [proc[p] EXCEPT !.pc = pc]
<1>1. CASE Sidecar!Acquire(p)
  <2>1. CASE mutex = Nobody
    <3>1. proc' = [proc EXCEPT ![p] = Row("starting")] /\ mutex' = p /\ proc[p].pc = "spawned"
          /\ UNCHANGED <<ui, file, lost>>
      BY <1>1, <2>1 DEF Sidecar!Acquire, Sidecar!At
    <3>2. MutexHeld'
      BY <1>0, <2>1, <3>1 DEF MutexHeld, Alive
    <3>3. Row("starting") \in OneProcess
      OBVIOUS
    <3> QED BY <3>1, <3>2, <3>3, ProcMoves DEF Sidecar!EndpointFound, Ending
  <2>2. CASE mutex # Nobody
    BY <1>0, <1>1, <2>2, DeathsKeep DEF Sidecar!Acquire
  <2> QED BY <2>1, <2>2
<1>2. CASE Sidecar!Ready(p)
  <2>1. proc' = [proc EXCEPT ![p] = Row("ready")] /\ proc[p].pc = "starting"
        /\ UNCHANGED <<ui, file, mutex, lost>>
    BY <1>2 DEF Sidecar!Ready, Sidecar!At
  <2>2. MutexHeld' /\ Row("ready") \in OneProcess
    BY <2>1 DEF MutexHeld, Alive
  <2> QED BY <2>1, <2>2, ProcMoves DEF Sidecar!EndpointFound, Ending
<1>3. CASE Sidecar!Serve(p)
  <2>1. proc[p].pc = "ready" /\ UNCHANGED <<ui, mutex, lost>>
        /\ \E r \in BOOLEAN : /\ proc' = [proc EXCEPT ![p] = [Row("serving") EXCEPT !.recorded = r]]
                              /\ r => file' = p
                              /\ ~ r => file' = file
    <3>1. proc[p].recorded \in BOOLEAN /\ (proc[p].pc = "ready" => ~ proc[p].recorded)
      BY DEF MutexHeld
    <3>2. CASE proc' = [proc EXCEPT ![p].pc = "serving", ![p].recorded = TRUE] /\ file' = p
      BY <1>3, <3>2 DEF Sidecar!Serve
    <3>3. CASE Sidecar!At(p, "serving") /\ UNCHANGED file
      BY <1>3, <3>1, <3>3 DEF Sidecar!Serve, Sidecar!At
    <3> QED BY <1>3, <3>2, <3>3 DEF Sidecar!Serve
  <2>2. PICK r \in BOOLEAN : /\ proc' = [proc EXCEPT ![p] = [Row("serving") EXCEPT !.recorded = r]]
                             /\ r => file' = p
                             /\ ~ r => file' = file
    BY <2>1
  <2>3. MutexHeld' /\ [Row("serving") EXCEPT !.recorded = r] \in OneProcess
    BY ZenonT(60), <2>1, <2>2 DEF MutexHeld, Alive
  <2>4. \A q \in Sidecar!Process \ {p} : proc'[q].pc # "serving"
    BY <2>1, <2>2 DEF MutexHeld, Alive
  <2>5. \A q \in Sidecar!Process : proc'[q].pc = "serving" /\ proc'[q].recorded /\ q \notin lost => file' = q
    BY <2>2, <2>4
  <2>6. file' \in Sidecar!Process \cup {Nobody}
    BY <2>2
  <2> HIDE DEF OneProcess
  <2> DEFINE moved == [Row("serving") EXCEPT !.recorded = r]
  <2>7. moved \in OneProcess /\ proc' = [proc EXCEPT ![p] = moved]
    BY <2>2, <2>3
  <2>8. proc[p].pc \notin {"serving"} \cup Ending
    BY <2>1 DEF Ending
  <2> HIDE DEF moved
  <2> QED BY <2>1, <2>3, <2>5, <2>6, <2>7, <2>8, ProcMoves
<1>4. CASE Sidecar!Teardown(p)
  <2>1. CASE proc[p].pc = "stopping"
    <3>1. /\ proc' = [proc EXCEPT ![p] = Row("closing")] /\ UNCHANGED <<ui, mutex, lost>>
          /\ file' \in Sidecar!Process \cup {Nobody}
      BY <1>4, <2>1 DEF Sidecar!Teardown, Sidecar!At
    <3>2. MutexHeld' /\ Row("closing") \in OneProcess
      BY <2>1, <3>1 DEF MutexHeld, Alive
    <3>3. \A q \in Sidecar!Process : proc'[q].pc # "serving"
      BY <2>1, <3>1 DEF MutexHeld, Alive
    <3> QED BY <2>1, <3>1, <3>2, <3>3, ProcMoves DEF Ending
  <2>2. CASE proc[p].pc = "closing"
    BY <1>0, <1>4, <2>2, DeathsKeep DEF Sidecar!Teardown
  <2> QED BY <1>4, <2>1, <2>2 DEF Sidecar!Teardown
<1>5. CASE Sidecar!Die(p)
  BY <1>0, <1>5, DeathsKeep DEF Sidecar!Die
<1>6. CASE Sidecar!Shutdown(p)
  <2>1. proc' = [proc EXCEPT ![p] = Row("stopping")] /\ proc[p].pc = "serving"
        /\ UNCHANGED <<ui, file, mutex, lost>>
    BY <1>6 DEF Sidecar!Shutdown, Sidecar!At
  <2>2. MutexHeld' /\ Row("stopping") \in OneProcess
    BY <2>1 DEF MutexHeld, Alive
  <2> QED BY <2>1, <2>2, ProcMoves DEF Sidecar!EndpointFound, Ending
<1> QED
  BY <1>1, <1>2, <1>3, <1>4, <1>5, <1>6 DEF Sidecar!SidecarStep

\* A step of a UI keeps the invariant.
LEMMA UiKeeps ==
  ASSUME LifecycleInv, NEW u \in Ui,
         Sidecar!StartStep(u) \/ Sidecar!HotRestart(u) \/ Sidecar!Exit(u)
  PROVE  LifecycleInv'
<1> USE DEF LifecycleInv, LifecycleTyped, OneUi
<1>0. Nobody \notin Sidecar!Process
  BY NobodyAssumption DEF Sidecar!Process
<1> DEFINE Now(pc) == [ui[u] EXCEPT !.pc = pc]
           Rest(pc) == [pc |-> pc, version |-> Nobody, found |-> Nobody, child |-> Nobody,
                        serving |-> FALSE]
<1>a. ASSUME NEW pc \in {"off", "up", "failed"}, Sidecar!Done(u, pc),
             UNCHANGED <<proc, file, mutex, lost>>
      PROVE  LifecycleInv'
  <2>1. ui' = [ui EXCEPT ![u] = Rest(pc)] /\ Rest(pc) \in OneUi
    BY <1>a DEF Sidecar!Done, Sidecar!NoStart
  <2> QED BY <1>a, <2>1, UiMoves
<1>b. ASSUME NEW pc \in {"off", "failed"}, Sidecar!Done(u, pc),
             NEW dead \in SUBSET Sidecar!Process, Sidecar!Kill(dead), UNCHANGED <<file, lost>>
      PROVE  LifecycleInv'
  <2>1. /\ ui' = [ui EXCEPT ![u] = Rest(pc)] /\ Rest(pc) \in OneUi
        /\ \A v \in Ui \ {u} : ui'[v] = ui[v]
    BY <1>b DEF Sidecar!Done, Sidecar!NoStart
  <2>2. LifecycleTyped' /\ MutexHeld' /\ Sidecar!EndpointFound'
    BY <1>b, <2>1, KillEnds DEF Sidecar!EndpointFound
  <2>3. UiKnows'
    <3> SUFFICES ASSUME NEW v \in Ui, ui'[v].serving
                 PROVE  /\ ui'[v].found # Nobody
                        /\ proc'[ui'[v].found].pc \in {"serving"} \cup Ending
                        /\ ui'[v].pc \in {"delete", "spawn", "wait"} => proc'[ui'[v].found].pc \in Ending
      BY <2>1 DEF UiKnows
    <3>1. v # u /\ ui'[v] = ui[v]
      BY <2>1
    <3>2. ui[v].found \in Sidecar!Process
      BY <3>1 DEF UiKnows
    <3> QED BY <1>b, <3>1, <3>2, KillEnds DEF UiKnows, Ending
  <2> QED BY <2>2, <2>3
<1>1. ASSUME NEW v \in Version, Sidecar!ReadRecord(u, v) PROVE LifecycleInv'
  <2> DEFINE now == [pc |-> IF file = Nobody THEN "spawn" ELSE "connect",
                     version |-> v, found |-> file, child |-> Nobody,
                     serving |-> file # Nobody /\ proc[file].pc = "serving"]
  <2>1. ui' = [ui EXCEPT ![u] = now] /\ UNCHANGED <<proc, file, mutex, lost>>
    BY <1>1 DEF Sidecar!ReadRecord
  <2>2. now \in OneUi
    OBVIOUS
  <2>3. /\ now.pc \in {"connect", "version", "evict", "taskkill", "delete"} => now.found # Nobody
        /\ now.serving => now.found # Nobody /\ proc[now.found].pc \in {"serving"} \cup Ending
                          /\ (now.pc \in {"delete", "spawn", "wait"} => proc[now.found].pc \in Ending)
        /\ now.child # Nobody <=> now.pc = "wait"
    OBVIOUS
  <2> HIDE DEF now
  <2> QED BY <2>1, <2>2, <2>3, UiMoves
<1>2. ASSUME NEW v \in Version, NEW p \in Sidecar!Process, Sidecar!Spawn(u, p, v)
      PROVE  LifecycleInv'
  <2>1. /\ ui[u].pc = "spawn" /\ proc[p].pc = "none" /\ UNCHANGED <<file, mutex, lost>>
        /\ proc' = [proc EXCEPT ![p] = [pc |-> "spawned", version |-> v, recorded |-> FALSE,
                                        parent |-> u]]
        /\ ui' = [ui EXCEPT ![u].pc = "wait", ![u].child = p]
    BY <1>2 DEF Sidecar!Spawn
  <2>2. /\ proc' \in [Sidecar!Process -> OneProcess]
        /\ proc'[p].pc = "spawned" /\ ~ proc'[p].recorded
        /\ \A q \in Sidecar!Process \ {p} : proc'[q] = proc[q]
    BY <2>1 DEF OneProcess
  <2>3. /\ ui' \in [Ui -> OneUi] /\ ui'[u] = [ui[u] EXCEPT !.pc = "wait", !.child = p]
        /\ \A w \in Ui \ {u} : ui'[w] = ui[w]
    BY ZenonT(60), <2>1
  <2>4. LifecycleTyped' /\ MutexHeld'
    BY <2>1, <2>2, <2>3 DEF MutexHeld, Alive
  <2>5. Sidecar!EndpointFound'
    BY <2>1, <2>2 DEF Sidecar!EndpointFound
  <2>6. ASSUME NEW w \in Ui, ui[w].serving
        PROVE  ui[w].found \in Sidecar!Process /\ proc'[ui[w].found] = proc[ui[w].found]
    <3>1. ui[w].found \in Sidecar!Process /\ proc[ui[w].found].pc # "none"
      BY <2>6 DEF UiKnows, Ending
    <3> QED BY <2>1, <2>2, <3>1
  <2>7. UiKnows'
    BY <1>0, <2>1, <2>3, <2>6 DEF UiKnows
  <2> QED BY <2>4, <2>5, <2>7
<1>3. CASE Sidecar!Connect(u)
  <2>1. ui[u].pc = "connect" /\ UNCHANGED <<proc, file, mutex, lost>>
        /\ \/ ui' = [ui EXCEPT ![u] = Now("version")]
           \/ proc[ui[u].found].pc # "serving" /\ ui' = [ui EXCEPT ![u] = Now("delete")]
    BY <1>3 DEF Sidecar!Connect, Sidecar!Goto
  <2> QED BY <2>1, UiMoves DEF UiKnows
<1>4. CASE Sidecar!ProbeVersion(u)
  <2>1. CASE Sidecar!Done(u, "up")
    BY <1>4, <1>a, <2>1 DEF Sidecar!ProbeVersion
  <2>2. CASE Sidecar!Goto(u, "evict")
    <3>1. ui[u].pc = "version" /\ UNCHANGED <<proc, file, mutex, lost>>
          /\ ui' = [ui EXCEPT ![u] = Now("evict")]
      BY <1>4, <2>2 DEF Sidecar!ProbeVersion, Sidecar!Goto
    <3> QED BY <3>1, UiMoves DEF UiKnows
  <2> QED BY <1>4, <2>1, <2>2 DEF Sidecar!ProbeVersion
<1>5. CASE Sidecar!AskShutdown(u)
  <2>1. /\ ui[u].pc = "evict" /\ ui' = [ui EXCEPT ![u] = Now("taskkill")]
        /\ UNCHANGED <<file, mutex, lost>>
        /\ \/ UNCHANGED proc
           \/ /\ proc[ui[u].found].pc = "serving"
              /\ proc' = [proc EXCEPT ![ui[u].found] = [proc[ui[u].found] EXCEPT !.pc = "stopping"]]
    BY <1>5 DEF Sidecar!AskShutdown, Sidecar!Goto, Sidecar!At
  <2>2. ui[u].found \in Sidecar!Process
    BY <2>1 DEF UiKnows
  <2>3. /\ ui' \in [Ui -> OneUi] /\ ui'[u] = Now("taskkill")
        /\ \A w \in Ui \ {u} : ui'[w] = ui[w]
    BY <2>1
  <2>4. /\ proc' \in [Sidecar!Process -> OneProcess]
        /\ \A q \in Sidecar!Process :
             proc'[q] = proc[q]
             \/ (proc[q].pc = "serving" /\ proc'[q].pc = "stopping"
                 /\ proc'[q].recorded = proc[q].recorded)
    <3> DEFINE f == ui[u].found
               stopped == [proc[f] EXCEPT !.pc = "stopping"]
    <3>1. CASE UNCHANGED proc
      BY <3>1
    <3>2. CASE proc[f].pc = "serving" /\ proc' = [proc EXCEPT ![f] = stopped]
      <4>1. stopped \in OneProcess /\ stopped.pc = "stopping" /\ stopped.recorded = proc[f].recorded
        BY <2>2 DEF OneProcess
      <4> HIDE DEF stopped
      <4>2. proc' \in [Sidecar!Process -> OneProcess] /\ proc'[f] = stopped
            /\ \A q \in Sidecar!Process : q # f => proc'[q] = proc[q]
        BY <2>2, <3>2, <4>1
      <4> QED BY <3>2, <4>1, <4>2
    <3> QED BY <2>1, <3>1, <3>2
  <2>5. LifecycleTyped' /\ MutexHeld' /\ Sidecar!EndpointFound'
    BY <2>1, <2>3, <2>4 DEF MutexHeld, Alive, Sidecar!EndpointFound
  <2>6. ASSUME NEW w \in Ui, ui[w].serving
        PROVE  /\ ui[w].found \in Sidecar!Process /\ proc'[ui[w].found].pc \in {"serving"} \cup Ending
               /\ proc[ui[w].found].pc \in Ending => proc'[ui[w].found].pc \in Ending
    <3>1. ui[w].found \in Sidecar!Process /\ proc[ui[w].found].pc \in {"serving"} \cup Ending
      BY <2>6 DEF UiKnows
    <3> QED BY <2>4, <3>1 DEF Ending
  <2>7. UiKnows'
    BY <2>1, <2>3, <2>6 DEF UiKnows
  <2> QED BY <2>5, <2>7
<1>6. CASE Sidecar!TaskKill(u)
  <2>1. /\ ui[u].pc = "taskkill" /\ ui' = [ui EXCEPT ![u] = Now("delete")]
        /\ Sidecar!Kill(Sidecar!Process) /\ UNCHANGED <<file, lost>>
    BY <1>6 DEF Sidecar!TaskKill, Sidecar!Goto
  <2>2. /\ ui' \in [Ui -> OneUi] /\ ui'[u] = Now("delete")
        /\ \A w \in Ui \ {u} : ui'[w] = ui[w]
    BY <2>1
  <2>3. LifecycleTyped' /\ MutexHeld' /\ Sidecar!EndpointFound'
    BY <2>1, <2>2, KillEnds DEF Sidecar!EndpointFound
  <2>4. ASSUME NEW w \in Ui, ui[w].serving
        PROVE  ui[w].found \in Sidecar!Process /\ proc'[ui[w].found].pc \in Ending
    <3>1. ui[w].found \in Sidecar!Process /\ proc[ui[w].found].pc # "none"
      BY <2>4 DEF UiKnows, Ending
    <3>2. proc'[ui[w].found].pc \in {"none", "dead"} /\ proc'[ui[w].found].pc # "none"
      BY <2>1, <3>1, KillEnds
    <3> QED BY <3>1, <3>2 DEF Ending
  <2>5. UiKnows'
    BY <2>1, <2>2, <2>4 DEF UiKnows
  <2> QED BY <2>3, <2>5
<1>7. CASE Sidecar!DeleteRecord(u)
  <2>1. /\ ui[u].pc = "delete" /\ ui' = [ui EXCEPT ![u] = Now("spawn")]
        /\ file' = Nobody /\ lost' = lost \cup ({file} \ {Nobody}) /\ UNCHANGED <<proc, mutex>>
    BY <1>7 DEF Sidecar!DeleteRecord, Sidecar!Goto
  <2>2. /\ ui' \in [Ui -> OneUi] /\ ui'[u] = Now("spawn")
        /\ \A w \in Ui \ {u} : ui'[w] = ui[w]
    BY <2>1
  <2>3. LifecycleTyped' /\ MutexHeld'
    BY <2>1, <2>2 DEF MutexHeld
  <2>4. Sidecar!EndpointFound'
    BY <1>0, <2>1 DEF Sidecar!EndpointFound
  <2>5. UiKnows'
    BY <2>1, <2>2 DEF UiKnows
  <2> QED BY <2>3, <2>4, <2>5
<1>8. CASE Sidecar!Handshake(u)
  <2>1. CASE UNCHANGED <<proc, mutex>>
    BY <1>8, <1>a, <2>1 DEF Sidecar!Handshake
  <2>2. CASE Sidecar!Done(u, "failed") /\ Sidecar!Kill({ui[u].child})
    <3>1. ui[u].child \in Sidecar!Process /\ UNCHANGED <<file, lost>>
      BY <1>8 DEF Sidecar!Handshake, UiKnows
    <3> QED BY <1>b, <2>2, <3>1
  <2> QED BY <1>8, <2>1, <2>2 DEF Sidecar!Handshake
<1>9. CASE Sidecar!HotRestart(u)
  BY <1>9, <1>a DEF Sidecar!HotRestart
<1>10. CASE Sidecar!Exit(u)
  BY <1>10, <1>b DEF Sidecar!Exit
<1> QED
  BY <1>1, <1>2, <1>3, <1>4, <1>5, <1>6, <1>7, <1>8, <1>9, <1>10 DEF Sidecar!StartStep

\* A step is a step of the component the behaviour is about.
LEMMA PartSteps ==
  ASSUME [Next]_vars
  PROVE  /\ part' = part
         /\ part = "stream"     => Stream!Next  \/ UNCHANGED stream
         /\ part = "repository" => Repo!Next    \/ UNCHANGED repository
         /\ part = "harness"    => Skill!Next   \/ UNCHANGED harness
         /\ part = "lifecycle"  => Sidecar!Next \/ UNCHANGED lifecycle
         /\ part = "trustGate"  => Gate!Next    \/ UNCHANGED trustGate
BY DEF Next, vars

\* The invariant of the lifecycle.
LEMMA LifecycleAlways == Spec => [](part = "lifecycle" => LifecycleInv)
<1>1. Init => (part = "lifecycle" => LifecycleInv)
  <2> SUFFICES ASSUME Sidecar!Init PROVE LifecycleInv
    BY DEF Init
  <2>1. Nobody \notin Sidecar!Process
    BY NobodyAssumption DEF Sidecar!Process
  <2> QED BY <2>1 DEF Sidecar!Init, Sidecar!NoProcess, Sidecar!NoStart, LifecycleInv, LifecycleTyped,
             OneProcess, OneUi, MutexHeld, Alive, UiKnows, Sidecar!EndpointFound
<1>2. (part = "lifecycle" => LifecycleInv) /\ [Next]_vars => (part = "lifecycle" => LifecycleInv)'
  <2> SUFFICES ASSUME LifecycleInv, Sidecar!Next \/ UNCHANGED lifecycle PROVE LifecycleInv'
    BY PartSteps
  <2>1. CASE UNCHANGED lifecycle
    BY <2>1 DEF lifecycle, LifecycleInv, LifecycleTyped, MutexHeld, UiKnows, Sidecar!EndpointFound
  <2> QED BY <2>1, SidecarKeeps, UiKeeps DEF Sidecar!Next
<1> QED
  BY <1>1, <1>2, PTL DEF Spec

\* A sidecar that serves and wrote its record can be found by it, however many UIs
\* and sidecars start, stop and die: the teardown of its predecessor removes the
\* record before it releases the mutex (main.go, the order of the deferred calls).
THEOREM EndpointAlwaysFound == Spec => []EndpointFound
<1>1. (part = "lifecycle" => LifecycleInv) => EndpointFound
  BY DEF LifecycleInv, EndpointFound
<1> QED
  BY <1>1, LifecycleAlways, PTL

\* A UI never starts a sidecar that then loses the mutex to the one it found
\* serving (sidecar_supervisor.dart:82-86).
THEOREM FoundIsNeverFought == Spec => NeverFightsTheFound
<1>1. (part = "lifecycle" => LifecycleInv) => (part = "lifecycle" => Sidecar!FightsNobodyFound)
  <2> SUFFICES ASSUME LifecycleInv, NEW u \in Ui, ui[u].child # Nobody, mutex = ui[u].found,
                      ui[u].serving, proc[mutex].pc = "serving"
               PROVE  FALSE
    BY DEF Sidecar!FightsNobodyFound
  <2> QED BY DEF LifecycleInv, UiKnows, Ending
<1>2. (part = "lifecycle" => LifecycleInv) => [part = "lifecycle" => Sidecar!FightsNobodyFound]_vars
  BY <1>1
<1> QED
  BY <1>2, LifecycleAlways, PTL DEF NeverFightsTheFound

-----------------------------------------------------------------------------
(* The charter.                                                            *)

Busy == {"insert", "write", "publish"}
OneVersion == [content : Skill!Content, by : {"user", "rollback"} \cup Attempt]
OneHandler ==
  [pc : {"idle", "apply", "decide"} \cup Busy, by : {None, "user", "rollback"} \cup Attempt,
   patch : Skill!Patch \cup {None}, content : Skill!Content]
OneAttempt ==
  [decision : {None, "pending", "approved", "rejected"}, patch : Skill!Patch \cup {None},
   snapshot : Skill!Content \cup {None}]

HarnessTyped ==
  /\ versions \in Seq(OneVersion)
  /\ disk \in [content : Skill!Content, by : {"seed", "server", "hand"}]
  /\ charter \in Skill!Content
  /\ writeMu \in Handler \cup {"free"}
  /\ attempt \in [Attempt -> OneAttempt]
  /\ handler \in [Handler -> OneHandler]

\* One save at a time; what it writes was stored before, or is about to be; and a
\* patch is based on the file as it is, unless somebody edits that by hand.
Saves ==
  \A h \in Handler :
    /\ writeMu = h <=> handler[h].pc \in Busy
    /\ handler[h].pc # "idle" => handler[h].by \in {"user", "rollback"} \cup Attempt
    /\ handler[h].pc = "write" => handler[h].content \in Skill!Stored
    /\ handler[h].patch # None /\ handler[h].pc \in {"insert", "write"} /\ disk.by # "hand" =>
         \A r \in Region : r # handler[h].patch.region =>
           handler[h].content[r] = disk.content[r]

HarnessInv == HarnessTyped /\ Saves /\ Skill!FileIsVersioned

\* A handler that moves on and leaves the rest as it was.
LEMMA HandlerMoves ==
  ASSUME HarnessInv, NEW h \in Handler, NEW now \in OneHandler, handler' = [handler EXCEPT ![h] = now],
         UNCHANGED <<versions, disk>>, charter' \in Skill!Content, attempt' \in [Attempt -> OneAttempt],
         \/ writeMu \in {"free", h} /\ writeMu' = (IF now.pc \in Busy THEN h ELSE "free")
         \/ writeMu' = writeMu /\ now.pc \notin Busy /\ handler[h].pc \notin Busy,
         now.pc # "idle" => now.by \in {"user", "rollback"} \cup Attempt,
         now.pc = "write" => now.content \in Skill!Stored,
         now.patch # None /\ now.pc \in {"insert", "write"} /\ disk.by # "hand" =>
           \A r \in Region : r # now.patch.region => now.content[r] = disk.content[r]
  PROVE  HarnessInv'
<1> USE DEF HarnessInv
<1>1. handler' \in [Handler -> OneHandler] /\ handler'[h] = now /\ \A g \in Handler \ {h} : handler'[g] = handler[g]
  BY DEF HarnessTyped
<1>2. writeMu' \in Handler \cup {"free"}
  BY DEF HarnessTyped
<1>3. HarnessTyped' /\ Skill!FileIsVersioned'
  BY <1>1, <1>2 DEF HarnessTyped, Skill!FileIsVersioned, Skill!Stored
<1>4. \A g \in Handler : writeMu' = g <=> handler'[g].pc \in Busy
  BY <1>1, HarnessAssumption DEF Saves
<1>5. Saves'
  BY <1>1, <1>4 DEF Saves, Skill!Stored
<1> QED BY <1>3, <1>5

\* A step of an RPC of the charter keeps the invariant.
LEMMA SkillKeeps ==
  ASSUME HarnessInv, NEW h \in Handler, Skill!SkillStep(h)
  PROVE  HarnessInv'
<1> USE DEF HarnessInv, HarnessTyped, OneHandler, Busy
<1>0. Skill!Shipped \in Skill!Content
  BY DEF Skill!Shipped, Skill!Content, Skill!Text
<1>1. ASSUME NEW c \in Skill!Content, Skill!UpdateSkill(h, c) PROVE HarnessInv'
  BY <1>1, HandlerMoves DEF Skill!UpdateSkill, Skill!Take
<1>2. ASSUME NEW i \in DOMAIN versions, Skill!RollbackSkill(h, i) PROVE HarnessInv'
  <2>0. versions[i] \in OneVersion
    BY DEF Skill!Stored
  <2>1. versions[i].content \in Skill!Content
    BY <2>0 DEF OneVersion
  <2> QED BY <1>2, <2>1, HandlerMoves DEF Skill!RollbackSkill, Skill!Take
<1>3. CASE Skill!ReadAndApply(h)
  <2> DEFINE p == handler[h].patch
             c == Skill!ApplyPatch(p, disk.content)
             applied == [handler[h] EXCEPT !.pc = "insert", !.content = c]
  <2>1. CASE Skill!Applies(p, disk.content)
    <3>1. writeMu = "free" /\ writeMu' = h /\ handler' = [handler EXCEPT ![h] = applied]
          /\ handler[h].pc = "apply" /\ UNCHANGED <<versions, disk, charter, attempt>>
      BY <1>3, <2>1 DEF Skill!ReadAndApply, Skill!Take
    <3>2. c \in Skill!Content /\ \A r \in Region : r # p.region => c[r] = disk.content[r]
      BY DEF Skill!ApplyPatch, Skill!Other, Skill!Content, Skill!Text
    <3>3. \A d \in Skill!Content :
            /\ [handler[h] EXCEPT !.pc = "insert", !.content = d] \in OneHandler
            /\ [handler[h] EXCEPT !.pc = "insert", !.content = d].content = d
      OBVIOUS
    <3>4. /\ applied \in OneHandler /\ applied.content = c /\ applied.pc = "insert"
          /\ applied.patch = p /\ applied.by = handler[h].by
      <4> HIDE DEF c
      <4> QED BY <3>2, <3>3
    <3>5. handler[h].by \in {"user", "rollback"} \cup Attempt
      BY <3>1 DEF Saves
    <3> HIDE DEF applied, c
    <3> QED BY <3>1, <3>2, <3>4, <3>5, HandlerMoves
  <2>2. CASE ~ Skill!Applies(p, disk.content)
    BY <1>0, <1>3, <2>2, HandlerMoves DEF Skill!ReadAndApply, Skill!Return, Skill!Idle
  <2> QED BY <2>1, <2>2
<1>4. CASE Skill!InsertVersion(h)
  <2> DEFINE kept == [handler[h] EXCEPT !.pc = "write"]
             new == [content |-> handler[h].content, by |-> handler[h].by]
  <2>1. CASE Skill!Return(h) /\ writeMu' = "free" /\ UNCHANGED versions
    <3>1. handler[h].pc = "insert" /\ UNCHANGED <<disk, charter, attempt>> /\ writeMu = h
      BY <1>4 DEF Skill!InsertVersion, Saves
    <3> QED BY <1>0, <2>1, <3>1, HandlerMoves DEF Skill!Return, Skill!Idle
  <2>2. CASE handler' = [handler EXCEPT ![h] = kept] /\ UNCHANGED writeMu /\ UNCHANGED versions
             /\ handler[h].content \in Skill!Stored
    <3>1. handler[h].pc = "insert" /\ UNCHANGED <<disk, charter, attempt>> /\ writeMu = h
      BY <1>4 DEF Skill!InsertVersion, Saves
    <3>2. kept \in OneHandler
      OBVIOUS
    <3> QED BY ZenonT(60), <2>2, <3>1, <3>2, HandlerMoves DEF Saves
  <2>3. CASE handler' = [handler EXCEPT ![h] = kept] /\ UNCHANGED writeMu
             /\ versions' = Append(versions, new)
    <3>1. handler[h].pc = "insert" /\ UNCHANGED <<disk, charter, attempt>> /\ new \in OneVersion
      BY <1>4 DEF Skill!InsertVersion, Saves, OneVersion
    <3>2. /\ versions' \in Seq(OneVersion) /\ Len(versions') = Len(versions) + 1
          /\ versions'[Len(versions) + 1] = new
          /\ \A i \in 1 .. Len(versions) : versions'[i] = versions[i]
      BY <2>3, <3>1
    <3>3. Skill!Stored \subseteq Skill!Stored' /\ handler[h].content \in Skill!Stored'
      <4>1. DOMAIN versions = 1 .. Len(versions) /\ DOMAIN versions' = 1 .. Len(versions')
            /\ Len(versions) \in Nat
        BY <3>2
      <4>2. Skill!Stored \subseteq Skill!Stored'
        BY <3>2, <4>1 DEF Skill!Stored
      <4>3. Len(versions) + 1 \in DOMAIN versions' /\ versions'[Len(versions) + 1].content = handler[h].content
        BY <3>2, <4>1
      <4> QED BY <4>2, <4>3 DEF Skill!Stored
    <3>4. /\ handler' \in [Handler -> OneHandler] /\ handler'[h] = kept
          /\ \A g \in Handler \ {h} : handler'[g] = handler[g]
      BY <2>3
    <3>5. HarnessTyped'
      BY <2>3, <3>1, <3>2, <3>4
    <3>6. Saves'
      BY <2>3, <3>1, <3>3, <3>4 DEF Saves
    <3>7. Skill!FileIsVersioned'
      BY <3>1, <3>3 DEF Skill!FileIsVersioned
    <3> QED BY <3>5, <3>6, <3>7
  <2> QED BY <1>4, <2>1, <2>2, <2>3 DEF Skill!InsertVersion, Skill!Goto
<1>5. CASE Skill!WriteFile(h)
  <2> DEFINE kept == [handler[h] EXCEPT !.pc = "publish"]
  <2>1. /\ handler[h].pc = "write" /\ handler' = [handler EXCEPT ![h] = kept]
        /\ UNCHANGED <<versions, charter, writeMu, attempt>>
        /\ \/ UNCHANGED disk
           \/ disk' = [content |-> handler[h].content, by |-> "server"]
    BY <1>5 DEF Skill!WriteFile, Skill!Goto
  <2>2. writeMu = h /\ \A g \in Handler \ {h} : handler[g].pc \notin Busy
    BY <2>1 DEF Saves
  <2>3. handler' \in [Handler -> OneHandler] /\ handler'[h] = kept /\ \A g \in Handler \ {h} : handler'[g] = handler[g]
    BY <2>1
  <2>4. HarnessTyped'
    BY <2>1, <2>3
  <2>5. Saves'
    BY <2>1, <2>2, <2>3 DEF Saves, Skill!Stored
  <2>6. Skill!FileIsVersioned'
    BY <2>1 DEF Saves, Skill!FileIsVersioned, Skill!Stored
  <2> QED BY <2>4, <2>5, <2>6
<1>6. CASE Skill!Publish(h)
  <2>1. handler[h].pc = "publish" /\ writeMu = h /\ writeMu' = "free"
        /\ charter' \in Skill!Content /\ UNCHANGED <<versions, disk, attempt>>
    BY <1>6 DEF Skill!Publish, Saves
  <2>2. CASE Skill!Goto(h, "decide")
    <3>1. [handler[h] EXCEPT !.pc = "decide"] \in OneHandler
      OBVIOUS
    <3>2. handler[h].by \in {"user", "rollback"} \cup Attempt
      BY <2>1 DEF Saves
    <3>3. handler' = [handler EXCEPT ![h] = [handler[h] EXCEPT !.pc = "decide"]]
      BY <2>2 DEF Skill!Goto
    <3> QED BY <2>1, <3>1, <3>2, <3>3, HandlerMoves
  <2>3. CASE Skill!Return(h)
    BY <1>0, <2>1, <2>3, HandlerMoves DEF Skill!Return, Skill!Idle
  <2> QED BY <1>6, <2>2, <2>3 DEF Skill!Publish
<1> QED
  BY <1>1, <1>2, <1>3, <1>4, <1>5, <1>6 DEF Skill!SkillStep

\* The rows of proposals change, and nothing else does.
LEMMA AttemptsChange ==
  ASSUME HarnessInv, attempt' \in [Attempt -> OneAttempt],
         UNCHANGED <<versions, disk, charter, writeMu, handler>>
  PROVE  HarnessInv'
  BY DEF HarnessInv, HarnessTyped, Saves, Skill!FileIsVersioned, Skill!Stored

\* What is decided and proposed, and what happens to the file from outside, keeps
\* the invariant.
LEMMA ProposalKeeps ==
  ASSUME HarnessInv,
         \/ \E h \in Handler : Skill!Decide(h) \/ \E a \in Attempt : Skill!Approve(h, a)
         \/ \E a \in Attempt : Skill!Reject(a) \/ Skill!Observe(a) \/ Skill!Propose(a)
         \/ Skill!HandEdit \/ Skill!Restart
  PROVE  HarnessInv'
<1> USE DEF HarnessInv, HarnessTyped, OneHandler, OneAttempt, Busy
<1>0. Skill!Shipped \in Skill!Content
  BY DEF Skill!Shipped, Skill!Content, Skill!Text
<1>1. ASSUME NEW h \in Handler, Skill!Decide(h) PROVE HarnessInv'
  <2>1. attempt' \in [Attempt -> OneAttempt]
    <3>1. \A a \in Attempt : [attempt[a] EXCEPT !.decision = "approved"] \in OneAttempt
      BY SMTT(30)
    <3> DEFINE a == handler[h].by
    <3>2. attempt' = attempt
          \/ attempt' = [attempt EXCEPT ![a] = [attempt[a] EXCEPT !.decision = "approved"]]
      BY <1>1 DEF Skill!Decide, Skill!UpdateDecision
    <3> HIDE DEF a
    <3>3. CASE a \in Attempt
      BY <3>1, <3>2, <3>3
    <3>4. CASE a \notin Attempt
      BY <3>2, <3>4
    <3> QED BY <3>3, <3>4
  <2> QED BY <1>0, <1>1, <2>1, HandlerMoves DEF Skill!Decide, Skill!Return, Skill!Idle
<1>2. ASSUME NEW h \in Handler, NEW a \in Attempt, Skill!Approve(h, a) PROVE HarnessInv'
  BY <1>0, <1>2, HandlerMoves DEF Skill!Approve, Skill!Idle
<1>3. ASSUME NEW a \in Attempt, Skill!Reject(a) PROVE HarnessInv'
  BY <1>3, AttemptsChange DEF Skill!Reject, Skill!UpdateDecision
<1>4. ASSUME NEW a \in Attempt, Skill!Observe(a) PROVE HarnessInv'
  BY <1>4, AttemptsChange DEF Skill!Observe
<1>5. ASSUME NEW a \in Attempt, Skill!Propose(a) PROVE HarnessInv'
  BY <1>5, AttemptsChange DEF Skill!Propose
<1>6. CASE Skill!HandEdit
  <2>1. disk'.by = "hand" /\ disk' \in [content : Skill!Content, by : {"seed", "server", "hand"}]
        /\ UNCHANGED <<versions, charter, writeMu, attempt, handler>>
    BY <1>6 DEF Skill!HandEdit
  <2> QED BY <2>1 DEF Saves, Skill!FileIsVersioned, Skill!Stored
<1>7. CASE Skill!Restart
  <2>1. attempt' \in [Attempt -> OneAttempt]
    <3>1. \A a \in Attempt : [attempt[a] EXCEPT !.snapshot = None] \in OneAttempt
      OBVIOUS
    <3> QED BY <1>7, <3>1 DEF Skill!Restart
  <2>2. handler' \in [Handler -> OneHandler] /\ \A h \in Handler : handler'[h].pc = "idle"
    BY <1>0, <1>7 DEF Skill!Restart, Skill!Idle
  <2>3. UNCHANGED <<versions, disk>> /\ charter' \in Skill!Content /\ writeMu' = "free"
    BY <1>7 DEF Skill!Restart
  <2> QED BY <2>1, <2>2, <2>3, HarnessAssumption DEF Saves, Skill!FileIsVersioned, Skill!Stored
<1> QED
  BY <1>1, <1>2, <1>3, <1>4, <1>5, <1>6, <1>7

\* The invariant of the charter.
LEMMA HarnessAlways == Spec => [](part = "harness" => HarnessInv)
<1>1. Init => (part = "harness" => HarnessInv)
  <2> SUFFICES ASSUME Skill!Init PROVE HarnessInv
    BY DEF Init
  <2>1. Skill!Shipped \in Skill!Content
    BY DEF Skill!Shipped, Skill!Content, Skill!Text
  <2>2. versions = <<>> /\ versions \in Seq(OneVersion)
    BY DEF Skill!Init
  <2> QED BY <2>1, <2>2, HarnessAssumption
          DEF Skill!Init, Skill!Idle, HarnessInv, HarnessTyped, Saves, OneHandler, OneAttempt,
              Busy, Skill!FileIsVersioned
<1>2. (part = "harness" => HarnessInv) /\ [Next]_vars => (part = "harness" => HarnessInv)'
  <2> SUFFICES ASSUME HarnessInv, Skill!Next \/ UNCHANGED harness PROVE HarnessInv'
    BY PartSteps
  <2>1. CASE UNCHANGED harness
    BY <2>1 DEF harness, HarnessInv, HarnessTyped, Saves, Skill!FileIsVersioned, Skill!Stored
  <2> QED BY <2>1, SkillKeeps, ProposalKeeps DEF Skill!Next
<1> QED
  BY <1>1, <1>2, PTL DEF Spec

\* Whatever SKILL.md holds, unless it is the seed or a hand edit, can be rolled back
\* to, also after a crash between the row and the file (harness_server.go:236-263).
THEOREM FileAlwaysVersioned == Spec => []FileIsVersioned
<1>1. (part = "harness" => HarnessInv) => FileIsVersioned
  BY DEF HarnessInv, FileIsVersioned
<1> QED
  BY <1>1, HarnessAlways, PTL

\* An approved patch changes its own region of the file and nothing else that was
\* saved meanwhile (harness_server.go:305-308).
THEOREM SavesSurvivePatches == Spec => PatchKeepsSaves
<1>1. (part = "harness" => HarnessInv) /\ [Next]_vars => (part = "harness" => Skill!KeepsSaves)
  <2> SUFFICES ASSUME HarnessInv, NEW h \in Handler, handler[h].patch # None, Skill!WriteFile(h),
                      disk' # disk, disk.by # "hand", NEW r \in Region,
                      r # handler[h].patch.region
               PROVE  disk'.content[r] = disk.content[r]
    BY DEF Skill!KeepsSaves
  <2>1. disk'.content = handler[h].content /\ handler[h].pc = "write"
    BY DEF Skill!WriteFile
  <2> QED BY <2>1 DEF HarnessInv, Saves
<1> QED
  BY <1>1, HarnessAlways, PTL DEF PatchKeepsSaves, Spec

-----------------------------------------------------------------------------
(* The trust gate.                                                         *)

OneEntry ==
  [status : {"pending", "snoozed", "promoted", "rejected"}, label : Label,
   node : Gate!Node \cup {Absent}]
OneNode == [label : Label, enabled : BOOLEAN, by : {"gate", "user"}]
OneRpc ==
  [pc : {"idle", "get", "find", "create", "mark"}, entry : Entry \cup {Absent},
   label : Label \cup {Absent}, node : Gate!Node \cup {Absent}]

GateTyped ==
  /\ entries \in [Entry -> OneEntry \cup {Absent}]
  /\ nodes \in [Gate!Node -> OneNode \cup {Absent, Deleted}]
  /\ rpc \in [Call -> OneRpc]
  /\ \A c \in Call :
       /\ rpc[c].pc # "idle" => rpc[c].entry \in Entry /\ entries[rpc[c].entry] # Absent
       /\ rpc[c].pc \in {"find", "create", "mark"} => rpc[c].label \in Label
       /\ rpc[c].pc = "mark" => rpc[c].node \in Gate!Node

Minted(n) == n \in Gate!Live /\ nodes[n].by = "gate"

\* A promotion that found no node is the first of its concept, or overlaps another.
Promotions ==
  \A c \in Call : rpc[c].pc = "create" /\ rpc[c].label \notin overlapped =>
    /\ \A n \in Gate!Node : Minted(n) => nodes[n].label # rpc[c].label
    /\ \A d \in Call \ {c} : rpc[d].pc = "create" => rpc[d].label # rpc[c].label

GateInv == GateTyped /\ Promotions /\ Gate!OnePerConcept

\* A call that moves on, elsewhere than to the creation of a node.
LEMMA RpcMoves ==
  ASSUME GateInv, NEW c \in Call, NEW now \in OneRpc, rpc' = [rpc EXCEPT ![c] = now],
         entries' \in [Entry -> OneEntry \cup {Absent}],
         \A e \in Entry : entries[e] # Absent => entries'[e] # Absent,
         UNCHANGED <<nodes, overlapped>>,
         now.pc # "create",
         now.pc # "idle" => now.entry \in Entry /\ entries'[now.entry] # Absent,
         now.pc \in {"find", "mark"} => now.label \in Label,
         now.pc = "mark" => now.node \in Gate!Node
  PROVE  GateInv'
<1> USE DEF GateInv
<1>1. rpc' \in [Call -> OneRpc] /\ rpc'[c] = now /\ \A d \in Call \ {c} : rpc'[d] = rpc[d]
  BY DEF GateTyped
<1>2. GateTyped'
  BY <1>1 DEF GateTyped
<1>3. Promotions'
  BY <1>1 DEF Promotions, Minted, Gate!Live
<1>4. Gate!OnePerConcept'
  BY DEF Gate!OnePerConcept, Gate!Live
<1> QED BY <1>2, <1>3, <1>4

\* The rows of the scratchpad change, and nothing else does.
LEMMA EntriesChange ==
  ASSUME GateInv, entries' \in [Entry -> OneEntry \cup {Absent}],
         \A e \in Entry : entries[e] # Absent => entries'[e] # Absent,
         UNCHANGED <<nodes, rpc, overlapped>>
  PROVE  GateInv'
<1>1. GateTyped'
  BY DEF GateInv, GateTyped
<1>2. Promotions' /\ Gate!OnePerConcept'
  BY DEF GateInv, Promotions, Minted, Gate!OnePerConcept, Gate!Live
<1> QED BY <1>1, <1>2 DEF GateInv

\* A user changes a node, and so takes it out of the gate's hands.
LEMMA NodesChange ==
  ASSUME GateInv, nodes' \in [Gate!Node -> OneNode \cup {Absent, Deleted}],
         UNCHANGED <<entries, rpc, overlapped>>,
         \A n \in Gate!Node : nodes'[n] = nodes[n] \/ nodes'[n] = Deleted \/ nodes'[n].by = "user"
  PROVE  GateInv'
<1>1. GateTyped'
  BY DEF GateInv, GateTyped
<1>2. \A n \in Gate!Node : Minted(n)' => Minted(n) /\ nodes'[n] = nodes[n]
  BY DEF Minted, Gate!Live, Gate!IsRow
<1>3. Promotions'
  BY <1>2 DEF GateInv, Promotions
<1>4. Gate!OnePerConcept'
  <2> SUFFICES ASSUME NEW m \in Gate!Node, NEW n \in Gate!Node, Minted(m)', Minted(n)', m # n,
                      nodes'[m].label = nodes'[n].label
               PROVE  nodes'[m].label \in overlapped'
    BY DEF Gate!OnePerConcept, Minted, Gate!Live
  <2> QED BY <1>2 DEF GateInv, Gate!OnePerConcept, Minted
<1> QED BY <1>1, <1>3, <1>4 DEF GateInv

\* Every step of the gate, of its users and of a crash keeps the invariant.
LEMMA GateKeeps ==
  ASSUME GateInv, Gate!Next
  PROVE  GateInv'
<1> USE DEF GateInv, GateTyped, OneRpc
<1>0. Absent \notin OneEntry
  BY GateAssumption DEF OneEntry, Gate!Node
<1> DEFINE Start(e) == [Gate!Idle EXCEPT !.pc = "get", !.entry = e]
           Idle     == [pc |-> "idle", entry |-> Absent, label |-> Absent, node |-> Absent]
<1>a. Gate!Idle \in OneRpc
  BY DEF Gate!Idle
<1>b. ASSUME NEW c \in Call, NEW e \in Entry, rpc' = [rpc EXCEPT ![c] = Start(e)],
             entries' \in [Entry -> OneEntry \cup {Absent}], entries'[e] # Absent,
             \A f \in Entry : entries[f] # Absent => entries'[f] # Absent,
             UNCHANGED <<nodes, overlapped>>
      PROVE  GateInv'
  <2> DEFINE now == Start(e)
  <2>1. now \in OneRpc /\ now.pc = "get" /\ now.entry = e
    BY <1>a
  <2> HIDE DEF now
  <2>2. rpc' = [rpc EXCEPT ![c] = now]
    BY <1>b DEF now
  <2> QED BY <1>b, <2>1, <2>2, RpcMoves
<1>c. ASSUME NEW c \in Call, rpc' = [rpc EXCEPT ![c] = Idle],
             entries' \in [Entry -> OneEntry \cup {Absent}],
             \A f \in Entry : entries[f] # Absent => entries'[f] # Absent,
             UNCHANGED <<nodes, overlapped>>
      PROVE  GateInv'
  <2> DEFINE now == Idle
  <2>1. now \in OneRpc /\ now.pc = "idle"
    OBVIOUS
  <2> HIDE DEF now
  <2>2. rpc' = [rpc EXCEPT ![c] = now]
    BY <1>c DEF now
  <2> QED BY <1>c, <2>1, <2>2, RpcMoves
<1>1. ASSUME NEW c \in Call, NEW e \in Entry, NEW l \in Label, Gate!CreateEntry(c, e, l)
      PROVE  GateInv'
  <2> DEFINE new == [status |-> "pending", label |-> l, node |-> Absent]
  <2>1. entries' = [entries EXCEPT ![e] = new] /\ new \in OneEntry
        /\ UNCHANGED <<nodes, overlapped>>
    BY <1>1 DEF Gate!CreateEntry, OneEntry
  <2>2. rpc' = [rpc EXCEPT ![c] = Start(e)] \/ UNCHANGED rpc
    BY <1>1 DEF Gate!CreateEntry
  <2> HIDE DEF new
  <2>3. /\ entries' \in [Entry -> OneEntry \cup {Absent}] /\ entries'[e] # Absent
        /\ \A f \in Entry : entries[f] # Absent => entries'[f] # Absent
    BY <1>0, <2>1
  <2> QED BY <1>b, <2>1, <2>2, <2>3, EntriesChange
<1>2. ASSUME NEW c \in Call, NEW e \in Entry, Gate!Promote(c, e) PROVE GateInv'
  <2>1. entries[e] \in OneEntry
    BY <1>2 DEF Gate!Promote, Gate!Rows
  <2>2. \A l \in Label : [entries[e] EXCEPT !.label = l] \in OneEntry
    BY <2>1 DEF OneEntry
  <2>3. /\ entries' \in [Entry -> OneEntry \cup {Absent}] /\ entries'[e] # Absent
        /\ \A f \in Entry : entries[f] # Absent => entries'[f] # Absent
    BY <1>0, <1>2, <2>1, <2>2 DEF Gate!Promote
  <2>4. rpc' = [rpc EXCEPT ![c] = Start(e)] /\ UNCHANGED <<nodes, overlapped>>
    BY <1>2 DEF Gate!Promote
  <2> QED BY <1>b, <2>3, <2>4
<1>3. ASSUME NEW c \in Call, Gate!Get(c) PROVE GateInv'
  <2> DEFINE line == entries[rpc[c].entry]
  <2>1. rpc[c].pc = "get" /\ line \in OneEntry /\ rpc[c].entry \in Entry /\ line # Absent
        /\ UNCHANGED <<entries, nodes, overlapped>>
    BY <1>3 DEF Gate!Get
  <2>2. CASE rpc' = [rpc EXCEPT ![c] = Idle]
    BY <1>c, <2>1, <2>2
  <2>3. CASE rpc' = [rpc EXCEPT ![c].pc = "find", ![c].label = line.label]
    <3>1. line.label \in Label
      BY <2>1 DEF OneEntry
    <3> DEFINE now == [rpc[c] EXCEPT !.pc = "find", !.label = line.label]
    <3>2. /\ now \in OneRpc /\ now.pc = "find" /\ now.label \in Label
          /\ now.entry = rpc[c].entry
      BY <3>1
    <3>3. rpc' = [rpc EXCEPT ![c] = now]
      BY <2>3
    <3> HIDE DEF now
    <3> QED BY <2>1, <3>2, <3>3, RpcMoves
  <2> QED BY <1>3, <2>2, <2>3 DEF Gate!Get, Gate!Return, Gate!Idle
<1>4. ASSUME NEW c \in Call, Gate!FindByLabel(c) PROVE GateInv'
  <2> DEFINE l == rpc[c].label
  <2>1. rpc[c].pc = "find" /\ l \in Label /\ UNCHANGED <<entries, nodes>>
    BY <1>4 DEF Gate!FindByLabel
  <2>2. ASSUME NEW n \in Gate!Node, rpc' = [rpc EXCEPT ![c].pc = "mark", ![c].node = n],
               UNCHANGED overlapped
        PROVE  GateInv'
    <3> DEFINE now == [rpc[c] EXCEPT !.pc = "mark", !.node = n]
    <3>1. /\ now \in OneRpc /\ now.pc = "mark" /\ now.node = n /\ now.label \in Label
          /\ now.entry \in Entry /\ entries[now.entry] # Absent
      BY <2>1
    <3>2. rpc' = [rpc EXCEPT ![c] = now]
      BY <2>2
    <3> HIDE DEF now
    <3> QED BY <2>1, <2>2, <3>1, <3>2, RpcMoves
  <2>3. ASSUME {n \in Gate!Live : nodes[n].label = l} = {}, Gate!Goto(c, "create"),
               overlapped' = IF \E d \in Call : rpc[d].pc = "create" /\ rpc[d].label = l
                               THEN overlapped \cup {l} ELSE overlapped
        PROVE  GateInv'
    <3>1. /\ rpc' \in [Call -> OneRpc] /\ rpc'[c] = [rpc[c] EXCEPT !.pc = "create"]
          /\ \A d \in Call \ {c} : rpc'[d] = rpc[d]
      BY <2>3 DEF Gate!Goto
    <3>2. GateTyped'
      BY <2>1, <3>1
    <3>3. Gate!OnePerConcept'
      BY <2>1, <2>3 DEF Gate!OnePerConcept, Gate!Live
    <3>4. \A n \in Gate!Node : Minted(n) => nodes[n].label # l
      BY <2>3 DEF Minted
    <3>5. \A n \in Gate!Node : Minted(n)' <=> Minted(n)
      BY <2>1 DEF Minted, Gate!Live
    <3>6. Promotions'
      BY SMTT(30), <2>1, <2>3, <3>1, <3>4, <3>5 DEF Promotions
    <3> QED BY <3>2, <3>3, <3>6
  <2> QED BY <1>4, <2>2, <2>3 DEF Gate!FindByLabel, Gate!Live
<1>5. ASSUME NEW c \in Call, Gate!MarkPromoted(c) PROVE GateInv'
  <2> DEFINE e == rpc[c].entry
  <2>1. e \in Entry /\ entries[e] # Absent /\ entries[e] \in OneEntry /\ rpc[c].node \in Gate!Node
        /\ rpc' = [rpc EXCEPT ![c] = Idle] /\ UNCHANGED <<nodes, overlapped>>
        /\ \/ entries' = entries
           \/ entries' = [entries EXCEPT ![e].status = "promoted", ![e].node = rpc[c].node]
    BY <1>5 DEF Gate!MarkPromoted, Gate!Return, Gate!Idle
  <2>2. [entries[e] EXCEPT !.status = "promoted", !.node = rpc[c].node] \in OneEntry
    BY <2>1 DEF OneEntry
  <2>3. /\ entries' \in [Entry -> OneEntry \cup {Absent}]
        /\ \A f \in Entry : entries[f] # Absent => entries'[f] # Absent
    BY <1>0, <2>1, <2>2
  <2> QED BY <1>c, <2>1, <2>3
<1>6. ASSUME NEW c \in Call, NEW n \in Gate!Node, Gate!CreateNode(c, n) PROVE GateInv'
  <2> DEFINE l   == rpc[c].label
             new == [label |-> l, enabled |-> TRUE, by |-> "gate"]
             now == [rpc[c] EXCEPT !.pc = "mark", !.node = n]
  <2>1. /\ rpc[c].pc = "create" /\ l \in Label /\ UNCHANGED <<entries, overlapped>>
        /\ nodes' = [nodes EXCEPT ![n] = new] /\ rpc' = [rpc EXCEPT ![c] = now]
    BY <1>6 DEF Gate!CreateNode, Gate!Mint
  <2>2. /\ nodes' \in [Gate!Node -> OneNode \cup {Absent, Deleted}] /\ nodes'[n] = new
        /\ \A m \in Gate!Node \ {n} : nodes'[m] = nodes[m]
    BY <2>1 DEF OneNode
  <2>3. /\ rpc' \in [Call -> OneRpc] /\ rpc'[c] = now
        /\ \A d \in Call \ {c} : rpc'[d] = rpc[d]
    BY <2>1
  <2>4. GateTyped'
    BY <2>1, <2>2, <2>3
  <2>5. \A m \in Gate!Node \ {n} : Minted(m)' <=> Minted(m)
    BY <2>2 DEF Minted, Gate!Live
  <2>6. Promotions'
    BY <2>1, <2>2, <2>3, <2>5 DEF Promotions
  <2>7. Gate!OnePerConcept'
    <3> SUFFICES ASSUME NEW m \in Gate!Node, NEW o \in Gate!Node, Minted(m)', Minted(o)', m # o,
                        nodes'[m].label = nodes'[o].label
                 PROVE  nodes'[m].label \in overlapped'
      BY DEF Gate!OnePerConcept, Minted, Gate!Live
    <3>1. CASE m # n /\ o # n
      BY <2>1, <2>2, <2>5, <3>1 DEF Gate!OnePerConcept, Minted
    <3>2. CASE m = n \/ o = n
      BY <2>1, <2>2, <2>5, <3>2 DEF Promotions
    <3> QED BY <3>1, <3>2
  <2> QED BY <2>4, <2>6, <2>7
<1>7. ASSUME NEW e \in Entry, Gate!Reject(e) \/ Gate!Snooze(e) PROVE GateInv'
  <2>1. PICK s \in {"rejected", "snoozed"} : entries' = [entries EXCEPT ![e].status = s]
    BY <1>7 DEF Gate!Reject, Gate!Snooze
  <2>2. entries[e] \in OneEntry /\ UNCHANGED <<nodes, rpc, overlapped>>
    BY <1>7 DEF Gate!Reject, Gate!Snooze, Gate!Rows
  <2>3. [entries[e] EXCEPT !.status = s] \in OneEntry
    BY <2>2 DEF OneEntry
  <2> QED BY <1>0, <2>1, <2>2, <2>3, EntriesChange
<1>8. ASSUME NEW n \in Gate!Node,
             \/ Gate!UserDelete(n)
             \/ \E l \in Label : Gate!UserCreate(n, l) \/ \E b \in BOOLEAN : Gate!UserUpdate(n, l, b)
      PROVE  GateInv'
  <2> DEFINE Changes == \E new \in OneNode \cup {Deleted} :
                          nodes' = [nodes EXCEPT ![n] = new] /\ (new = Deleted \/ new.by = "user")
  <2>1. UNCHANGED <<entries, rpc, overlapped>> /\ Changes
    <3>1. CASE Gate!UserDelete(n)
      BY <3>1 DEF Gate!UserDelete
    <3>2. ASSUME NEW l \in Label, NEW b \in BOOLEAN, UNCHANGED <<entries, rpc, overlapped>>,
                 nodes' = [nodes EXCEPT ![n] = [label |-> l, enabled |-> b, by |-> "user"]]
          PROVE  Changes
      <4> DEFINE new == [label |-> l, enabled |-> b, by |-> "user"]
      <4>1. new \in OneNode /\ new.by = "user"
        BY DEF OneNode
      <4>2. nodes' = [nodes EXCEPT ![n] = new]
        BY <3>2
      <4> HIDE DEF new
      <4> QED BY <4>1, <4>2
    <3> QED BY <1>8, <3>1, <3>2 DEF Gate!UserCreate, Gate!UserUpdate, Gate!Mint
  <2>2. nodes' \in [Gate!Node -> OneNode \cup {Absent, Deleted}]
        /\ \A m \in Gate!Node : nodes'[m] = nodes[m] \/ nodes'[m] = Deleted \/ nodes'[m].by = "user"
    BY <2>1
  <2> QED BY <2>1, <2>2, NodesChange
<1>9. CASE Gate!Crash
  <2>1. rpc' \in [Call -> OneRpc] /\ (\A c \in Call : rpc'[c].pc = "idle")
        /\ UNCHANGED <<entries, nodes, overlapped>>
    BY <1>9 DEF Gate!Crash, Gate!Idle
  <2>2. GateTyped' /\ Promotions'
    BY <2>1 DEF Promotions
  <2> QED BY <2>1, <2>2 DEF Gate!OnePerConcept, Gate!Live
<1> QED
  BY <1>1, <1>2, <1>3, <1>4, <1>5, <1>6, <1>7, <1>8, <1>9 DEF Gate!Next, Gate!PromoteStep

\* The invariant of the trust gate.
LEMMA GateAlways == Spec => [](part = "trustGate" => GateInv)
<1>1. Init => (part = "trustGate" => GateInv)
  <2> SUFFICES ASSUME Gate!Init PROVE GateInv
    BY DEF Init
  <2>1. \A n \in Gate!Node : n \notin Gate!Live
    BY DEF Gate!Init, Gate!Live, Gate!IsRow
  <2> QED BY <2>1 DEF Gate!Init, Gate!Idle, GateInv, GateTyped, OneRpc, Promotions,
             Gate!OnePerConcept, Gate!Live
<1>2. (part = "trustGate" => GateInv) /\ [Next]_vars => (part = "trustGate" => GateInv)'
  <2> SUFFICES ASSUME GateInv, Gate!Next \/ UNCHANGED trustGate PROVE GateInv'
    BY PartSteps
  <2>1. CASE UNCHANGED trustGate
    <3>1. UNCHANGED <<entries, nodes, rpc, overlapped>>
      BY <2>1 DEF trustGate
    <3> QED BY <3>1, EntriesChange DEF GateInv, GateTyped
  <2> QED BY <2>1, GateKeeps
<1> QED
  BY <1>1, <1>2, PTL DEF Spec

\* Promotion makes one node of a concept, however often it is analysed, promoted,
\* cut off and tried again, unless two promotions look for it before either has
\* made it (promotion.go:36-41).
THEOREM OneNodePerConcept == Spec => []OnePerConcept
<1>1. (part = "trustGate" => GateInv) => OnePerConcept
  BY DEF GateInv, OnePerConcept
<1> QED
  BY <1>1, GateAlways, PTL

\* What a promotion points to has been made.
Pointing ==
  /\ \A c \in Call : rpc[c].pc = "mark" => nodes[rpc[c].node] # Absent
  /\ \A e \in Entry : entries[e] # Absent /\ entries[e].status = "promoted" =>
       entries[e].node \in Gate!Node /\ nodes[entries[e].node] # Absent

\* A node that was made is there, or is marked as deleted, ever after.
LEMMA NodesStay ==
  ASSUME GateInv, Gate!Next, NEW n \in Gate!Node, nodes[n] # Absent
  PROVE  nodes'[n] # Absent
<1> DEFINE Row(l, b, by) == [label |-> l, enabled |-> b, by |-> by]
<1>1. nodes \in [Gate!Node -> OneNode \cup {Absent, Deleted}]
  BY DEF GateInv, GateTyped
<1>2. ASSUME NEW m \in Gate!Node, NEW new \in OneNode \cup {Deleted}, nodes' = [nodes EXCEPT ![m] = new]
      PROVE  nodes'[n] # Absent
  <2>1. new # Absent
    BY GateAssumption DEF OneNode
  <2> QED BY <1>1, <1>2, <2>1
<1>3. ASSUME NEW m \in Gate!Node, NEW l \in Label, NEW b \in BOOLEAN, NEW by \in {"gate", "user"},
             nodes' = [nodes EXCEPT ![m] = Row(l, b, by)]
      PROVE  nodes'[n] # Absent
  <2> DEFINE new == Row(l, b, by)
  <2>1. new \in OneNode
    BY DEF OneNode
  <2>2. nodes' = [nodes EXCEPT ![m] = new]
    BY <1>3
  <2> HIDE DEF new
  <2> QED BY <1>2, <2>1, <2>2
<1>4. ASSUME NEW m \in Gate!Node, NEW c \in Call, Gate!CreateNode(c, m) PROVE nodes'[n] # Absent
  <2>1. rpc[c].label \in Label /\ nodes' = [nodes EXCEPT ![m] = Row(rpc[c].label, TRUE, "gate")]
    BY <1>4 DEF Gate!CreateNode, Gate!Mint, GateInv, GateTyped
  <2> QED BY <1>3, <2>1
<1>5. ASSUME NEW m \in Gate!Node, NEW l \in Label, NEW b \in BOOLEAN,
             Gate!UserCreate(m, l) \/ Gate!UserUpdate(m, l, b) \/ Gate!UserDelete(m)
      PROVE  nodes'[n] # Absent
  <2>1. CASE Gate!UserCreate(m, l) \/ Gate!UserUpdate(m, l, b)
    <3>1. \E on \in BOOLEAN : nodes' = [nodes EXCEPT ![m] = Row(l, on, "user")]
      BY <2>1 DEF Gate!UserCreate, Gate!Mint, Gate!UserUpdate
    <3> QED BY <1>3, <3>1
  <2>2. CASE Gate!UserDelete(m)
    BY <1>2, <2>2 DEF Gate!UserDelete
  <2> QED BY <1>5, <2>1, <2>2
<1>6. ASSUME NEW m \in Gate!Node, Gate!UserDelete(m) PROVE nodes'[n] # Absent
  BY <1>2, <1>6 DEF Gate!UserDelete
<1>7. CASE UNCHANGED nodes
  BY <1>7
<1> QED
  BY <1>4, <1>5, <1>6, <1>7
     DEF Gate!Next, Gate!PromoteStep, Gate!Promote, Gate!CreateEntry, Gate!Get, Gate!FindByLabel,
         Gate!MarkPromoted, Gate!Reject, Gate!Snooze, Gate!Crash

\* Every step of the gate keeps what promotions point to.
LEMMA PointingKept ==
  ASSUME GateInv, Pointing, Gate!Next
  PROVE  Pointing'
<1> USE DEF GateInv, GateTyped
<1>0. \A n \in Gate!Node : nodes[n] # Absent => nodes'[n] # Absent
  BY NodesStay
<1>1. ASSUME NEW c \in Call, rpc'[c].pc = "mark" PROVE nodes'[rpc'[c].node] # Absent
  <2>1. CASE rpc[c].pc = "mark" /\ rpc'[c].node = rpc[c].node
    BY <1>0, <2>1 DEF Pointing
  <2>2. CASE Gate!FindByLabel(c)
    <3>1. CASE rpc' = [rpc EXCEPT ![c].pc = "create"]
      BY <1>1, <3>1
    <3>2. ASSUME NEW n \in Gate!Live, rpc' = [rpc EXCEPT ![c].pc = "mark", ![c].node = n]
          PROVE  nodes'[rpc'[c].node] # Absent
      <4>1. rpc'[c].node = n /\ n \in Gate!Node /\ nodes[n] # Absent
        BY <3>2 DEF OneRpc, Gate!Live, Gate!IsRow
      <4> QED BY <1>0, <4>1
    <3> QED BY <2>2, <3>1, <3>2 DEF Gate!FindByLabel, Gate!Goto
  <2>3. ASSUME NEW n \in Gate!Node, Gate!CreateNode(c, n) PROVE nodes'[rpc'[c].node] # Absent
    <3> DEFINE new == [label |-> rpc[c].label, enabled |-> TRUE, by |-> "gate"]
    <3>1. rpc'[c].node = n /\ nodes' = [nodes EXCEPT ![n] = new] /\ rpc[c].label \in Label
      BY <2>3 DEF Gate!CreateNode, Gate!Mint
    <3>2. new \in OneNode /\ Absent \notin OneNode
      BY <3>1, GateAssumption DEF OneNode
    <3> HIDE DEF new
    <3> QED BY <3>1, <3>2
  <2> DEFINE Stays == rpc[c].pc = "mark" /\ rpc'[c].node = rpc[c].node
             Start(e) == [Gate!Idle EXCEPT !.pc = "get", !.entry = e]
  <2>4. ASSUME NEW d \in Call, NEW now \in OneRpc, now.pc # "mark", rpc' = [rpc EXCEPT ![d] = now]
        PROVE  Stays
    BY <1>1, <2>4
  <2>5. ASSUME NEW d \in Call, d # c, NEW now, rpc' = [rpc EXCEPT ![d] = now] PROVE Stays
    BY <1>1, <2>5
  <2>6. ASSUME UNCHANGED rpc PROVE Stays
    BY <1>1, <2>6
  <2>7. Gate!Idle \in OneRpc /\ Gate!Idle.pc = "idle"
    BY DEF OneRpc, Gate!Idle
  <2>8. ASSUME NEW d \in Call, NEW e \in Entry, rpc' = [rpc EXCEPT ![d] = Start(e)] PROVE Stays
    <3> DEFINE now == Start(e)
    <3>1. now \in OneRpc /\ now.pc = "get"
      BY <2>7 DEF OneRpc
    <3>2. rpc' = [rpc EXCEPT ![d] = now]
      BY <2>8
    <3> HIDE DEF now
    <3> QED BY <2>4, <3>1, <3>2
  <2>9. ASSUME NEW d \in Call, NEW e \in Entry,
               Gate!Promote(d, e) \/ \E l \in Label : Gate!CreateEntry(d, e, l)
        PROVE  Stays
    BY <2>6, <2>8, <2>9 DEF Gate!Promote, Gate!CreateEntry
  <2>10. ASSUME NEW d \in Call, Gate!Get(d) \/ Gate!MarkPromoted(d) PROVE Stays
    <3>1. CASE rpc' = [rpc EXCEPT ![d] = Gate!Idle]
      BY <2>4, <2>7, <3>1
    <3>2. ASSUME NEW l, rpc' = [rpc EXCEPT ![d].pc = "find", ![d].label = l] PROVE Stays
      BY <1>1, <3>2 DEF OneRpc
    <3> QED BY <2>10, <3>1, <3>2 DEF Gate!Get, Gate!MarkPromoted, Gate!Return
  <2>11. ASSUME NEW d \in Call, d # c,
                Gate!FindByLabel(d) \/ \E n \in Gate!Node : Gate!CreateNode(d, n)
         PROVE  Stays
    BY <2>11, <2>5 DEF Gate!FindByLabel, Gate!CreateNode, Gate!Goto
  <2>12. ASSUME Gate!Crash PROVE Stays
    BY <1>1, <2>7, <2>12 DEF Gate!Crash
  <2>13. \/ Stays
         \/ Gate!FindByLabel(c)
         \/ \E n \in Gate!Node : Gate!CreateNode(c, n)
    BY <2>6, <2>9, <2>10, <2>11, <2>12
       DEF Gate!Next, Gate!PromoteStep, Gate!Reject, Gate!Snooze, Gate!UserDelete,
           Gate!UserCreate, Gate!UserUpdate
  <2> QED BY <2>1, <2>2, <2>3, <2>13
<1>2. ASSUME NEW e \in Entry, entries'[e] # Absent, entries'[e].status = "promoted"
      PROVE  entries'[e].node \in Gate!Node /\ nodes'[entries'[e].node] # Absent
  <2> DEFINE Stays == /\ entries[e] # Absent /\ entries[e].status = "promoted"
                      /\ entries'[e].node = entries[e].node
  <2>1. CASE Stays
    BY <1>0, <2>1 DEF Pointing
  <2>2. ASSUME NEW c \in Call, Gate!MarkPromoted(c) PROVE Stays \/ Gate!Undecided(rpc[c].entry)
    BY <1>2, <2>2 DEF Gate!MarkPromoted
  <2>3. ASSUME NEW c \in Call, Gate!MarkPromoted(c), ~ Stays
        PROVE  entries'[e].node = rpc[c].node /\ rpc[c].pc = "mark" /\ rpc[c].node \in Gate!Node
    <3>1. rpc[c].pc = "mark" /\ rpc[c].node \in Gate!Node
          /\ rpc[c].entry \in Entry /\ entries[rpc[c].entry] \in OneEntry
      BY <2>3 DEF Gate!MarkPromoted
    <3> DEFINE kept == [entries[rpc[c].entry] EXCEPT !.status = "promoted", !.node = rpc[c].node]
    <3>2. kept.node = rpc[c].node
      BY <3>1 DEF OneEntry
    <3>3. entries' = [entries EXCEPT ![rpc[c].entry] = kept]
      BY <2>2, <2>3 DEF Gate!MarkPromoted
    <3> HIDE DEF kept
    <3>4. e = rpc[c].entry
      BY <1>2, <2>3, <3>3
    <3> QED BY <3>1, <3>2, <3>3, <3>4
  <2>4. ASSUME NEW c \in Call, Gate!MarkPromoted(c)
        PROVE  Stays \/ (entries'[e].node \in Gate!Node /\ nodes'[entries'[e].node] # Absent)
    BY <1>0, <2>3, <2>4 DEF Pointing
  <2>5. ASSUME NEW c \in Call, NEW f \in Entry, NEW l \in Label, Gate!CreateEntry(c, f, l) PROVE Stays
    BY <1>2, <2>5 DEF Gate!CreateEntry
  <2>6. ASSUME NEW c \in Call, NEW f \in Entry, Gate!Promote(c, f) PROVE Stays
    <3>1. entries[f] \in OneEntry
      BY <2>6 DEF Gate!Promote, Gate!Rows
    <3>2. CASE UNCHANGED entries
      BY <1>2, <3>2
    <3>3. ASSUME NEW l \in Label, entries' = [entries EXCEPT ![f].label = l] PROVE Stays
      <4> DEFINE kept == [entries[f] EXCEPT !.label = l]
      <4>1. entries[f] # Absent /\ kept.status = entries[f].status /\ kept.node = entries[f].node
        BY <2>6, <3>1 DEF OneEntry, Gate!Promote, Gate!Rows
      <4>2. entries' = [entries EXCEPT ![f] = kept]
        BY <3>3
      <4> HIDE DEF kept
      <4> QED BY <1>2, <4>1, <4>2
    <3> QED BY <2>6, <3>2, <3>3 DEF Gate!Promote
  <2>7. ASSUME NEW f \in Entry, Gate!Reject(f) \/ Gate!Snooze(f) PROVE Stays
    <3>1. entries[f] \in OneEntry
      BY <2>7 DEF Gate!Reject, Gate!Snooze, Gate!Rows
    <3>2. PICK s \in {"rejected", "snoozed"} : entries' = [entries EXCEPT ![f].status = s]
      BY <2>7 DEF Gate!Reject, Gate!Snooze
    <3>3. f # e
      BY <1>2, <3>1, <3>2 DEF OneEntry
    <3> QED BY <1>2, <3>2, <3>3
  <2>8. ASSUME UNCHANGED entries PROVE Stays
    BY <1>2, <2>8
  <2> QED
    BY <2>1, <2>4, <2>5, <2>6, <2>7, <2>8
       DEF Gate!Next, Gate!PromoteStep, Gate!Get, Gate!FindByLabel, Gate!CreateNode,
           Gate!UserDelete, Gate!UserCreate, Gate!UserUpdate, Gate!Crash
<1> QED
  BY <1>1, <1>2 DEF Pointing

\* What the gate promoted has a node, or had one that a user deleted: the node is
\* made by a statement of its own before the entry says so, also across a crash
\* (promotion.go).
THEOREM PromotedAlwaysHasNode == Spec => [](part = "trustGate" => Gate!PromotedHasNode)
<1>1. Init => (part = "trustGate" => Pointing)
  BY DEF Init, Gate!Init, Gate!Idle, Pointing
<1>2. (part = "trustGate" => GateInv) /\ (part = "trustGate" => Pointing) /\ [Next]_vars
        => (part = "trustGate" => Pointing)'
  <2> SUFFICES ASSUME GateInv, Pointing, Gate!Next \/ UNCHANGED trustGate PROVE Pointing'
    BY PartSteps
  <2>1. CASE UNCHANGED trustGate
    BY <2>1 DEF trustGate, Pointing
  <2> QED BY <2>1, PointingKept
<1>3. (part = "trustGate" => Pointing) => (part = "trustGate" => Gate!PromotedHasNode)
  BY DEF Pointing, Gate!PromotedHasNode, Gate!Rows
<1> QED
  BY <1>1, <1>2, <1>3, GateAlways, PTL DEF Spec

-----------------------------------------------------------------------------
(* Approved proposals.                                                      *)

\* Version i was made from the proposal of attempt a.
Made(a) == \E i \in DOMAIN versions : versions[i].by = a

\* The same once the step is taken.
MadeNext(a) == \E i \in DOMAIN versions' : versions'[i].by = a

\* A call that carries a patch acts for an attempt, and once it is past the row that
\* row exists.
Applied ==
  \A h \in Handler : handler[h].patch # None =>
    /\ handler[h].by \in Attempt
    /\ handler[h].pc \in {"write", "publish", "decide"} => Made(handler[h].by)

\* Versions are only ever added.
LEMMA MadeStays ==
  ASSUME HarnessInv, Skill!Next, NEW a, Made(a)
  PROVE  MadeNext(a)
<1>1. versions' = versions \/ \E new \in OneVersion : versions' = Append(versions, new)
  <2>1. ASSUME NEW h \in Handler, Skill!InsertVersion(h)
        PROVE  versions' = versions \/ \E new \in OneVersion : versions' = Append(versions, new)
    <3>1. [content |-> handler[h].content, by |-> handler[h].by] \in OneVersion
      BY <2>1 DEF Skill!InsertVersion, HarnessInv, HarnessTyped, Saves, OneVersion, OneHandler
    <3> QED BY <2>1, <3>1 DEF Skill!InsertVersion
  <2> QED
    BY <2>1
       DEF Skill!Next, Skill!SkillStep, Skill!UpdateSkill, Skill!RollbackSkill, Skill!ReadAndApply,
           Skill!WriteFile, Skill!Publish, Skill!Decide, Skill!Approve, Skill!Reject,
           Skill!Observe, Skill!Propose, Skill!HandEdit, Skill!Restart
<1>2. ASSUME NEW new \in OneVersion, versions' = Append(versions, new) PROVE MadeNext(a)
  <2>1. /\ DOMAIN versions = 1 .. Len(versions) /\ DOMAIN versions' = 1 .. Len(versions) + 1
        /\ Len(versions) \in Nat /\ \A i \in 1 .. Len(versions) : versions'[i] = versions[i]
    BY <1>2 DEF HarnessInv, HarnessTyped
  <2> QED BY <2>1 DEF Made, MadeNext
<1> QED BY <1>1, <1>2 DEF Made, MadeNext

\* Every step of the charter keeps that patches are made into versions.
LEMMA AppliedKept ==
  ASSUME HarnessInv, Applied, Skill!Next
  PROVE  Applied'
<1> USE DEF HarnessInv, HarnessTyped
<1> DEFINE Good(x) == x.patch # None =>
             /\ x.by \in Attempt
             /\ x.pc \in {"write", "publish", "decide"} => MadeNext(x.by)
<1>0. \A g \in Handler : Good(handler[g])
  BY MadeStays DEF Applied
<1>1. ASSUME NEW h \in Handler, NEW now, handler' = [handler EXCEPT ![h] = now], Good(now)
      PROVE  Applied'
  BY <1>0, <1>1 DEF Applied, Made, MadeNext
<1>2. CASE UNCHANGED handler
  BY <1>0, <1>2 DEF Applied, Made, MadeNext
<1>3. Good(Skill!Idle) /\ ~ (Skill!Idle.patch # None)
  BY DEF Skill!Idle
<1>4. ASSUME NEW h \in Handler, handler' = [handler EXCEPT ![h] = Skill!Idle] PROVE Applied'
  <2> HIDE DEF Good
  <2> QED BY <1>1, <1>3, <1>4
<1>5. ASSUME NEW h \in Handler, NEW now, handler' = [handler EXCEPT ![h] = now], now.patch = None
      PROVE  Applied'
  BY <1>1, <1>5
<1>6. ASSUME NEW h \in Handler, NEW c, NEW by, handler' = [handler EXCEPT ![h] =
               [pc |-> "insert", by |-> by, patch |-> None, content |-> c]]
      PROVE  Applied'
  <2> DEFINE now == [pc |-> "insert", by |-> by, patch |-> None, content |-> c]
  <2>1. now.patch = None /\ handler' = [handler EXCEPT ![h] = now]
    BY <1>6
  <2> HIDE DEF now
  <2> QED BY <1>5, <2>1
<1>7. ASSUME NEW h \in Handler, Skill!ReadAndApply(h) PROVE Applied'
  <2>1. ASSUME NEW c, handler' = [handler EXCEPT ![h].pc = "insert", ![h].content = c] PROVE Applied'
    <3> DEFINE now == [handler[h] EXCEPT !.pc = "insert", !.content = c]
    <3>1. now.patch = handler[h].patch /\ now.by = handler[h].by /\ now.pc = "insert"
      BY DEF OneHandler
    <3>2. handler' = [handler EXCEPT ![h] = now]
      BY <2>1
    <3> HIDE DEF now
    <3>3. Good(now)
      BY <1>0, <3>1
    <3> QED BY <1>1, <3>2, <3>3
  <2> QED BY <1>4, <1>7, <2>1 DEF Skill!ReadAndApply, Skill!Return
<1>8. ASSUME NEW h \in Handler, NEW pc, Skill!Goto(h, pc),
             handler[h].patch # None /\ pc \in {"write", "publish", "decide"} => MadeNext(handler[h].by)
      PROVE  Applied'
  <2> DEFINE now == [handler[h] EXCEPT !.pc = pc]
  <2>1. now.patch = handler[h].patch /\ now.by = handler[h].by /\ now.pc = pc
    BY DEF OneHandler
  <2>2. handler' = [handler EXCEPT ![h] = now]
    BY <1>8 DEF Skill!Goto
  <2> HIDE DEF now
  <2>3. Good(now)
    BY <1>0, <1>8, <2>1
  <2> QED BY <1>1, <2>2, <2>3
<1>9. ASSUME NEW h \in Handler, Skill!InsertVersion(h) PROVE Applied'
  <2>1. CASE Skill!Return(h)
    BY <1>4, <2>1 DEF Skill!Return
  <2>2. CASE Skill!Goto(h, "write")
    <3>1. SUFFICES ASSUME handler[h].patch # None PROVE MadeNext(handler[h].by)
      BY <1>8, <2>2
    <3>2. handler[h].by \in Attempt /\ handler[h].by # "user"
      BY <3>1, HarnessAssumption DEF Applied
    <3> DEFINE new == [content |-> handler[h].content, by |-> handler[h].by]
    <3>3. CASE Skill!Return(h)
      BY <1>9, <2>2, <3>3 DEF Skill!InsertVersion, Skill!Return, Skill!Goto, Skill!Idle, OneHandler
    <3>4. CASE versions' = Append(versions, new)
      <4>1. new \in OneVersion /\ new.by = handler[h].by
        BY <3>2 DEF OneVersion, OneHandler
      <4> HIDE DEF new
      <4>2. Len(versions) + 1 \in DOMAIN versions' /\ versions'[Len(versions) + 1] = new
        BY <3>4, <4>1
      <4>3. handler[h].by = new.by
        BY <4>1
      <4> QED BY <4>2, <4>3 DEF MadeNext
    <3> QED BY <1>9, <3>2, <3>3, <3>4 DEF Skill!InsertVersion
  <2> QED BY <1>9, <2>1, <2>2 DEF Skill!InsertVersion
<1>10. ASSUME NEW h \in Handler, Skill!WriteFile(h) \/ Skill!Publish(h) PROVE Applied'
  <2>1. handler[h].pc \in {"write", "publish"}
        /\ (Skill!Return(h) \/ \E pc \in {"publish", "decide"} : Skill!Goto(h, pc))
    BY <1>10 DEF Skill!WriteFile, Skill!Publish
  <2>2. handler[h].patch # None => MadeNext(handler[h].by)
    BY <1>0, <2>1
  <2> QED BY <1>4, <1>8, <2>1, <2>2 DEF Skill!Return
<1>11. ASSUME NEW h \in Handler, NEW a \in Attempt, Skill!Approve(h, a) PROVE Applied'
  <2> DEFINE now == [Skill!Idle EXCEPT !.by = a, !.patch = attempt[a].patch,
                       !.pc = IF attempt[a].patch = None THEN "decide" ELSE "apply"]
  <2>1. now.by = a /\ (now.patch # None => now.pc = "apply")
    BY DEF Skill!Idle
  <2>2. handler' = [handler EXCEPT ![h] = now]
    BY <1>11 DEF Skill!Approve
  <2> HIDE DEF now
  <2>3. Good(now)
    BY <2>1
  <2> QED BY <1>1, <2>2, <2>3
<1>12. CASE Skill!Restart
  <2>1. \A h \in Handler : handler'[h] = Skill!Idle
    BY <1>12 DEF Skill!Restart
  <2> QED BY <1>3, <2>1 DEF Applied
<1> QED
  BY <1>2, <1>4, <1>6, <1>7, <1>9, <1>10, <1>11, <1>12
     DEF Skill!Next, Skill!SkillStep, Skill!UpdateSkill, Skill!RollbackSkill, Skill!Decide,
         Skill!Return, Skill!Reject, Skill!Observe, Skill!Propose, Skill!HandEdit

\* An approval that carries a patch is recorded only after a version was made from
\* that attempt's proposal, whatever is saved, rolled back, rejected or proposed
\* meanwhile, and also across a crash (harness_attempt_server.go:87-118).
THEOREM ApprovedWasApplied ==
  Spec => [][part = "harness" => Skill!ApprovesTheApplied]_vars
<1>1. Init => (part = "harness" => Applied)
  BY DEF Init, Skill!Init, Skill!Idle, Applied
<1>2. (part = "harness" => HarnessInv) /\ (part = "harness" => Applied) /\ [Next]_vars
        => (part = "harness" => Applied)'
  <2> SUFFICES ASSUME HarnessInv, Applied, Skill!Next \/ UNCHANGED harness PROVE Applied'
    BY PartSteps
  <2>1. CASE UNCHANGED harness
    BY <2>1 DEF harness, Applied, Made
  <2> QED BY <2>1, AppliedKept
<1>3. (part = "harness" => Applied) => (part = "harness" => Skill!ApprovesTheApplied)
  BY DEF Applied, Made, Skill!ApprovesTheApplied, Skill!Decide
<1>4. (part = "harness" => Applied) => [part = "harness" => Skill!ApprovesTheApplied]_vars
  BY <1>3
<1> QED
  BY <1>1, <1>2, <1>4, HarnessAlways, PTL DEF Spec
=============================================================================
