----------------------------- MODULE Lifecycle ------------------------------
(***************************************************************************)
(* How a UI finds, replaces or starts the one sidecar of the user: the      *)
(* record of the endpoint in a file, the named mutex, the probes, and the   *)
(* order of the sidecar's start and of its teardown.                        *)
(***************************************************************************)
EXTENDS Naturals

CONSTANTS
  MaxProcess,   \* bound on the sidecar processes that are ever started
  Ui,           \* UI processes
  Version,      \* protocol versions of the two binaries
  MaxFailures,    \* bound on deaths, failed starts, failed writes and hung calls
  Nobody

VARIABLES
  proc,         \* p -> its place, version, and whether its record was written
  ui,           \* u -> its place, version, the sidecar it found, the one it started
  file,         \* sidecar-endpoint.json: whose endpoint it is
  mutex,        \* Local\FleetKanban_Sidecar_Singleton
  lost,         \* sidecars whose record a UI deleted
  failures

vars == <<proc, ui, file, mutex, lost, failures>>

Process == 1 .. MaxProcess

NoProcess(pc) == [pc |-> pc, version |-> Nobody, recorded |-> FALSE, parent |-> Nobody]

\* A UI that is not starting; once it is up its child is the job object's.
NoStart(pc) == [pc |-> pc, version |-> Nobody, found |-> Nobody,
                child |-> Nobody, serving |-> FALSE]

Init ==
  /\ proc = [p \in Process |-> NoProcess("none")]
  /\ ui = [u \in Ui |-> NoStart("off")]
  /\ file = Nobody /\ mutex = Nobody
  /\ lost = {} /\ failures = 0

Fault == failures < MaxFailures /\ failures' = failures + 1
At(p, pc) == proc' = [proc EXCEPT ![p].pc = pc]
Goto(u, pc) == ui' = [ui EXCEPT ![u].pc = pc]
Done(u, pc) == ui' = [ui EXCEPT ![u] = NoStart(pc)]

\* Processes that end at once: Windows frees the mutex, the file stays.
Kill(dead) ==
  /\ proc' = [p \in Process |-> IF p \in dead /\ proc[p].pc # "none"
                                  THEN NoProcess("dead") ELSE proc[p]]
  /\ mutex' = IF mutex \in dead THEN Nobody ELSE mutex

-----------------------------------------------------------------------------
\* The sidecar.

\* acquireSingletonMutex; one that is held ends the new process.
Acquire(p) ==
  /\ proc[p].pc = "spawned"
  /\ IF mutex = Nobody THEN At(p, "starting") /\ mutex' = p
                       ELSE Kill({p})
  /\ UNCHANGED <<ui, file, lost, failures>>

\* The stores, the reconciliation, the listener; then READY on stdout.
Ready(p) ==
  /\ proc[p].pc = "starting"
  /\ At(p, "ready")
  /\ UNCHANGED <<ui, file, mutex, lost, failures>>

\* writeEndpointFile by a rename, and Serve.  A failed write is only a warning.
Serve(p) ==
  /\ proc[p].pc = "ready"
  /\ \/ /\ file' = p
        /\ proc' = [proc EXCEPT ![p].pc = "serving", ![p].recorded = TRUE]
        /\ UNCHANGED failures
     \/ At(p, "serving") /\ Fault /\ UNCHANGED file
  /\ UNCHANGED <<ui, mutex, lost>>

\* Mutant: the mutex is released before the record is removed.
TeardownSwapped(p) ==
  /\ \/ /\ proc[p].pc = "stopping"
        /\ At(p, "closing")
        /\ mutex' = Nobody
        /\ UNCHANGED file
     \/ /\ proc[p].pc = "closing"
        /\ file' = IF proc[p].recorded THEN Nobody ELSE file
        /\ Kill({p})
  /\ UNCHANGED <<ui, lost, failures>>

\* The deferred calls in their order: the record, whoever's it is, then, after the
\* database is closed, the mutex.
Teardown(p) ==
  /\ \/ /\ proc[p].pc = "stopping"
        /\ At(p, "closing")
        /\ file' = IF proc[p].recorded THEN Nobody ELSE file
        /\ UNCHANGED mutex
     \/ /\ proc[p].pc = "closing"
        /\ Kill({p})
        /\ UNCHANGED file
  /\ UNCHANGED <<ui, lost, failures>>

\* A crash, or an error of run on its way to the handshake.
Die(p) ==
  /\ proc[p].pc \notin {"none", "dead"}
  /\ Kill({p}) /\ Fault
  /\ UNCHANGED <<ui, file, lost>>

\* SystemService.Shutdown by some client.
Shutdown(p) ==
  /\ proc[p].pc = "serving"
  /\ At(p, "stopping")
  /\ UNCHANGED <<ui, file, mutex, lost, failures>>

-----------------------------------------------------------------------------
\* SidecarSupervisor.start, of a new UI or of one that is hot-restarted.

\* The record is read; without one there is only the way to spawn.
ReadRecord(u, v) ==
  /\ ui[u].pc = "off"
  /\ ui' = [ui EXCEPT ![u] = [pc |-> IF file = Nobody THEN "spawn" ELSE "connect",
                              version |-> v, found |-> file, child |-> Nobody,
                              serving |-> file # Nobody /\ proc[file].pc = "serving"]]
  /\ UNCHANGED <<proc, file, mutex, lost, failures>>

\* The TCP probe.  A listener that is being stopped may still accept.
Connect(u) ==
  /\ ui[u].pc = "connect"
  /\ LET pc == proc[ui[u].found].pc
     IN  \/ pc \in {"serving", "stopping"} /\ Goto(u, "version")
         \/ pc # "serving" /\ Goto(u, "delete")
  /\ UNCHANGED <<proc, file, mutex, lost, failures>>

\* GetVersion: the same protocol is reused; another, or no answer, is evicted.
ProbeVersion(u) ==
  /\ ui[u].pc = "version"
  /\ LET q == proc[ui[u].found]
     IN  \/ q.pc = "serving" /\ q.version = ui[u].version /\ Done(u, "up") /\ UNCHANGED failures
         \/ /\ q.pc # "serving" \/ q.version # ui[u].version
            /\ Goto(u, "evict") /\ UNCHANGED failures
         \/ Goto(u, "evict") /\ Fault
  /\ UNCHANGED <<proc, file, mutex, lost>>

\* The polite Shutdown; a sidecar that hangs ignores it.
AskShutdown(u) ==
  /\ ui[u].pc = "evict"
  /\ Goto(u, "taskkill")
  /\ \/ /\ IF proc[ui[u].found].pc = "serving" THEN At(ui[u].found, "stopping") ELSE UNCHANGED proc
        /\ UNCHANGED failures
     \/ UNCHANGED proc /\ Fault
  /\ UNCHANGED <<file, mutex, lost>>

\* Mutant: the polite Shutdown is trusted.
NoTaskKill(u) ==
  /\ ui[u].pc = "taskkill"
  /\ Goto(u, "delete")
  /\ UNCHANGED <<proc, file, mutex, lost, failures>>

\* taskkill /F /IM: every sidecar there is.
TaskKill(u) ==
  /\ ui[u].pc = "taskkill"
  /\ Goto(u, "delete")
  /\ Kill(Process)
  /\ UNCHANGED <<file, lost, failures>>

\* _safeDelete: the file, whatever it says by now.
DeleteRecord(u) ==
  /\ ui[u].pc = "delete"
  /\ Goto(u, "spawn")
  /\ file' = Nobody
  /\ lost' = lost \cup ({file} \ {Nobody})
  /\ UNCHANGED <<proc, mutex, failures>>

\* Process.start; the binary beside the UI may be of another build.
Spawn(u, p, v) ==
  /\ ui[u].pc = "spawn" /\ proc[p].pc = "none"
  /\ \A q \in 1 .. p - 1 : proc[q].pc # "none"
  /\ proc' = [proc EXCEPT ![p] = [pc |-> "spawned", version |-> v, recorded |-> FALSE, parent |-> u]]
  /\ ui' = [ui EXCEPT ![u].pc = "wait", ![u].child = p]
  /\ UNCHANGED <<file, mutex, lost, failures>>

\* READY, the exit of the child, or the timeout, which kills it.
Handshake(u) ==
  /\ ui[u].pc = "wait"
  /\ LET p == ui[u].child
     IN  \/ /\ proc[p].pc \in {"ready", "serving", "stopping", "closing"}
            /\ Done(u, "up") /\ UNCHANGED <<proc, mutex, failures>>
         \/ /\ proc[p].pc = "dead"
            /\ Done(u, "failed") /\ UNCHANGED <<proc, mutex, failures>>
         \/ /\ proc[p].pc \in {"spawned", "starting"}
            /\ Done(u, "failed") /\ Kill({p}) /\ Fault
  /\ UNCHANGED <<file, lost>>

\* main() runs again in the same process: its sidecar lives on.
HotRestart(u) ==
  /\ ui[u].pc \in {"up", "failed"}
  /\ Done(u, "off")
  /\ UNCHANGED <<proc, file, mutex, lost, failures>>

\* The UI process ends, and its job object takes its children along.
Exit(u) ==
  /\ ui[u].pc # "off"
  /\ Done(u, "off")
  /\ Kill({p \in Process : proc[p].parent = u})
  /\ UNCHANGED <<file, lost, failures>>

-----------------------------------------------------------------------------
SidecarStep(p) ==
  Acquire(p) \/ Ready(p) \/ Serve(p) \/ Teardown(p) \/ Die(p) \/ Shutdown(p)

StartStep(u) ==
  \/ \E v \in Version : ReadRecord(u, v) \/ \E p \in Process : Spawn(u, p, v)
  \/ Connect(u) \/ ProbeVersion(u) \/ AskShutdown(u) \/ TaskKill(u)
  \/ DeleteRecord(u) \/ Handshake(u)

Next ==
  \/ \E p \in Process : SidecarStep(p)
  \/ \E u \in Ui : StartStep(u) \/ HotRestart(u) \/ Exit(u)

Spec == Init /\ [][Next]_vars

-----------------------------------------------------------------------------
TypeOK ==
  /\ \A p \in Process :
       /\ proc[p].pc \in {"none", "spawned", "starting", "ready", "serving",
                          "stopping", "closing", "dead"}
       /\ mutex = p <=> proc[p].pc \in {"starting", "ready", "serving", "stopping", "closing"}
  /\ \A u \in Ui :
       /\ ui[u].pc \in {"off", "connect", "version", "evict", "taskkill", "delete",
                        "spawn", "wait", "up", "failed"}
       /\ ui[u].found \in Process \cup {Nobody} /\ ui[u].child \in Process \cup {Nobody}
  /\ file \in Process \cup {Nobody} /\ lost \subseteq Process

\* A sidecar that serves and wrote its record can be found by it, whoever else
\* starts, stops or dies: its predecessor's teardown never takes the record away.
\* Only a UI that read an older record may.
EndpointFound ==
  \A p \in Process :
    proc[p].pc = "serving" /\ proc[p].recorded /\ p \notin lost => file = p

\* A UI that finds a sidecar serving reconnects or replaces it, and never starts a
\* process that the same sidecar's mutex then ends (sidecar_supervisor.dart:82-86).
FightsNobodyFound ==
  \A u \in Ui :
    ui[u].child # Nobody /\ Acquire(ui[u].child) /\ mutex # Nobody
      => ~(mutex = ui[u].found /\ ui[u].serving /\ proc[mutex].pc = "serving")

NeverFightsTheFound == [][FightsNobodyFound]_vars
=============================================================================
