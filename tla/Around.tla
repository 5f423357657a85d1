------------------------------- MODULE Around -------------------------------
(***************************************************************************)
(* The components around the core, each alone: they share no state with    *)
(* each other, so one run checks them one behind the other.  `part` says   *)
(* which one a behaviour is about; the variables of the others stay Off.    *)
(***************************************************************************)
EXTENDS Naturals, Sequences, FiniteSets

CONSTANTS
  Writer, BufSize, MaxRow, MaxLog, MaxFile, MaxLost,    \* EventStream
  Caller, Work, UserCommit,                             \* Repository
  Handler, Attempt, Region, MaxVersions,                \* Harness
  Ui, Version, MaxProcess, MaxFailures,                 \* Lifecycle
  Call, Entry, Label, MaxNode, MaxEdits,                \* TrustGate
  MaxFaults, None, NoMark, Nobody, Absent, Deleted,
  Off           \* the value of the variables a behaviour is not about

\* NoMark is no seq.
ASSUME StreamAssumption ==
  BufSize \in Nat /\ MaxRow \in Nat /\ MaxLog \in Nat /\ NoMark \notin Nat

\* No process is called Nobody.
ASSUME NobodyAssumption == MaxProcess \in Nat /\ Nobody \notin 1 .. MaxProcess

\* No call is called "free"; what is done for the task and what the user commits
\* elsewhere are different commits, and neither is the first.
ASSUME RepositoryAssumption ==
  /\ "free" \notin Caller
  /\ Work \cap UserCommit = {} /\ "root" \notin Work

\* No handler is called "free", None is no patch, and an attempt is no other author.
ASSUME HarnessAssumption ==
  /\ "free" \notin Handler /\ None \notin [region : Region, from : {"old", "new"}]
  /\ Attempt \cap {"user", "rollback"} = {}

\* Absent is no row of the scratchpad, no node and no deleted node.
ASSUME GateAssumption ==
  /\ Absent \notin [status : {"pending", "snoozed", "promoted", "rejected"},
                    label : Label, node : (1 .. MaxNode) \cup {Absent}]
  /\ Absent \notin [label : Label, enabled : BOOLEAN, by : {"gate", "user"}]
  /\ Absent # Deleted

VARIABLES
  part,
  role, version, log, writer, conn, chan, wire, got, dropped, client, budget,
  refs, main, wt, row, lock, call, sweep, past,
  versions, disk, charter, writeMu, attempt, handler, faults,
  proc, ui, file, mutex, lost, failures,
  entries, nodes, rpc, overlapped, spent

stream == <<role, version, log, writer, conn, chan, wire, got, dropped, client, budget>>
repository == <<refs, main, wt, row, lock, call, sweep, past>>
harness == <<versions, disk, charter, writeMu, attempt, handler, faults>>
lifecycle == <<proc, ui, file, mutex, lost, failures>>
trustGate == <<entries, nodes, rpc, overlapped, spent>>
vars == <<part, stream, repository, harness, lifecycle, trustGate>>

Stream  == INSTANCE EventStream
Repo    == INSTANCE Repository
Skill   == INSTANCE Harness
Sidecar == INSTANCE Lifecycle
Gate    == INSTANCE TrustGate

StreamOff ==
  /\ role = Off /\ version = Off /\ log = Off /\ writer = Off
  /\ conn = Off /\ chan = Off /\ wire = Off /\ got = Off
  /\ dropped = Off /\ client = Off /\ budget = Off
RepositoryOff ==
  /\ refs = Off /\ main = Off /\ wt = Off /\ row = Off
  /\ lock = Off /\ call = Off /\ sweep = Off /\ past = Off
HarnessOff ==
  /\ versions = Off /\ disk = Off /\ charter = Off /\ writeMu = Off
  /\ attempt = Off /\ handler = Off /\ faults = Off
LifecycleOff ==
  /\ proc = Off /\ ui = Off /\ file = Off /\ mutex = Off
  /\ lost = Off /\ failures = Off
TrustGateOff ==
  /\ entries = Off /\ nodes = Off /\ rpc = Off /\ overlapped = Off
  /\ spent = Off

Init ==
  \/ part = "stream" /\ Stream!Init
     /\ RepositoryOff /\ HarnessOff /\ LifecycleOff /\ TrustGateOff
  \/ part = "repository" /\ Repo!Init
     /\ StreamOff /\ HarnessOff /\ LifecycleOff /\ TrustGateOff
  \/ part = "harness" /\ Skill!Init
     /\ StreamOff /\ RepositoryOff /\ LifecycleOff /\ TrustGateOff
  \/ part = "lifecycle" /\ Sidecar!Init
     /\ StreamOff /\ RepositoryOff /\ HarnessOff /\ TrustGateOff
  \/ part = "trustGate" /\ Gate!Init
     /\ StreamOff /\ RepositoryOff /\ HarnessOff /\ LifecycleOff

Next ==
  /\ UNCHANGED part
  /\ \/ part = "stream" /\ Stream!Next
        /\ UNCHANGED <<repository, harness, lifecycle, trustGate>>
     \/ part = "repository" /\ Repo!Next
        /\ UNCHANGED <<stream, harness, lifecycle, trustGate>>
     \/ part = "harness" /\ Skill!Next
        /\ UNCHANGED <<stream, repository, lifecycle, trustGate>>
     \/ part = "lifecycle" /\ Sidecar!Next
        /\ UNCHANGED <<stream, repository, harness, trustGate>>
     \/ part = "trustGate" /\ Gate!Next
        /\ UNCHANGED <<stream, repository, harness, lifecycle>>

Spec == Init /\ [][Next]_vars

-----------------------------------------------------------------------------
\* Each component's own type invariant.
TypeOK ==
  /\ part = "stream" => Stream!TypeOK
  /\ part = "repository" => Repo!TypeOK
  /\ part = "harness" => Skill!TypeOK
  /\ part = "lifecycle" => Sidecar!TypeOK
  /\ part = "trustGate" => Gate!TypeOK

\* A quiet connection has been told of everything it could expect (EventStream).
ConnectionComplete == part = "stream" => Stream!ConnectionComplete

\* Replay and live events tell a client nothing twice (EventStream).
DeliveredOnce == part = "stream" => Stream!DeliveredOnce

\* The board shows the newest change its client has heard of (EventStream).
BoardNotBehind == part = "stream" => Stream!BoardNotBehind

\* Finalize and the sweep never lose what was done for the task (Repository).
WorkKept == part = "repository" => Repo!WorkKept

\* A task recorded as merged is on the base branch (Repository).
MergedIsMerged == part = "repository" => Repo!MergedIsMerged

\* The repository's files show the branch that is checked out (Repository).
FilesFollowHead == part = "repository" => Repo!FilesFollowHead

\* A merge keeps the user's commits and edits (Repository).
UserWorkKept == [][part = "repository" => Repo!KeepsUserWork]_vars

\* SKILL.md holds a version one can roll back to (Harness).
FileIsVersioned == part = "harness" => Skill!FileIsVersioned

\* An approved patch keeps what was saved since it was made (Harness).
PatchKeepsSaves == [][part = "harness" => Skill!KeepsSaves]_vars

\* A sidecar's record outlives its predecessor's teardown (Lifecycle).
EndpointFound == part = "lifecycle" => Sidecar!EndpointFound

\* A UI never starts a sidecar against the one it found serving (Lifecycle).
NeverFightsTheFound == [][part = "lifecycle" => Sidecar!FightsNobodyFound]_vars

\* Promotion makes one node of a concept (TrustGate).
OnePerConcept == part = "trustGate" => Gate!OnePerConcept
=============================================================================
