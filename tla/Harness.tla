------------------------------ MODULE Harness -------------------------------
(***************************************************************************)
(* The charter (SKILL.md) that governs the runs, and how it evolves: edits *)
(* and rollbacks by the user, and patches that an LLM proposes for a failed *)
(* review and a user approves.  The charter is held three times: as the    *)
(* versions in the database, as the file, and parsed in the orchestrator.  *)
(*                                                                         *)
(* A charter is what it says in each of its regions; a patch changes one   *)
(* region and applies to the text it was made from there, and only there.  *)
(***************************************************************************)
EXTENDS Naturals, Sequences

CONSTANTS
  Handler,      \* RPC handlers in flight
  Attempt,      \* harness_attempt rows
  Region,       \* the parts of a charter a patch can touch
  MaxVersions,  \* bound on the version rows
  MaxFaults,    \* bound on writes that fail, hand edits and crashes
  None          \* no patch, no decision, no snapshot

VARIABLES
  versions,     \* harness_skill_version, oldest first: content and created_by
  disk,         \* SKILL.md: content and who wrote it
  charter,      \* what the orchestrator runs by
  writeMu,      \* HarnessServer.writeMu
  attempt,      \* the rows: decision, proposed patch, and the Evolver's snapshot
  handler,      \* h -> an RPC in flight
  faults

vars == <<versions, disk, charter, writeMu, attempt, handler, faults>>

Text == {"old", "new"}
Content == [Region -> Text]
Shipped == [r \in Region |-> "old"]     \* what BootstrapHarnessSkill seeds

Patch == [region : Region, from : Text]
Other(t) == IF t = "old" THEN "new" ELSE "old"
Applies(p, content) == content[p.region] = p.from
ApplyPatch(p, content) == [content EXCEPT ![p.region] = Other(@)]

Stored == {versions[i].content : i \in DOMAIN versions}

Idle == [pc |-> "idle", by |-> None, patch |-> None, content |-> Shipped]

Init ==
  /\ versions = << >>
  /\ disk = [content |-> Shipped, by |-> "seed"]
  /\ charter = Shipped
  /\ writeMu = "free"
  /\ attempt = [a \in Attempt |-> [decision |-> None, patch |-> None, snapshot |-> None]]
  /\ handler = [h \in Handler |-> Idle]
  /\ faults = 0

Fault == faults < MaxFaults /\ faults' = faults + 1
Goto(h, pc) == handler' = [handler EXCEPT ![h].pc = pc]
Return(h) == handler' = [handler EXCEPT ![h] = Idle]

-----------------------------------------------------------------------------
\* HarnessServer.  Each call holds writeMu from its beginning to its end.

Take(h) == writeMu = "free" /\ writeMu' = h

\* UpdateSkill with a content that parses; any other returns at once.
UpdateSkill(h, content) ==
  /\ handler[h].pc = "idle" /\ Take(h)
  /\ handler' = [handler EXCEPT ![h] = [pc |-> "insert", by |-> "user", patch |-> None, content |-> content]]
  /\ UNCHANGED <<versions, disk, charter, attempt, faults>>

\* RollbackSkill to a stored version.
RollbackSkill(h, i) ==
  /\ handler[h].pc = "idle" /\ Take(h)
  /\ handler' = [handler EXCEPT ![h] = [pc |-> "insert", by |-> "rollback", patch |-> None,
                                        content |-> versions[i].content]]
  /\ UNCHANGED <<versions, disk, charter, attempt, faults>>

\* Mutant: ApplyEvolverPatch without writeMu.
ApplyUnlocked(h) ==
  /\ handler[h].pc = "apply"
  /\ IF Applies(handler[h].patch, disk.content)
       THEN handler' = [handler EXCEPT ![h].pc = "insert",
                          ![h].content = ApplyPatch(handler[h].patch, disk.content)]
       ELSE Return(h)
  /\ UNCHANGED <<versions, disk, charter, writeMu, attempt, faults>>

\* ApplyEvolverPatch: read SKILL.md and apply the patch; a stale one changes nothing.
ReadAndApply(h) ==
  /\ handler[h].pc = "apply"
  /\ IF Applies(handler[h].patch, disk.content)
       THEN /\ Take(h)
            /\ handler' = [handler EXCEPT ![h].pc = "insert",
                             ![h].content = ApplyPatch(handler[h].patch, disk.content)]
       ELSE /\ writeMu = "free" /\ UNCHANGED writeMu
            /\ Return(h)
  /\ UNCHANGED <<versions, disk, charter, attempt, faults>>

\* Mutant: a row that could not be inserted is only a warning.
InsertOrWarn(h) ==
  /\ handler[h].pc = "insert"
  /\ Goto(h, "write")
  /\ \/ /\ Len(versions) < MaxVersions
        /\ versions' = Append(versions, [content |-> handler[h].content, by |-> handler[h].by])
        /\ UNCHANGED faults
     \/ UNCHANGED versions /\ Fault
  /\ UNCHANGED <<disk, charter, writeMu, attempt>>

\* updateSkill: the row first.  A content the user has saved before gets no new
\* row; rollbacks and patches always do.
InsertVersion(h) ==
  /\ handler[h].pc = "insert"
  /\ \/ /\ IF handler[h].by = "user" /\ handler[h].content \in Stored
             THEN UNCHANGED versions
             ELSE /\ Len(versions) < MaxVersions
                  /\ versions' = Append(versions, [content |-> handler[h].content, by |-> handler[h].by])
        /\ Goto(h, "write") /\ UNCHANGED <<writeMu, faults>>
     \/ /\ Return(h) /\ writeMu' = "free" /\ Fault
        /\ UNCHANGED versions
  /\ UNCHANGED <<disk, charter, attempt>>

\* The file next, by a temporary file and a rename.  A failure is only a warning.
WriteFile(h) ==
  /\ handler[h].pc = "write"
  /\ Goto(h, "publish")
  /\ \/ disk' = [content |-> handler[h].content, by |-> "server"] /\ UNCHANGED faults
     \/ UNCHANGED disk /\ Fault
  /\ UNCHANGED <<versions, charter, writeMu, attempt>>

\* The running charter last.
Publish(h) ==
  /\ handler[h].pc = "publish"
  /\ charter' = handler[h].content
  /\ writeMu' = "free"
  /\ IF handler[h].by \in Attempt THEN Goto(h, "decide") ELSE Return(h)
  /\ UNCHANGED <<versions, disk, attempt, faults>>

-----------------------------------------------------------------------------
\* HarnessAttemptServer.

\* Approve reads the row; without a patch there is only the decision to record.
Approve(h, a) ==
  /\ handler[h].pc = "idle" /\ attempt[a].decision = "pending"
  /\ handler' = [handler EXCEPT ![h] = [Idle EXCEPT !.by = a, !.patch = attempt[a].patch,
                   !.pc = IF attempt[a].patch = None THEN "decide" ELSE "apply"]]
  /\ UNCHANGED <<versions, disk, charter, writeMu, attempt, faults>>

\* UpdateDecision, which insists on a pending row.
UpdateDecision(a, decision) ==
  attempt' = IF attempt[a].decision = "pending"
               THEN [attempt EXCEPT ![a].decision = decision] ELSE attempt

Decide(h) ==
  /\ handler[h].pc = "decide"
  /\ UpdateDecision(handler[h].by, "approved")
  /\ Return(h)
  /\ UNCHANGED <<versions, disk, charter, writeMu, faults>>

Reject(a) ==
  /\ attempt[a].decision = "pending"
  /\ UpdateDecision(a, "rejected")
  /\ UNCHANGED <<versions, disk, charter, writeMu, handler, faults>>

-----------------------------------------------------------------------------
\* The orchestrator: a rework records an attempt, and kickEvolver asks for a patch
\* against the charter of that moment.

Observe(a) ==
  /\ attempt[a].decision = None
  /\ attempt' = [attempt EXCEPT ![a] = [decision |-> "pending", patch |-> None, snapshot |-> charter]]
  /\ UNCHANGED <<versions, disk, charter, writeMu, handler, faults>>

\* The answer: none, or a patch that applies to the snapshot.  A decided row
\* refuses it.
Propose(a) ==
  /\ attempt[a].snapshot # None
  /\ \E p \in Patch \cup {None} :
       /\ p # None => Applies(p, attempt[a].snapshot)
       /\ attempt' = [attempt EXCEPT ![a].snapshot = None,
                        ![a].patch = IF attempt[a].decision = "pending" THEN p ELSE @]
  /\ UNCHANGED <<versions, disk, charter, writeMu, handler, faults>>

-----------------------------------------------------------------------------
\* The user's editor, and the sidecar's death and new start, which parses the file.

HandEdit ==
  /\ Fault
  /\ \E c \in Content : disk' = [content |-> c, by |-> "hand"]
  /\ UNCHANGED <<versions, charter, writeMu, attempt, handler>>

Restart ==
  /\ Fault
  /\ charter' = disk.content
  /\ writeMu' = "free"
  /\ handler' = [h \in Handler |-> Idle]
  /\ attempt' = [a \in Attempt |-> [attempt[a] EXCEPT !.snapshot = None]]
  /\ UNCHANGED <<versions, disk>>

-----------------------------------------------------------------------------
SkillStep(h) ==
  \/ \E c \in Content : UpdateSkill(h, c)
  \/ \E i \in DOMAIN versions : RollbackSkill(h, i)
  \/ ReadAndApply(h) \/ InsertVersion(h) \/ WriteFile(h) \/ Publish(h)

Next ==
  \/ \E h \in Handler : \/ SkillStep(h) \/ Decide(h)
                        \/ \E a \in Attempt : Approve(h, a)
  \/ \E a \in Attempt : Reject(a) \/ Observe(a) \/ Propose(a)
  \/ HandEdit \/ Restart

Spec == Init /\ [][Next]_vars

-----------------------------------------------------------------------------
TypeOK ==
  /\ \A i \in DOMAIN versions : /\ versions[i].content \in Content
                                /\ versions[i].by \in {"user", "rollback"} \cup Attempt
  /\ disk.content \in Content /\ disk.by \in {"seed", "server", "hand"}
  /\ charter \in Content
  /\ \A a \in Attempt :
       /\ attempt[a].decision \in {None, "pending", "approved", "rejected"}
       /\ attempt[a].patch \in Patch \cup {None}
       /\ attempt[a].snapshot \in Content \cup {None}
  /\ \A h \in Handler :
       writeMu = h <=> handler[h].pc \in {"insert", "write", "publish"}

\* Whatever SKILL.md holds, unless it is the seed or a hand edit, can be rolled
\* back to, and so can the charter that runs by it: also after a crash between the
\* row, the file and the publication.
FileIsVersioned == disk.by = "server" => disk.content \in Stored

\* Approving a proposal changes the region it was made for and keeps whatever else
\* was saved since it was made: no other save slips in between reading the file
\* and writing it (harness_server.go:305-308).  A hand edit may.
KeepsSaves ==
  \A h \in Handler :
    handler[h].patch # None /\ WriteFile(h) /\ disk' # disk /\ disk.by # "hand"
      => \A r \in Region : r # handler[h].patch.region => disk'.content[r] = disk.content[r]

PatchKeepsSaves == [][KeepsSaves]_vars

\* An approved proposal was applied, whatever the user did meanwhile, unless the
\* patch arrived after Approve had looked for one: the decision comes last, and a
\* patch that does not apply leaves the row pending.
ApprovesTheApplied ==
  \A h \in Handler : Decide(h) /\ handler[h].patch # None
    => \E i \in DOMAIN versions : versions[i].by = handler[h].by

ApprovedIsApplied == [][ApprovesTheApplied]_vars

\* harness_attempt_server.go:76-82: never approved but not applied.  Refuted: the
\* Evolver's patch arrives between Approve's read and its decision.
NeverStranded ==
  \A a \in Attempt : attempt[a].decision = "approved" /\ attempt[a].patch # None
    => \E i \in DOMAIN versions : versions[i].by = a

\* harness_server.go:260-263: what runs cannot diverge from what the database shows
\* as active.  Refuted: saving an earlier content again adds no row.
RunsTheLatest ==
  (\A h \in Handler : handler[h].pc = "idle") /\ versions # << >>
    => charter = versions[Len(versions)].content
=============================================================================
