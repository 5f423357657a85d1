----------------------------- MODULE TrustGate ------------------------------
(***************************************************************************)
(* The trust gate of the context memory: candidates wait in the scratchpad *)
(* until a user, or a setting, promotes them to nodes of the graph.  One   *)
(* repository and one kind of node.  Every step is a statement of its own; *)
(* nothing joins the node and the entry in a transaction.                  *)
(***************************************************************************)
EXTENDS Naturals, FiniteSets

CONSTANTS
  Call,         \* RPCs in flight
  Entry,        \* scratchpad rows
  MaxNode,      \* bound on the nodes that are ever minted
  Label,
  MaxFaults,    \* bound on crashes
  MaxEdits,     \* bound on what users change besides
  Absent, Deleted

VARIABLES
  entries,      \* e -> its row, or Absent
  nodes,        \* n -> its row, Absent, or Deleted
  rpc,         \* c -> an RPC in flight
  overlapped,   \* labels for which two promotions found nothing at the same time
  spent        \* crashes and edits so far

vars == <<entries, nodes, rpc, overlapped, spent>>

Node == 1 .. MaxNode

Idle == [pc |-> "idle", entry |-> Absent, label |-> Absent, node |-> Absent]

Init ==
  /\ entries = [e \in Entry |-> Absent]
  /\ nodes = [n \in Node |-> Absent]
  /\ rpc = [c \in Call |-> Idle]
  /\ overlapped = {}
  /\ spent = [faults |-> 0, edits |-> 0]

IsRow(x) == x \notin {Absent, Deleted}
Rows == {e \in Entry : entries[e] # Absent}
Live == {n \in Node : IsRow(nodes[n]) /\ nodes[n].enabled}
Undecided(e) == entries[e].status \in {"pending", "snoozed"}

Goto(c, pc) == rpc' = [rpc EXCEPT ![c].pc = pc]
Return(c) == rpc' = [rpc EXCEPT ![c] = Idle]
UserEdit == spent.edits < MaxEdits /\ spent' = [spent EXCEPT !.edits = @ + 1]

-----------------------------------------------------------------------------
\* CreateScratchpadEntry, by the analyzer or the observer.  With a confidence the
\* repository's settings let through, the same call promotes the entry.
CreateEntry(c, e, l) ==
  /\ rpc[c].pc = "idle" /\ entries[e] = Absent
  /\ entries' = [entries EXCEPT ![e] = [status |-> "pending", label |-> l, node |-> Absent]]
  /\ \/ rpc' = [rpc EXCEPT ![c] = [Idle EXCEPT !.pc = "get", !.entry = e]]
     \/ UNCHANGED rpc
  /\ UNCHANGED <<nodes, overlapped, spent>>

\* PromoteEntry, or EditAndPromote: ApplyEdits changes the row in any status.
Promote(c, e) ==
  /\ rpc[c].pc = "idle" /\ e \in Rows
  /\ rpc' = [rpc EXCEPT ![c] = [Idle EXCEPT !.pc = "get", !.entry = e]]
  /\ \/ UNCHANGED <<entries, spent>>
     \/ /\ UserEdit
        /\ \E l \in Label : entries' = [entries EXCEPT ![e].label = l]
  /\ UNCHANGED <<nodes, overlapped>>

\* scratchpad.Get; a promoted entry is done already.
Get(c) ==
  /\ rpc[c].pc = "get"
  /\ LET row == entries[rpc[c].entry]
     IN  IF row.status = "promoted" THEN Return(c)
         ELSE rpc' = [rpc EXCEPT ![c].pc = "find", ![c].label = row.label]
  /\ UNCHANGED <<entries, nodes, overlapped, spent>>

\* Mutant: no search for an existing node.
FindNothing(c) ==
  /\ rpc[c].pc = "find"
  /\ Goto(c, "create")
  /\ overlapped' = IF \E d \in Call : rpc[d].pc = "create" /\ rpc[d].label = rpc[c].label
                     THEN overlapped \cup {rpc[c].label} ELSE overlapped
  /\ UNCHANGED <<entries, nodes, spent>>

\* FindByLabel, among the enabled nodes.
FindByLabel(c) ==
  /\ rpc[c].pc = "find"
  /\ LET same == {n \in Live : nodes[n].label = rpc[c].label}
     IN  IF same # {}
           THEN /\ \E n \in same : rpc' = [rpc EXCEPT ![c].pc = "mark", ![c].node = n]
                /\ UNCHANGED overlapped
           ELSE /\ Goto(c, "create")
                /\ overlapped' = IF \E d \in Call : rpc[d].pc = "create" /\ rpc[d].label = rpc[c].label
                                   THEN overlapped \cup {rpc[c].label} ELSE overlapped
  /\ UNCHANGED <<entries, nodes, spent>>

Mint(n, l, by) ==
  /\ nodes[n] = Absent /\ \A m \in 1 .. n - 1 : nodes[m] # Absent
  /\ nodes' = [nodes EXCEPT ![n] = [label |-> l, enabled |-> TRUE, by |-> by]]

CreateNode(c, n) ==
  /\ rpc[c].pc = "create"
  /\ Mint(n, rpc[c].label, "gate")
  /\ rpc' = [rpc EXCEPT ![c].pc = "mark", ![c].node = n]
  /\ UNCHANGED <<entries, overlapped, spent>>

\* MarkPromoted refuses an entry that was promoted or rejected meanwhile; a node
\* just created stays.
MarkPromoted(c) ==
  /\ rpc[c].pc = "mark"
  /\ LET e == rpc[c].entry
     IN  entries' = IF Undecided(e)
                      THEN [entries EXCEPT ![e].status = "promoted", ![e].node = rpc[c].node]
                      ELSE entries
  /\ Return(c)
  /\ UNCHANGED <<nodes, overlapped, spent>>

\* MarkRejected and Snooze look at no status: both also take a promoted entry back.
Reject(e) ==
  /\ e \in Rows /\ UserEdit
  /\ entries' = [entries EXCEPT ![e].status = "rejected"]
  /\ UNCHANGED <<nodes, rpc, overlapped>>

Snooze(e) ==
  /\ e \in Rows /\ UserEdit
  /\ entries' = [entries EXCEPT ![e].status = "snoozed"]
  /\ UNCHANGED <<nodes, rpc, overlapped>>

-----------------------------------------------------------------------------
\* What users do to nodes: CreateNode, UpdateNode and DeleteNode of the service.
\* A node a user has named or switched is the user's affair.  UpdateNode reads
\* the row and writes all of it back, so any label and switch may result.
UserCreate(n, l) ==
  /\ Mint(n, l, "user") /\ UserEdit
  /\ UNCHANGED <<entries, rpc, overlapped>>

UserUpdate(n, l, enabled) ==
  /\ IsRow(nodes[n]) /\ UserEdit
  /\ nodes' = [nodes EXCEPT ![n] = [label |-> l, enabled |-> enabled, by |-> "user"]]
  /\ UNCHANGED <<entries, rpc, overlapped>>

UserDelete(n) ==
  /\ IsRow(nodes[n]) /\ UserEdit
  /\ nodes' = [nodes EXCEPT ![n] = Deleted]
  /\ UNCHANGED <<entries, rpc, overlapped>>

Crash ==
  /\ spent.faults < MaxFaults
  /\ spent' = [spent EXCEPT !.faults = @ + 1]
  /\ rpc' = [c \in Call |-> Idle]
  /\ UNCHANGED <<entries, nodes, overlapped>>

-----------------------------------------------------------------------------
PromoteStep(c) ==
  Get(c) \/ FindByLabel(c) \/ MarkPromoted(c) \/ \E n \in Node : CreateNode(c, n)

Next ==
  \/ \E c \in Call, e \in Entry :
       Promote(c, e) \/ \E l \in Label : CreateEntry(c, e, l)
  \/ \E c \in Call : PromoteStep(c)
  \/ \E e \in Entry : Reject(e) \/ Snooze(e)
  \/ \E n \in Node :
       \/ UserDelete(n)
       \/ \E l \in Label : UserCreate(n, l) \/ \E b \in BOOLEAN : UserUpdate(n, l, b)
  \/ Crash

Spec == Init /\ [][Next]_vars

-----------------------------------------------------------------------------
TypeOK ==
  /\ \A e \in Rows : /\ entries[e].status \in {"pending", "snoozed", "promoted", "rejected"}
                     /\ entries[e].label \in Label
                     /\ entries[e].node \in Node \cup {Absent}
  /\ \A n \in Node : IsRow(nodes[n]) =>
       nodes[n].label \in Label /\ nodes[n].enabled \in BOOLEAN /\ nodes[n].by \in {"gate", "user"}
  /\ \A c \in Call : rpc[c].pc \in {"idle", "get", "find", "create", "mark"}

\* Promotion makes one node of a concept, however often it is analysed, promoted,
\* edited, cut off by a crash and tried again (promotion.go:36-41), unless two
\* promotions look for the concept before either has created it.
OnePerConcept ==
  \A m, n \in Live :
    m # n /\ nodes[m].by = "gate" /\ nodes[n].by = "gate" /\ nodes[m].label = nodes[n].label
      => nodes[m].label \in overlapped

\* An entry that says it was promoted has a node, or had one that a user deleted:
\* the node is there before the entry says so, also across a crash.
PromotedHasNode ==
  \A e \in Rows : entries[e].status = "promoted" => nodes[entries[e].node] # Absent
=============================================================================
