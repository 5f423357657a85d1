------------------------------ MODULE EventLog ------------------------------
(***************************************************************************)
(* The event log of one task: the sessions that stream events into it, one *)
(* consumer per session with a cached sequence number, the emitters that   *)
(* write beside them, and the archiver that empties it.                    *)
(***************************************************************************)
EXTENDS Naturals, Sequences, FiniteSets, Functions

CONSTANTS
  Session,      \* the sessions of the task's run; parallel subtasks overlap
  OutOfBand,    \* out-of-band events written by AppendAutoSeq, then published
  Gc,           \* audit events written with a number read by NextSeq before
  Cap,          \* EventChannelBuffer
  MaxSent,      \* bound on the events of one session
  MaxFaults,    \* bound on statements and file writes that fail by themselves
  MaxPurges     \* bound on the deletes of the archiver

ASSUME EventLogAssumption ==
  /\ Cap \in Nat \ {0} /\ MaxSent \in Nat \ {0} /\ MaxFaults \in Nat /\ MaxPurges \in Nat
  /\ IsFiniteSet(Session)
  /\ Session \cap (OutOfBand \cup Gc) = {} /\ OutOfBand \cap Gc = {}

VARIABLES
  table,        \* the rows: sequence number -> event
  history,      \* every event ever committed, in the order of the commits
  published,    \* the events handed to the sink
  sess,         \* s -> where driveSession and the code around it are
  chan,         \* s -> the buffered event channel
  cons,         \* s -> consumeEvents: place, cached number, batch
  emit,         \* emitter -> its place and the number it read
  arch,         \* the archiver: its place and what it listed
  archived,     \* the events in archive files
  window,       \* events committed while the archiver was between list and delete
  cancelled,    \* the task's context is done
  purged,       \* how often DeleteByTask removed the rows
  faults        \* statements that have failed by themselves

consumerVars == <<chan, cons>>
archiverVars == <<arch, archived, purged>>
vars == <<table, history, published, sess, chan, cons, emit, arch, archived,
          window, cancelled, purged, faults>>

Emitter == OutOfBand \cup Gc

\* The n-th event of a session; n = 0 is its usage record, written at the end.
Event(s, n) == [src |-> s, n |-> n]

Persisted == Range(history)

NextSeq == IF DOMAIN table = {} THEN 1
           ELSE 1 + CHOOSE n \in DOMAIN table : \A k \in DOMAIN table : k <= n

\* Mutant: INSERT OR IGNORE.
FreeEnough(first, batch) == Len(batch) > 0

\* AppendBatch: all of the batch or nothing.
Free(first, batch) == DOMAIN table \cap (first .. first + Len(batch) - 1) = {}

Insert(first, batch) ==
  /\ table' = [n \in DOMAIN table \cup (first .. first + Len(batch) - 1) |->
                 IF n \in DOMAIN table THEN table[n] ELSE batch[n - first + 1]]
  /\ history' = history \o batch
  /\ window' = IF arch.pc = "off" THEN window ELSE window \cup Range(batch)

NoInsert == UNCHANGED <<table, history, window>>

\* A statement, or a write to disk, fails under a live context.
Fault == /\ faults < MaxFaults
         /\ faults' = faults + 1

\* A statement under the task's context fails: always once the context is done.
CtxFails == \/ cancelled /\ UNCHANGED faults
            \/ Fault

Init ==
  /\ table = << >> /\ history = << >> /\ published = {}
  /\ sess = [s \in Session |-> [pc |-> "off", sent |-> 0, escaped |-> FALSE]]
  /\ chan = [s \in Session |-> << >>]
  /\ cons = [s \in Session |-> [pc |-> "off", next |-> 0, batch |-> << >>]]
  /\ emit = [e \in Emitter |-> [pc |-> "off", seq |-> 0]]
  /\ arch = [pc |-> "off", list |-> {}]
  /\ archived = {} /\ window = {}
  /\ cancelled = FALSE /\ purged = 0 /\ faults = 0

-----------------------------------------------------------------------------
\* The session.

At(s, pc) == sess' = [sess EXCEPT ![s].pc = pc]

\* The consumer goroutine starts, then Run or RunSubtask.
Start(s) ==
  /\ sess[s].pc = "off"
  /\ At(s, "run")
  /\ cons' = [cons EXCEPT ![s].pc = "start"]
  /\ NoInsert
  /\ UNCHANGED <<published, chan, emit, archiverVars, cancelled, faults>>

\* Mutant: the channel is not closed.
LeaveOpen(s) == At(s, "returned")

\* Every return of driveSession runs `defer close(out)`.
Close(s) == At(s, "closed")

\* No worktree, no guard, or CreateSession fails.
NoSession(s) ==
  /\ sess[s].pc = "run"
  /\ Close(s)
  /\ NoInsert
  /\ UNCHANGED <<published, consumerVars, emit, archiverVars, cancelled, faults>>

\* Mutant: room for one more than the buffer has.
PutOver(s, delta) ==
  /\ Len(chan[s]) <= Cap
  /\ chan' = [chan EXCEPT ![s] =
                Append(@, [n |-> sess[s].sent + 1, delta |-> delta])]

\* One send into the channel; `delta` says whether the consumer may batch it.
Put(s, delta) ==
  /\ Len(chan[s]) < Cap
  /\ chan' = [chan EXCEPT ![s] =
                Append(@, [n |-> sess[s].sent + 1, delta |-> delta])]

\* out <- SessionStart, without a way out.
SessionStart(s) ==
  /\ sess[s].pc = "run"
  /\ Put(s, FALSE)
  /\ sess' = [sess EXCEPT ![s].pc = "open", ![s].sent = @ + 1]
  /\ NoInsert
  /\ UNCHANGED <<published, cons, emit, archiverVars, cancelled, faults>>

\* The SDK's callback: sendAll waits for room or for the end of the context,
\* which drops the event; PermissionHandler reports a path escape the same way
\* but without looking at the context.
Send(s, delta, escape) ==
  /\ sess[s].pc = "open" /\ sess[s].sent < MaxSent
  /\ escape => ~delta /\ ~sess[s].escaped
  /\ Put(s, delta)
  /\ sess' = [sess EXCEPT ![s].sent = @ + 1, ![s].escaped = @ \/ escape]
  /\ NoInsert
  /\ UNCHANGED <<published, cons, emit, archiverVars, cancelled, faults>>

\* session.idle closes idleCh; an escaped session returns an error at once.
Idle(s) ==
  /\ sess[s].pc = "open"
  /\ IF sess[s].escaped THEN Close(s) ELSE At(s, "idle")
  /\ NoInsert
  /\ UNCHANGED <<published, consumerVars, emit, archiverVars, cancelled, faults>>

\* out <- SessionIdle, without a way out, and the return.
SessionIdle(s) ==
  /\ sess[s].pc = "idle"
  /\ Put(s, FALSE)
  /\ sess' = [sess EXCEPT ![s].pc = "closed", ![s].sent = @ + 1]
  /\ NoInsert
  /\ UNCHANGED <<published, cons, emit, archiverVars, cancelled, faults>>

\* The context ends, by Cancel or by the session's own timeout, or Send fails.
Abandon(s) ==
  /\ sess[s].pc = "open"
  /\ Close(s)
  /\ NoInsert
  /\ UNCHANGED <<published, consumerVars, emit, archiverVars, cancelled, faults>>

\* <-consumerDone, then emitUsageEvent under the task's context.
Usage(s) ==
  /\ sess[s].pc = "closed" /\ cons[s].pc \in {"done", "failed", "collided"}
  /\ \/ /\ ~cancelled
        /\ Insert(NextSeq, <<Event(s, 0)>>)
        /\ At(s, "usage")
        /\ UNCHANGED faults
     \/ /\ NoInsert /\ At(s, "over")
        /\ CtxFails
  /\ UNCHANGED <<published, consumerVars, emit, archiverVars, cancelled>>

UsagePublish(s) ==
  /\ sess[s].pc = "usage"
  /\ published' = published \cup {Event(s, 0)}
  /\ At(s, "over")
  /\ NoInsert
  /\ UNCHANGED <<consumerVars, emit, archiverVars, cancelled, faults>>

\* Cancel, or the end of the sidecar, ends the task's context.
Cancel ==
  /\ ~cancelled /\ cancelled' = TRUE
  /\ NoInsert
  /\ UNCHANGED <<published, sess, consumerVars, emit, archiverVars, faults>>

-----------------------------------------------------------------------------
\* The consumer.

\* Mutant: a consumer drops the batch it could not write, and goes on.
DropsBatch(s, pc) == cons' = [cons EXCEPT ![s].batch = << >>]

Ends(s, pc) == cons' = [cons EXCEPT ![s].pc = pc, ![s].batch = << >>]

\* seq, err := NextSeq(ctx), from the read handle.
ReadSeq(s) ==
  /\ cons[s].pc = "start"
  /\ \/ /\ ~cancelled
        /\ cons' = [cons EXCEPT ![s].pc = "loop", ![s].next = NextSeq]
        /\ UNCHANGED faults
     \/ /\ Ends(s, "failed")
        /\ CtxFails
  /\ NoInsert
  /\ UNCHANGED <<published, sess, chan, emit, archiverVars, cancelled>>

\* flush: the batch is committed under the numbers it was given, then handed to
\* the sink; an error ends the consumer.  `after` is the place to go on from.
Flush(s, first, batch, next, after) ==
  \/ /\ batch = << >>
     /\ cons' = [cons EXCEPT ![s].pc = after, ![s].next = next, ![s].batch = batch]
     /\ NoInsert /\ UNCHANGED <<published, faults>>
  \/ /\ batch # << >> /\ ~cancelled /\ Free(first, batch)
     /\ Insert(first, batch)
     /\ published' = published \cup Range(batch)
     /\ cons' = [cons EXCEPT ![s].pc = after, ![s].next = next, ![s].batch = << >>]
     /\ UNCHANGED faults
  \/ /\ batch # << >> /\ ~cancelled /\ ~Free(first, batch)
     /\ Ends(s, "collided")
     /\ NoInsert /\ UNCHANGED <<published, faults>>
  \/ /\ batch # << >>
     /\ Ends(s, "failed")
     /\ CtxFails
     /\ NoInsert /\ UNCHANGED published

\* The number the batch begins with: numbers are given at the receipt.
First(s) == cons[s].next - Len(cons[s].batch)

\* case ev := <-ch: a delta waits for the ticker, anything else flushes.
Receive(s) ==
  /\ cons[s].pc = "loop" /\ chan[s] # << >>
  /\ LET ev == Head(chan[s])
         batch == Append(cons[s].batch, Event(s, ev.n))
     IN  IF ev.delta
           THEN /\ cons' = [cons EXCEPT ![s].next = @ + 1, ![s].batch = batch]
                /\ NoInsert /\ UNCHANGED <<published, faults>>
           ELSE Flush(s, First(s), batch, cons[s].next + 1, "loop")
  /\ chan' = [chan EXCEPT ![s] = Tail(@)]
  /\ UNCHANGED <<sess, emit, archiverVars, cancelled>>

\* case <-ticker.C
Tick(s) ==
  /\ cons[s].pc = "loop" /\ cons[s].batch # << >>
  /\ Flush(s, First(s), cons[s].batch, cons[s].next, "loop")
  /\ UNCHANGED <<sess, chan, emit, archiverVars, cancelled>>

\* case ev, ok := <-ch; !ok: return flush()
Drained(s) ==
  /\ cons[s].pc = "loop" /\ chan[s] = << >> /\ sess[s].pc = "closed"
  /\ Flush(s, First(s), cons[s].batch, cons[s].next, "done")
  /\ UNCHANGED <<sess, chan, emit, archiverVars, cancelled>>

\* case <-ctx.Done(): the flush runs under the context that is done, and fails.
ConsumerCancelled(s) ==
  /\ cons[s].pc = "loop" /\ cancelled
  /\ Ends(s, "failed")
  /\ NoInsert
  /\ UNCHANGED <<published, sess, chan, emit, archiverVars, cancelled, faults>>

-----------------------------------------------------------------------------
\* The other writers.

EmitAt(e, pc) == emit' = [emit EXCEPT ![e].pc = pc]

\* emitStatus, appendAuxEvent, appendStatusEvent, appendReviewEvent.
AppendAutoSeq(e) ==
  /\ e \in OutOfBand /\ emit[e].pc = "off"
  /\ \/ Insert(NextSeq, <<Event(e, 0)>>) /\ EmitAt(e, "publish") /\ UNCHANGED faults
     \/ NoInsert /\ EmitAt(e, "over") /\ Fault
  /\ UNCHANGED <<published, sess, consumerVars, archiverVars, cancelled>>

\* emitBranchGC and DeleteTaskBranch: NextSeq, then Append in its own statement.
GcRead(e) ==
  /\ e \in Gc /\ emit[e].pc = "off"
  /\ emit' = [emit EXCEPT ![e].pc = "append", ![e].seq = NextSeq]
  /\ NoInsert
  /\ UNCHANGED <<published, sess, consumerVars, archiverVars, cancelled, faults>>

\* A taken number loses the audit event; the one of DeleteTaskBranch is not
\* published.  An append that fails is as good as an emitter that never goes on.
GcAppend(e) ==
  /\ e \in Gc /\ emit[e].pc = "append"
  /\ IF Free(emit[e].seq, <<e>>)
       THEN /\ Insert(emit[e].seq, <<Event(e, 0)>>)
            /\ EmitAt(e, "publish") \/ EmitAt(e, "over")
       ELSE NoInsert /\ EmitAt(e, "over")
  /\ UNCHANGED <<published, sess, consumerVars, archiverVars, cancelled, faults>>

EmitPublish(e) ==
  /\ emit[e].pc = "publish"
  /\ published' = published \cup {Event(e, 0)}
  /\ EmitAt(e, "over")
  /\ NoInsert
  /\ UNCHANGED <<sess, consumerVars, archiverVars, cancelled, faults>>

-----------------------------------------------------------------------------
\* The archiver.  It chose the task by its status and finished_at, from a listing
\* that a new run of the task may have made stale.

ArchiveAt(pc, list) == arch' = [pc |-> pc, list |-> list]

ArchiveList ==
  /\ arch.pc = "off" /\ table # << >> /\ purged < MaxPurges
  /\ ArchiveAt("listed", Range(table))
  /\ NoInsert
  /\ UNCHANGED <<published, sess, consumerVars, emit, archived, cancelled, purged, faults>>

\* Mutant: a failed write does not keep the pass from deleting.
ArchiveAnyway ==
  /\ arch.pc = "listed"
  /\ ArchiveAt("written", {})
  /\ \/ archived' = archived \cup arch.list /\ UNCHANGED faults
     \/ UNCHANGED archived /\ Fault
  /\ NoInsert
  /\ UNCHANGED <<published, sess, consumerVars, emit, cancelled, purged>>

\* A temporary file, then a rename.  A failure leaves the rows for the next pass.
ArchiveWrite ==
  /\ arch.pc = "listed"
  /\ \/ archived' = archived \cup arch.list /\ ArchiveAt("written", {}) /\ UNCHANGED faults
     \/ UNCHANGED archived /\ ArchiveAt("off", {}) /\ Fault
  /\ NoInsert
  /\ UNCHANGED <<published, sess, consumerVars, emit, cancelled, purged>>

\* DeleteByTask removes whatever rows the task has by now.
ArchiveDelete ==
  /\ arch.pc = "written"
  /\ \/ /\ table' = << >> /\ purged' = purged + 1
        /\ UNCHANGED faults
     \/ UNCHANGED <<table, purged>> /\ Fault
  /\ ArchiveAt("off", {})
  /\ UNCHANGED <<history, window, published, sess, consumerVars, emit, archived, cancelled>>

-----------------------------------------------------------------------------
SessionStep(s) ==
  \/ NoSession(s) \/ SessionStart(s) \/ Idle(s) \/ SessionIdle(s) \/ Abandon(s)
  \/ Usage(s) \/ UsagePublish(s)

ConsumerStep(s) ==
  ReadSeq(s) \/ Receive(s) \/ Tick(s) \/ Drained(s) \/ ConsumerCancelled(s)

Next ==
  \/ \E s \in Session :
       \/ Start(s) \/ SessionStep(s) \/ ConsumerStep(s)
       \/ \E delta, escape \in BOOLEAN : Send(s, delta, escape)
  \/ \E e \in Emitter :
       AppendAutoSeq(e) \/ GcRead(e) \/ GcAppend(e) \/ EmitPublish(e)
  \/ Cancel
  \/ ArchiveList \/ ArchiveWrite \/ ArchiveDelete

Spec == Init /\ [][Next]_vars

\* The consumer is scheduled; a session ends by its idle signal or its timeout.
LiveSpec ==
  /\ Spec
  /\ \A s \in Session : WF_vars(SessionStep(s)) /\ WF_vars(ConsumerStep(s))

-----------------------------------------------------------------------------
TypeOK ==
  /\ \A n \in DOMAIN table : n \in Nat \ {0} /\ table[n] \in Persisted
  /\ sess \in [Session -> [pc : {"off", "run", "open", "idle", "closed", "usage", "over"},
                           sent : 0 .. MaxSent + 1, escaped : BOOLEAN]]
  /\ \A s \in Session :
       /\ Len(chan[s]) <= Cap
       /\ cons[s].pc \in {"off", "start", "loop", "done", "failed", "collided"}
       /\ cons[s].next \in Nat
  /\ emit \in [Emitter -> [pc : {"off", "append", "publish", "over"}, seq : Nat]]
  /\ arch.pc \in {"off", "listed", "written"} /\ arch.list \subseteq Persisted
  /\ faults \in 0 .. MaxFaults /\ purged \in 0 .. MaxPurges

\* Until something is purged the log has no gap and its numbers follow the order
\* of the commits, whoever allocated them: a batch under stale cached numbers is
\* refused as a whole, so a reader that asks for seq > n misses nothing.
LogIsHistory == purged = 0 => table = history

\* What is kept of a session is a beginning of what it sent, in that order and
\* without a gap: a consumer that failed to write never writes again, and the
\* usage record comes last and once.
SessionPrefix ==
  \A s \in Session : \A i \in DOMAIN history : history[i].src = s =>
    /\ \A j \in 1 .. i - 1 : history[j].src = s =>
         history[j].n > 0 /\ (history[i].n = 0 \/ history[j].n < history[i].n)
    /\ history[i].n > 1 => \E j \in 1 .. i - 1 : history[j] = Event(s, history[i].n - 1)

\* The sink, and so every window, hears of an event only once it is in the table.
PublishedPersisted == published \subseteq Persisted

\* Archiving moves events: one that is neither in the table nor in an archive was
\* committed while the archiver was between its listing and its delete.
NothingVanishes == Persisted \subseteq Range(table) \cup archived \cup window

\* A session that started returns and its task goes on, unless its consumer gave up.
SessionEnds ==
  \A s \in Session :
    (sess[s].pc # "off") ~> (sess[s].pc = "over" \/ cons[s].pc \in {"failed", "collided"})

\* orchestrator.go:1939-1942: allocating inside the transaction keeps the other
\* writers from colliding with the consumers' cached numbers.
ConsumersNeverCollide == \A s \in Session : cons[s].pc # "collided"
=============================================================================
