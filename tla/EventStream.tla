---------------------------- MODULE EventStream ----------------------------
(***************************************************************************)
(* From a change of a task's row to the board: writers that commit the row *)
(* and then an event, the broker that fans the event out, the WatchEvents  *)
(* stream with its replay, and the client that follows it.  One task, one  *)
(* client; subscribers do not influence each other.                        *)
(***************************************************************************)
EXTENDS Naturals, Sequences, FiniteSets, SequencesExt

CONSTANTS
  Writer,       \* goroutines and handlers that change the row or report
  BufSize,      \* the broker's buffer per subscriber
  MaxRow,       \* bound on the versions of the row
  MaxLog,       \* bound on the persisted events
  MaxFile,      \* bound on file.changed events, which are never persisted
  MaxLost,      \* bound on disconnects
  NoMark        \* the client names no seq for the task

VARIABLES
  role,         \* "board": the Tasks provider; "tail": a client that keeps its mark
  version,      \* the version of the task's row
  log,          \* the persisted events; an event's seq is its place
  writer,       \* w -> its place, its event
  conn,         \* the stream: its place, what it was asked for, its filter
  chan,         \* the subscriber's channel
  wire,         \* events sent to the client and not yet handled
  got,          \* the seqs handled on this connection, in order
  dropped,      \* the broker has dropped an event of this connection
  client,       \* the client's mark, flags, fetch and board
  budget        \* file events and disconnects so far

vars == <<role, version, log, writer, conn, chan, wire, got, dropped, client, budget>>
streamVars == <<conn, chan, wire, got, dropped>>

Marks == {NoMark} \cup (0 .. MaxLog)

\* A status event carries the version its writer made; a file event has no seq.
Status(seq, ver) == [kind |-> "status", seq |-> seq, ver |-> ver]
Delta(seq) == [kind |-> "delta", seq |-> seq, ver |-> 0]
FileChanged == [kind |-> "file", seq |-> 0, ver |-> 0]
Nothing == [kind |-> "nothing", seq |-> 0, ver |-> 0]

Init ==
  /\ role \in {"board", "tail"}
  /\ version = 0 /\ log = << >>
  /\ writer = [w \in Writer |-> [pc |-> "idle", ev |-> Nothing]]
  /\ conn = [pc |-> "off", base |-> 0, cutoff |-> NoMark]
  /\ chan = << >> /\ wire = << >> /\ got = << >> /\ dropped = FALSE
  /\ client = [mark |-> NoMark, resync |-> FALSE, invalid |-> FALSE,
               fetch |-> IF role = "board" THEN "sent" ELSE "none", fetched |-> 0, board |-> 0, shown |-> 0]
  /\ budget = [files |-> 0, lost |-> 0]

-----------------------------------------------------------------------------
\* Writers.

Write(w, pc, ev) == writer' = [writer EXCEPT ![w] = [pc |-> pc, ev |-> ev]]

\* The row changes first (Transition), then its status event is appended.
Move(w) ==
  /\ writer[w].pc = "idle" /\ version < MaxRow
  /\ version' = version + 1
  /\ Write(w, "moved", Status(0, version + 1))
  /\ UNCHANGED <<role, log, streamVars, client, budget>>

\* emitStatus: AppendAutoSeq; a failure is logged and the event never published.
Emit(w) ==
  /\ writer[w].pc = "moved"
  /\ \/ /\ Len(log) < MaxLog
        /\ LET ev == Status(Len(log) + 1, writer[w].ev.ver)
           IN  log' = Append(log, ev) /\ Write(w, "publish", ev)
     \/ UNCHANGED log /\ Write(w, "idle", Nothing)
  /\ UNCHANGED <<role, version, streamVars, client, budget>>

\* Any other persisted event: a batch of the consumer, a subtask's start or end.
Report(w) ==
  /\ writer[w].pc = "idle" /\ Len(log) < MaxLog
  /\ LET ev == Delta(Len(log) + 1)
     IN  log' = Append(log, ev) /\ Write(w, "publish", ev)
  /\ UNCHANGED <<role, version, streamVars, client, budget>>

\* The worktree watcher publishes without persisting.
FileEvent(w) ==
  /\ writer[w].pc = "idle" /\ budget.files < MaxFile
  /\ budget' = [budget EXCEPT !.files = @ + 1]
  /\ Write(w, "publish", FileChanged)
  /\ UNCHANGED <<role, version, log, streamVars, client>>

-----------------------------------------------------------------------------
\* The broker.  Publish holds mu for reading from its first select to its last.

Registered == conn.pc \in {"sub", "live", "gone"}
Publishing(w) == writer[w].pc \in {"drain", "retry"}
\* Mutant: one more than the channel's capacity.
FullLate == Len(chan) > BufSize

Full == Len(chan) >= BufSize

\* select { case ch <- e: default: }
Publish(w) ==
  /\ writer[w].pc = "publish"
  /\ IF Registered /\ Full
       THEN Write(w, "drain", writer[w].ev) /\ UNCHANGED chan
       ELSE /\ Write(w, "idle", Nothing)
            /\ chan' = IF Registered THEN Append(chan, writer[w].ev) ELSE chan
  /\ UNCHANGED <<role, version, log, conn, wire, got, dropped, client, budget>>

\* select { case <-ch: default: }, against the stream and other publishers.
DropOldest(w) ==
  /\ writer[w].pc = "drain"
  /\ IF chan = << >> THEN UNCHANGED <<chan, dropped>>
                     ELSE chan' = Tail(chan) /\ dropped' = TRUE
  /\ Write(w, "retry", writer[w].ev)
  /\ UNCHANGED <<role, version, log, conn, wire, got, client, budget>>

\* select { case ch <- e: default: }: somebody else may have taken the room.
Retry(w) ==
  /\ writer[w].pc = "retry"
  /\ IF Full THEN dropped' = TRUE /\ UNCHANGED chan
             ELSE chan' = Append(chan, writer[w].ev) /\ UNCHANGED dropped
  /\ Write(w, "idle", Nothing)
  /\ UNCHANGED <<role, version, log, conn, wire, got, client, budget>>

Locked == \E w \in Writer : Publishing(w)

-----------------------------------------------------------------------------
\* WatchEvents.

\* The request arrives and Subscribe takes mu: from here on events are buffered.
\* `base` is what the client can expect to be told after: its mark, or now.
Subscribe ==
  /\ conn.pc = "open" /\ ~Locked
  /\ conn' = [pc |-> "sub", cutoff |-> client.mark,
              base |-> IF client.mark = NoMark THEN Len(log) ELSE client.mark]
  /\ chan' = << >>
  /\ UNCHANGED <<role, version, log, writer, wire, got, dropped, client, budget>>

\* Mutant: the backfill begins one event too late.
ReplayLate ==
  /\ conn.pc = "sub"
  /\ IF conn.cutoff = NoMark
       THEN conn' = [conn EXCEPT !.pc = "live"] /\ UNCHANGED wire
       ELSE /\ conn' = [conn EXCEPT !.pc = "live", !.cutoff = Len(log)]
            /\ wire' = wire \o SubSeq(log, conn.cutoff + 2, Len(log))
  /\ UNCHANGED <<role, version, log, writer, chan, got, dropped, client, budget>>

\* Mutant: the backfill leaves the cutoff where it was.
ReplayTwice ==
  /\ conn.pc = "sub"
  /\ conn' = [conn EXCEPT !.pc = "live"]
  /\ wire' = IF conn.cutoff = NoMark THEN wire
             ELSE wire \o SubSeq(log, conn.cutoff + 1, Len(log))
  /\ UNCHANGED <<role, version, log, writer, chan, got, dropped, client, budget>>

\* The backfill from TaskEvents raises the cutoff of a task the client named.
Replay ==
  /\ conn.pc = "sub"
  /\ IF conn.cutoff = NoMark
       THEN conn' = [conn EXCEPT !.pc = "live"] /\ UNCHANGED wire
       ELSE /\ conn' = [conn EXCEPT !.pc = "live", !.cutoff = Len(log)]
            /\ wire' = wire \o SubSeq(log, conn.cutoff + 1, Len(log))
  /\ UNCHANGED <<role, version, log, writer, chan, got, dropped, client, budget>>

Wanted(ev) == conn.cutoff = NoMark \/ ev.seq > conn.cutoff

Forward ==
  /\ conn.pc = "live" /\ chan # << >>
  /\ chan' = Tail(chan)
  /\ wire' = IF Wanted(Head(chan)) THEN Append(wire, Head(chan)) ELSE wire
  /\ UNCHANGED <<role, version, log, writer, conn, got, dropped, client, budget>>

\* defer broker.Unsubscribe, once the stream's context is done.
Unsubscribe ==
  /\ conn.pc = "gone" /\ ~Locked
  /\ conn' = [conn EXCEPT !.pc = "off"]
  /\ chan' = << >>
  /\ UNCHANGED <<role, version, log, writer, wire, got, dropped, client, budget>>

-----------------------------------------------------------------------------
\* The client.

\* What is on its way to a client that has closed the stream is lost.
HangUp ==
  /\ conn' = [conn EXCEPT !.pc = IF Registered THEN "gone" ELSE "off"]
  /\ wire' = << >>

\* The stream breaks: sidecar restart, network, deadline.
Disconnect ==
  /\ conn.pc \in {"open", "sub", "live"} /\ budget.lost < MaxLost
  /\ budget' = [budget EXCEPT !.lost = @ + 1]
  /\ HangUp
  /\ UNCHANGED <<role, version, log, writer, chan, got, dropped, client>>

\* _connect, from build() or from the backoff timer.
Connect ==
  /\ conn.pc = "off"
  /\ conn' = [conn EXCEPT !.pc = "open"]
  /\ got' = << >> /\ dropped' = FALSE
  /\ client' = [client EXCEPT !.resync = TRUE]
  /\ UNCHANGED <<role, version, log, writer, chan, wire, budget>>

Later(mark, seq) == IF mark = NoMark \/ seq > mark THEN seq ELSE mark

\* Mutant: a status that arrives during a fetch is taken to be in its answer.
OnEventCoalesced ==
  /\ wire # << >>
  /\ LET ev == Head(wire)
     IN  /\ client' = [client EXCEPT
                !.mark = Later(@, ev.seq),
                !.resync = FALSE,
                !.invalid = @ \/ (ev.kind = "status" /\ client.fetch = "none"),
                !.shown = IF ev.ver > @ THEN ev.ver ELSE @]
         /\ got' = IF ev.seq = 0 THEN got ELSE Append(got, ev.seq)
  /\ wire' = Tail(wire)
  /\ UNCHANGED <<role, version, log, writer, conn, chan, dropped, budget>>

\* _onEvent: the mark, and for the first event after a connect or a kind that
\* changes the row, ref.invalidateSelf().
OnEvent ==
  /\ wire # << >>
  /\ LET ev == Head(wire)
     IN  /\ client' = [client EXCEPT
                !.mark = Later(@, ev.seq),
                !.resync = FALSE,
                !.invalid = @ \/ client.resync \/ ev.kind = "status",
                !.shown = IF ev.ver > @ THEN ev.ver ELSE @]
         /\ got' = IF ev.seq = 0 THEN got ELSE Append(got, ev.seq)
  /\ wire' = Tail(wire)
  /\ UNCHANGED <<role, version, log, writer, conn, chan, dropped, budget>>

\* The provider rebuilds: the old notifier is disposed and its subscription
\* cancelled, a new one starts without a mark and fetches the list.
Rebuild ==
  /\ role = "board" /\ client.invalid
  /\ client' = [client EXCEPT !.invalid = FALSE, !.mark = NoMark, !.fetch = "sent"]
  /\ HangUp
  /\ UNCHANGED <<role, version, log, writer, chan, got, dropped, budget>>

\* ListTasks reads the row; the answer arrives later.
FetchRead ==
  /\ client.fetch = "sent"
  /\ client' = [client EXCEPT !.fetch = "read", !.fetched = version]
  /\ UNCHANGED <<role, version, log, writer, streamVars, budget>>

FetchReturn ==
  /\ client.fetch = "read"
  /\ client' = [client EXCEPT !.fetch = "none", !.board = client.fetched]
  /\ UNCHANGED <<role, version, log, writer, streamVars, budget>>

-----------------------------------------------------------------------------
WriterStep(w) ==
  \/ Move(w) \/ Emit(w) \/ Report(w) \/ FileEvent(w)
  \/ Publish(w) \/ DropOldest(w) \/ Retry(w)

ServerStep == Subscribe \/ Replay \/ Forward \/ Unsubscribe

ClientStep == Connect \/ OnEvent

Next == \/ \E w \in Writer : WriterStep(w)
        \/ ServerStep \/ ClientStep
        \/ Rebuild \/ FetchRead \/ FetchReturn
        \/ Disconnect

Spec == Init /\ [][Next]_vars

-----------------------------------------------------------------------------
TypeOK ==
  /\ version \in 0 .. MaxRow /\ Len(log) <= MaxLog
  /\ \A i \in DOMAIN log : log[i].seq = i /\ log[i].kind \in {"status", "delta"}
  /\ \A w \in Writer :
       writer[w].pc \in {"idle", "moved", "publish", "drain", "retry"}
  /\ conn.pc \in {"off", "open", "sub", "live", "gone"}
  /\ conn.cutoff \in Marks /\ conn.base \in 0 .. MaxLog
  /\ Len(chan) <= BufSize
  /\ client.mark \in Marks /\ client.fetch \in {"sent", "read", "none"}
  /\ {client.board, client.fetched, client.shown} \subseteq 0 .. version

\* Everything committed after a client's mark, or after it was registered if it
\* named none, has reached a connection once that is quiet, whatever overtook
\* what between commit, publication, replay and filter, unless the broker
\* dropped something.
Quiet == /\ conn.pc = "live" /\ chan = << >> /\ wire = << >>
         /\ \A w \in Writer : writer[w].pc \in {"idle", "moved"}

ConnectionComplete ==
  Quiet /\ ~dropped => conn.base + 1 .. Len(log) \subseteq ToSet(got)

\* Replay and live events together tell a client nothing twice.
DeliveredOnce == IsInjective(got)

\* A board that is at rest shows the newest change its client has heard of: an event
\* during a fetch, whose answer may be older, has it fetch again.
BoardNotBehind ==
  role = "board" /\ ~client.invalid /\ client.fetch = "none"
    => client.board >= client.shown

\* broker.go:40-42: the drop makes room for the new event, so that a subscriber
\* always sees the latest.  Refuted: another publisher takes the room.
LatestKept == [][\A w \in Writer : Retry(w) => ~Full]_vars

\* kanban/providers.dart:160-162: every reconnect converges on the server's state.
\* Refuted: a change in the gap shows only once a further event arrives.
BoardConverges ==
  role = "board" /\ Quiet /\ ~client.invalid /\ client.fetch = "none"
    => client.board = version
=============================================================================
