------------------------- MODULE EventStreamProofs -------------------------
(***************************************************************************)
(* What a client of the event stream is told: nothing twice, everything it *)
(* can expect once the connection is quiet, and a board that has heard of  *)
(* no change it does not show.                                             *)
(***************************************************************************)
EXTENDS RepositoryProofs, SequenceTheorems

-----------------------------------------------------------------------------
(* Sequences of events.                                                    *)

Seqno == 1 .. MaxLog
Event == [kind : {"status", "delta", "file", "nothing"}, seq : 0 .. MaxLog, ver : 0 .. MaxRow]

\* The seqs in a sequence of events; an event that is not persisted has none.
SeqsOf(q) == {q[i].seq : i \in 1 .. Len(q)} \ {0}

\* No seq is there twice.
Unrepeated(q) == \A i, j \in 1 .. Len(q) : q[i].seq # 0 /\ q[i].seq = q[j].seq => i = j

\* The events of a log of n and a row that has been through v changes: only a status
\* carries the version its writer made.
Known(n, v) == {e \in Event : e.seq <= n /\ e.ver <= v /\ (e.kind # "status" => e.ver = 0)}

\* An event at the end of a sequence.
LEMMA AppendEvent ==
  ASSUME NEW S \in SUBSET Event, NEW q \in Seq(S), NEW e \in S
  PROVE  /\ Append(q, e) \in Seq(S) /\ Len(Append(q, e)) = Len(q) + 1
         /\ SeqsOf(Append(q, e)) = SeqsOf(q) \cup ({e.seq} \ {0})
         /\ Unrepeated(q) /\ e.seq \notin SeqsOf(q) => Unrepeated(Append(q, e))
<1> DEFINE r == Append(q, e)
<1>1. /\ r \in Seq(S) /\ Len(r) = Len(q) + 1 /\ Len(q) \in Nat
      /\ \A i \in 1 .. Len(q) : r[i] = q[i]
      /\ r[Len(q) + 1] = e
  BY AppendProperties
<1> HIDE DEF r
<1>2. 1 .. Len(r) = (1 .. Len(q)) \cup {Len(q) + 1}
  BY <1>1
<1>3. SeqsOf(r) = SeqsOf(q) \cup ({e.seq} \ {0})
  BY <1>1, <1>2 DEF SeqsOf
<1>4. ASSUME Unrepeated(q), e.seq \notin SeqsOf(q) PROVE Unrepeated(r)
  <2> SUFFICES ASSUME NEW i \in 1 .. Len(r), NEW j \in 1 .. Len(r), r[i].seq # 0, r[i].seq = r[j].seq
               PROVE  i = j
    BY DEF Unrepeated
  <2>1. CASE i \in 1 .. Len(q) /\ j \in 1 .. Len(q)
    BY <1>1, <1>4, <2>1 DEF Unrepeated
  <2>2. CASE i \in 1 .. Len(q) /\ j = Len(q) + 1
    BY <1>1, <1>4, <2>2 DEF SeqsOf
  <2>3. CASE j \in 1 .. Len(q) /\ i = Len(q) + 1
    BY <1>1, <1>4, <2>3 DEF SeqsOf
  <2> QED BY <1>2, <2>1, <2>2, <2>3
<1> QED
  BY <1>1, <1>3, <1>4 DEF r

\* An event from the front of a sequence.
LEMMA TailEvent ==
  ASSUME NEW S \in SUBSET Event, NEW q \in Seq(S), q # << >>
  PROVE  /\ Tail(q) \in Seq(S) /\ Head(q) \in S /\ Len(Tail(q)) <= Len(q)
         /\ SeqsOf(q) = SeqsOf(Tail(q)) \cup ({Head(q).seq} \ {0})
         /\ Unrepeated(q) => Unrepeated(Tail(q)) /\ Head(q).seq \notin SeqsOf(Tail(q))
<1> DEFINE r == Tail(q)
<1>1. /\ r \in Seq(S) /\ Head(q) \in S /\ Head(q) = q[1]
      /\ Len(q) \in Nat /\ Len(q) >= 1 /\ Len(r) = Len(q) - 1
      /\ \A i \in 1 .. Len(r) : r[i] = q[i + 1]
  BY HeadTailProperties, EmptySeq, LenProperties, ElementOfSeq
<1> HIDE DEF r
<1>2. \A i \in 1 .. Len(r) : i + 1 \in 1 .. Len(q)
  BY <1>1
<1>3. \A i \in 1 .. Len(q) : i = 1 \/ (i - 1 \in 1 .. Len(r) /\ q[i] = r[i - 1])
  BY <1>1
<1>4. SeqsOf(q) = SeqsOf(r) \cup ({Head(q).seq} \ {0})
  <2>1. ASSUME NEW x \in SeqsOf(q) PROVE x \in SeqsOf(r) \cup ({Head(q).seq} \ {0})
    BY SMTT(30), <1>1, <1>3 DEF SeqsOf
  <2>2. ASSUME NEW x \in SeqsOf(r) \cup ({Head(q).seq} \ {0}) PROVE x \in SeqsOf(q)
    BY <1>1, <1>2 DEF SeqsOf
  <2> QED BY <2>1, <2>2
<1>5. ASSUME Unrepeated(q) PROVE Unrepeated(r) /\ Head(q).seq \notin SeqsOf(r)
  <2>1. Unrepeated(r)
    BY <1>1, <1>2, <1>5 DEF Unrepeated
  <2>2. ASSUME NEW i \in 1 .. Len(r), r[i].seq = Head(q).seq PROVE Head(q).seq = 0
    BY <1>1, <1>2, <1>5, <2>2 DEF Unrepeated
  <2> QED BY <2>1, <2>2 DEF SeqsOf
<1> QED
  BY <1>1, <1>4, <1>5 DEF r

\* A stretch of the log, behind nothing.
LEMMA ReplayEvents ==
  ASSUME NEW S \in SUBSET Event, log \in Seq(S), \A i \in 1 .. Len(log) : log[i].seq = i,
         NEW n \in Nat, NEW q, q = << >> \o SubSeq(log, n + 1, Len(log))
  PROVE  /\ q \in Seq(S)
         /\ SeqsOf(q) = (n + 1) .. Len(log)
         /\ Unrepeated(q)
<1> DEFINE r == SubSeq(log, n + 1, Len(log))
<1>1. Len(log) \in Nat
  BY LenProperties
<1>2. /\ r \in Seq(S)
      /\ Len(r) = IF n + 1 <= Len(log) THEN Len(log) - (n + 1) + 1 ELSE 0
      /\ \A i \in 1 .. Len(r) : r[i] = log[n + 1 + i - 1]
  BY <1>1, SubSeqProperties
<1>3. q = r
  BY <1>2, ConcatEmptySeq
<1> HIDE DEF r
<1>4. \A i \in 1 .. Len(r) : n + i \in 1 .. Len(log) /\ r[i] = log[n + i] /\ r[i].seq = n + i
  BY <1>1, <1>2
<1>5. ASSUME NEW k \in (n + 1) .. Len(log)
      PROVE  k - n \in 1 .. Len(r) /\ r[k - n].seq = k
  <2>1. k \in Int /\ n + 1 <= k /\ k <= Len(log) /\ n + (k - n) = k
    BY <1>1
  <2>2. Len(r) = Len(log) - (n + 1) + 1 /\ k - n \in 1 .. Len(r)
    BY <1>1, <1>2, <2>1
  <2> QED BY <1>4, <2>1, <2>2
<1>6. SeqsOf(r) = (n + 1) .. Len(log)
  <2>1. ASSUME NEW x \in SeqsOf(r) PROVE x \in (n + 1) .. Len(log)
    BY <1>1, <1>2, <1>4 DEF SeqsOf
  <2>2. ASSUME NEW x \in (n + 1) .. Len(log) PROVE x \in SeqsOf(r)
    BY <1>1, <1>5 DEF SeqsOf
  <2> QED BY <2>1, <2>2
<1>7. Unrepeated(r)
  BY <1>1, <1>2, <1>4 DEF Unrepeated
<1> QED
  BY <1>2, <1>3, <1>6, <1>7

\* What has been handled, in order.
LEMMA AppendSeqno ==
  ASSUME NEW q \in Seq(Seqno), NEW n \in Seqno
  PROVE  /\ Append(q, n) \in Seq(Seqno)
         /\ Stream!ToSet(Append(q, n)) = Stream!ToSet(q) \cup {n}
         /\ Stream!IsInjective(q) /\ n \notin Stream!ToSet(q) => Stream!IsInjective(Append(q, n))
<1> DEFINE r == Append(q, n)
<1>1. /\ r \in Seq(Seqno) /\ Len(r) = Len(q) + 1 /\ Len(q) \in Nat
      /\ DOMAIN q = 1 .. Len(q) /\ DOMAIN r = 1 .. Len(r)
      /\ \A i \in 1 .. Len(q) : r[i] = q[i]
      /\ r[Len(q) + 1] = n
  BY AppendProperties, LenProperties
<1> HIDE DEF r
<1>2. DOMAIN r = DOMAIN q \cup {Len(q) + 1}
  BY <1>1
<1>3. Stream!ToSet(r) = Stream!ToSet(q) \cup {n}
  BY <1>1, <1>2 DEF Stream!ToSet
<1>4. ASSUME Stream!IsInjective(q), n \notin Stream!ToSet(q) PROVE Stream!IsInjective(r)
  BY <1>1, <1>2, <1>4 DEF Stream!IsInjective, Stream!ToSet
<1> QED
  BY <1>1, <1>3, <1>4 DEF r

-----------------------------------------------------------------------------
(* The invariant.                                                          *)

Heard == Known(Len(log), version)
OneWriter == [pc : {"idle", "moved", "publish", "drain", "retry"}, ev : Event]
OneConn ==
  [pc : {"off", "open", "sub", "live", "gone"}, base : 0 .. MaxLog, cutoff : Stream!Marks]
OneClient ==
  [mark : Stream!Marks, resync : BOOLEAN, invalid : BOOLEAN, fetch : {"sent", "read", "none"},
   fetched : Nat, board : Nat, shown : Nat]

StreamTyped ==
  /\ version \in 0 .. MaxRow
  /\ log \in Seq(Heard) /\ Len(log) <= MaxLog
  /\ \A i \in 1 .. Len(log) : log[i].seq = i /\ log[i].kind \in {"status", "delta"}
  /\ writer \in [Writer -> OneWriter] /\ \A w \in Writer : writer[w].ev \in Heard
  /\ conn \in OneConn
  /\ chan \in Seq(Heard) /\ Len(chan) <= BufSize
  /\ wire \in Seq(Heard)
  /\ got \in Seq(Seqno) /\ Stream!ToSet(got) \subseteq 1 .. Len(log)
  /\ dropped \in BOOLEAN
  /\ client \in OneClient

\* An event that its writer has committed and not handed to the broker yet, or to
\* a channel that was full.
Pending(w) == writer[w].pc \in {"publish", "drain", "retry"}
Awaited == {writer[w].ev.seq : w \in {v \in Writer : Pending(v)}} \ {0}

Coming == SeqsOf(chan) \cup Awaited           \* on its way to the stream
Told   == Stream!ToSet(got) \cup SeqsOf(wire) \* sent to the client
Passes(n) == conn.cutoff = NoMark \/ n > conn.cutoff

\* What a connection has at each place; a publisher at work keeps it registered.
Connection ==
  /\ conn.pc # "live" => wire = << >>
  /\ conn.pc \in {"open", "sub"} => got = << >>
  /\ conn.pc \in {"off", "open"} => chan = << >>
  /\ \A w \in Writer : Stream!Publishing(w) => Stream!Registered
  /\ conn.pc = "live" /\ conn.cutoff # NoMark => conn.cutoff <= Len(log)

\* No seq is sent twice, is twice on its way, or is on its way to be sent again: what
\* the replay has sent already the filter holds back.
Once ==
  /\ Stream!IsInjective(got) /\ Unrepeated(wire) /\ Stream!ToSet(got) \cap SeqsOf(wire) = {}
  /\ Unrepeated(chan) /\ SeqsOf(chan) \cap Awaited = {}
  /\ \A w, v \in Writer : Pending(w) /\ Pending(v) /\ writer[w].ev.seq # 0
                          /\ writer[w].ev.seq = writer[v].ev.seq => w = v
  /\ conn.pc = "live" => \A n \in Told \cap Coming : ~ Passes(n)

\* What the client can expect has been sent, is on its way and will pass the filter, or
\* is left to the replay.
Complete ==
  ~ dropped =>
    /\ conn.pc = "live" \/ (conn.pc = "sub" /\ conn.cutoff = NoMark) =>
         \A n \in (conn.base + 1) .. Len(log) : n \in Told \/ (n \in Coming /\ Passes(n))
    /\ conn.pc = "sub" /\ conn.cutoff # NoMark => conn.base = conn.cutoff

\* A list read before a change the client has heard of is read again.
Behind ==
  /\ client.shown <= version /\ client.fetched <= version /\ client.board <= version
  /\ role = "board" /\ ~ client.invalid =>
       /\ client.fetch = "read" => client.shown <= client.fetched
       /\ client.fetch = "none" => client.shown <= client.board

StreamInv == StreamTyped /\ Connection /\ Once /\ Complete /\ Behind

-----------------------------------------------------------------------------
(* The writers and the broker.                                             *)

\* What has been heard of stays so while the log and the row move on.
LEMMA HeardGrows ==
  ASSUME Len(log) \in Nat, Len(log)' \in Nat, version \in Nat, version' \in Nat,
         Len(log) <= Len(log)', version <= version'
  PROVE  Heard \subseteq Heard' /\ Seq(Heard) \subseteq Seq(Heard')
<1>1. Heard \subseteq Heard'
  BY DEF Heard, Known, Event
<1> QED
  BY <1>1, SeqMonotonic

\* The seqs that the other writers have on their hands.
Others(w) == {writer[v].ev.seq : v \in {x \in Writer \ {w} : Pending(x)}} \ {0}

\* A writer moves on: what is awaited differs by its own event only.
LEMMA WriterMoves ==
  ASSUME StreamInv, NEW w \in Writer, NEW pc \in {"idle", "moved", "publish", "drain", "retry"},
         NEW e \in Event, Stream!Write(w, pc, e)
  PROVE  /\ writer' \in [Writer -> OneWriter] /\ writer'[w].pc = pc /\ writer'[w].ev = e
         /\ \A v \in Writer \ {w} : writer'[v] = writer[v]
         /\ Awaited = Others(w) \cup (IF Pending(w) THEN {writer[w].ev.seq} \ {0} ELSE {})
         /\ Awaited' = Others(w) \cup (IF pc \in {"publish", "drain", "retry"} THEN {e.seq} \ {0} ELSE {})
         /\ Pending(w) => writer[w].ev.seq \notin Others(w)
<1> DEFINE now == [pc |-> pc, ev |-> e]
<1>1. now \in OneWriter /\ now.pc = pc /\ now.ev = e /\ writer' = [writer EXCEPT ![w] = now]
  BY DEF Stream!Write, OneWriter
<1> HIDE DEF now
<1>2. /\ writer' \in [Writer -> OneWriter] /\ writer'[w].pc = pc /\ writer'[w].ev = e
      /\ \A v \in Writer \ {w} : writer'[v] = writer[v]
  BY <1>1 DEF StreamInv, StreamTyped
<1>3. Awaited = Others(w) \cup (IF Pending(w) THEN {writer[w].ev.seq} \ {0} ELSE {})
  BY DEF Awaited, Others
<1>4. Awaited' = Others(w) \cup (IF pc \in {"publish", "drain", "retry"} THEN {e.seq} \ {0} ELSE {})
  <2>1. \A v \in Writer : Pending(v)' <=> IF v = w THEN pc \in {"publish", "drain", "retry"} ELSE Pending(v)
    BY <1>2 DEF Pending
  <2> QED BY <1>2, <2>1 DEF Awaited, Others
<1>5. Pending(w) => writer[w].ev.seq \notin Others(w)
  BY DEF Others, StreamInv, Once
<1> QED
  BY <1>2, <1>3, <1>4, <1>5

\* A writer that changes the row only.
LEMMA RowMoves ==
  ASSUME StreamInv, NEW w \in Writer, Stream!Move(w)
  PROVE  StreamInv'
<1>1. /\ UNCHANGED <<role, log, conn, chan, wire, got, dropped, client>>
      /\ version' = version + 1 /\ version' \in 0 .. MaxRow /\ ~ Pending(w)
  BY StreamAssumption DEF Stream!Move, Stream!streamVars, StreamInv, StreamTyped, Pending
<1> DEFINE e == Stream!Status(0, version + 1)
<1>2. e \in Event /\ e \in Heard' /\ Stream!Write(w, "moved", e)
  BY <1>1, StreamAssumption DEF Stream!Move, Stream!Status, Event, Heard, Known, StreamInv, StreamTyped
<1> HIDE DEF e
<1>3. Len(log) \in Nat /\ version \in Nat /\ Heard \subseteq Heard' /\ Seq(Heard) \subseteq Seq(Heard')
  <2>1. Len(log) \in Nat /\ version \in Nat
    BY LenProperties DEF StreamInv, StreamTyped
  <2> QED BY <1>1, <2>1, HeardGrows
<1>4. /\ writer' \in [Writer -> OneWriter] /\ writer'[w].ev = e /\ writer'[w].pc = "moved"
      /\ \A v \in Writer \ {w} : writer'[v] = writer[v]
      /\ Awaited' = Awaited
  BY <1>1, <1>2, WriterMoves
<1>5. StreamTyped'
  BY <1>1, <1>2, <1>3, <1>4 DEF StreamInv, StreamTyped
<1>6. Connection' /\ Behind'
  BY <1>1, <1>3, <1>4 DEF StreamInv, StreamTyped, OneClient, Connection, Behind, Stream!Publishing, Stream!Registered
<1>7. Once' /\ Complete'
  BY <1>1, <1>4 DEF StreamInv, Once, Complete, Told, Coming, Passes, Pending
<1> QED
  BY <1>5, <1>6, <1>7 DEF StreamInv

\* A writer that appends its event to the log and takes it to the broker.
LEMMA LogGrows ==
  ASSUME StreamInv, NEW w \in Writer, ~ Pending(w), NEW e \in Heard', e.seq = Len(log) + 1,
         e.kind \in {"status", "delta"}, Len(log) < MaxLog, log' = Append(log, e),
         Stream!Write(w, "publish", e),
         UNCHANGED <<role, version, conn, chan, wire, got, dropped, client>>
  PROVE  StreamInv'
<1>1. Len(log) \in Nat /\ version \in Nat /\ e \in Event
  BY LenProperties DEF StreamInv, StreamTyped, Heard, Known
<1>2. Len(log') = Len(log) + 1 /\ Len(log)' = Len(log) + 1
  BY AppendProperties DEF StreamInv, StreamTyped
<1>3. Heard \subseteq Heard' /\ Seq(Heard) \subseteq Seq(Heard')
  BY <1>1, <1>2, HeardGrows
<1>4. /\ log' \in Seq(Heard')
      /\ \A i \in 1 .. Len(log') : log'[i].seq = i /\ log'[i].kind \in {"status", "delta"}
  <2>1. log \in Seq(Heard')
    BY <1>3 DEF StreamInv, StreamTyped
  <2>2. log' \in Seq(Heard') /\ (\A i \in 1 .. Len(log) : log'[i] = log[i]) /\ log'[Len(log) + 1] = e
    BY <2>1, AppendProperties
  <2>3. 1 .. Len(log') = (1 .. Len(log)) \cup {Len(log) + 1}
    BY <1>1, <1>2
  <2> QED BY <1>2, <2>2, <2>3 DEF StreamInv, StreamTyped
<1>5. /\ writer' \in [Writer -> OneWriter] /\ writer'[w].ev = e /\ writer'[w].pc = "publish"
      /\ \A v \in Writer \ {w} : writer'[v] = writer[v]
      /\ Awaited' = Awaited \cup {e.seq}
  <2>1. e.seq # 0
    BY <1>1
  <2> QED BY <1>1, <2>1, WriterMoves
<1>6. StreamTyped'
  <2>1. Len(log') <= MaxLog
    BY <1>1, <1>2, StreamAssumption
  <2>2. Stream!ToSet(got) \subseteq 1 .. Len(log')
    BY <1>1, <1>2 DEF StreamInv, StreamTyped
  <2>3. (\A v \in Writer : writer'[v].ev \in Heard') /\ chan' \in Seq(Heard') /\ wire' \in Seq(Heard')
    BY <1>3, <1>5 DEF StreamInv, StreamTyped
  <2>4. UNCHANGED <<version, conn, chan, got, dropped, client>>
    OBVIOUS
  <2> QED BY <1>4, <1>5, <2>1, <2>2, <2>3, <2>4 DEF StreamInv, StreamTyped
<1>7. Connection' /\ Behind'
  <2>1. Behind'
    BY DEF StreamInv, Behind
  <2>2. conn.pc = "live" /\ conn.cutoff # NoMark => conn.cutoff <= Len(log')
    BY <1>1, <1>2, StreamAssumption DEF StreamInv, StreamTyped, Connection, OneConn, Stream!Marks
  <2> QED BY <1>2, <1>5, <2>1, <2>2 DEF StreamInv, Connection, Stream!Publishing, Stream!Registered
<1>8. e.seq \notin SeqsOf(chan) /\ e.seq \notin SeqsOf(wire) /\ e.seq \notin Stream!ToSet(got)
      /\ e.seq \notin Awaited
  <2>1. \A x \in Heard : x.seq \in Nat /\ x.seq # e.seq
    BY <1>1 DEF Heard, Known, Event
  <2>2. (\A i \in 1 .. Len(chan) : chan[i] \in Heard) /\ (\A i \in 1 .. Len(wire) : wire[i] \in Heard)
    BY ElementOfSeq DEF StreamInv, StreamTyped
  <2> QED BY <1>1, <2>1, <2>2 DEF SeqsOf, Awaited, StreamInv, StreamTyped
<1>9. Told' = Told /\ Coming' = Coming \cup {e.seq} /\ \A n : Passes(n)' = Passes(n)
  BY <1>5 DEF Told, Coming, SeqsOf, Stream!ToSet, Passes
<1>10. Once'
  <2>1. \A n \in Told' \cap Coming' : n \in Told \cap Coming
    BY <1>8, <1>9 DEF Told
  <2>2. SeqsOf(chan) \cap Awaited' = {}
    BY <1>5, <1>8 DEF StreamInv, Once
  <2>3. ASSUME NEW x \in Writer, NEW y \in Writer, Pending(x)', Pending(y)', writer'[x].ev.seq # 0,
               writer'[x].ev.seq = writer'[y].ev.seq
        PROVE  x = y
    <3>1. \A v \in Writer \ {w} : Pending(v)' => Pending(v) /\ (writer'[v].ev.seq # 0 => writer'[v].ev.seq \in Awaited)
      BY <1>5 DEF Pending, Awaited
    <3> QED BY <1>5, <1>8, <2>3, <3>1 DEF StreamInv, Once
  <2> QED
    BY ZenonT(60), <1>9, <2>1, <2>2, <2>3
       DEF StreamInv, Once, SeqsOf, Stream!ToSet, Unrepeated, Stream!IsInjective
<1>11. Complete'
  <2>1. conn.pc = "live" => Passes(e.seq)
    BY <1>1 DEF Passes, StreamInv, StreamTyped, Connection, OneConn, Stream!Marks
  <2>2. conn.base \in Nat /\ \A n \in (conn.base + 1) .. Len(log') : n \in (conn.base + 1) .. Len(log) \/ n = e.seq
    BY <1>1, <1>2 DEF StreamInv, StreamTyped, OneConn
  <2>3. conn.cutoff = NoMark => Passes(e.seq)
    BY DEF Passes
  <2> QED BY <1>9, <2>1, <2>2, <2>3 DEF StreamInv, Complete
<1> QED
  BY <1>6, <1>7, <1>10, <1>11 DEF StreamInv

\* What the broker does with an event loses none to a registered client unless it
\* notes so, and brings none back.
LEMMA BrokerMoves ==
  ASSUME StreamInv, NEW w \in Writer, NEW pc \in {"idle", "moved", "publish", "drain", "retry"},
         NEW e \in Heard, Stream!Write(w, pc, e),
         pc \in {"publish", "drain", "retry"} => e.seq \notin Others(w),
         pc \in {"drain", "retry"} => Stream!Registered,
         UNCHANGED <<role, version, log, conn, wire, got, client>>,
         chan' \in Seq(Heard), Len(chan') <= BufSize, Unrepeated(chan'),
         conn.pc \in {"off", "open"} => chan' = << >>,
         SeqsOf(chan') \cap Awaited' = {}, Coming' \subseteq Coming,
         dropped' \in BOOLEAN,
         ~ dropped' => ~ dropped /\ (Coming \subseteq Coming' \/ conn.pc \notin {"sub", "live"})
  PROVE  StreamInv'
<1>1. e \in Event
  BY DEF Heard, Known
<1>2. /\ writer' \in [Writer -> OneWriter] /\ writer'[w].pc = pc /\ writer'[w].ev = e
      /\ \A v \in Writer \ {w} : writer'[v] = writer[v]
  BY <1>1, WriterMoves
<1>3. Heard' = Heard
  BY DEF Heard
<1>4. StreamTyped'
  BY <1>2, <1>3 DEF StreamInv, StreamTyped
<1>5. Connection' /\ Behind'
  BY <1>2 DEF StreamInv, Connection, Behind, Stream!Publishing, Stream!Registered
<1>6. Told' = Told /\ \A n : Passes(n)' = Passes(n)
  BY DEF Told, SeqsOf, Stream!ToSet, Passes
<1>7. Once'
  <2>1. ASSUME NEW x \in Writer, NEW y \in Writer, Pending(x)', Pending(y)', writer'[x].ev.seq # 0,
               writer'[x].ev.seq = writer'[y].ev.seq
        PROVE  x = y
    <3>1. \A v \in Writer \ {w} : Pending(v)' => Pending(v) /\ (writer'[v].ev.seq # 0 => writer'[v].ev.seq \in Others(w))
      BY <1>2 DEF Pending, Others
    <3>2. \A v \in Writer : v = w /\ Pending(v)' => writer'[v].ev.seq \notin Others(w)
      BY <1>2 DEF Pending
    <3> QED BY <1>2, <2>1, <3>1, <3>2 DEF StreamInv, Once
  <2>2. \A n \in Told' \cap Coming' : n \in Told \cap Coming
    BY <1>6
  <2> QED
    BY ZenonT(60), <1>6, <2>1, <2>2
       DEF StreamInv, Once, SeqsOf, Stream!ToSet, Unrepeated, Stream!IsInjective
<1>8. Complete'
  BY <1>6 DEF StreamInv, Complete
<1> QED
  BY <1>4, <1>5, <1>7, <1>8 DEF StreamInv

\* Facts of the events at hand.
LEMMA EventsAtHand ==
  ASSUME StreamInv
  PROVE  /\ Len(log) \in Nat /\ version \in Nat /\ Heard \in SUBSET Event
         /\ \A w \in Writer : writer[w].ev \in Heard /\ writer[w].ev.seq \in Nat
         /\ chan \in Seq(Heard) /\ wire \in Seq(Heard) /\ log \in Seq(Heard)
         /\ Stream!Nothing \in Heard /\ Stream!FileChanged \in Heard
         /\ Stream!Nothing.seq = 0 /\ Stream!FileChanged.seq = 0
<1>1. Len(log) \in Nat /\ version \in Nat /\ Heard \in SUBSET Event
  BY LenProperties DEF StreamInv, StreamTyped, Heard, Known
<1>2. \A w \in Writer : writer[w].ev \in Heard /\ writer[w].ev.seq \in Nat
  BY DEF StreamInv, StreamTyped, Heard, Known, Event
<1>3. Stream!Nothing \in Heard /\ Stream!FileChanged \in Heard
  BY <1>1, StreamAssumption DEF Stream!Nothing, Stream!FileChanged, Heard, Known, Event
<1> QED
  BY <1>1, <1>2, <1>3 DEF StreamInv, StreamTyped, Stream!Nothing, Stream!FileChanged

\* A writer that neither takes an event to the broker nor gives one up.
LEMMA WriterRests ==
  ASSUME StreamInv, NEW w \in Writer, ~ Pending(w), NEW pc \in {"idle", "publish"}, NEW e \in Heard,
         e.seq = 0, Stream!Write(w, pc, e),
         UNCHANGED <<role, version, log, conn, chan, wire, got, dropped, client>>
  PROVE  StreamInv'
<1>1. e \in Event
  BY EventsAtHand
<1>2. Awaited' = Awaited
  BY <1>1, WriterMoves
<1>3. e.seq \notin Others(w)
  BY DEF Others
<1>4. Coming' = Coming
  BY <1>2 DEF Coming, SeqsOf
<1>5. /\ chan' \in Seq(Heard) /\ Len(chan') <= BufSize /\ Unrepeated(chan') /\ dropped' \in BOOLEAN
      /\ conn.pc \in {"off", "open"} => chan' = << >>
      /\ SeqsOf(chan') \cap Awaited' = {}
  BY <1>2 DEF StreamInv, StreamTyped, Once, Connection, SeqsOf, Unrepeated
<1> QED
  BY <1>3, <1>4, <1>5, BrokerMoves

\* The event goes into the channel.
LEMMA ChannelTakes ==
  ASSUME StreamInv, NEW w \in Writer, Pending(w), Stream!Registered, ~ Stream!Full,
         Stream!Write(w, "idle", Stream!Nothing), chan' = Append(chan, writer[w].ev),
         UNCHANGED <<role, version, log, conn, wire, got, dropped, client>>
  PROVE  StreamInv'
<1>1. Stream!Nothing \in Event /\ writer[w].ev \in Heard
  BY EventsAtHand
<1>2. /\ Awaited = Others(w) \cup ({writer[w].ev.seq} \ {0}) /\ Awaited' = Others(w)
      /\ writer[w].ev.seq \notin Others(w)
  <2>1. /\ Awaited = Others(w) \cup (IF Pending(w) THEN {writer[w].ev.seq} \ {0} ELSE {})
        /\ Awaited' = Others(w) \cup (IF "idle" \in {"publish", "drain", "retry"}
                                        THEN {Stream!Nothing.seq} \ {0} ELSE {})
        /\ Pending(w) => writer[w].ev.seq \notin Others(w)
    BY <1>1, WriterMoves
  <2> QED BY <2>1
<1>3. writer[w].ev.seq \notin SeqsOf(chan)
  BY <1>2 DEF StreamInv, Once, SeqsOf
<1>4. /\ chan' \in Seq(Heard) /\ Len(chan') = Len(chan) + 1
      /\ SeqsOf(chan') = SeqsOf(chan) \cup ({writer[w].ev.seq} \ {0})
      /\ Unrepeated(chan')
  BY <1>1, <1>3, EventsAtHand, AppendEvent DEF StreamInv, Once
<1>5. Len(chan') <= BufSize
  BY <1>4, LenProperties, StreamAssumption, EventsAtHand DEF Stream!Full
<1>6. Coming' = Coming
  BY <1>2, <1>4 DEF Coming, SeqsOf
<1>7. SeqsOf(chan') \cap Awaited' = {}
  BY <1>2, <1>4 DEF StreamInv, Once
<1> QED
  BY <1>4, <1>5, <1>6, <1>7, EventsAtHand, BrokerMoves DEF Stream!Registered, StreamInv, StreamTyped

\* The event goes nowhere: nobody listens, or the drop is noted.
LEMMA ChannelRefuses ==
  ASSUME StreamInv, NEW w \in Writer, Pending(w), dropped' \/ ~ Stream!Registered, dropped' \in BOOLEAN,
         dropped => dropped',
         Stream!Write(w, "idle", Stream!Nothing),
         UNCHANGED <<role, version, log, conn, chan, wire, got, client>>
  PROVE  StreamInv'
<1>1. Stream!Nothing \in Event
  BY EventsAtHand
<1>2. Awaited' \subseteq Awaited
  BY <1>1, WriterMoves
<1>3. Coming' \subseteq Coming
  BY <1>2 DEF Coming, SeqsOf
<1>4. /\ chan' \in Seq(Heard) /\ Len(chan') <= BufSize /\ Unrepeated(chan')
      /\ conn.pc \in {"off", "open"} => chan' = << >>
      /\ SeqsOf(chan') \cap Awaited' = {}
  BY <1>2 DEF StreamInv, StreamTyped, Once, Connection, SeqsOf, Unrepeated
<1> QED
  BY <1>3, <1>4, EventsAtHand, BrokerMoves DEF Stream!Registered

\* A full channel, and what is drained from it: the event is still to be put.
LEMMA ChannelDrains ==
  ASSUME StreamInv, NEW w \in Writer, Pending(w), Stream!Registered, NEW pc \in {"drain", "retry"},
         Stream!Write(w, pc, writer[w].ev),
         \/ UNCHANGED <<chan, dropped>>
         \/ chan # << >> /\ chan' = Tail(chan) /\ dropped' = TRUE,
         UNCHANGED <<role, version, log, conn, wire, got, client>>
  PROVE  StreamInv'
<1>1. writer[w].ev \in Event /\ writer[w].ev \in Heard
  BY EventsAtHand
<1>2. Awaited' = Awaited /\ writer[w].ev.seq \notin Others(w)
  <2>1. /\ Awaited = Others(w) \cup (IF Pending(w) THEN {writer[w].ev.seq} \ {0} ELSE {})
        /\ Awaited' = Others(w) \cup (IF pc \in {"publish", "drain", "retry"}
                                        THEN {writer[w].ev.seq} \ {0} ELSE {})
        /\ Pending(w) => writer[w].ev.seq \notin Others(w)
    BY <1>1, WriterMoves
  <2> QED BY <2>1
<1>3. /\ chan' \in Seq(Heard) /\ Len(chan') <= BufSize /\ Unrepeated(chan')
      /\ SeqsOf(chan') \subseteq SeqsOf(chan)
      /\ dropped' \in BOOLEAN /\ (~ dropped' => chan' = chan /\ ~ dropped)
  <2>1. CASE UNCHANGED <<chan, dropped>>
    BY <2>1 DEF StreamInv, StreamTyped, Once, SeqsOf, Unrepeated
  <2>2. CASE chan # << >> /\ chan' = Tail(chan) /\ dropped' = TRUE
    <3>1. /\ chan' \in Seq(Heard) /\ Len(chan') <= Len(chan) /\ Unrepeated(chan')
          /\ SeqsOf(chan') \subseteq SeqsOf(chan)
      BY <2>2, EventsAtHand, TailEvent DEF StreamInv, Once
    <3>2. Len(chan') \in Nat /\ Len(chan) \in Nat
      BY <3>1, LenProperties, EventsAtHand
    <3> QED BY <2>2, <3>1, <3>2, StreamAssumption DEF StreamInv, StreamTyped
  <2> QED BY <2>1, <2>2
<1>4. Coming' \subseteq Coming /\ (chan' = chan => Coming' = Coming)
  BY <1>2, <1>3 DEF Coming, SeqsOf
<1>5. SeqsOf(chan') \cap Awaited' = {}
  BY <1>2, <1>3 DEF StreamInv, Once
<1> QED
  BY <1>1, <1>2, <1>3, <1>4, <1>5, BrokerMoves DEF Stream!Registered

\* Every step of a writer.
LEMMA WriterSteps ==
  ASSUME StreamInv, NEW w \in Writer, Stream!WriterStep(w)
  PROVE  StreamInv'
<1>1. CASE Stream!Emit(w)
  <2>1. ~ Pending(w) /\ UNCHANGED <<role, version, conn, chan, wire, got, dropped, client>>
    BY <1>1 DEF Stream!Emit, Stream!streamVars, Pending
  <2>2. CASE /\ Len(log) < MaxLog
             /\ LET ev == Stream!Status(Len(log) + 1, writer[w].ev.ver)
                IN  log' = Append(log, ev) /\ Stream!Write(w, "publish", ev)
    <3> DEFINE e == Stream!Status(Len(log) + 1, writer[w].ev.ver)
    <3>1. /\ e.seq = Len(log) + 1 /\ e.kind = "status" /\ log' = Append(log, e)
          /\ Stream!Write(w, "publish", e)
      BY <2>2 DEF Stream!Status
    <3>2. Len(log)' = Len(log) + 1
      BY <3>1, EventsAtHand, AppendProperties
    <3>3. e \in Heard'
      BY <2>1, <2>2, <3>2, EventsAtHand, StreamAssumption DEF Stream!Status, Heard, Known, Event
    <3> HIDE DEF e
    <3> QED BY <2>1, <2>2, <3>1, <3>3, LogGrows
  <2>3. CASE UNCHANGED log /\ Stream!Write(w, "idle", Stream!Nothing)
    BY <2>1, <2>3, WriterRests, EventsAtHand
  <2> QED BY <1>1, <2>2, <2>3 DEF Stream!Emit
<1>2. CASE Stream!Report(w)
  <2> DEFINE e == Stream!Delta(Len(log) + 1)
  <2>1. /\ ~ Pending(w) /\ UNCHANGED <<role, version, conn, chan, wire, got, dropped, client>>
        /\ e.seq = Len(log) + 1 /\ e.kind = "delta" /\ log' = Append(log, e)
        /\ Stream!Write(w, "publish", e) /\ Len(log) < MaxLog
    BY <1>2 DEF Stream!Report, Stream!streamVars, Pending, Stream!Delta
  <2>2. Len(log)' = Len(log) + 1
    BY <2>1, EventsAtHand, AppendProperties
  <2>3. e \in Heard'
    BY <2>1, <2>2, EventsAtHand, StreamAssumption DEF Stream!Delta, Heard, Known, Event
  <2> HIDE DEF e
  <2> QED BY <2>1, <2>3, LogGrows
<1>3. CASE Stream!FileEvent(w)
  <2>1. ~ Pending(w) /\ UNCHANGED <<role, version, log, conn, chan, wire, got, dropped, client>>
        /\ Stream!Write(w, "publish", Stream!FileChanged)
    BY <1>3 DEF Stream!FileEvent, Stream!streamVars, Pending
  <2> QED BY <2>1, WriterRests, EventsAtHand
<1>4. CASE Stream!Publish(w)
  <2>1. Pending(w) /\ UNCHANGED <<role, version, log, conn, wire, got, dropped, client>>
    BY <1>4 DEF Stream!Publish, Pending
  <2>2. CASE Stream!Registered /\ Stream!Full
    <3>1. Stream!Write(w, "drain", writer[w].ev) /\ UNCHANGED chan
      BY <1>4, <2>2 DEF Stream!Publish
    <3> QED BY <2>1, <2>2, <3>1, ChannelDrains
  <2>3. CASE Stream!Registered /\ ~ Stream!Full
    <3>1. Stream!Write(w, "idle", Stream!Nothing) /\ chan' = Append(chan, writer[w].ev)
      BY <1>4, <2>3 DEF Stream!Publish
    <3> QED BY <2>1, <2>3, <3>1, ChannelTakes
  <2>4. CASE ~ Stream!Registered
    <3>1. Stream!Write(w, "idle", Stream!Nothing) /\ UNCHANGED chan
      BY <1>4, <2>4 DEF Stream!Publish
    <3>2. dropped' \in BOOLEAN
      BY <2>1 DEF StreamInv, StreamTyped
    <3> QED BY <2>1, <2>4, <3>1, <3>2, ChannelRefuses
  <2> QED BY <2>2, <2>3, <2>4
<1>5. CASE Stream!DropOldest(w)
  <2>1. Pending(w) /\ UNCHANGED <<role, version, log, conn, wire, got, client>>
        /\ Stream!Write(w, "retry", writer[w].ev) /\ Stream!Registered
        /\ (UNCHANGED <<chan, dropped>> \/ (chan # << >> /\ chan' = Tail(chan) /\ dropped' = TRUE))
    BY <1>5 DEF Stream!DropOldest, Pending, StreamInv, Connection, Stream!Publishing
  <2> QED BY <2>1, ChannelDrains
<1>6. CASE Stream!Retry(w)
  <2>1. Pending(w) /\ UNCHANGED <<role, version, log, conn, wire, got, client>>
        /\ Stream!Write(w, "idle", Stream!Nothing) /\ Stream!Registered
    BY <1>6 DEF Stream!Retry, Pending, StreamInv, Connection, Stream!Publishing
  <2>2. CASE Stream!Full
    BY <1>6, <2>1, <2>2, ChannelRefuses DEF Stream!Retry
  <2>3. CASE ~ Stream!Full
    BY <1>6, <2>1, <2>3, ChannelTakes DEF Stream!Retry
  <2> QED BY <2>2, <2>3
<1> QED
  BY <1>1, <1>2, <1>3, <1>4, <1>5, <1>6, RowMoves DEF Stream!WriterStep

-----------------------------------------------------------------------------
(* The stream.                                                             *)

\* The subscription is there before the log is read.
LEMMA SubscribeStep ==
  ASSUME StreamInv, Stream!Subscribe
  PROVE  StreamInv'
<1>1. /\ UNCHANGED <<role, version, log, writer, wire, got, dropped, client>> /\ chan' = << >>
      /\ conn.pc = "open" /\ wire = << >> /\ got = << >>
      /\ \A w \in Writer : ~ Stream!Publishing(w)
  BY DEF Stream!Subscribe, Stream!Locked, StreamInv, Connection
<1> DEFINE since == IF client.mark = NoMark THEN Len(log) ELSE client.mark
<1>2. since \in 0 .. MaxLog /\ client.mark \in Stream!Marks
  BY EventsAtHand, StreamAssumption DEF StreamInv, StreamTyped, OneClient, Stream!Marks
<1>3. conn' \in OneConn /\ conn'.pc = "sub" /\ conn'.cutoff = client.mark /\ conn'.base = since
  BY <1>2 DEF Stream!Subscribe, OneConn
<1>4. since = IF client.mark = NoMark THEN Len(log) ELSE client.mark
  OBVIOUS
<1> HIDE DEF since
<1>5. << >> \in Seq(Heard) /\ Len(<< >>) = 0 /\ SeqsOf(<< >>) = {} /\ Heard' = Heard
  BY <1>1, EmptySeq DEF SeqsOf, Heard
<1>6. StreamTyped'
  BY <1>1, <1>3, <1>5, StreamAssumption DEF StreamInv, StreamTyped
<1>7. Connection' /\ Behind'
  BY <1>1, <1>3 DEF StreamInv, Connection, Behind, Stream!Publishing
<1>8. Once'
  BY <1>1, <1>3, <1>5 DEF StreamInv, Once, Pending, Awaited, Unrepeated
<1>9. Complete'
  BY <1>1, <1>2, <1>3, <1>4, EventsAtHand DEF Complete
<1> QED
  BY <1>6, <1>7, <1>8, <1>9 DEF StreamInv

\* The replay sends the log from the mark on, and raises the filter to where it ends.
LEMMA ReplayStep ==
  ASSUME StreamInv, Stream!Replay
  PROVE  StreamInv'
<1>1. /\ UNCHANGED <<role, version, log, writer, chan, got, dropped, client>>
      /\ conn.pc = "sub" /\ wire = << >> /\ got = << >> /\ Heard' = Heard
  BY DEF Stream!Replay, StreamInv, Connection, Heard
<1>2. Awaited' = Awaited /\ Coming' = Coming /\ Stream!ToSet(got) = {} /\ SeqsOf(<< >>) = {}
      /\ Unrepeated(<< >>)
  BY <1>1 DEF Coming, Awaited, Pending, SeqsOf, Stream!ToSet, Unrepeated
<1>3. CASE conn.cutoff = NoMark /\ conn' = [conn EXCEPT !.pc = "live"] /\ UNCHANGED wire
  <2>1. conn' \in OneConn /\ conn'.pc = "live" /\ conn'.cutoff = NoMark /\ conn'.base = conn.base
    BY <1>3 DEF StreamInv, StreamTyped, OneConn
  <2>2. StreamTyped'
    BY <1>1, <1>3, <2>1 DEF StreamInv, StreamTyped
  <2>3. Connection' /\ Behind'
    BY <1>1, <2>1 DEF StreamInv, Connection, Behind, Stream!Publishing, Stream!Registered
  <2>4. Told' = {}
    BY <1>1, <1>2, <1>3 DEF Told
  <2>5. Once'
    BY <1>1, <1>2, <1>3, <2>4 DEF StreamInv, Once, Pending
  <2>6. Complete'
    BY <1>1, <1>2, <1>3, <2>1 DEF StreamInv, Complete, Told, Passes
  <2> QED BY <2>2, <2>3, <2>5, <2>6 DEF StreamInv
<1>4. CASE /\ conn.cutoff # NoMark /\ conn' = [conn EXCEPT !.pc = "live", !.cutoff = Len(log)]
           /\ wire' = wire \o SubSeq(log, conn.cutoff + 1, Len(log))
  <2>1. /\ conn' \in OneConn /\ conn'.pc = "live" /\ conn'.cutoff = Len(log)
        /\ conn'.base = conn.base /\ conn.cutoff \in Nat
    <3>1. Len(log) \in Stream!Marks
      BY EventsAtHand, StreamAssumption DEF StreamInv, StreamTyped, Stream!Marks
    <3>2. conn \in OneConn /\ conn.cutoff \in Stream!Marks
      BY DEF StreamInv, StreamTyped, OneConn
    <3>3. conn.cutoff \in Nat
      BY <1>4, <3>2 DEF Stream!Marks
    <3> QED BY <1>4, <3>1, <3>2, <3>3 DEF OneConn
  <2>2. wire' \in Seq(Heard) /\ SeqsOf(wire') = (conn.cutoff + 1) .. Len(log) /\ Unrepeated(wire')
    <3>1. Heard \in SUBSET Event /\ log \in Seq(Heard) /\ \A i \in 1 .. Len(log) : log[i].seq = i
      BY EventsAtHand DEF StreamInv, StreamTyped
    <3>2. wire' = << >> \o SubSeq(log, conn.cutoff + 1, Len(log))
      BY <1>1, <1>4
    <3> QED BY <2>1, <3>1, <3>2, ReplayEvents
  <2>3. StreamTyped'
    BY <1>1, <2>1, <2>2 DEF StreamInv, StreamTyped
  <2>4. Connection' /\ Behind'
    BY <1>1, <2>1, EventsAtHand DEF StreamInv, Connection, Behind, Stream!Publishing, Stream!Registered
  <2>5. Told' = (conn.cutoff + 1) .. Len(log)
    BY <1>1, <1>2, <2>2 DEF Told
  <2>6. \A n \in Told' : ~ Passes(n)'
    BY <2>1, <2>5, EventsAtHand, StreamAssumption DEF Passes
  <2>7. Once'
    BY <1>1, <1>2, <2>2, <2>6 DEF StreamInv, Once, Pending
  <2>8. Complete'
    BY <1>1, <1>4, <2>1, <2>5 DEF StreamInv, Complete
  <2> QED BY <2>3, <2>4, <2>7, <2>8 DEF StreamInv
<1> QED
  BY <1>3, <1>4 DEF Stream!Replay

\* A live event is sent when it passes the filter.
LEMMA ForwardStep ==
  ASSUME StreamInv, Stream!Forward
  PROVE  StreamInv'
<1> DEFINE e == Head(chan)
<1>1. /\ UNCHANGED <<role, version, log, writer, conn, got, dropped, client>>
      /\ conn.pc = "live" /\ chan # << >> /\ chan' = Tail(chan) /\ Heard' = Heard
      /\ wire' = IF Passes(e.seq) THEN Append(wire, e) ELSE wire
  BY DEF Stream!Forward, Stream!Wanted, Passes, Heard
<1>2. /\ chan' \in Seq(Heard) /\ e \in Heard /\ Len(chan') <= Len(chan)
      /\ SeqsOf(chan) = SeqsOf(chan') \cup ({e.seq} \ {0})
      /\ Unrepeated(chan') /\ e.seq \notin SeqsOf(chan')
  BY <1>1, EventsAtHand, TailEvent DEF StreamInv, Once
<1> HIDE DEF e
<1>3. Len(chan') <= BufSize
  BY <1>2, LenProperties, EventsAtHand, StreamAssumption DEF StreamInv, StreamTyped
<1>4. Awaited' = Awaited /\ (\A n : Passes(n)' = Passes(n)) /\ Stream!ToSet(got)' = Stream!ToSet(got)
  BY <1>1 DEF Awaited, Pending, Passes, Stream!ToSet
<1>5. Passes(e.seq) /\ e.seq # 0 => e.seq \notin Told
  BY <1>1, <1>2 DEF StreamInv, Once, Coming
<1>6. /\ wire' \in Seq(Heard) /\ Unrepeated(wire')
      /\ SeqsOf(wire') = IF Passes(e.seq) THEN SeqsOf(wire) \cup ({e.seq} \ {0}) ELSE SeqsOf(wire)
  <2>1. CASE Passes(e.seq)
    <3>1. e.seq \notin SeqsOf(wire)
      BY <1>5, <2>1 DEF Told, SeqsOf
    <3> QED BY <1>1, <1>2, <2>1, <3>1, EventsAtHand, AppendEvent DEF StreamInv, Once
  <2>2. CASE ~ Passes(e.seq)
    BY <1>1, <2>2, EventsAtHand DEF StreamInv, Once
  <2> QED BY <2>1, <2>2
<1>7. Told' = IF Passes(e.seq) THEN Told \cup ({e.seq} \ {0}) ELSE Told
  BY <1>4, <1>6 DEF Told
<1>8. Coming' = SeqsOf(chan') \cup Awaited /\ Coming = Coming' \cup ({e.seq} \ {0})
      /\ e.seq \notin Coming'
  <2>1. e.seq # 0 => e.seq \notin Awaited
    BY <1>2 DEF StreamInv, Once
  <2>2. e.seq = 0 => e.seq \notin Awaited
    BY DEF Awaited
  <2> QED BY <1>2, <1>4, <2>1, <2>2 DEF Coming
<1>9. StreamTyped'
  BY <1>1, <1>2, <1>3, <1>6 DEF StreamInv, StreamTyped
<1>10. Connection' /\ Behind'
  BY <1>1 DEF StreamInv, Connection, Behind, Stream!Publishing, Stream!Registered
<1>11. Once'
  <2>1. Stream!ToSet(got) \cap SeqsOf(wire') = {}
    BY <1>5, <1>6 DEF StreamInv, Once, Told
  <2>2. \A n \in Told' \cap Coming' : ~ Passes(n)
    BY <1>1, <1>7, <1>8 DEF StreamInv, Once
  <2>3. SeqsOf(chan') \cap Awaited = {}
    BY <1>2 DEF StreamInv, Once
  <2> QED BY <1>1, <1>2, <1>4, <1>6, <2>1, <2>2, <2>3 DEF StreamInv, Once, Pending
<1>12. Complete'
  <2>1. conn.base \in Nat /\ \A n \in (conn.base + 1) .. Len(log) : n # 0
    BY EventsAtHand DEF StreamInv, StreamTyped, OneConn
  <2> QED BY <1>1, <1>4, <1>7, <1>8, <2>1 DEF StreamInv, Complete
<1> QED
  BY <1>9, <1>10, <1>11, <1>12 DEF StreamInv

\* The subscription ends when nobody publishes.
LEMMA UnsubscribeStep ==
  ASSUME StreamInv, Stream!Unsubscribe
  PROVE  StreamInv'
<1>1. /\ UNCHANGED <<role, version, log, writer, wire, got, dropped, client>> /\ chan' = << >>
      /\ conn.pc = "gone" /\ Heard' = Heard /\ \A w \in Writer : ~ Stream!Publishing(w)
  BY DEF Stream!Unsubscribe, Stream!Locked, Heard
<1>2. conn' \in OneConn /\ conn'.pc = "off"
  BY DEF Stream!Unsubscribe, StreamInv, StreamTyped, OneConn
<1>3. << >> \in Seq(Heard) /\ Len(<< >>) = 0 /\ SeqsOf(<< >>) = {}
  BY EmptySeq DEF SeqsOf
<1>4. StreamTyped'
  BY <1>1, <1>2, <1>3, StreamAssumption DEF StreamInv, StreamTyped
<1>5. Connection' /\ Behind' /\ Complete'
  BY <1>1, <1>2 DEF StreamInv, Connection, Behind, Stream!Publishing, Complete
<1>6. Once'
  BY <1>1, <1>2, <1>3 DEF StreamInv, Once, Pending, Awaited, Unrepeated
<1> QED
  BY <1>4, <1>5, <1>6 DEF StreamInv

-----------------------------------------------------------------------------
(* The client.                                                             *)

\* What a closed stream leaves: nothing on its way to the client.
LEMMA HangUpStep ==
  ASSUME StreamInv, Stream!HangUp, client' \in OneClient, Behind',
         UNCHANGED <<role, version, log, writer, chan, got, dropped>>
  PROVE  StreamInv'
<1>1. /\ conn' \in OneConn /\ conn'.pc = (IF Stream!Registered THEN "gone" ELSE "off")
      /\ wire' = << >> /\ Heard' = Heard
  BY DEF Stream!HangUp, StreamInv, StreamTyped, OneConn, Heard
<1>2. << >> \in Seq(Heard) /\ SeqsOf(<< >>) = {} /\ Unrepeated(<< >>)
  BY EmptySeq DEF SeqsOf, Unrepeated
<1>3. StreamTyped'
  BY <1>1, <1>2 DEF StreamInv, StreamTyped
<1>4. Connection'
  <2>1. conn.pc \in {"off", "open", "sub", "live", "gone"}
    BY DEF StreamInv, StreamTyped, OneConn
  <2> QED BY <1>1, <2>1 DEF StreamInv, Connection, Stream!Publishing, Stream!Registered
<1>5. Complete'
  BY <1>1 DEF Complete
<1>6. Once'
  <2>1. Awaited' = Awaited /\ Stream!ToSet(got)' = Stream!ToSet(got)
    BY DEF Awaited, Pending, Stream!ToSet
  <2> QED BY <1>1, <1>2, <2>1 DEF StreamInv, Once, Pending
<1> QED
  BY <1>3, <1>4, <1>5, <1>6 DEF StreamInv

\* A new connection has told its client nothing.
LEMMA ConnectStep ==
  ASSUME StreamInv, Stream!Connect
  PROVE  StreamInv'
<1>1. /\ UNCHANGED <<role, version, log, writer, chan, wire>> /\ got' = << >> /\ dropped' = FALSE
      /\ conn.pc = "off" /\ Heard' = Heard /\ wire = << >> /\ chan = << >>
      /\ \A w \in Writer : ~ Stream!Publishing(w)
  BY DEF Stream!Connect, StreamInv, Connection, Stream!Registered, Heard
<1>2. conn' \in OneConn /\ conn'.pc = "open"
  BY DEF Stream!Connect, StreamInv, StreamTyped, OneConn
<1>3. /\ client' \in OneClient /\ client'.shown = client.shown /\ client'.fetched = client.fetched
      /\ client'.board = client.board /\ client'.invalid = client.invalid /\ client'.fetch = client.fetch
  BY DEF Stream!Connect, StreamInv, StreamTyped, OneClient
<1>4. << >> \in Seq(Seqno) /\ Stream!ToSet(<< >>) = {} /\ Stream!IsInjective(<< >>) /\ SeqsOf(<< >>) = {}
      /\ Unrepeated(<< >>)
  BY EmptySeq DEF Stream!ToSet, Stream!IsInjective, SeqsOf, Unrepeated
<1>5. StreamTyped'
  BY <1>1, <1>2, <1>3, <1>4 DEF StreamInv, StreamTyped
<1>6. Connection' /\ Behind' /\ Complete'
  BY <1>1, <1>2, <1>3 DEF StreamInv, Connection, Behind, Stream!Publishing, Complete
<1>7. Once'
  BY <1>1, <1>2, <1>4 DEF StreamInv, Once, Pending, Awaited
<1> QED
  BY <1>5, <1>6, <1>7 DEF StreamInv

\* What an event moves in the client: its mark, and a change it shows has the list
\* fetched again.
LEMMA EventMoves ==
  ASSUME StreamInv, NEW e \in Heard,
         client' = [client EXCEPT !.mark = Stream!Later(@, e.seq), !.resync = FALSE,
                      !.invalid = @ \/ client.resync \/ e.kind = "status",
                      !.shown = IF e.ver > @ THEN e.ver ELSE @],
         UNCHANGED <<role, version>>
  PROVE  client' \in OneClient /\ Behind'
<1> DEFINE flag == client.invalid \/ client.resync \/ e.kind = "status"
           top == IF e.ver > client.shown THEN e.ver ELSE client.shown
           place == Stream!Later(client.mark, e.seq)
<1>1. client' = [client EXCEPT !.mark = place, !.resync = FALSE, !.invalid = flag, !.shown = top]
  OBVIOUS
<1>2. client \in OneClient /\ e \in Event /\ e.ver <= version /\ (e.kind # "status" => e.ver = 0)
      /\ version \in Nat
  BY EventsAtHand DEF StreamInv, StreamTyped, Heard, Known
<1>3. e.ver \in Nat /\ client.shown \in Nat /\ client.shown <= version
  BY <1>2, StreamAssumption DEF StreamInv, Behind, OneClient, Event
<1>4. top \in Nat /\ top <= version /\ (e.ver = 0 => top = client.shown)
  BY <1>2, <1>3
<1>5. place \in Stream!Marks
  BY <1>2, StreamAssumption DEF Stream!Later, Stream!Marks, OneClient, Event
<1>6. flag \in BOOLEAN /\ (~ flag => ~ client.invalid /\ e.kind # "status")
  BY <1>2 DEF OneClient
<1> HIDE DEF flag, top, place
<1>7. /\ client' \in OneClient /\ client'.invalid = flag /\ client'.shown = top
      /\ client'.fetch = client.fetch /\ client'.fetched = client.fetched /\ client'.board = client.board
  BY <1>1, <1>2, <1>4, <1>5, <1>6 DEF OneClient
<1>8. Behind'
  BY <1>2, <1>4, <1>6, <1>7 DEF StreamInv, Behind
<1> QED
  BY <1>7, <1>8

\* The client handles what comes first.
LEMMA OnEventStep ==
  ASSUME StreamInv, Stream!OnEvent
  PROVE  StreamInv'
<1> DEFINE e == Head(wire)
<1>1. /\ UNCHANGED <<role, version, log, writer, conn, chan, dropped>>
      /\ wire # << >> /\ wire' = Tail(wire) /\ Heard' = Heard
      /\ got' = IF e.seq = 0 THEN got ELSE Append(got, e.seq)
      /\ client' = [client EXCEPT !.mark = Stream!Later(@, e.seq), !.resync = FALSE,
                      !.invalid = @ \/ client.resync \/ e.kind = "status",
                      !.shown = IF e.ver > @ THEN e.ver ELSE @]
  BY DEF Stream!OnEvent, Heard
<1>2. /\ wire' \in Seq(Heard) /\ e \in Heard
      /\ SeqsOf(wire) = SeqsOf(wire') \cup ({e.seq} \ {0})
      /\ Unrepeated(wire') /\ e.seq \notin SeqsOf(wire')
  BY <1>1, EventsAtHand, TailEvent DEF StreamInv, Once
<1>3. client' \in OneClient /\ Behind'
  BY <1>1, <1>2, EventMoves
<1> HIDE DEF e
<1>4. e.seq \in 0 .. MaxLog /\ e.seq <= Len(log) /\ Len(log) \in Nat
  BY <1>2, EventsAtHand DEF Heard, Known, Event
<1>5. /\ got' \in Seq(Seqno) /\ Stream!ToSet(got') = Stream!ToSet(got) \cup ({e.seq} \ {0})
      /\ Stream!IsInjective(got')
  <2>1. CASE e.seq = 0
    BY <1>1, <2>1 DEF StreamInv, StreamTyped, Once
  <2>2. CASE e.seq # 0
    <3>1. e.seq \in Seqno /\ e.seq \notin Stream!ToSet(got)
      BY <1>2, <1>4, <2>2, StreamAssumption DEF Seqno, StreamInv, Once
    <3> QED BY <1>1, <2>2, <3>1, AppendSeqno DEF StreamInv, StreamTyped, Once
  <2> QED BY <2>1, <2>2
<1>6. Stream!ToSet(got') \subseteq 1 .. Len(log)
  BY <1>4, <1>5 DEF StreamInv, StreamTyped
<1>7. StreamTyped'
  BY <1>1, <1>2, <1>3, <1>5, <1>6 DEF StreamInv, StreamTyped
<1>8. conn.pc = "live"
  BY <1>1 DEF StreamInv, Connection
<1>9. Connection'
  BY <1>1, <1>8 DEF StreamInv, Connection, Stream!Publishing, Stream!Registered
<1>10. Told' = Told
  BY <1>2, <1>5 DEF Told
<1>11. Coming' = Coming /\ Awaited' = Awaited /\ \A n : Passes(n)' = Passes(n)
  BY <1>1 DEF Coming, Awaited, Pending, SeqsOf, Passes
<1>12. Stream!ToSet(got') \cap SeqsOf(wire') = {}
  BY <1>2, <1>5 DEF StreamInv, Once, SeqsOf
<1>13. Once'
  BY <1>1, <1>2, <1>5, <1>10, <1>11, <1>12 DEF StreamInv, Once, Pending
<1>14. Complete'
  BY <1>1, <1>10, <1>11 DEF StreamInv, Complete
<1> QED
  BY <1>3, <1>7, <1>9, <1>13, <1>14 DEF StreamInv

\* The list is asked for, read and answered; a provider that rebuilds hangs up.
LEMMA ListStep ==
  ASSUME StreamInv, Stream!Rebuild \/ Stream!FetchRead \/ Stream!FetchReturn \/ Stream!Disconnect
  PROVE  StreamInv'
<1>1. version \in Nat /\ client \in OneClient
  BY EventsAtHand DEF StreamInv, StreamTyped
<1>2. CASE Stream!Rebuild
  <2>1. /\ UNCHANGED <<role, version, log, writer, chan, got, dropped>> /\ Stream!HangUp
        /\ client' \in OneClient /\ client'.fetch = "sent" /\ client'.shown = client.shown
        /\ client'.fetched = client.fetched /\ client'.board = client.board
    BY <1>1, <1>2 DEF Stream!Rebuild, OneClient, Stream!Marks
  <2>2. Behind'
    BY <2>1 DEF StreamInv, Behind
  <2> QED BY <2>1, <2>2, HangUpStep
<1>3. CASE Stream!Disconnect
  <2>1. UNCHANGED <<role, version, log, writer, chan, got, dropped, client>> /\ Stream!HangUp
    BY <1>3 DEF Stream!Disconnect
  <2>2. client' \in OneClient /\ Behind'
    BY <1>1, <2>1 DEF StreamInv, Behind
  <2> QED BY <2>1, <2>2, HangUpStep
<1>4. CASE Stream!FetchRead \/ Stream!FetchReturn
  <2>1. UNCHANGED <<role, version, log, writer, conn, chan, wire, got, dropped>>
    BY <1>4 DEF Stream!FetchRead, Stream!FetchReturn, Stream!streamVars
  <2>2. client' \in OneClient /\ Behind'
    <3>1. CASE Stream!FetchRead
      <4>1. /\ client' \in OneClient /\ client'.fetch = "read" /\ client'.fetched = version
            /\ client'.shown = client.shown /\ client'.board = client.board /\ client'.invalid = client.invalid
        BY <1>1, <3>1 DEF Stream!FetchRead, OneClient
      <4> QED BY <1>1, <2>1, <4>1 DEF StreamInv, Behind
    <3>2. CASE Stream!FetchReturn
      <4>1. /\ client' \in OneClient /\ client'.fetch = "none" /\ client'.board = client.fetched
            /\ client.fetch = "read" /\ client'.fetched = client.fetched
            /\ client'.shown = client.shown /\ client'.invalid = client.invalid
        BY <1>1, <3>2 DEF Stream!FetchReturn, OneClient
      <4> QED BY <1>1, <2>1, <4>1 DEF StreamInv, Behind
    <3> QED BY <1>4, <3>1, <3>2
  <2>3. StreamTyped'
    BY <2>1, <2>2 DEF StreamInv, StreamTyped, Heard, Stream!ToSet
  <2>4. Told' = Told /\ Awaited' = Awaited /\ Coming' = Coming /\ \A n : Passes(n)' = Passes(n)
    BY <2>1 DEF Told, Coming, Passes, Awaited, Pending, SeqsOf, Stream!ToSet
  <2>5. Connection'
    BY <2>1 DEF StreamInv, Connection, Stream!Publishing, Stream!Registered
  <2>6. Once'
    BY <2>1, <2>4 DEF StreamInv, Once, Pending
  <2>7. Complete'
    BY <2>1, <2>4 DEF StreamInv, Complete
  <2> QED BY <2>2, <2>3, <2>5, <2>6, <2>7 DEF StreamInv
<1> QED
  BY <1>2, <1>3, <1>4

-----------------------------------------------------------------------------
(* The promises.                                                           *)

\* Nothing has happened, and a board has asked for its list.
LEMMA StreamInit == Stream!Init => StreamInv
<1> SUFFICES ASSUME Stream!Init PROVE StreamInv
  OBVIOUS
<1>1. /\ version = 0 /\ log = << >> /\ chan = << >> /\ wire = << >> /\ got = << >> /\ dropped = FALSE
  BY DEF Stream!Init
<1>2. /\ << >> \in Seq(Heard) /\ << >> \in Seq(Seqno) /\ Len(<< >>) = 0
      /\ SeqsOf(<< >>) = {} /\ Stream!ToSet(<< >>) = {} /\ Unrepeated(<< >>) /\ Stream!IsInjective(<< >>)
  BY EmptySeq DEF SeqsOf, Stream!ToSet, Unrepeated, Stream!IsInjective
<1>3. Stream!Nothing \in Event /\ Stream!Nothing \in Heard
  BY <1>1, <1>2, StreamAssumption DEF Stream!Nothing, Heard, Known, Event
<1>4. /\ writer \in [Writer -> OneWriter] /\ \A w \in Writer : writer[w].ev \in Heard /\ writer[w].pc = "idle"
  BY <1>3 DEF Stream!Init, OneWriter
<1>5. conn \in OneConn /\ conn.pc = "off"
  BY StreamAssumption DEF Stream!Init, OneConn, Stream!Marks
<1>6. /\ client \in OneClient /\ client.fetched = 0 /\ client.board = 0 /\ client.shown = 0
  BY DEF Stream!Init, OneClient, Stream!Marks
<1>7. StreamTyped
  <2>1. 0 \in 0 .. MaxRow /\ 0 <= MaxLog /\ 0 <= BufSize
    BY StreamAssumption
  <2>2. \A i \in 1 .. Len(log) : log[i].seq = i /\ log[i].kind \in {"status", "delta"}
    BY <1>1, <1>2
  <2>3. Stream!ToSet(got) \subseteq 1 .. Len(log)
    BY <1>1, <1>2
  <2> QED BY <1>1, <1>2, <1>4, <1>5, <1>6, <2>1, <2>2, <2>3 DEF StreamTyped
<1>8. Connection /\ Complete /\ Behind
  BY <1>1, <1>4, <1>5, <1>6 DEF Connection, Complete, Behind, Stream!Publishing
<1>9. Once
  BY <1>1, <1>2, <1>4, <1>5 DEF Once, Pending
<1> QED
  BY <1>7, <1>8, <1>9 DEF StreamInv

\* The invariant of the stream.
LEMMA StreamAlways == Spec => [](part = "stream" => StreamInv)
<1>1. Init => (part = "stream" => StreamInv)
  BY StreamInit DEF Init
<1>2. (part = "stream" => StreamInv) /\ [Next]_vars => (part = "stream" => StreamInv)'
  <2> SUFFICES ASSUME StreamInv, Stream!Next \/ UNCHANGED stream PROVE StreamInv'
    BY PartSteps
  <2>1. CASE UNCHANGED stream
    <3>1. UNCHANGED <<role, version, log, writer, conn, chan, wire, got, dropped, client>>
      BY <2>1 DEF stream
    <3>2. Told' = Told /\ Awaited' = Awaited /\ Coming' = Coming /\ \A n : Passes(n)' = Passes(n)
      BY <3>1 DEF Told, Coming, Passes, Awaited, Pending, SeqsOf, Stream!ToSet
    <3>3. StreamTyped'
      BY <3>1 DEF StreamInv, StreamTyped, Heard, Stream!ToSet
    <3>4. Connection' /\ Behind'
      BY <3>1 DEF StreamInv, Connection, Behind, Stream!Publishing, Stream!Registered
    <3>5. Once' /\ Complete'
      BY <3>1, <3>2 DEF StreamInv, Once, Complete, Pending
    <3> QED BY <3>3, <3>4, <3>5 DEF StreamInv
  <2> QED BY <2>1, WriterSteps, SubscribeStep, ReplayStep, ForwardStep, UnsubscribeStep, ConnectStep,
             OnEventStep, ListStep DEF Stream!Next, Stream!ServerStep, Stream!ClientStep
<1> QED
  BY <1>1, <1>2, PTL DEF Spec

\* The replay and the live events overlap, and no client is told anything twice: the
\* filter starts where the replay ended (ipc/server.go, WatchEvents).
THEOREM NothingToldTwice == Spec => []DeliveredOnce
<1>1. (part = "stream" => StreamInv) => DeliveredOnce
  BY DEF DeliveredOnce, Stream!DeliveredOnce, StreamInv, Once
<1> QED
  BY <1>1, StreamAlways, PTL

\* A connection that is quiet and has had no drop has been told of every event
\* after its client's mark: it subscribes before it replays.
THEOREM QuietIsComplete == Spec => []ConnectionComplete
<1>1. (part = "stream" => StreamInv) => ConnectionComplete
  <2> SUFFICES ASSUME StreamInv, Stream!Quiet, ~ dropped,
                      NEW n \in (conn.base + 1) .. Len(log)
               PROVE  n \in Stream!ToSet(got)
    BY DEF ConnectionComplete, Stream!ConnectionComplete
  <2>1. Awaited = {}
    BY DEF Stream!Quiet, Awaited, Pending
  <2>2. SeqsOf(<< >>) = {}
    BY EmptySeq DEF SeqsOf
  <2> QED BY <2>1, <2>2 DEF Stream!Quiet, StreamInv, Complete, Told, Coming
<1> QED
  BY <1>1, StreamAlways, PTL

\* A board at rest shows the newest change it has heard of: an event during a fetch has
\* the provider fetch again (kanban/providers.dart, _onEvent).
THEOREM BoardKeepsUp == Spec => []BoardNotBehind
<1>1. (part = "stream" => StreamInv) => BoardNotBehind
  BY DEF BoardNotBehind, Stream!BoardNotBehind, StreamInv, StreamTyped, Behind, OneClient
<1> QED
  BY <1>1, StreamAlways, PTL

\* Each component's variables have their types.
THEOREM AroundTypeCorrect == Spec => []TypeOK
<1>1. (part = "stream" => StreamInv) => (part = "stream" => Stream!TypeOK)
  <2> SUFFICES ASSUME StreamInv PROVE Stream!TypeOK
    OBVIOUS
  <2>1. DOMAIN log = 1 .. Len(log)
    BY LenProperties DEF StreamInv, StreamTyped
  <2>2. {client.board, client.fetched, client.shown} \subseteq 0 .. version
    BY EventsAtHand DEF StreamInv, StreamTyped, Behind, OneClient
  <2> QED BY <2>1, <2>2 DEF StreamInv, StreamTyped, OneWriter, OneConn, OneClient, Stream!TypeOK
<1>2. (part = "repository" => RepoInv) => (part = "repository" => Repo!TypeOK)
  <2> SUFFICES ASSUME RepoInv PROVE Repo!TypeOK
    OBVIOUS
  <2>1. DOMAIN refs = Branch /\ \A b \in Branch : refs[b] \subseteq {Repo!Root} \cup Work \cup UserCommit
    BY DEF RepoInv, RepoTyped, Commits
  <2> QED BY <2>1 DEF RepoInv, RepoTyped, Branch, Trees, Progress, Repo!TypeOK
<1>3. (part = "harness" => HarnessInv) => (part = "harness" => Skill!TypeOK)
  <2> SUFFICES ASSUME HarnessInv PROVE Skill!TypeOK
    OBVIOUS
  <2>1. \A i \in DOMAIN versions : versions[i] \in OneVersion
    BY LenProperties, ElementOfSeq DEF HarnessInv, HarnessTyped
  <2> QED BY <2>1 DEF HarnessInv, HarnessTyped, Saves, OneVersion, OneAttempt, Busy, Skill!TypeOK
<1>4. (part = "lifecycle" => LifecycleInv) => (part = "lifecycle" => Sidecar!TypeOK)
  BY DEF LifecycleInv, LifecycleTyped, MutexHeld, OneProcess, OneUi, Alive, Sidecar!TypeOK
<1>5. (part = "trustGate" => GateInv) => (part = "trustGate" => Gate!TypeOK)
  <2> SUFFICES ASSUME GateInv PROVE Gate!TypeOK
    OBVIOUS
  <2>1. \A x \in Gate!Rows : entries[x] \in OneEntry
    BY DEF GateInv, GateTyped, Gate!Rows, Gate!IsRow
  <2>2. \A n \in Gate!Node : Gate!IsRow(nodes[n]) => nodes[n] \in OneNode
    BY DEF GateInv, GateTyped, Gate!IsRow
  <2> QED BY <2>1, <2>2 DEF GateInv, GateTyped, OneEntry, OneNode, OneRpc, Gate!TypeOK
<1> QED
  BY <1>1, <1>2, <1>3, <1>4, <1>5, StreamAlways, RepoAlways, HarnessAlways, LifecycleAlways, GateAlways,
     PTL DEF TypeOK
=============================================================================
