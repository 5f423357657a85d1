--------------------------- MODULE EventLogProofs ---------------------------
(***************************************************************************)
(* Why the numbers of the event log follow its history although consumers   *)
(* cache them: an insert needs free numbers, and a number that is both free *)
(* and not beyond the next one is the next one.  And why the archiver loses *)
(* nothing but what is committed under its hands.                           *)
(***************************************************************************)
EXTENDS EventLog, SequenceTheorems, TLAPS

Ev == [src : Session \cup Emitter, n : Nat]

\* Any non-empty table has a greatest number, so NextSeq is one more.
HasLast == DOMAIN table # {} =>
             \E m \in DOMAIN table : \A k \in DOMAIN table : k <= m

Rows == /\ history \in Seq(Ev)
        /\ purged \in Nat
        /\ DOMAIN table \subseteq Nat \ {0}
        /\ HasLast

ConsumerPc == {"off", "start", "loop", "done", "failed", "collided"}
ConsumerState == [pc : ConsumerPc, next : Nat, batch : Seq(Ev)]

SessionPc == {"off", "run", "open", "idle", "closed", "usage", "over"}
SessionState == [pc : SessionPc, sent : Nat, escaped : BOOLEAN]

Message == [n : Nat, delta : BOOLEAN]

Control ==
  /\ chan \in [Session -> Seq(Message)]
  /\ sess \in [Session -> SessionState]
  /\ cons \in [Session -> ConsumerState]
  /\ \A s \in Session :
       /\ sess[s].pc = "off" => cons[s].pc = "off"
       /\ cons[s].pc \in {"off", "start"} => cons[s].batch = << >>
  /\ emit \in [Emitter -> [pc : {"off", "append", "publish", "over"}, seq : Nat]]

\* Whoever holds a number to write at holds one that exists or is the next.
Bounds ==
  /\ \A s \in Session : cons[s].pc = "loop" =>
       /\ First(s) >= 1
       /\ purged = 0 => First(s) <= Len(history) + 1
  /\ \A e \in Emitter : emit[e].pc = "append" =>
       /\ emit[e].seq >= 1
       /\ purged = 0 => emit[e].seq <= Len(history) + 1

\* What is about to be published has been committed.
Told ==
  /\ published \subseteq Persisted
  /\ \A s \in Session : sess[s].pc = "usage" => Event(s, 0) \in Persisted
  /\ \A e \in Emitter : emit[e].pc = "publish" => Event(e, 0) \in Persisted

\* What the delete will remove is archived, or came after the listing.
Archiving ==
  /\ arch.pc \in {"off", "listed", "written"}
  /\ arch.pc = "listed" => Range(table) \subseteq archived \cup arch.list \cup window
  /\ arch.pc = "written" => Range(table) \subseteq archived \cup window

IInv == /\ Rows /\ Control /\ Bounds /\ LogIsHistory
        /\ Told /\ Archiving /\ NothingVanishes

\* The three ways a step can treat the log.
Writes(first, batch) ==
  /\ first \in Nat \ {0} /\ batch \in Seq(Ev) /\ batch # << >>
  /\ purged = 0 => first <= Len(history) + 1
  /\ Free(first, batch) /\ Insert(first, batch)
  /\ UNCHANGED archiverVars

Reads == NoInsert /\ UNCHANGED archiverVars

Archives == ArchiveList \/ ArchiveWrite \/ ArchiveDelete

-----------------------------------------------------------------------------
\* NextSeq is free, and the end of the history as long as nothing was purged.
LEMMA NextSeqIsFree ==
  ASSUME Rows, LogIsHistory
  PROVE  /\ NextSeq \in Nat \ {0}
         /\ \A x : Free(NextSeq, <<x>>)
         /\ purged = 0 => NextSeq = Len(history) + 1
<1>1. CASE DOMAIN table = {}
  <2>1. NextSeq = 1  BY <1>1 DEF NextSeq
  <2>2. purged = 0 => Len(history) = 0
    BY <1>1, LenProperties DEF Rows, LogIsHistory
  <2> QED BY <1>1, <2>1, <2>2 DEF Free
<1>2. CASE DOMAIN table # {}
  <2> DEFINE max == CHOOSE n \in DOMAIN table : \A k \in DOMAIN table : k <= n
  <2>1. max \in DOMAIN table /\ \A k \in DOMAIN table : k <= max
    BY <1>2 DEF Rows, HasLast
  <2>2. NextSeq = 1 + max  BY <1>2 DEF NextSeq
  <2> HIDE DEF max
  <2>3. max \in Nat \ {0}  BY <2>1 DEF Rows
  <2>4. \A x : Free(NextSeq, <<x>>)
    <3> TAKE x
    <3>1. Len(<<x>>) = 1  OBVIOUS
    <3>2. \A k \in DOMAIN table : k \in Nat /\ k < NextSeq  BY <2>1, <2>2, <2>3 DEF Rows
    <3>3. \A k \in NextSeq .. NextSeq + Len(<<x>>) - 1 : k >= NextSeq  BY <3>1, <2>2, <2>3
    <3> QED BY <3>2, <3>3, <2>2, <2>3 DEF Free
  <2>5. ASSUME purged = 0 PROVE max = Len(history)
    <3>1. DOMAIN table = 1 .. Len(history)
      BY <2>5, LenProperties DEF Rows, LogIsHistory
    <3>2. Len(history) \in Nat  BY LenProperties DEF Rows
    <3>3. max \in 1 .. Len(history)  BY <3>1, <2>1
    <3>4. Len(history) \in DOMAIN table  BY <3>1, <3>2, <3>3
    <3>5. Len(history) <= max  BY <3>4, <2>1
    <3> QED BY <3>2, <3>3, <3>5
  <2> QED BY <2>2, <2>3, <2>4, <2>5
<1> QED BY <1>1, <1>2

\* An insert under free numbers adds its batch and nothing else; where nothing has
\* been purged it adds it at the end of the history.
LEMMA InsertAdds ==
  ASSUME NEW first, NEW batch, Rows, LogIsHistory, Writes(first, batch)
  PROVE  /\ Rows' /\ LogIsHistory'
         /\ Range(table') = Range(table) \cup Range(batch)
         /\ Persisted' = Persisted \cup Range(batch)
         /\ Len(history') = Len(history) + Len(batch)
         /\ purged' = purged
         /\ purged = 0 => first = Len(history) + 1
<1> DEFINE new == first .. first + Len(batch) - 1
<1>1. /\ first \in Nat \ {0} /\ batch \in Seq(Ev) /\ history \in Seq(Ev)
      /\ DOMAIN table \cap new = {} /\ purged' = purged /\ purged \in Nat
      /\ DOMAIN table \subseteq Nat \ {0}
  BY DEF Writes, Rows, Free, archiverVars
<1>2. /\ Len(batch) \in Nat \ {0} /\ DOMAIN batch = 1 .. Len(batch)
      /\ Len(history) \in Nat /\ DOMAIN history = 1 .. Len(history)
  <2>1. batch # << >>  BY DEF Writes
  <2>2. Len(batch) # 0  BY <2>1, <1>1, EmptySeq
  <2> QED BY <2>2, <1>1, LenProperties
<1>3. /\ history' = history \o batch
      /\ table' = [n \in DOMAIN table \cup new |->
                    IF n \in DOMAIN table THEN table[n] ELSE batch[n - first + 1]]
  BY DEF Writes, Insert
<1>4. history' \in Seq(Ev) /\ Len(history') = Len(history) + Len(batch)
      /\ DOMAIN history' = 1 .. Len(history) + Len(batch)
  BY <1>1, <1>2, <1>3, ConcatProperties, LenProperties
<1>5. Persisted' = Persisted \cup Range(batch)
  BY <1>1, <1>3, RangeConcatenation DEF Persisted
<1>6. DOMAIN table' = DOMAIN table \cup new  BY <1>3
<1>7. \A n \in new : n \in Nat \ {0} /\ n - first + 1 \in 1 .. Len(batch)
  BY <1>1, <1>2
<1>8. Range(table') = Range(table) \cup Range(batch)
  <2>1. \A n \in DOMAIN table' : table'[n] \in Range(table) \cup Range(batch)
    BY <1>1, <1>2, <1>3, <1>6, <1>7 DEF Range
  <2>2. \A n \in DOMAIN table : n \in DOMAIN table' /\ table'[n] = table[n]
    BY <1>3
  <2>3. \A i \in DOMAIN batch : /\ first + i - 1 \in DOMAIN table'
                               /\ table'[first + i - 1] = batch[i]
    <3> TAKE i \in DOMAIN batch
    <3>1. i \in 1 .. Len(batch)  BY <1>2
    <3>2. first + i - 1 \in new /\ first + i - 1 - first + 1 = i  BY <3>1, <1>1, <1>2
    <3>3. first + i - 1 \notin DOMAIN table  BY <3>2, <1>1
    <3>4. ASSUME NEW n, n = first + i - 1 PROVE table'[n] = batch[i]
      <4>1. n \in DOMAIN table \cup new /\ n \notin DOMAIN table  BY <3>2, <3>3, <3>4
      <4>2. n - first + 1 = i  BY <3>1, <3>4, <1>1, <1>2
      <4> HIDE DEF new
      <4>3. table'[n] = batch[n - first + 1]  BY <4>1, <1>3
      <4> QED BY <4>2, <4>3
    <3> QED BY <3>2, <3>4, <1>6
  <2>4. Range(table') \subseteq Range(table) \cup Range(batch)  BY <2>1 DEF Range
  <2>5. Range(table) \subseteq Range(table')  BY <2>2 DEF Range
  <2>6. Range(batch) \subseteq Range(table')  BY <2>3 DEF Range
  <2> QED BY <2>4, <2>5, <2>6
<1>9. HasLast'
  <2> DEFINE last == first + Len(batch) - 1
  <2>1. last \in new /\ \A n \in new : n <= last  BY <1>1, <1>2
  <2>2. CASE DOMAIN table = {}  BY <2>1, <2>2, <1>6 DEF HasLast
  <2>3. CASE DOMAIN table # {}
    <3>1. PICK m \in DOMAIN table : \A k \in DOMAIN table : k <= m
      BY <2>3 DEF Rows, HasLast
    <3>2. m \in Nat /\ last \in Nat  BY <3>1, <1>1, <1>2
    <3>3. CASE m <= last
      <4>1. \A k \in DOMAIN table \cup new : k <= last
        <5> TAKE k \in DOMAIN table \cup new
        <5>1. CASE k \in DOMAIN table
          <6>1. k \in Nat /\ k <= m  BY <5>1, <3>1, <1>1
          <6> QED BY <6>1, <3>2, <3>3
        <5>2. CASE k \in new  BY <5>2, <2>1
        <5> QED BY <5>1, <5>2
      <4> QED BY <4>1, <2>1, <1>6 DEF HasLast
    <3>4. CASE last <= m
      <4>1. \A k \in DOMAIN table \cup new : k <= m
        <5> TAKE k \in DOMAIN table \cup new
        <5>1. CASE k \in DOMAIN table  BY <5>1, <3>1
        <5>2. CASE k \in new
          <6>1. k \in Nat /\ k <= last  BY <5>2, <2>1, <1>7
          <6> QED BY <6>1, <3>2, <3>4
        <5> QED BY <5>1, <5>2
      <4> QED BY <4>1, <3>1, <1>6 DEF HasLast
    <3> QED BY <3>2, <3>3, <3>4
  <2> QED BY <2>2, <2>3
<1>10. Rows'  BY <1>1, <1>4, <1>6, <1>7, <1>9 DEF Rows
<1>11. ASSUME purged = 0 PROVE first = Len(history) + 1 /\ table' = history'
  <2>1. table = history /\ first <= Len(history) + 1
    BY <1>11 DEF LogIsHistory, Writes
  <2>2. first = Len(history) + 1
    <3>1. first \in new  BY <1>1, <1>2
    <3>2. first \notin 1 .. Len(history)  BY <3>1, <2>1, <1>1, <1>2
    <3> QED BY <3>2, <2>1, <1>1, <1>2
  <2>3. DOMAIN table' = DOMAIN history'
    <3>1. new = Len(history) + 1 .. Len(history) + Len(batch)  BY <2>2, <1>2
    <3>2. (1 .. Len(history)) \cup new = 1 .. Len(history) + Len(batch)
      <4>1. \A n \in new : n \in 1 .. Len(history) + Len(batch)  BY <2>2, <1>2
      <4>2. \A n \in 1 .. Len(history) : n \in 1 .. Len(history) + Len(batch)  BY <1>2
      <4>3. \A n \in 1 .. Len(history) + Len(batch) : n \in 1 .. Len(history) \/ n \in new
        BY <2>2, <1>2
      <4> HIDE DEF new
      <4> QED BY <4>1, <4>2, <4>3
    <3>3. DOMAIN table = 1 .. Len(history)  BY <2>1, <1>2
    <3> HIDE DEF new
    <3> QED BY <3>2, <3>3, <1>4, <1>6
  <2>4. \A n \in 1 .. Len(history) + Len(batch) : table'[n] = history'[n]
    <3> TAKE n \in 1 .. Len(history) + Len(batch)
    <3>1. CASE n <= Len(history)
      <4>1. n \in DOMAIN table /\ n \in 1 .. Len(history)  BY <3>1, <2>1, <1>2
      <4>2. table'[n] = history[n]  BY <4>1, <2>1, <1>3
      <4> QED BY <4>2, <3>1, <1>1, <1>3, ConcatProperties
    <3>2. CASE n > Len(history)
      <4>1. n \notin DOMAIN table /\ n \in DOMAIN table'  BY <3>2, <2>1, <2>3, <1>2, <1>4
      <4>2. table'[n] = batch[n - first + 1]  BY <4>1, <1>3, <1>6
      <4>3. n - first + 1 = n - Len(history)  BY <2>2, <1>2
      <4>4. history'[n] = batch[n - Len(history)]
        BY <3>2, <1>1, <1>2, <1>3, ConcatProperties
      <4> QED BY <4>2, <4>3, <4>4
    <3> QED BY <3>1, <3>2, <1>2
  <2>5. table' = [n \in DOMAIN table' |-> table'[n]]  BY <1>3, <1>6
  <2>6. history' = [n \in DOMAIN history' |-> history'[n]]  BY <1>4, LenProperties
  <2> QED BY <2>2, <2>3, <2>4, <2>5, <2>6, <1>4
<1>12. LogIsHistory'  BY <1>11, <1>1 DEF LogIsHistory
<1> QED BY <1>1, <1>4, <1>5, <1>8, <1>10, <1>11, <1>12

\* What one step does to the log, whichever way it treats it.
LEMMA LogKept ==
  ASSUME IInv, Reads \/ (\E first, batch : Writes(first, batch)) \/ Archives
  PROVE  /\ Rows' /\ LogIsHistory' /\ Archiving' /\ NothingVanishes'
         /\ Persisted \subseteq Persisted'
         /\ Len(history) \in Nat /\ Len(history') \in Nat /\ Len(history) <= Len(history')
         /\ purged' = 0 => purged = 0
<1>1. Len(history) \in Nat  BY LenProperties DEF IInv, Rows
<1>2. CASE Reads
  BY <1>1, <1>2 DEF IInv, Reads, NoInsert, archiverVars, Rows, HasLast, LogIsHistory,
     Archiving, NothingVanishes, Persisted
<1>3. ASSUME NEW first, NEW batch, Writes(first, batch)
      PROVE  /\ Rows' /\ LogIsHistory' /\ Archiving' /\ NothingVanishes'
             /\ Persisted \subseteq Persisted'
             /\ Len(history') \in Nat /\ Len(history) <= Len(history')
             /\ purged' = 0 => purged = 0
  <2>1. /\ Rows' /\ LogIsHistory' /\ purged' = purged
        /\ Range(table') = Range(table) \cup Range(batch)
        /\ Persisted' = Persisted \cup Range(batch)
        /\ Len(history') = Len(history) + Len(batch)
    BY <1>3, InsertAdds DEF IInv
  <2>2. Len(batch) \in Nat  BY <1>3, LenProperties DEF Writes
  <2>3. /\ window' = IF arch.pc = "off" THEN window ELSE window \cup Range(batch)
        /\ arch' = arch /\ archived' = archived
    BY <1>3 DEF Writes, Insert, archiverVars
  <2>4. Archiving'  BY <2>1, <2>3 DEF IInv, Archiving
  <2>5. NothingVanishes'  BY <2>1, <2>3 DEF IInv, NothingVanishes
  <2> QED BY <1>1, <2>1, <2>2, <2>4, <2>5
<1>4. CASE ArchiveList
  <2>1. NoInsert /\ UNCHANGED <<archived, purged>> /\ arch' = [pc |-> "listed", list |-> Range(table)]
    BY <1>4 DEF ArchiveList, ArchiveAt
  <2> QED BY <1>1, <2>1 DEF IInv, NoInsert, Rows, HasLast, LogIsHistory,
       Archiving, NothingVanishes, Persisted
<1>5. CASE ArchiveWrite
  <2>1. NoInsert /\ UNCHANGED purged /\ arch.pc = "listed"  BY <1>5 DEF ArchiveWrite
  <2>2. \/ archived' = archived \cup arch.list /\ arch' = [pc |-> "written", list |-> {}]
        \/ archived' = archived /\ arch' = [pc |-> "off", list |-> {}]
    BY <1>5 DEF ArchiveWrite, ArchiveAt
  <2> QED BY <1>1, <2>1, <2>2 DEF IInv, NoInsert, Rows, HasLast, LogIsHistory,
       Archiving, NothingVanishes, Persisted
<1>6. CASE ArchiveDelete
  <2>1. /\ arch.pc = "written" /\ arch' = [pc |-> "off", list |-> {}]
        /\ UNCHANGED <<history, window, archived>>
    BY <1>6 DEF ArchiveDelete, ArchiveAt
  <2>2. \/ table' = << >> /\ purged' = purged + 1
        \/ UNCHANGED <<table, purged>>
    BY <1>6 DEF ArchiveDelete
  <2>3. CASE UNCHANGED <<table, purged>>
    BY <1>1, <2>1, <2>3 DEF IInv, Rows, HasLast, LogIsHistory,
       Archiving, NothingVanishes, Persisted
  <2>4. CASE table' = << >> /\ purged' = purged + 1
    <3>1. DOMAIN table' = {} /\ Range(table') = {}  BY <2>4 DEF Range
    <3>2. purged' \in Nat /\ purged' # 0  BY <2>4 DEF IInv, Rows
    <3>3. Rows'  BY <2>1, <3>1, <3>2 DEF IInv, Rows, HasLast
    <3>4. LogIsHistory'  BY <3>2 DEF LogIsHistory
    <3>5. Archiving'  BY <2>1 DEF Archiving
    <3>6. NothingVanishes'  BY <2>1 DEF IInv, Archiving, NothingVanishes, Persisted
    <3> QED BY <1>1, <2>1, <3>2, <3>3, <3>4, <3>5, <3>6 DEF Persisted
  <2> QED BY <2>2, <2>3, <2>4
<1> QED BY <1>2, <1>3, <1>4, <1>5, <1>6 DEF Archives

\* What the whole invariant needs of a step, besides the log.
LEMMA StepKept ==
  ASSUME IInv, Reads \/ (\E first, batch : Writes(first, batch)) \/ Archives,
         Control',
         \A s \in Session : cons'[s].pc = "loop" =>
            \/ cons'[s] = cons[s]
            \/ First(s)' >= 1 /\ (purged' = 0 => First(s)' <= Len(history') + 1),
         \A e \in Emitter : emit'[e].pc = "append" =>
            \/ emit'[e] = emit[e]
            \/ emit'[e].seq >= 1 /\ (purged' = 0 => emit'[e].seq <= Len(history') + 1),
         published' \subseteq Persisted',
         \A s \in Session : sess'[s].pc = "usage" =>
            sess[s].pc = "usage" \/ Event(s, 0) \in Persisted',
         \A e \in Emitter : emit'[e].pc = "publish" =>
            emit'[e] = emit[e] \/ Event(e, 0) \in Persisted'
  PROVE  IInv'
<1>1. /\ Rows' /\ LogIsHistory' /\ Archiving' /\ NothingVanishes'
      /\ Persisted \subseteq Persisted'
      /\ Len(history) \in Nat /\ Len(history') \in Nat /\ Len(history) <= Len(history')
      /\ purged' = 0 => purged = 0
  BY LogKept
<1>2. ASSUME NEW s \in Session, cons'[s].pc = "loop"
      PROVE  First(s)' >= 1 /\ (purged' = 0 => First(s)' <= Len(history') + 1)
  <2>1. CASE cons'[s] = cons[s]
    <3>1. First(s)' = First(s)  BY <2>1 DEF First
    <3>2. First(s) >= 1 /\ (purged = 0 => First(s) <= Len(history) + 1)
      BY <1>2, <2>1 DEF IInv, Bounds
    <3>3. First(s) \in Int
      <4>1. cons[s].next \in Nat /\ cons[s].batch \in Seq(Ev)  BY DEF IInv, Control, ConsumerState
      <4> QED BY <4>1, LenProperties DEF First
    <3> QED BY <1>1, <3>1, <3>2, <3>3
  <2> QED BY <1>2, <2>1
<1>3. ASSUME NEW e \in Emitter, emit'[e].pc = "append"
      PROVE  emit'[e].seq >= 1 /\ (purged' = 0 => emit'[e].seq <= Len(history') + 1)
  <2>1. CASE emit'[e] = emit[e]
    <3>1. emit[e].seq \in Nat  BY DEF IInv, Control
    <3> QED BY <1>1, <1>3, <2>1, <3>1 DEF IInv, Bounds
  <2> QED BY <1>3, <2>1
<1>4. Bounds'  BY <1>2, <1>3 DEF Bounds
<1>5. Told'  BY <1>1 DEF IInv, Told, Event
<1> QED BY <1>1, <1>4, <1>5 DEF IInv

\* Every change of a consumer gives its place, its number and its batch.
Becomes(s, p, n, b) ==
  cons' = [cons EXCEPT ![s].pc = p, ![s].next = n, ![s].batch = b]

\* A consumer that changes its place, its number and its batch stays typed, and
\* the other consumers stay where they are.
LEMMA ConsumerMoves ==
  ASSUME cons \in [Session -> ConsumerState], NEW s \in Session,
         NEW p \in ConsumerPc,
         NEW n \in Nat, NEW b \in Seq(Ev), Becomes(s, p, n, b)
  PROVE  /\ cons' \in [Session -> ConsumerState]
         /\ cons'[s].pc = p /\ cons'[s].next = n /\ cons'[s].batch = b
         /\ \A r \in Session : r # s => cons'[r] = cons[r]
<1>1. /\ cons' = [cons EXCEPT ![s].pc = p, ![s].next = n, ![s].batch = b]
      /\ cons[s] \in ConsumerState
  BY DEF Becomes
<1>2. cons'[s] \in ConsumerState  BY <1>1 DEF ConsumerState
<1>3. DOMAIN cons' = Session /\ \A r \in Session : r # s => cons'[r] = cons[r]
  BY <1>1
<1>4. cons' \in [Session -> ConsumerState]  BY <1>1, <1>2, <1>3
<1>5. cons'[s].pc = p /\ cons'[s].next = n /\ cons'[s].batch = b
  BY <1>1 DEF ConsumerState
<1> QED BY <1>3, <1>4, <1>5

\* A consumer that ends drops its batch and nothing else.
LEMMA ConsumerEnds ==
  ASSUME cons \in [Session -> ConsumerState], NEW s \in Session,
         NEW p \in {"failed", "collided"}, Ends(s, p)
  PROVE  /\ cons' \in [Session -> ConsumerState]
         /\ cons'[s].pc = p
         /\ \A r \in Session : r # s => cons'[r] = cons[r]
<1>1. cons' = [cons EXCEPT ![s].pc = p, ![s].batch = << >>] /\ cons[s] \in ConsumerState
  BY DEF Ends
<1>2. Becomes(s, p, cons[s].next, << >>)  BY <1>1 DEF Becomes, ConsumerState
<1>3. cons[s].next \in Nat /\ << >> \in Seq(Ev)  BY <1>1, EmptySeq DEF ConsumerState
<1>4. p \in ConsumerPc  BY DEF ConsumerPc
<1> QED BY <1>2, <1>3, <1>4, ConsumerMoves

\* flush, from each of its three places, writes at a number the consumer holds.
LEMMA FlushKept ==
  ASSUME IInv, NEW s \in Session, cons[s].pc = "loop",
         NEW batch \in Seq(Ev), NEW next \in Nat, NEW after \in {"loop", "done"},
         next = First(s) + Len(batch),
         Flush(s, First(s), batch, next, after),
         UNCHANGED <<sess, emit, archiverVars>>,
         chan' \in [Session -> Seq(Message)]
  PROVE  IInv'
<1>1. /\ First(s) \in Nat \ {0} /\ Len(batch) \in Nat /\ Len(history) \in Nat
      /\ purged = 0 => First(s) <= Len(history) + 1
  <2>1. cons[s].next \in Nat /\ Len(cons[s].batch) \in Nat
    BY LenProperties DEF IInv, Control, ConsumerState
  <2>2. First(s) \in Int  BY <2>1 DEF First
  <2>3. First(s) >= 1 /\ (purged = 0 => First(s) <= Len(history) + 1)
    BY DEF IInv, Bounds
  <2>4. Len(batch) \in Nat /\ Len(history) \in Nat  BY LenProperties DEF IInv, Rows
  <2> QED BY <2>2, <2>3, <2>4
<1>2. /\ cons \in [Session -> ConsumerState]
      /\ << >> \in Seq(Ev)
  BY EmptySeq DEF IInv, Control
<1>3. published \subseteq Persisted  BY DEF IInv, Told
<1>4. CASE batch # << >> /\ Free(First(s), batch) /\ Insert(First(s), batch)
  <2>1. Writes(First(s), batch)  BY <1>1, <1>4 DEF Writes
  <2>2. /\ Persisted' = Persisted \cup Range(batch)
        /\ Len(history') = Len(history) + Len(batch)
        /\ purged' = purged /\ (purged = 0 => First(s) = Len(history) + 1)
    BY <2>1, InsertAdds DEF IInv
  <2>3. CASE /\ published' = published \cup Range(batch)
             /\ cons' = [cons EXCEPT ![s].pc = after, ![s].next = next, ![s].batch = << >>]
    <3>1. Becomes(s, after, next, << >>) /\ after \in ConsumerPc
      BY <2>3 DEF Becomes, ConsumerPc
    <3>2. /\ cons' \in [Session -> ConsumerState]
          /\ cons'[s].pc = after /\ cons'[s].next = next /\ cons'[s].batch = << >>
          /\ \A r \in Session : r # s => cons'[r] = cons[r]
      BY <1>2, <3>1, ConsumerMoves
    <3>3. Control'  BY <3>2 DEF IInv, Control
    <3>4. First(s)' = next  BY <1>1, <3>2 DEF First
    <3>5. published' \subseteq Persisted'  BY <1>3, <2>2, <2>3
    <3>6. First(s)' >= 1 /\ (purged' = 0 => First(s)' <= Len(history') + 1)
      BY <1>1, <2>2, <3>4
    <3>7. \A r \in Session : cons'[r] = cons[r] \/ r = s  BY <1>2, <2>3
    <3> QED BY <2>1, <3>3, <3>5, <3>6, <3>7, StepKept
  <2>4. CASE /\ Ends(s, "failed") /\ NoInsert /\ UNCHANGED published
    <3>1. Control'  BY <1>2, <2>4, ConsumerEnds DEF IInv, Control
    <3>2. \A r \in Session : cons'[r] = cons[r] \/ cons'[r].pc = "failed"
      BY <1>2, <2>4, ConsumerEnds
    <3>3. Reads  BY <2>4 DEF Reads
    <3>4. published' \subseteq Persisted'  BY <1>3, <2>4 DEF NoInsert, Persisted
    <3> QED BY <3>1, <3>2, <3>3, <3>4, StepKept
  <2> QED BY <1>4, <2>3, <2>4 DEF Flush
<1>5. CASE NoInsert /\ UNCHANGED published
  <2>1. Reads  BY <1>5 DEF Reads
  <2>2. published' \subseteq Persisted'  BY <1>3, <1>5 DEF NoInsert, Persisted
  <2>3. CASE /\ batch = << >>
             /\ cons' = [cons EXCEPT ![s].pc = after, ![s].next = next, ![s].batch = batch]
    <3>1. Becomes(s, after, next, << >>) /\ after \in ConsumerPc
      BY <2>3 DEF Becomes, ConsumerPc
    <3>2. /\ cons' \in [Session -> ConsumerState]
          /\ cons'[s].pc = after /\ cons'[s].next = next /\ cons'[s].batch = << >>
          /\ \A r \in Session : r # s => cons'[r] = cons[r]
      BY <1>2, <3>1, ConsumerMoves
    <3>3. Control'  BY <3>2 DEF IInv, Control
    <3>4. First(s)' = next /\ next = First(s)  BY <1>1, <2>3, <3>2 DEF First
    <3>5. First(s)' >= 1 /\ (purged' = 0 => First(s)' <= Len(history') + 1)
      BY <1>1, <1>5, <3>4 DEF NoInsert, archiverVars
    <3>6. \A r \in Session : cons'[r] = cons[r] \/ r = s  BY <1>2, <2>3
    <3> QED BY <2>1, <2>2, <3>3, <3>5, <3>6, StepKept
  <2>4. CASE Ends(s, "failed") \/ Ends(s, "collided")
    <3>1. Control'  BY <1>2, <2>4, ConsumerEnds DEF IInv, Control
    <3>2. \A r \in Session : cons'[r] = cons[r] \/ cons'[r].pc # "loop"
      BY <1>2, <2>4, ConsumerEnds
    <3> QED BY <2>1, <2>2, <3>1, <3>2, StepKept
  <2>5. \/ batch = << >> /\ cons' = [cons EXCEPT ![s].pc = after, ![s].next = next, ![s].batch = batch]
        \/ Ends(s, "failed") \/ Ends(s, "collided")
        \/ batch # << >> /\ Free(First(s), batch) /\ Insert(First(s), batch)
    BY DEF Flush
  <2> QED BY <1>4, <2>3, <2>4, <2>5
<1> QED BY <1>4, <1>5 DEF Flush

\* The steps of a consumer keep the invariant: what it flushed is what the session
\* sent, in order (consumeSession).
LEMMA ConsumerKept ==
  ASSUME IInv, NEW s \in Session, ConsumerStep(s)
  PROVE  IInv'
<1>1. /\ cons \in [Session -> ConsumerState]
      /\ chan \in [Session -> Seq(Message)]
      /\ << >> \in Seq(Ev) /\ published \subseteq Persisted
  BY EmptySeq DEF IInv, Control, Told
<1>2. /\ cons[s].batch \in Seq(Ev) /\ cons[s].next \in Nat
      /\ Len(cons[s].batch) \in Nat /\ cons[s].next = First(s) + Len(cons[s].batch)
  BY <1>1, LenProperties DEF First, ConsumerState
<1>3. CASE ReadSeq(s)
  <2>1. Reads /\ UNCHANGED <<sess, chan, emit, published>> /\ cons[s].pc = "start"
    BY <1>3 DEF ReadSeq, Reads
  <2>2. published' \subseteq Persisted'  BY <1>1, <2>1 DEF Reads, NoInsert, Persisted
  <2>3. CASE cons' = [cons EXCEPT ![s].pc = "loop", ![s].next = NextSeq]
    <3>1. NextSeq \in Nat \ {0} /\ (purged = 0 => NextSeq = Len(history) + 1)
      BY NextSeqIsFree DEF IInv
    <3>2. cons[s].batch = << >>  BY <1>3 DEF IInv, Control, ReadSeq
    <3>3. Becomes(s, "loop", NextSeq, << >>)
      <4> DEFINE n == NextSeq
      <4>1. cons' = [cons EXCEPT ![s].pc = "loop", ![s].next = n]  BY <2>3
      <4> HIDE DEF n
      <4>2. cons' = [cons EXCEPT ![s].pc = "loop", ![s].next = n, ![s].batch = << >>]
        BY <1>1, <3>2, <4>1 DEF ConsumerState
      <4> QED BY <4>2 DEF n, Becomes
    <3>4. /\ cons' \in [Session -> ConsumerState]
          /\ cons'[s].pc = "loop" /\ cons'[s].next = NextSeq /\ cons'[s].batch = << >>
          /\ \A r \in Session : r # s => cons'[r] = cons[r]
      <4>1. "loop" \in ConsumerPc /\ NextSeq \in Nat  BY <3>1 DEF ConsumerPc
      <4> QED BY <1>1, <3>3, <4>1, ConsumerMoves
    <3>5. Control'  BY <2>1, <3>4 DEF IInv, Control
    <3>6. First(s)' = NextSeq  BY <3>1, <3>4 DEF First
    <3>7. First(s)' >= 1 /\ (purged' = 0 => First(s)' <= Len(history') + 1)
      BY <2>1, <3>1, <3>6 DEF Reads, NoInsert, archiverVars
    <3>8. \A r \in Session : cons'[r] = cons[r] \/ r = s  BY <3>4
    <3> QED BY <2>1, <2>2, <3>5, <3>7, <3>8, StepKept
  <2>4. CASE Ends(s, "failed")
    <3>1. Control'  BY <1>1, <2>1, <2>4, ConsumerEnds DEF IInv, Control
    <3>2. \A r \in Session : cons'[r] = cons[r] \/ cons'[r].pc # "loop"
      BY <1>1, <2>4, ConsumerEnds
    <3> QED BY <2>1, <2>2, <3>1, <3>2, StepKept
  <2> QED BY <1>3, <2>3, <2>4 DEF ReadSeq
<1>4. CASE Receive(s)
  <2> DEFINE ev == Head(chan[s])
             batch == Append(cons[s].batch, Event(s, ev.n))
  <2>1. /\ cons[s].pc = "loop" /\ chan[s] # << >> /\ chan' = [chan EXCEPT ![s] = Tail(@)]
        /\ UNCHANGED <<sess, emit, archiverVars>>
    BY <1>4 DEF Receive
  <2>2. ev \in Message /\ Tail(chan[s]) \in Seq(Message)
    BY <1>1, <2>1, HeadTailProperties
  <2>3. chan' \in [Session -> Seq(Message)]  BY <1>1, <2>1, <2>2
  <2>4. Event(s, ev.n) \in Ev  BY <2>2 DEF Event, Ev, Message
  <2>5. batch \in Seq(Ev) /\ Len(batch) = Len(cons[s].batch) + 1
    BY <1>2, <2>4, AppendProperties
  <2>6. CASE ev.delta
    <3>1. /\ cons' = [cons EXCEPT ![s].next = @ + 1, ![s].batch = batch]
          /\ NoInsert /\ UNCHANGED published
      BY <1>4, <2>6 DEF Receive
    <3> HIDE DEF batch
    <3>2. Becomes(s, "loop", cons[s].next + 1, batch)
      BY <1>1, <2>1, <3>1 DEF Becomes, ConsumerState
    <3>3. /\ cons' \in [Session -> ConsumerState]
          /\ cons'[s].pc = "loop" /\ cons'[s].next = cons[s].next + 1 /\ cons'[s].batch = batch
          /\ \A r \in Session : r # s => cons'[r] = cons[r]
      <4>1. cons[s].next + 1 \in Nat /\ "loop" \in ConsumerPc  BY <1>2 DEF ConsumerPc
      <4> QED BY <1>1, <2>5, <3>2, <4>1, ConsumerMoves
    <3>4. Control'  BY <2>1, <2>3, <3>3 DEF IInv, Control
    <3>5. First(s)' = First(s) /\ First(s) \in Int
      <4>1. cons'[s].next = cons[s].next + 1 /\ Len(cons'[s].batch) = Len(cons[s].batch) + 1
        BY <3>3, <2>5
      <4>2. cons[s].next \in Nat /\ Len(cons[s].batch) \in Nat  BY <1>2
      <4>3. cons'[s].next - Len(cons'[s].batch) = cons[s].next - Len(cons[s].batch)
        <5>1. (cons[s].next + 1) - (Len(cons[s].batch) + 1) = cons[s].next - Len(cons[s].batch)
          BY <4>2
        <5> QED BY <4>1, <5>1, Zenon
      <4>4. First(s)' = First(s)  BY <4>3 DEF First
      <4>5. First(s) \in Int  BY <4>2 DEF First
      <4> QED BY <4>4, <4>5
    <3>6. First(s)' >= 1 /\ (purged' = 0 => First(s)' <= Len(history') + 1)
      BY <2>1, <3>1, <3>5 DEF IInv, Bounds, NoInsert, archiverVars
    <3>7. Reads /\ published' \subseteq Persisted'
      BY <1>1, <2>1, <3>1 DEF Reads, NoInsert, Persisted
    <3> QED BY <2>1, <3>3, <3>4, <3>6, <3>7, StepKept
  <2>7. CASE ~ ev.delta
    <3>1. Flush(s, First(s), batch, cons[s].next + 1, "loop")  BY <1>4, <2>7 DEF Receive
    <3>2. cons[s].next + 1 = First(s) + Len(batch) /\ cons[s].next + 1 \in Nat
      <4>1. First(s) \in Int  BY <1>2 DEF First
      <4> QED BY SMTT(30), <1>2, <2>5, <4>1
    <3> HIDE DEF batch
    <3> QED BY <2>1, <2>3, <2>5, <3>1, <3>2, FlushKept
  <2> QED BY <2>6, <2>7
<1>5. CASE Tick(s)
  BY <1>1, <1>2, <1>5, FlushKept DEF Tick
<1>6. CASE Drained(s)
  BY <1>1, <1>2, <1>6, FlushKept DEF Drained
<1>7. CASE ConsumerCancelled(s)
  <2>1. /\ Reads /\ UNCHANGED <<sess, chan, emit, published>> /\ Ends(s, "failed")
        /\ cons[s].pc = "loop"
    BY <1>7 DEF ConsumerCancelled, Reads
  <2>2. published' \subseteq Persisted'  BY <1>1, <2>1 DEF Reads, NoInsert, Persisted
  <2>3. Control'  BY <1>1, <2>1, ConsumerEnds DEF IInv, Control
  <2>4. \A r \in Session : cons'[r] = cons[r] \/ cons'[r].pc # "loop"
    BY <1>1, <2>1, ConsumerEnds
  <2> QED BY <2>1, <2>2, <2>3, <2>4, StepKept
<1> QED BY <1>3, <1>4, <1>5, <1>6, <1>7 DEF ConsumerStep

-----------------------------------------------------------------------------
\* One lemma per kind of process.
LEMMA SessionMoves ==
  ASSUME sess \in [Session -> SessionState], NEW s \in Session, NEW p \in SessionPc, At(s, p)
  PROVE  /\ sess' \in [Session -> SessionState]
         /\ sess'[s].pc = p
         /\ \A r \in Session : r # s => sess'[r] = sess[r]
<1>1. sess' = [sess EXCEPT ![s].pc = p] /\ sess[s] \in SessionState  BY DEF At
<1>2. sess'[s] \in SessionState /\ sess'[s].pc = p  BY <1>1 DEF SessionState
<1> QED BY <1>1, <1>2

\* The steps of a session keep the invariant, the delta it drops when its channel
\* is full included.
LEMMA SessionKept ==
  ASSUME IInv, NEW s \in Session,
         \/ Start(s) \/ SessionStep(s)
         \/ \E delta, escape \in BOOLEAN : Send(s, delta, escape)
  PROVE  IInv'
<1>1. /\ sess \in [Session -> SessionState] /\ sess[s] \in SessionState
      /\ chan \in [Session -> Seq(Message)]
      /\ cons \in [Session -> ConsumerState]
      /\ \A r \in Session : /\ sess[r].pc = "off" => cons[r].pc = "off"
                            /\ cons[r].pc \in {"off", "start"} => cons[r].batch = << >>
      /\ published \subseteq Persisted
      /\ sess[s].pc = "usage" => Event(s, 0) \in Persisted
  BY DEF IInv, Control, Told
<1>2. Event(s, 0) \in Ev  BY DEF Event, Ev
<1>3. \A p \in {"off", "run", "open", "idle", "closed", "usage", "over"} : p \in SessionPc
  BY DEF SessionPc
<1>4. CASE Start(s)
  <2>1. Reads /\ UNCHANGED <<published, chan, emit>>  BY <1>4 DEF Start, Reads
  <2>2. At(s, "run") /\ cons' = [cons EXCEPT ![s].pc = "start"]  BY <1>4 DEF Start
  <2>3. cons'[s] \in ConsumerState /\ cons'[s].pc = "start" /\ cons'[s].batch = cons[s].batch
    BY <1>1, <2>2 DEF ConsumerState, ConsumerPc
  <2>4. cons' \in [Session -> ConsumerState] /\ \A r \in Session : r # s => cons'[r] = cons[r]
    BY <1>1, <2>2, <2>3
  <2>5. cons[s].batch = << >>  BY <1>1, <1>4 DEF Start
  <2>6. \A r \in Session : cons'[r].pc \in {"off", "start"} => cons'[r].batch = << >>
    BY <1>1, <2>3, <2>4, <2>5
  <2>7. /\ sess' \in [Session -> SessionState] /\ sess'[s].pc = "run"
        /\ \A r \in Session : r # s => sess'[r] = sess[r]
    <3>1. "run" \in SessionPc  BY <1>3
    <3> QED BY <1>1, <2>2, <3>1, SessionMoves
  <2>8. Control'  BY <1>1, <2>1, <2>4, <2>6, <2>7 DEF IInv, Control
  <2>9. \A r \in Session : /\ sess'[r].pc = "usage" => sess[r].pc = "usage"
                           /\ cons'[r].pc = "loop" => cons'[r] = cons[r]
    BY <2>3, <2>4, <2>7
  <2>10. published' \subseteq Persisted'
    BY <1>1, <2>1 DEF Reads, NoInsert, Persisted
  <2> QED BY <2>1, <2>8, <2>9, <2>10, StepKept
<1>5. ASSUME Reads, UNCHANGED <<consumerVars, emit>>,
             published' \subseteq published \cup {Event(s, 0)},
             published' # published => sess[s].pc = "usage",
             NEW p \in {"closed", "idle", "over"}, At(s, p)
      PROVE  IInv'
  <2>1. Control'
    BY ZenonT(60), <1>1, <1>3, <1>5, SessionMoves DEF IInv, Control, consumerVars
  <2>2. \A r \in Session : sess'[r].pc = "usage" => sess[r].pc = "usage"
    BY <1>1, <1>3, <1>5, SessionMoves
  <2>3. published' \subseteq Persisted'
    BY <1>1, <1>5 DEF Reads, NoInsert, Persisted
  <2> QED BY <1>5, <2>1, <2>2, <2>3, StepKept DEF consumerVars
<1>6. ASSUME Reads, UNCHANGED <<published, cons, emit>>, NEW delta \in BOOLEAN, Put(s, delta),
             NEW p \in {"open", "closed"}, NEW e \in BOOLEAN,
             sess' = [sess EXCEPT ![s].pc = p, ![s].sent = @ + 1, ![s].escaped = e]
      PROVE  IInv'
  <2>1. sess[s].sent \in Nat  BY <1>1 DEF SessionState
  <2>2. chan' \in [Session -> Seq(Message)]
    <3>1. [n |-> sess[s].sent + 1, delta |-> delta] \in Message  BY <2>1 DEF Message
    <3>2. Append(chan[s], [n |-> sess[s].sent + 1, delta |-> delta]) \in Seq(Message)
      BY <1>1, <3>1, AppendProperties
    <3> QED BY <1>1, <1>6, <3>2 DEF Put
  <2>3. /\ sess' \in [Session -> SessionState] /\ sess'[s].pc = p
        /\ \A r \in Session : r # s => sess'[r] = sess[r]
    <3>1. sess'[s] = [sess[s] EXCEPT !.pc = p, !.sent = @ + 1, !.escaped = e]
      BY <1>1, <1>6
    <3>2. sess'[s] \in SessionState /\ sess'[s].pc = p
      <4>1. sess[s].sent + 1 \in Nat /\ p \in SessionPc  BY <1>3, <2>1
      <4> QED BY <1>1, <3>1, <4>1 DEF SessionState
    <3> QED BY <1>1, <1>6, <3>2
  <2>4. Control'  BY <1>6, <2>2, <2>3 DEF IInv, Control
  <2>5. published' \subseteq Persisted'
    BY <1>1, <1>6 DEF Reads, NoInsert, Persisted
  <2>6. \A r \in Session : sess'[r].pc = "usage" => sess[r].pc = "usage"  BY <2>3
  <2> QED BY <1>6, <2>4, <2>5, <2>6, StepKept
<1>7. CASE Usage(s)
  <2>1. UNCHANGED <<published, consumerVars, emit, archiverVars>>  BY <1>7 DEF Usage
  <2>2. CASE Insert(NextSeq, <<Event(s, 0)>>) /\ At(s, "usage")
    <3>1. /\ NextSeq \in Nat \ {0} /\ Free(NextSeq, <<Event(s, 0)>>)
          /\ purged = 0 => NextSeq = Len(history) + 1
      BY NextSeqIsFree DEF IInv
    <3>2. <<Event(s, 0)>> \in Seq(Ev) /\ <<Event(s, 0)>> # << >>  BY <1>2
    <3>3. Len(history) \in Nat  BY LenProperties DEF IInv, Rows
    <3>4. Writes(NextSeq, <<Event(s, 0)>>)  BY <2>1, <2>2, <3>1, <3>2, <3>3 DEF Writes
    <3>5. Persisted' = Persisted \cup {Event(s, 0)}
      <4>1. Range(<<Event(s, 0)>>) = {Event(s, 0)}  BY DEF Range
      <4> QED BY <3>4, <4>1, InsertAdds DEF IInv
    <3>6. Control'  BY <1>1, <1>3, <2>1, <2>2, SessionMoves DEF IInv, Control, consumerVars
    <3>7. \A r \in Session : sess'[r].pc = "usage" => sess[r].pc = "usage" \/ Event(r, 0) \in Persisted'
      BY <1>1, <1>3, <2>2, <3>5, SessionMoves
    <3>8. published' \subseteq Persisted'  BY <1>1, <2>1, <3>5
    <3> QED BY <2>1, <3>4, <3>6, <3>7, <3>8, StepKept DEF consumerVars
  <2>3. CASE NoInsert /\ At(s, "over")
    BY <1>5, <2>1, <2>3 DEF Reads
  <2> QED BY <1>7, <2>2, <2>3 DEF Usage
<1>8. CASE NoSession(s)
  BY <1>5, <1>8 DEF NoSession, Close, Reads
<1>9. CASE Idle(s)
  BY <1>5, <1>9 DEF Idle, Close, Reads
<1>10. CASE Abandon(s)
  BY <1>5, <1>10 DEF Abandon, Close, Reads
<1>11. CASE UsagePublish(s)
  BY <1>5, <1>11 DEF UsagePublish, Reads
<1>12. CASE SessionStart(s)
  <2>1. /\ Reads /\ UNCHANGED <<published, cons, emit>> /\ Put(s, FALSE)
        /\ sess' = [sess EXCEPT ![s].pc = "open", ![s].sent = @ + 1]
    BY <1>12 DEF SessionStart, Reads
  <2>2. sess[s].escaped \in BOOLEAN  BY <1>1 DEF SessionState
  <2>3. sess' = [sess EXCEPT ![s].pc = "open", ![s].sent = @ + 1, ![s].escaped = sess[s].escaped]
    BY <1>1, <2>1 DEF SessionState
  <2> QED BY <1>6, <2>1, <2>2, <2>3
<1>13. CASE SessionIdle(s)
  <2>1. /\ Reads /\ UNCHANGED <<published, cons, emit>> /\ Put(s, FALSE)
        /\ sess' = [sess EXCEPT ![s].pc = "closed", ![s].sent = @ + 1]
    BY <1>13 DEF SessionIdle, Reads
  <2>2. sess[s].escaped \in BOOLEAN  BY <1>1 DEF SessionState
  <2>3. sess' = [sess EXCEPT ![s].pc = "closed", ![s].sent = @ + 1, ![s].escaped = sess[s].escaped]
    BY <1>1, <2>1 DEF SessionState
  <2> QED BY <1>6, <2>1, <2>2, <2>3
<1>14. ASSUME NEW delta \in BOOLEAN, NEW escape \in BOOLEAN, Send(s, delta, escape)
       PROVE  IInv'
  <2>1. /\ Reads /\ UNCHANGED <<published, cons, emit>> /\ Put(s, delta)
        /\ sess' = [sess EXCEPT ![s].sent = @ + 1, ![s].escaped = @ \/ escape]
        /\ sess[s].pc = "open"
    BY <1>14 DEF Send, Reads
  <2>2. (sess[s].escaped \/ escape) \in BOOLEAN  OBVIOUS
  <2>3. sess' = [sess EXCEPT ![s].pc = "open", ![s].sent = @ + 1, ![s].escaped = (sess[s].escaped \/ escape)]
    BY <1>1, <2>1 DEF SessionState
  <2> QED BY <1>6, <2>1, <2>2, <2>3
<1> QED BY <1>4, <1>7, <1>8, <1>9, <1>10, <1>11, <1>12, <1>13, <1>14 DEF SessionStep

\* The emitters beside the sessions, which number their events from the table, keep
\* the invariant.
LEMMA EmitterKept ==
  ASSUME IInv, NEW e \in Emitter,
         AppendAutoSeq(e) \/ GcRead(e) \/ GcAppend(e) \/ EmitPublish(e)
  PROVE  IInv'
<1> DEFINE Place == {"off", "append", "publish", "over"}
<1>1. /\ emit \in [Emitter -> [pc : Place, seq : Nat]]
      /\ published \subseteq Persisted
      /\ emit[e].pc = "publish" => Event(e, 0) \in Persisted
  BY DEF IInv, Control, Told
<1>2. Event(e, 0) \in Ev /\ <<Event(e, 0)>> \in Seq(Ev) /\ <<Event(e, 0)>> # << >>
  BY DEF Event, Ev
<1>3. Range(<<Event(e, 0)>>) = {Event(e, 0)}  BY DEF Range
<1>4. Len(history) \in Nat  BY LenProperties DEF IInv, Rows
<1>5. ASSUME NEW p \in Place, EmitAt(e, p)
      PROVE  /\ emit' \in [Emitter -> [pc : Place, seq : Nat]] /\ emit'[e].pc = p
             /\ \A d \in Emitter : d # e => emit'[d] = emit[d]
  BY <1>1, <1>5 DEF EmitAt
<1>6. ASSUME NEW first, Writes(first, <<Event(e, 0)>>),
             UNCHANGED <<published, sess, consumerVars>>, NEW p \in {"publish", "over"}, EmitAt(e, p)
      PROVE  IInv'
  <2>1. Persisted' = Persisted \cup {Event(e, 0)}  BY <1>3, <1>6, InsertAdds DEF IInv
  <2>2. Control'  BY <1>5, <1>6 DEF IInv, Control, consumerVars
  <2>3. \A d \in Emitter : /\ emit'[d].pc = "append" => emit'[d] = emit[d]
                           /\ emit'[d].pc = "publish" => emit'[d] = emit[d] \/ Event(d, 0) \in Persisted'
    BY <1>5, <1>6, <2>1
  <2>4. published' \subseteq Persisted'  BY <1>1, <1>6, <2>1
  <2> QED BY <1>6, <2>2, <2>3, <2>4, StepKept DEF consumerVars
<1>7. ASSUME Reads, UNCHANGED <<sess, consumerVars>>,
             published' \subseteq published \cup {Event(e, 0)},
             published' # published => emit[e].pc = "publish", EmitAt(e, "over")
      PROVE  IInv'
  <2>1. Control'  BY <1>5, <1>7 DEF IInv, Control, consumerVars
  <2>2. \A d \in Emitter : emit'[d].pc \in {"append", "publish"} => emit'[d] = emit[d]
    BY <1>5, <1>7
  <2>3. published' \subseteq Persisted'  BY <1>1, <1>7 DEF Reads, NoInsert, Persisted
  <2> QED BY <1>7, <2>1, <2>2, <2>3, StepKept DEF consumerVars
<1>8. CASE AppendAutoSeq(e)
  <2>1. UNCHANGED <<published, sess, consumerVars, archiverVars>>  BY <1>8 DEF AppendAutoSeq
  <2>2. CASE Insert(NextSeq, <<Event(e, 0)>>) /\ EmitAt(e, "publish")
    <3>1. /\ NextSeq \in Nat \ {0} /\ Free(NextSeq, <<Event(e, 0)>>)
          /\ purged = 0 => NextSeq = Len(history) + 1
      BY NextSeqIsFree DEF IInv
    <3>2. Writes(NextSeq, <<Event(e, 0)>>)  BY <1>2, <1>4, <2>1, <2>2, <3>1 DEF Writes
    <3> QED BY <1>6, <2>1, <2>2, <3>2
  <2>3. CASE NoInsert /\ EmitAt(e, "over")  BY <1>7, <2>1, <2>3 DEF Reads
  <2> QED BY <1>8, <2>2, <2>3 DEF AppendAutoSeq
<1>9. CASE GcRead(e)
  <2>1. /\ Reads /\ UNCHANGED <<published, sess, consumerVars, purged>>
        /\ emit' = [emit EXCEPT ![e].pc = "append", ![e].seq = NextSeq]
    BY <1>9 DEF GcRead, Reads, archiverVars
  <2>2. NextSeq \in Nat \ {0} /\ (purged = 0 => NextSeq = Len(history) + 1)
    BY NextSeqIsFree DEF IInv
  <2>3. /\ emit' \in [Emitter -> [pc : Place, seq : Nat]] /\ emit'[e].seq = NextSeq
        /\ emit'[e].pc = "append"
        /\ \A d \in Emitter : d # e => emit'[d] = emit[d]
    BY <1>1, <2>1, <2>2
  <2>4. Control'  BY <2>1, <2>3 DEF IInv, Control, consumerVars
  <2>5. \A d \in Emitter : emit'[d].pc = "append" =>
          \/ emit'[d] = emit[d]
          \/ emit'[d].seq >= 1 /\ (purged' = 0 => emit'[d].seq <= Len(history') + 1)
    BY <1>4, <2>1, <2>2, <2>3 DEF Reads, NoInsert
  <2>6. \A d \in Emitter : emit'[d].pc = "publish" => emit'[d] = emit[d]  BY <2>3
  <2>7. published' \subseteq Persisted'  BY <1>1, <2>1 DEF Reads, NoInsert, Persisted
  <2> QED BY <2>1, <2>4, <2>5, <2>6, <2>7, StepKept DEF consumerVars
<1>10. CASE GcAppend(e)
  <2>1. UNCHANGED <<published, sess, consumerVars, archiverVars>> /\ emit[e].pc = "append"
    BY <1>10 DEF GcAppend
  <2>2. CASE /\ Free(emit[e].seq, <<e>>) /\ Insert(emit[e].seq, <<Event(e, 0)>>)
             /\ EmitAt(e, "publish") \/ EmitAt(e, "over")
    <3>1. Free(emit[e].seq, <<Event(e, 0)>>)
      <4>1. Len(<<e>>) = 1 /\ Len(<<Event(e, 0)>>) = 1  OBVIOUS
      <4> QED BY <2>2, <4>1 DEF Free
    <3>2. /\ emit[e].seq \in Nat \ {0}
          /\ purged = 0 => emit[e].seq <= Len(history) + 1
      BY <1>1, <2>1 DEF IInv, Bounds
    <3>3. Writes(emit[e].seq, <<Event(e, 0)>>)  BY <1>2, <2>1, <2>2, <3>1, <3>2 DEF Writes
    <3> QED BY <1>6, <2>1, <2>2, <3>3
  <2>3. CASE NoInsert /\ EmitAt(e, "over")  BY <1>7, <2>1, <2>3 DEF Reads
  <2> QED BY <1>10, <2>2, <2>3 DEF GcAppend
<1>11. CASE EmitPublish(e)
  BY <1>7, <1>11 DEF EmitPublish, Reads
<1> QED BY <1>8, <1>9, <1>10, <1>11

-----------------------------------------------------------------------------
\* The invariant holds in every state.
LEMMA Inductive == Spec => []IInv
<1>1. Init => IInv
  <2> SUFFICES ASSUME Init PROVE IInv  OBVIOUS
  <2>1. /\ table = << >> /\ history = << >> /\ purged = 0 /\ published = {} /\ window = {}
        /\ archived = {} /\ arch = [pc |-> "off", list |-> {}]
        /\ sess = [s \in Session |-> [pc |-> "off", sent |-> 0, escaped |-> FALSE]]
        /\ chan = [s \in Session |-> << >>]
        /\ cons = [s \in Session |-> [pc |-> "off", next |-> 0, batch |-> << >>]]
        /\ emit = [e \in Emitter |-> [pc |-> "off", seq |-> 0]]
    BY DEF Init
  <2>2. Rows /\ LogIsHistory  BY <2>1, EmptySeq DEF Rows, HasLast, LogIsHistory
  <2>3. Control
    <3>1. << >> \in Seq(Ev) /\ << >> \in Seq(Message)  BY EmptySeq
    <3> QED BY <2>1, <3>1 DEF Control, ConsumerState, ConsumerPc, SessionState, SessionPc
  <2>4. Bounds  BY <2>1 DEF Bounds
  <2>5. Told  BY <2>1 DEF Told
  <2>6. Archiving /\ NothingVanishes
    BY <2>1 DEF Archiving, NothingVanishes, Persisted, Range
  <2> QED BY <2>2, <2>3, <2>4, <2>5, <2>6 DEF IInv
<1>2. IInv /\ [Next]_vars => IInv'
  <2> SUFFICES ASSUME IInv, [Next]_vars PROVE IInv'  OBVIOUS
  <2>1. ASSUME Cancel \/ Archives \/ UNCHANGED vars PROVE IInv'
    <3>1. UNCHANGED <<published, sess, consumerVars, emit>>
      BY <2>1 DEF Cancel, Archives, ArchiveList, ArchiveWrite, ArchiveDelete, vars, consumerVars
    <3>2. Reads \/ Archives
      BY <2>1 DEF Cancel, Reads, NoInsert, vars, archiverVars
    <3>3. Control'  BY <3>1 DEF IInv, Control, consumerVars
    <3>4. Persisted \subseteq Persisted'  BY <3>2, LogKept
    <3>5. published' \subseteq Persisted'  BY <3>1, <3>4 DEF IInv, Told
    <3> QED BY <3>1, <3>2, <3>3, <3>5, StepKept DEF consumerVars
  <2> QED BY <2>1, SessionKept, ConsumerKept, EmitterKept DEF Next, Archives
<1> QED BY <1>1, <1>2, PTL DEF Spec

\* Until something is purged the log is its own history, for any number of sessions,
\* emitters and faults: consumeEvents' cached numbers never make a gap or a swap
\* (orchestrator.go:1395-1482, event_store.go).
THEOREM LogFollowsHistory == Spec => []LogIsHistory
BY Inductive, PTL DEF IInv

\* Whatever a window is told of has been committed before (orchestrator.go:1412-1440).
THEOREM ToldIsPersisted == Spec => []PublishedPersisted
<1>1. IInv => PublishedPersisted  BY DEF IInv, Told, PublishedPersisted
<1> QED BY <1>1, Inductive, PTL

\* The archiver loses nothing but what is committed between its listing and its
\* delete, however often it runs and whatever fails (reaper/service.go:197-320).
THEOREM ArchiverKeepsEvents == Spec => []NothingVanishes
BY Inductive, PTL DEF IInv

-----------------------------------------------------------------------------
(* The streams: what is kept of a session.                                  *)

\* How many events of a session have left the channel and the batch.
Kept(s) == sess[s].sent - Len(chan[s]) - Len(cons[s].batch)

Alive(s) == cons[s].pc \in {"off", "start", "loop"}

\* History, batch and channel, in this order, hold what the session has sent.
Stream(s) ==
  Alive(s) =>
    /\ Kept(s) \in Nat
    /\ \A i \in DOMAIN cons[s].batch : cons[s].batch[i] = Event(s, Kept(s) + i)
    /\ \A i \in DOMAIN chan[s] : chan[s][i].n = Kept(s) + Len(cons[s].batch) + i
    /\ \A i \in DOMAIN history : history[i].src = s => history[i].n \in 1 .. Kept(s)
    /\ \A m \in 1 .. Kept(s) : \E i \in DOMAIN history : history[i] = Event(s, m)

\* The usage record is the last event: its consumer is gone when it is written.
UsageLast(s) ==
  /\ sess[s].pc \in {"usage", "over"} => ~ Alive(s)
  /\ sess[s].pc \notin {"usage", "over"} =>
       \A i \in DOMAIN history : history[i].src = s => history[i].n # 0

\* The part of SessionPrefix that is about one session.
Prefix(s) ==
  \A i \in DOMAIN history : history[i].src = s =>
    /\ \A j \in 1 .. i - 1 : history[j].src = s =>
         history[j].n > 0 /\ (history[i].n = 0 \/ history[j].n < history[i].n)
    /\ history[i].n > 1 => \E j \in 1 .. i - 1 : history[j] = Event(s, history[i].n - 1)

Follows(s) == Stream(s) /\ UsageLast(s) /\ Prefix(s)

\* The history grows at its end only.
LEMMA HistoryGrows ==
  ASSUME NEW b \in Seq(Ev), history \in Seq(Ev), history' = history \o b
  PROVE  /\ history' \in Seq(Ev)
         /\ Len(history) \in Nat /\ Len(b) \in Nat
         /\ DOMAIN history = 1 .. Len(history) /\ DOMAIN b = 1 .. Len(b)
         /\ DOMAIN history' = 1 .. Len(history) + Len(b)
         /\ \A i \in DOMAIN history : i \in DOMAIN history' /\ history'[i] = history[i]
         /\ \A i \in DOMAIN b : /\ Len(history) + i \in DOMAIN history'
                                /\ history'[Len(history) + i] = b[i]
         /\ \A i \in DOMAIN history' : i \in DOMAIN history \/ i - Len(history) \in DOMAIN b
         /\ \A i \in DOMAIN history' : i \notin DOMAIN history =>
              /\ i > Len(history) /\ i = Len(history) + (i - Len(history))
              /\ history'[i] = b[i - Len(history)]
<1>1. /\ Len(history) \in Nat /\ Len(b) \in Nat
      /\ DOMAIN history = 1 .. Len(history) /\ DOMAIN b = 1 .. Len(b)
      /\ history' \in Seq(Ev) /\ Len(history') = Len(history) + Len(b)
  BY LenProperties, ConcatProperties
<1>2. DOMAIN history' = 1 .. Len(history) + Len(b)  BY <1>1, LenProperties
<1>3. \A i \in 1 .. Len(history) + Len(b) :
        history'[i] = IF i <= Len(history) THEN history[i] ELSE b[i - Len(history)]
  BY ConcatProperties
<1>4. \A i \in 1 .. Len(history) : i \in 1 .. Len(history) + Len(b) /\ i <= Len(history)
  BY <1>1
<1>5. \A i \in 1 .. Len(b) : /\ Len(history) + i \in 1 .. Len(history) + Len(b)
                             /\ ~ (Len(history) + i <= Len(history))
                             /\ Len(history) + i - Len(history) = i
  BY <1>1
<1>6. \A i \in 1 .. Len(history) + Len(b) : i \notin 1 .. Len(history) =>
        /\ i - Len(history) \in 1 .. Len(b) /\ i > Len(history) /\ ~ (i <= Len(history))
        /\ i = Len(history) + (i - Len(history))
  BY <1>1
<1> QED BY <1>1, <1>2, <1>3, <1>4, <1>5, <1>6

\* Events of others do not touch the stream of a session that stands still.
LEMMA OthersAppend ==
  ASSUME NEW s \in Session, Follows(s), history \in Seq(Ev),
         NEW b \in Seq(Ev), history' = history \o b,
         \A i \in DOMAIN b : b[i].src # s,
         sess'[s] = sess[s], chan'[s] = chan[s], cons'[s] = cons[s]
  PROVE  Follows(s)'
<1> DEFINE L == Len(history)
<1>1. /\ L \in Nat /\ DOMAIN history = 1 .. L
      /\ \A i \in DOMAIN history : i \in DOMAIN history' /\ history'[i] = history[i]
      /\ \A i \in DOMAIN history' : i \in DOMAIN history \/ history'[i].src # s
  BY HistoryGrows
<1>2. Kept(s)' = Kept(s) /\ Alive(s)' = Alive(s)  BY DEF Kept, Alive
<1>3. Stream(s)'
  BY <1>1, <1>2 DEF Follows, Stream, Event
<1>4. UsageLast(s)'
  BY <1>1, <1>2 DEF Follows, UsageLast
<1>5. Prefix(s)'
  <2> SUFFICES ASSUME NEW i \in DOMAIN history', history'[i].src = s
      PROVE  /\ \A j \in 1 .. i - 1 : history'[j].src = s =>
                  history'[j].n > 0 /\ (history'[i].n = 0 \/ history'[j].n < history'[i].n)
             /\ history'[i].n > 1 => \E j \in 1 .. i - 1 : history'[j] = Event(s, history'[i].n - 1)
    BY DEF Prefix, Event
  <2>1. i \in 1 .. L /\ history'[i] = history[i]  BY <1>1
  <2>2. \A j \in 1 .. i - 1 : j \in 1 .. L /\ history'[j] = history[j]  BY <1>1, <2>1
  <2> QED BY <2>1, <2>2, <1>1 DEF Follows, Prefix
<1> QED BY <1>3, <1>4, <1>5 DEF Follows

\* A step that neither commits nor moves an event: the stream goes on, or its
\* consumer is gone for good.
LEMMA StreamRests ==
  ASSUME NEW s \in Session, Follows(s), history' = history,
         \/ Alive(s)' = FALSE
         \/ Alive(s)' = Alive(s) /\ Kept(s)' = Kept(s) /\ chan'[s] = chan[s]
              /\ cons'[s].batch = cons[s].batch,
         sess'[s].pc \in {"usage", "over"} => ~ Alive(s)',
         sess[s].pc \in {"usage", "over"} => sess'[s].pc \in {"usage", "over"}
  PROVE  Follows(s)'
<1>1. Stream(s)'  BY DEF Follows, Stream, Event
<1>2. UsageLast(s)'  BY DEF Follows, UsageLast
<1>3. Prefix(s)'  BY DEF Follows, Prefix, Event
<1> QED BY <1>1, <1>2, <1>3 DEF Follows

\* One send: the next number of the session enters its channel.
LEMMA StreamSent ==
  ASSUME NEW s \in Session, Follows(s), Control, history' = history, cons' = cons,
         NEW delta \in BOOLEAN, Put(s, delta),
         sess'[s].sent = sess[s].sent + 1,
         sess[s].pc \notin {"usage", "over"}, sess'[s].pc \notin {"usage", "over"}
  PROVE  Follows(s)'
<1> DEFINE m == [n |-> sess[s].sent + 1, delta |-> delta]
<1>1. /\ sess[s].sent \in Nat /\ chan[s] \in Seq(Message) /\ cons[s].batch \in Seq(Ev)
      /\ chan \in [Session -> Seq(Message)]
  BY DEF Control, SessionState, ConsumerState
<1>2. m \in Message  BY <1>1 DEF Message
<1>3. chan'[s] = Append(chan[s], m)  BY <1>1 DEF Put
<1>4. /\ Len(chan[s]) \in Nat /\ Len(cons[s].batch) \in Nat
      /\ Len(chan'[s]) = Len(chan[s]) + 1
      /\ DOMAIN chan[s] = 1 .. Len(chan[s])
      /\ DOMAIN chan'[s] = 1 .. Len(chan[s]) + 1
      /\ \A i \in 1 .. Len(chan[s]) : chan'[s][i] = chan[s][i]
      /\ chan'[s][Len(chan[s]) + 1] = m
  <2> HIDE DEF m
  <2> QED BY <1>1, <1>2, <1>3, AppendProperties, LenProperties
<1>5. Kept(s)' = Kept(s) /\ Alive(s)' = Alive(s)
  <2> HIDE DEF m
  <2>0. \A x, y, z \in Nat : (x + 1) - (y + 1) - z = x - y - z  OBVIOUS
  <2>1. (sess[s].sent + 1) - (Len(chan[s]) + 1) - Len(cons[s].batch)
          = sess[s].sent - Len(chan[s]) - Len(cons[s].batch)
    BY <2>0, <1>1, <1>4, Zenon
  <2>2. sess'[s].sent - Len(chan'[s]) - Len(cons'[s].batch)
          = sess[s].sent - Len(chan[s]) - Len(cons[s].batch)
    BY <2>1, <1>4, Zenon
  <2> QED BY <2>2 DEF Kept, Alive
<1>6. Stream(s)'
  <2> SUFFICES ASSUME Alive(s) PROVE Stream(s)'  BY <1>5 DEF Stream
  <2>1. /\ Kept(s) \in Nat
        /\ \A i \in DOMAIN chan[s] : chan[s][i].n = Kept(s) + Len(cons[s].batch) + i
    BY DEF Follows, Stream
  <2>2. ASSUME NEW i \in DOMAIN chan'[s]
        PROVE  chan'[s][i].n = Kept(s) + Len(cons[s].batch) + i
    <3>1. CASE i \in 1 .. Len(chan[s])  BY <3>1, <2>1, <1>4
    <3>2. CASE i = Len(chan[s]) + 1
      <4>1. chan'[s][i].n = sess[s].sent + 1  BY <3>2, <1>4
      <4>2. sess[s].sent = Kept(s) + Len(cons[s].batch) + Len(chan[s])
        BY <1>1, <1>4 DEF Kept
      <4>3. Kept(s) \in Nat /\ Len(cons[s].batch) \in Nat /\ Len(chan[s]) \in Nat
        BY <2>1, <1>4
      <4>4. \A x, y, z \in Nat : x + y + z + 1 = x + y + (z + 1)  OBVIOUS
      <4>5. Kept(s) + Len(cons[s].batch) + Len(chan[s]) + 1
              = Kept(s) + Len(cons[s].batch) + (Len(chan[s]) + 1)
        BY <4>3, <4>4, Zenon
      <4> QED BY <4>1, <4>2, <4>5, <3>2, Zenon
    <3> QED BY <3>1, <3>2, <1>4
  <2> QED BY <1>5, <2>2 DEF Follows, Stream, Event
<1>7. UsageLast(s)'  BY <1>5 DEF Follows, UsageLast
<1>8. Prefix(s)'  BY DEF Follows, Prefix, Event
<1> QED BY <1>6, <1>7, <1>8 DEF Follows

\* One receipt: the head of the channel is the number the batch needs next.
Taken(s) == Append(cons[s].batch, Event(s, Head(chan[s]).n))
Rest(s)  == Tail(chan[s])

\* Receiving moves one number from the channel to the batch, and the two together
\* still hold what the session sent after what was kept.
LEMMA StreamReceived ==
  ASSUME NEW s \in Session, Follows(s), Control, Alive(s), chan[s] # << >>
  PROVE  /\ Taken(s) \in Seq(Ev) /\ Rest(s) \in Seq(Message)
         /\ Kept(s) = sess[s].sent - Len(Rest(s)) - Len(Taken(s))
         /\ \A i \in DOMAIN Taken(s) : Taken(s)[i] = Event(s, Kept(s) + i)
         /\ \A i \in DOMAIN Rest(s) : Rest(s)[i].n = Kept(s) + Len(Taken(s)) + i
<1> DEFINE b == Taken(s)
           rest == Rest(s)
<1>a. b = Append(cons[s].batch, Event(s, Head(chan[s]).n)) /\ rest = Tail(chan[s])
  BY DEF Taken, Rest
<1> HIDE DEF b, rest
<1>1. /\ sess[s].sent \in Nat /\ chan[s] \in Seq(Message) /\ cons[s].batch \in Seq(Ev)
  BY DEF Control, SessionState, ConsumerState
<1>2. /\ Kept(s) \in Nat
      /\ \A i \in DOMAIN cons[s].batch : cons[s].batch[i] = Event(s, Kept(s) + i)
      /\ \A i \in DOMAIN chan[s] : chan[s][i].n = Kept(s) + Len(cons[s].batch) + i
  BY DEF Follows, Stream
<1>3. /\ rest \in Seq(Message) /\ Head(chan[s]) \in Message /\ Head(chan[s]) = chan[s][1]
      /\ Len(chan[s]) \in Nat \ {0} /\ Len(rest) = Len(chan[s]) - 1
      /\ DOMAIN chan[s] = 1 .. Len(chan[s]) /\ DOMAIN rest = 1 .. Len(chan[s]) - 1
      /\ \A i \in 1 .. Len(rest) : rest[i] = chan[s][i + 1]
  <2>1. Len(chan[s]) # 0  BY <1>1, EmptySeq
  <2>2. Len(chan[s]) \in Nat \ {0}  BY <2>1, <1>1, LenProperties
  <2> QED BY <2>2, <1>1, <1>a, HeadTailProperties, LenProperties
<1>4. Event(s, Head(chan[s]).n) \in Ev  BY <1>3 DEF Event, Ev, Message
<1>5. /\ b \in Seq(Ev) /\ Len(cons[s].batch) \in Nat /\ Len(b) = Len(cons[s].batch) + 1
      /\ DOMAIN cons[s].batch = 1 .. Len(cons[s].batch)
      /\ DOMAIN b = 1 .. Len(cons[s].batch) + 1
      /\ \A i \in 1 .. Len(cons[s].batch) : b[i] = cons[s].batch[i]
      /\ b[Len(cons[s].batch) + 1] = Event(s, Head(chan[s]).n)
  BY <1>1, <1>4, <1>a, AppendProperties, LenProperties
<1>6. Kept(s) = sess[s].sent - Len(rest) - Len(b)
  <2>1. \A x, y, z \in Nat : x - (y - 1) - (z + 1) = x - y - z  OBVIOUS
  <2>2. sess[s].sent - (Len(chan[s]) - 1) - (Len(cons[s].batch) + 1)
          = sess[s].sent - Len(chan[s]) - Len(cons[s].batch)
    BY <1>1, <1>3, <1>5, <2>1
  <2>3. sess[s].sent - Len(rest) - Len(b) = sess[s].sent - Len(chan[s]) - Len(cons[s].batch)
    BY <1>3, <1>5, <2>2, Zenon
  <2> QED BY <2>3 DEF Kept
<1>7. \A i \in DOMAIN b : b[i] = Event(s, Kept(s) + i)
  <2>1. Head(chan[s]).n = Kept(s) + Len(cons[s].batch) + 1
    <3>1. 1 \in DOMAIN chan[s]  BY <1>3
    <3> QED BY <3>1, <1>2, <1>3, Zenon
  <2>2. Head(chan[s]).n = Kept(s) + (Len(cons[s].batch) + 1)  BY <2>1, <1>2, <1>5
  <2>3. \A i \in 1 .. Len(cons[s].batch) + 1 :
          i \in 1 .. Len(cons[s].batch) \/ i = Len(cons[s].batch) + 1
    BY <1>5
  <2>4. \A i \in 1 .. Len(cons[s].batch) : b[i] = Event(s, Kept(s) + i)
    BY <1>2, <1>5
  <2>5. b[Len(cons[s].batch) + 1] = Event(s, Kept(s) + (Len(cons[s].batch) + 1))
    BY <2>2, <1>5, Zenon
  <2> QED BY <2>3, <2>4, <2>5, <1>5
<1>8. \A i \in DOMAIN rest : rest[i].n = Kept(s) + Len(b) + i
  <2> TAKE i \in DOMAIN rest
  <2>1. i \in 1 .. Len(chan[s]) - 1 /\ i + 1 \in 1 .. Len(chan[s])  BY <1>3
  <2>2. rest[i].n = Kept(s) + Len(cons[s].batch) + (i + 1)  BY <2>1, <1>2, <1>3
  <2>3. \A x, y, z \in Nat : x + y + (z + 1) = x + (y + 1) + z  OBVIOUS
  <2>4. Kept(s) + Len(cons[s].batch) + (i + 1) = Kept(s) + (Len(cons[s].batch) + 1) + i
    <3>1. i \in Nat  BY <2>1, <1>3
    <3>2. Kept(s) \in Nat /\ Len(cons[s].batch) \in Nat  BY <1>2, <1>5
    <3> QED BY <2>3, <3>1, <3>2, Zenon
  <2> QED BY <2>2, <2>4, <1>5, Zenon
<1> QED BY <1>3, <1>5, <1>6, <1>7, <1>8 DEF b, rest

\* A flush commits the next numbers of the session, in order.
LEMMA StreamFlushed ==
  ASSUME NEW s \in Session, Follows(s), Alive(s), history \in Seq(Ev),
         NEW b \in Seq(Ev), history' = history \o b,
         \A i \in DOMAIN b : b[i] = Event(s, Kept(s) + i),
         \A i \in DOMAIN chan'[s] : chan'[s][i].n = Kept(s) + Len(b) + i,
         Kept(s)' = Kept(s) + Len(b),
         cons'[s].batch = << >>, sess'[s] = sess[s]
  PROVE  Follows(s)'
<1> DEFINE K == Kept(s)
           L == Len(history)
<1>1. /\ L \in Nat /\ Len(b) \in Nat
      /\ DOMAIN history = 1 .. L /\ DOMAIN b = 1 .. Len(b)
      /\ DOMAIN history' = 1 .. L + Len(b)
      /\ \A i \in DOMAIN history : i \in DOMAIN history' /\ history'[i] = history[i]
      /\ \A i \in DOMAIN b : L + i \in DOMAIN history' /\ history'[L + i] = b[i]
      /\ \A i \in DOMAIN history' : i \notin DOMAIN history =>
           i - L \in DOMAIN b /\ i > L /\ i = L + (i - L) /\ history'[i] = b[i - L]
  BY HistoryGrows
<1>2. /\ K \in Nat
      /\ \A i \in DOMAIN history : history[i].src = s => history[i].n \in 1 .. K
      /\ \A m \in 1 .. K : \E i \in DOMAIN history : history[i] = Event(s, m)
  BY DEF Follows, Stream
<1>3. \A n : Event(s, n).src = s /\ Event(s, n).n = n  BY DEF Event
<1> HIDE DEF K
<1>4. \A i \in DOMAIN history' : i \notin DOMAIN history =>
        /\ i - L \in 1 .. Len(b) /\ history'[i].src = s /\ history'[i].n = K + (i - L)
  <2> TAKE i \in DOMAIN history'
  <2> HAVE i \notin DOMAIN history
  <2>1. i - L \in DOMAIN b /\ history'[i] = b[i - L]  BY <1>1
  <2>2. history'[i] = Event(s, K + (i - L))  BY <2>1 DEF K
  <2> QED BY <2>1, <2>2, <1>1, <1>3
<1>5. sess[s].pc \notin {"usage", "over"}  BY DEF Follows, UsageLast
<1>6. \A i \in DOMAIN history' : history'[i].src = s => history'[i].n \in 1 .. K + Len(b)
  <2> SUFFICES ASSUME NEW i \in DOMAIN history', history'[i].src = s
               PROVE  history'[i].n \in 1 .. K + Len(b)
    OBVIOUS
  <2>1. CASE i \in DOMAIN history
    <3>1. history'[i].n \in 1 .. K  BY <2>1, <1>1, <1>2
    <3> QED BY <3>1, <1>1, <1>2
  <2>2. CASE i \notin DOMAIN history
    <3>1. i - L \in 1 .. Len(b) /\ history'[i].n = K + (i - L)  BY <2>2, <1>4
    <3>2. \A x \in 1 .. Len(b) : K + x \in 1 .. K + Len(b)  BY <1>1, <1>2
    <3> QED BY <3>1, <3>2
  <2> QED BY <2>1, <2>2
<1>7. \A m \in 1 .. K + Len(b) : \E i \in DOMAIN history' : history'[i] = Event(s, m)
  <2> TAKE m \in 1 .. K + Len(b)
  <2>1. CASE m <= K
    <3>1. m \in 1 .. K  BY <2>1, <1>2
    <3>2. PICK i \in DOMAIN history : history[i] = Event(s, m)  BY <3>1, <1>2
    <3> QED BY <3>2, <1>1
  <2>2. CASE m > K
    <3>1. m - K \in 1 .. Len(b) /\ K + (m - K) = m  BY <2>2, <1>1, <1>2
    <3>2. L + (m - K) \in DOMAIN history' /\ history'[L + (m - K)] = b[m - K]
      BY <3>1, <1>1
    <3>3. b[m - K] = Event(s, K + (m - K))  BY <3>1, <1>1 DEF K
    <3> QED BY <3>1, <3>2, <3>3
  <2> QED BY <2>1, <2>2, <1>1, <1>2
<1>8. Stream(s)'
  <2>1. DOMAIN cons'[s].batch = {} /\ Len(cons'[s].batch) = 0  OBVIOUS
  <2>2. K + Len(b) \in Nat /\ K + Len(b) + 0 = K + Len(b)  BY <1>1, <1>2
  <2>3. Kept(s)' = K + Len(b)  BY DEF K
  <2>4. \A i \in DOMAIN chan'[s] : chan'[s][i].n = Kept(s)' + Len(cons'[s].batch) + i
    <3>1. Kept(s)' + Len(cons'[s].batch) = Kept(s) + Len(b)
      BY <2>1, <2>2, <2>3, Zenon DEF K
    <3> QED BY <3>1, Zenon
  <2> QED BY <1>6, <1>7, <2>1, <2>2, <2>3, <2>4 DEF Stream, Event
<1>9. UsageLast(s)'
  <2>1. \A i \in DOMAIN history' : history'[i].src = s => history'[i].n # 0
    BY <1>6, <1>1, <1>2
  <2> QED BY <1>5, <2>1 DEF UsageLast
<1>10. Prefix(s)'
  <2> SUFFICES ASSUME NEW i \in DOMAIN history', history'[i].src = s
      PROVE  /\ \A j \in 1 .. i - 1 : history'[j].src = s =>
                  history'[j].n > 0 /\ (history'[i].n = 0 \/ history'[j].n < history'[i].n)
             /\ history'[i].n > 1 => \E j \in 1 .. i - 1 : history'[j] = Event(s, history'[i].n - 1)
    BY DEF Prefix, Event
  <2>1. CASE i \in DOMAIN history
    <3>1. i \in 1 .. L /\ history'[i] = history[i]  BY <2>1, <1>1
    <3>2. \A j \in 1 .. i - 1 : j \in 1 .. L /\ history'[j] = history[j]  BY <1>1, <3>1
    <3> QED BY <3>1, <3>2, <1>1 DEF Follows, Prefix
  <2>2. CASE i \notin DOMAIN history
    <3>1. i - L \in 1 .. Len(b) /\ i > L /\ i \in 1 .. L + Len(b) /\ history'[i].n = K + (i - L)
      BY <2>2, <1>1, <1>4
    <3>2. ASSUME NEW j \in 1 .. i - 1, history'[j].src = s
          PROVE  history'[j].n > 0 /\ history'[j].n < history'[i].n
      <4>1. j \in DOMAIN history'  BY <3>1, <1>1
      <4>2. CASE j \in DOMAIN history
        <5>1. history'[j].n \in 1 .. K  BY <3>2, <4>2, <1>1, <1>2
        <5> QED BY SMTT(30), <5>1, <3>1, <1>1, <1>2
      <4>3. CASE j \notin DOMAIN history
        <5>1. history'[j].n = K + (j - L) /\ j - L \in 1 .. Len(b)  BY <4>1, <4>3, <1>4
        <5> QED BY SMTT(30), <5>1, <3>1, <1>1, <1>2
      <4> QED BY <4>2, <4>3
    <3>3. ASSUME history'[i].n > 1
          PROVE  \E j \in 1 .. i - 1 : history'[j] = Event(s, history'[i].n - 1)
      <4>1. CASE i = L + 1
        <5>1. history'[i].n = K + 1 /\ K \in 1 .. K /\ history'[i].n - 1 = K
          BY <4>1, <3>1, <3>3, <1>1, <1>2
        <5>2. PICK j \in DOMAIN history : history[j] = Event(s, K)  BY <5>1, <1>2
        <5>3. j \in 1 .. i - 1 /\ history'[j] = history[j]  BY <4>1, <1>1
        <5> QED BY <5>1, <5>2, <5>3
      <4>2. CASE i # L + 1
        <5>1. i - 1 - L \in 1 .. Len(b) /\ L + (i - 1 - L) = i - 1 /\ i - 1 \in 1 .. i - 1
          BY <4>2, <3>1, <1>1
        <5>2. history'[i - 1] = Event(s, K + (i - 1 - L))  BY <5>1, <1>1 DEF K
        <5>3. K + (i - 1 - L) = history'[i].n - 1  BY <3>1, <1>1, <1>2
        <5> QED BY <5>1, <5>2, <5>3
      <4> QED BY <4>1, <4>2
    <3> QED BY <3>2, <3>3
  <2> QED BY <2>1, <2>2
<1> QED BY <1>8, <1>9, <1>10 DEF Follows

\* The usage record is written once, after everything else of the session.
LEMMA StreamClosed ==
  ASSUME NEW s \in Session, Follows(s), ~ Alive(s), history \in Seq(Ev),
         history' = history \o <<Event(s, 0)>>, cons' = cons,
         sess[s].pc \notin {"usage", "over"}, sess'[s].pc \in {"usage", "over"}
  PROVE  Follows(s)'
<1> DEFINE L == Len(history)
<1>1. Event(s, 0) \in Ev  BY DEF Event, Ev
<1>2. <<Event(s, 0)>> \in Seq(Ev) /\ DOMAIN <<Event(s, 0)>> = {1}  BY <1>1
<1>3. /\ L \in Nat /\ DOMAIN history = 1 .. L
      /\ \A i \in DOMAIN history : i \in DOMAIN history' /\ history'[i] = history[i]
      /\ \A i \in DOMAIN history' : i \notin DOMAIN history =>
           i = L + 1 /\ history'[i] = Event(s, 0)
  <2> DEFINE b == <<Event(s, 0)>>
  <2>1. b \in Seq(Ev) /\ DOMAIN b = {1} /\ b[1] = Event(s, 0) /\ history' = history \o b
    BY <1>2
  <2> HIDE DEF b
  <2>2. /\ L \in Nat /\ DOMAIN history = 1 .. L
        /\ \A i \in DOMAIN history : i \in DOMAIN history' /\ history'[i] = history[i]
        /\ \A i \in DOMAIN history' : i \notin DOMAIN history =>
             i - L \in DOMAIN b /\ i = L + (i - L) /\ history'[i] = b[i - L]
    BY <2>1, HistoryGrows
  <2> QED BY <2>1, <2>2
<1>4. \A i \in DOMAIN history : history[i].src = s => history[i].n # 0
  BY DEF Follows, UsageLast
<1>5. \A i \in DOMAIN history : history[i].n \in Nat
  <2> TAKE i \in DOMAIN history
  <2>1. history[i] \in Ev  BY <1>3
  <2> QED BY <2>1 DEF Ev
<1>6. Event(s, 0).n = 0  BY DEF Event
<1>7. Prefix(s)'
  <2> SUFFICES ASSUME NEW i \in DOMAIN history', history'[i].src = s
      PROVE  /\ \A j \in 1 .. i - 1 : history'[j].src = s =>
                  history'[j].n > 0 /\ (history'[i].n = 0 \/ history'[j].n < history'[i].n)
             /\ history'[i].n > 1 => \E j \in 1 .. i - 1 : history'[j] = Event(s, history'[i].n - 1)
    BY DEF Prefix, Event
  <2>1. \A j \in 1 .. i - 1 : j \in 1 .. L /\ history'[j] = history[j]
    <3>1. i \in 1 .. L \/ i = L + 1  BY <1>3
    <3> QED BY <3>1, <1>3
  <2>2. CASE i \in DOMAIN history
    BY <2>1, <2>2, <1>3 DEF Follows, Prefix
  <2>3. CASE i \notin DOMAIN history
    BY SMTT(30), <2>1, <2>3, <1>3, <1>4, <1>5, <1>6
  <2> QED BY <2>2, <2>3
<1>8. Stream(s)' /\ UsageLast(s)'  BY DEF Stream, UsageLast, Alive
<1> QED BY <1>7, <1>8 DEF Follows

\* A session none of whose parts moves, while nothing is committed.
LEMMA StreamStill ==
  ASSUME NEW s \in Session, Follows(s), history' = history,
         sess'[s] = sess[s], chan'[s] = chan[s], cons'[s] = cons[s]
  PROVE  Follows(s)'
<1>1. Alive(s)' = Alive(s) /\ Kept(s)' = Kept(s)  BY DEF Alive, Kept
<1>2. sess[s].pc \in {"usage", "over"} => ~ Alive(s)  BY DEF Follows, UsageLast
<1> QED BY <1>1, <1>2, StreamRests

\* flush, from each of its three places, commits what the stream needs next.
LEMMA FlushFollows ==
  ASSUME IInv, \A r \in Session : Follows(r),
         NEW s \in Session, cons[s].pc = "loop",
         NEW b \in Seq(Ev), NEW next \in Nat, NEW after \in {"loop", "done"},
         Flush(s, First(s), b, next, after),
         sess' = sess, \A r \in Session : r # s => chan'[r] = chan[r],
         \A i \in DOMAIN b : b[i] = Event(s, Kept(s) + i),
         \A i \in DOMAIN chan'[s] : chan'[s][i].n = Kept(s) + Len(b) + i,
         sess[s].sent - Len(chan'[s]) = Kept(s) + Len(b)
  PROVE  \A r \in Session : Follows(r)'
<1>1. /\ history \in Seq(Ev) /\ cons \in [Session -> ConsumerState] /\ Alive(s)
      /\ << >> \in Seq(Ev)
  BY EmptySeq DEF IInv, Rows, Control, Alive
<1>2. sess[s].pc \notin {"usage", "over"}  BY <1>1 DEF Follows, UsageLast
<1>3. ASSUME history' = history \o b,
             cons' = [cons EXCEPT ![s].pc = after, ![s].next = next, ![s].batch = << >>]
      PROVE  \A r \in Session : Follows(r)'
  <2>1. Becomes(s, after, next, << >>) /\ after \in ConsumerPc
    BY <1>3 DEF Becomes, ConsumerPc
  <2>2. /\ cons' \in [Session -> ConsumerState]
        /\ cons'[s].pc = after /\ cons'[s].next = next /\ cons'[s].batch = << >>
        /\ \A r \in Session : r # s => cons'[r] = cons[r]
    BY <1>1, <2>1, ConsumerMoves
  <2>3. Kept(s)' = Kept(s) + Len(b)
    <3>1. Len(cons'[s].batch) = 0  BY <2>2
    <3>2. Kept(s) \in Nat /\ Len(b) \in Nat  BY <1>1, LenProperties DEF Follows, Stream
    <3>3. \A x \in Int : x - 0 = x  OBVIOUS
    <3>4. Kept(s) + Len(b) \in Int  BY <3>2
    <3>5. sess'[s].sent - Len(chan'[s]) - Len(cons'[s].batch) = (Kept(s) + Len(b)) - 0
      BY <3>1, Zenon
    <3> QED BY <3>3, <3>4, <3>5, Zenon DEF Kept
  <2>4. Follows(s)'  BY <1>1, <1>3, <2>2, <2>3, StreamFlushed
  <2>5. ASSUME NEW r \in Session, r # s PROVE Follows(r)'
    <3>1. \A i \in DOMAIN b : b[i].src # r  BY <2>5 DEF Event
    <3> QED BY ZenonT(60), <1>1, <1>3, <2>2, <2>5, <3>1, OthersAppend
  <2> QED BY <2>4, <2>5
<1>4. ASSUME history' = history, NEW p \in {"failed", "collided"}, Ends(s, p)
      PROVE  \A r \in Session : Follows(r)'
  <2>1. cons'[s].pc = p /\ \A r \in Session : r # s => cons'[r] = cons[r]
    BY <1>1, <1>4, ConsumerEnds
  <2>2. Follows(s)'
    <3>1. Alive(s)' = FALSE  BY <2>1 DEF Alive
    <3> QED BY <1>2, <1>4, <3>1, StreamRests
  <2>3. ASSUME NEW r \in Session, r # s PROVE Follows(r)'
    BY <1>4, <2>1, <2>3, StreamStill
  <2> QED BY <2>2, <2>3
<1>5. CASE /\ b = << >> /\ NoInsert
           /\ cons' = [cons EXCEPT ![s].pc = after, ![s].next = next, ![s].batch = b]
  <2>1. history \o b = history  BY <1>1, <1>5, ConcatEmptySeq
  <2> QED BY <1>3, <1>5, <2>1 DEF NoInsert
<1>6. CASE /\ Insert(First(s), b)
           /\ cons' = [cons EXCEPT ![s].pc = after, ![s].next = next, ![s].batch = << >>]
  BY <1>3, <1>6 DEF Insert
<1>7. CASE NoInsert /\ (Ends(s, "failed") \/ Ends(s, "collided"))
  BY <1>4, <1>7 DEF NoInsert
<1> QED BY <1>5, <1>6, <1>7 DEF Flush

\* Every step of a consumer keeps every stream.
LEMMA ConsumerFollows ==
  ASSUME IInv, \A r \in Session : Follows(r), NEW s \in Session, ConsumerStep(s)
  PROVE  \A r \in Session : Follows(r)'
<1>1. /\ cons \in [Session -> ConsumerState] /\ chan \in [Session -> Seq(Message)]
      /\ Control /\ cons[s].batch \in Seq(Ev) /\ cons[s].next \in Nat
      /\ sess[s].sent \in Nat /\ Len(chan[s]) \in Nat /\ Len(cons[s].batch) \in Nat
  BY LenProperties DEF IInv, Control, ConsumerState, SessionState
<1>2. UNCHANGED sess  BY DEF ConsumerStep, ReadSeq, Receive, Tick, Drained, ConsumerCancelled
<1>3. Alive(s)
  BY DEF ConsumerStep, ReadSeq, Receive, Tick, Drained, ConsumerCancelled, Alive
<1>4. sess[s].pc \notin {"usage", "over"}  BY <1>3 DEF Follows, UsageLast
<1>5. ASSUME history' = history, chan' = chan, Ends(s, "failed")
      PROVE  \A r \in Session : Follows(r)'
  <2>1. cons'[s].pc = "failed" /\ \A r \in Session : r # s => cons'[r] = cons[r]
    BY <1>1, <1>5, ConsumerEnds
  <2>2. Follows(s)'
    <3>1. Alive(s)' = FALSE  BY <2>1 DEF Alive
    <3> QED BY <1>2, <1>4, <1>5, <3>1, StreamRests
  <2>3. ASSUME NEW r \in Session, r # s PROVE Follows(r)'
    BY <1>2, <1>5, <2>1, <2>3, StreamStill
  <2> QED BY <2>2, <2>3
<1>6. CASE ReadSeq(s)
  <2>1. history' = history /\ chan' = chan  BY <1>6 DEF ReadSeq, NoInsert
  <2>2. CASE cons' = [cons EXCEPT ![s].pc = "loop", ![s].next = NextSeq]
    <3>1. /\ cons'[s].pc = "loop" /\ cons'[s].batch = cons[s].batch
          /\ \A r \in Session : r # s => cons'[r] = cons[r]
      <4> DEFINE n == NextSeq
      <4>1. cons' = [cons EXCEPT ![s].pc = "loop", ![s].next = n]  BY <2>2
      <4> HIDE DEF n
      <4> QED BY <1>1, <4>1 DEF ConsumerState
    <3>2. Alive(s)' = Alive(s) /\ Kept(s)' = Kept(s)
      BY <1>2, <1>3, <2>1, <3>1 DEF Alive, Kept
    <3>3. Follows(s)'  BY <1>2, <1>4, <2>1, <3>1, <3>2, StreamRests
    <3>4. ASSUME NEW r \in Session, r # s PROVE Follows(r)'
      BY <1>2, <2>1, <3>1, <3>4, StreamStill
    <3> QED BY <3>3, <3>4
  <2>3. CASE Ends(s, "failed")  BY <1>5, <2>1, <2>3
  <2> QED BY <1>6, <2>2, <2>3 DEF ReadSeq
<1>7. CASE ConsumerCancelled(s)
  BY <1>5, <1>7 DEF ConsumerCancelled, NoInsert
<1>8. ASSUME chan' = chan, cons[s].pc = "loop", NEW after \in {"loop", "done"},
             Flush(s, First(s), cons[s].batch, cons[s].next, after)
      PROVE  \A r \in Session : Follows(r)'
  <2>1. /\ Kept(s) \in Nat
        /\ \A i \in DOMAIN cons[s].batch : cons[s].batch[i] = Event(s, Kept(s) + i)
        /\ \A i \in DOMAIN chan[s] : chan[s][i].n = Kept(s) + Len(cons[s].batch) + i
    BY <1>3 DEF Follows, Stream
  <2>2. sess[s].sent - Len(chan[s]) = Kept(s) + Len(cons[s].batch)
    <3>1. \A x, y, z \in Nat : x - y = (x - y - z) + z  OBVIOUS
    <3> QED BY <1>1, <3>1, Zenon DEF Kept
  <2> QED BY <1>1, <1>2, <1>8, <2>1, <2>2, FlushFollows
<1>9. CASE Tick(s)
  BY <1>8, <1>9 DEF Tick
<1>10. CASE Drained(s)
  BY <1>8, <1>10 DEF Drained
<1>11. CASE Receive(s)
  <2> DEFINE b == Taken(s)
             rest == Rest(s)
  <2>1. /\ cons[s].pc = "loop" /\ chan[s] # << >> /\ chan' = [chan EXCEPT ![s] = rest]
    BY <1>11 DEF Receive, Taken, Rest
  <2>2. \/ /\ cons' = [cons EXCEPT ![s].next = @ + 1, ![s].batch = b]
           /\ NoInsert
        \/ Flush(s, First(s), b, cons[s].next + 1, "loop")
    BY <1>11 DEF Receive, Taken, Rest
  <2>3. /\ b \in Seq(Ev) /\ rest \in Seq(Message)
        /\ Kept(s) = sess[s].sent - Len(rest) - Len(b)
        /\ \A i \in DOMAIN b : b[i] = Event(s, Kept(s) + i)
        /\ \A i \in DOMAIN rest : rest[i].n = Kept(s) + Len(b) + i
    BY <1>1, <1>3, <2>1, StreamReceived
  <2> HIDE DEF b, rest
  <2>4. chan'[s] = rest /\ \A r \in Session : r # s => chan'[r] = chan[r]
    BY <1>1, <2>1
  <2>5. CASE cons' = [cons EXCEPT ![s].next = @ + 1, ![s].batch = b] /\ NoInsert
    <3>1. /\ cons'[s].pc = "loop" /\ cons'[s].batch = b
          /\ \A r \in Session : r # s => cons'[r] = cons[r]
      BY <1>1, <2>1, <2>5 DEF ConsumerState
    <3>2. Alive(s)' /\ Kept(s)' = Kept(s)
      BY <1>2, <2>3, <2>4, <3>1 DEF Alive, Kept
    <3>3. history' = history  BY <2>5 DEF NoInsert
    <3>4. Stream(s)'
      <4>1. /\ Kept(s) \in Nat
            /\ \A i \in DOMAIN history : history[i].src = s => history[i].n \in 1 .. Kept(s)
            /\ \A m \in 1 .. Kept(s) : \E i \in DOMAIN history : history[i] = Event(s, m)
        BY <1>3 DEF Follows, Stream
      <4> QED BY <2>3, <2>4, <3>1, <3>2, <3>3, <4>1 DEF Stream, Event
    <3>5. UsageLast(s)'  BY <1>2, <1>4, <3>3 DEF Follows, UsageLast
    <3>6. Prefix(s)'  BY <3>3 DEF Follows, Prefix, Event
    <3>7. ASSUME NEW r \in Session, r # s PROVE Follows(r)'
      BY <1>2, <2>4, <3>1, <3>3, <3>7, StreamStill
    <3> QED BY <3>4, <3>5, <3>6, <3>7 DEF Follows
  <2>6. CASE Flush(s, First(s), b, cons[s].next + 1, "loop")
    <3>1. sess[s].sent - Len(rest) = Kept(s) + Len(b)
      <4>1. \A x, y, z \in Nat : x - y = (x - y - z) + z  OBVIOUS
      <4>2. Len(rest) \in Nat /\ Len(b) \in Nat  BY <2>3, LenProperties
      <4>3. sess[s].sent - Len(rest) = (sess[s].sent - Len(rest) - Len(b)) + Len(b)
        BY <1>1, <4>1, <4>2
      <4> QED BY <2>3, <4>3, Zenon
    <3>2. cons[s].next + 1 \in Nat  BY <1>1
    <3> QED BY <1>2, <2>1, <2>3, <2>4, <2>6, <3>1, <3>2, FlushFollows
  <2> QED BY <2>2, <2>5, <2>6
<1> QED BY <1>6, <1>7, <1>9, <1>10, <1>11 DEF ConsumerStep

\* Every step of a session, or of the goroutine that runs it, keeps every stream.
LEMMA SessionFollows ==
  ASSUME IInv, \A r \in Session : Follows(r), NEW s \in Session,
         \/ Start(s) \/ SessionStep(s)
         \/ \E delta, escape \in BOOLEAN : Send(s, delta, escape)
  PROVE  \A r \in Session : Follows(r)'
<1>1. /\ sess \in [Session -> SessionState] /\ sess[s] \in SessionState
      /\ chan \in [Session -> Seq(Message)] /\ cons \in [Session -> ConsumerState]
      /\ Control /\ history \in Seq(Ev) /\ Follows(s)
      /\ sess[s].pc = "off" => cons[s].pc = "off"
  BY DEF IInv, Rows, Control
<1>2. sess[s].pc \in {"usage", "over"} => ~ Alive(s)  BY <1>1 DEF Follows, UsageLast
<1>3. \A p \in {"off", "run", "open", "idle", "closed", "usage", "over"} : p \in SessionPc
  BY DEF SessionPc
<1>4. ASSUME NEW r \in Session, r # s, chan'[r] = chan[r], cons'[r] = cons[r], sess'[r] = sess[r],
             history' = history \/ history' = history \o <<Event(s, 0)>>
      PROVE  Follows(r)'
  <2>1. CASE history' = history  BY <1>4, <2>1, StreamStill
  <2>2. CASE history' = history \o <<Event(s, 0)>>
    <3>1. Event(s, 0) \in Ev /\ Event(s, 0).src # r  BY <1>4 DEF Event, Ev
    <3>2. <<Event(s, 0)>> \in Seq(Ev) /\ \A i \in DOMAIN <<Event(s, 0)>> : <<Event(s, 0)>>[i].src # r
      BY <3>1
    <3> DEFINE b == <<Event(s, 0)>>
    <3>3. b \in Seq(Ev) /\ (\A i \in DOMAIN b : b[i].src # r) /\ history' = history \o b
      BY <2>2, <3>2
    <3> HIDE DEF b
    <3> QED BY <1>1, <1>4, <3>3, OthersAppend
  <2> QED BY <1>4, <2>1, <2>2
<1>5. CASE Start(s)
  <2>1. /\ history' = history /\ chan' = chan /\ At(s, "run") /\ sess[s].pc = "off"
        /\ cons' = [cons EXCEPT ![s].pc = "start"]
    BY <1>5 DEF Start, NoInsert
  <2>2. /\ cons'[s].pc = "start" /\ cons'[s].batch = cons[s].batch
        /\ \A r \in Session : r # s => cons'[r] = cons[r]
    BY <1>1, <2>1 DEF ConsumerState
  <2>3. /\ sess'[s].pc = "run" /\ sess'[s].sent = sess[s].sent
        /\ \A r \in Session : r # s => sess'[r] = sess[r]
    BY <1>1, <2>1 DEF At, SessionState
  <2>4. Alive(s)' = Alive(s) /\ Kept(s)' = Kept(s)
    BY <1>1, <2>1, <2>2, <2>3 DEF Alive, Kept
  <2>5. Follows(s)'  BY <1>1, <2>1, <2>2, <2>3, <2>4, StreamRests
  <2> QED BY <1>4, <2>1, <2>2, <2>3, <2>5
<1>6. ASSUME history' = history, UNCHANGED consumerVars, NEW p \in SessionPc, At(s, p),
             p \notin {"usage", "over"} => sess[s].pc \notin {"usage", "over"},
             p \in {"usage", "over"} => ~ Alive(s)
      PROVE  \A r \in Session : Follows(r)'
  <2>1. /\ sess'[s].pc = p /\ sess'[s].sent = sess[s].sent
        /\ \A r \in Session : r # s => sess'[r] = sess[r]
    BY <1>1, <1>6 DEF At, SessionState
  <2>2. Alive(s)' = Alive(s) /\ Kept(s)' = Kept(s) /\ chan' = chan /\ cons' = cons
    BY <1>6, <2>1 DEF Alive, Kept, consumerVars
  <2>3. Follows(s)'  BY <1>1, <1>6, <2>1, <2>2, StreamRests
  <2> QED BY <1>4, <1>6, <2>1, <2>2, <2>3
<1>7. ASSUME history' = history, cons' = cons, NEW delta \in BOOLEAN, Put(s, delta),
             sess[s].pc \in {"run", "open", "idle"}, NEW p \in {"open", "closed"}, NEW e \in BOOLEAN,
             sess' = [sess EXCEPT ![s].pc = p, ![s].sent = @ + 1, ![s].escaped = e]
      PROVE  \A r \in Session : Follows(r)'
  <2>1. /\ sess'[s].pc = p /\ sess'[s].sent = sess[s].sent + 1
        /\ \A r \in Session : r # s => sess'[r] = sess[r]
    BY <1>1, <1>7 DEF SessionState
  <2>2. \A r \in Session : r # s => chan'[r] = chan[r]  BY <1>1, <1>7 DEF Put
  <2>3. Follows(s)'  BY <1>1, <1>7, <2>1, StreamSent
  <2> QED BY <1>4, <1>7, <2>1, <2>2, <2>3
<1>8. CASE NoSession(s)
  BY <1>3, <1>6, <1>8 DEF NoSession, Close, NoInsert
<1>9. CASE Idle(s)
  BY <1>3, <1>6, <1>9 DEF Idle, Close, NoInsert
<1>10. CASE Abandon(s)
  BY <1>3, <1>6, <1>10 DEF Abandon, Close, NoInsert
<1>11. CASE UsagePublish(s)
  BY <1>2, <1>3, <1>6, <1>11 DEF UsagePublish, NoInsert
<1>12. CASE Usage(s)
  <2>1. sess[s].pc = "closed" /\ cons[s].pc \in {"done", "failed", "collided"} /\ UNCHANGED consumerVars
    BY <1>12 DEF Usage
  <2>2. ~ Alive(s)  BY <2>1 DEF Alive
  <2>3. CASE Insert(NextSeq, <<Event(s, 0)>>) /\ At(s, "usage")
    <3>1. history' = history \o <<Event(s, 0)>>  BY <2>3 DEF Insert
    <3>2. sess'[s].pc = "usage" /\ \A r \in Session : r # s => sess'[r] = sess[r]
      BY <1>1, <1>3, <2>3, SessionMoves
    <3>3. cons' = cons /\ chan' = chan  BY <2>1 DEF consumerVars
    <3>4. Follows(s)'  BY <1>1, <2>1, <2>2, <3>1, <3>2, <3>3, StreamClosed
    <3> QED BY <1>4, <3>1, <3>2, <3>3, <3>4
  <2>4. CASE NoInsert /\ At(s, "over")
    BY <1>3, <1>6, <2>1, <2>2, <2>4 DEF NoInsert
  <2> QED BY <1>12, <2>3, <2>4 DEF Usage
<1>13. sess[s].escaped \in BOOLEAN  BY <1>1 DEF SessionState
<1>14. CASE SessionStart(s)
  <2>1. /\ history' = history /\ cons' = cons /\ Put(s, FALSE) /\ sess[s].pc = "run"
        /\ sess' = [sess EXCEPT ![s].pc = "open", ![s].sent = @ + 1]
    BY <1>14 DEF SessionStart, NoInsert
  <2>2. sess' = [sess EXCEPT ![s].pc = "open", ![s].sent = @ + 1, ![s].escaped = sess[s].escaped]
    BY <1>1, <2>1 DEF SessionState
  <2> QED BY <1>7, <1>13, <2>1, <2>2
<1>15. CASE SessionIdle(s)
  <2>1. /\ history' = history /\ cons' = cons /\ Put(s, FALSE) /\ sess[s].pc = "idle"
        /\ sess' = [sess EXCEPT ![s].pc = "closed", ![s].sent = @ + 1]
    BY <1>15 DEF SessionIdle, NoInsert
  <2>2. sess' = [sess EXCEPT ![s].pc = "closed", ![s].sent = @ + 1, ![s].escaped = sess[s].escaped]
    BY <1>1, <2>1 DEF SessionState
  <2> QED BY <1>7, <1>13, <2>1, <2>2
<1>16. ASSUME NEW delta \in BOOLEAN, NEW escape \in BOOLEAN, Send(s, delta, escape)
       PROVE  \A r \in Session : Follows(r)'
  <2>1. /\ history' = history /\ cons' = cons /\ Put(s, delta) /\ sess[s].pc = "open"
        /\ sess' = [sess EXCEPT ![s].sent = @ + 1, ![s].escaped = @ \/ escape]
    BY <1>16 DEF Send, NoInsert
  <2>2. sess' = [sess EXCEPT ![s].pc = "open", ![s].sent = @ + 1,
                             ![s].escaped = (sess[s].escaped \/ escape)]
    BY <1>1, <2>1 DEF SessionState
  <2>3. (sess[s].escaped \/ escape) \in BOOLEAN  OBVIOUS
  <2> QED BY <1>7, <2>1, <2>2, <2>3
<1> QED BY <1>5, <1>8, <1>9, <1>10, <1>11, <1>12, <1>14, <1>15, <1>16 DEF SessionStep

\* Every step of an emitter keeps every stream: its events are not of a session.
LEMMA EmitterFollows ==
  ASSUME IInv, \A r \in Session : Follows(r), NEW e \in Emitter,
         AppendAutoSeq(e) \/ GcRead(e) \/ GcAppend(e) \/ EmitPublish(e)
  PROVE  \A r \in Session : Follows(r)'
<1>1. history \in Seq(Ev)  BY DEF IInv, Rows
<1>2. UNCHANGED <<sess, consumerVars>>
  BY DEF AppendAutoSeq, GcRead, GcAppend, EmitPublish
<1>3. history' = history \/ history' = history \o <<Event(e, 0)>>
  BY DEF AppendAutoSeq, GcRead, GcAppend, EmitPublish, NoInsert, Insert
<1>4. e \notin Session  BY EventLogAssumption DEF Emitter
<1> SUFFICES ASSUME NEW r \in Session PROVE Follows(r)'  OBVIOUS
<1>5. CASE history' = history  BY <1>2, <1>5, StreamStill DEF consumerVars
<1>6. CASE history' = history \o <<Event(e, 0)>>
  <2>1. Event(e, 0) \in Ev /\ Event(e, 0).src # r  BY <1>4 DEF Event, Ev
  <2> DEFINE b == <<Event(e, 0)>>
  <2>2. b \in Seq(Ev) /\ (\A i \in DOMAIN b : b[i].src # r) /\ history' = history \o b
    BY <1>6, <2>1
  <2> HIDE DEF b
  <2> QED BY <1>1, <1>2, <2>2, OthersAppend DEF consumerVars
<1> QED BY <1>3, <1>5, <1>6

\* What is kept of a session is a beginning of what it sent, whatever fails, is
\* cancelled or collides, and however many sessions, emitters and purges there
\* are (copilot/session.go, orchestrator.go consumeEvents and emitUsageEvent).
THEOREM StreamsArePrefixes == Spec => []SessionPrefix
<1> DEFINE All == \A s \in Session : Follows(s)
<1>1. Init => All
  <2> SUFFICES ASSUME Init, NEW s \in Session PROVE Follows(s)  OBVIOUS
  <2>1. /\ history = << >> /\ sess[s].sent = 0 /\ sess[s].pc = "off"
        /\ chan[s] = << >> /\ cons[s].batch = << >>
    BY DEF Init
  <2>2. Len(<< >>) = 0 /\ DOMAIN << >> = {}  OBVIOUS
  <2>3. Kept(s) = 0
    <3>1. sess[s].sent - Len(chan[s]) - Len(cons[s].batch) = 0 - 0 - 0
      BY <2>1, <2>2, Zenon
    <3>2. 0 - 0 - 0 = 0  OBVIOUS
    <3> QED BY <3>1, <3>2, Zenon DEF Kept
  <2> QED BY <2>1, <2>2, <2>3 DEF Follows, Stream, UsageLast, Prefix
<1>2. IInv /\ All /\ [Next]_vars => All'
  <2> SUFFICES ASSUME IInv, All, [Next]_vars PROVE All'  OBVIOUS
  <2>1. CASE Cancel \/ ArchiveList \/ ArchiveWrite \/ ArchiveDelete \/ UNCHANGED vars
    <3>1. UNCHANGED <<history, sess, chan, cons>>
      BY <2>1 DEF Cancel, ArchiveList, ArchiveWrite, ArchiveDelete, vars, consumerVars, NoInsert
    <3> QED BY <3>1, StreamStill
  <2> QED BY <2>1, SessionFollows, ConsumerFollows, EmitterFollows DEF Next
<1>3. All => SessionPrefix  BY DEF Follows, Prefix, SessionPrefix
<1> HIDE DEF All
<1> QED BY <1>1, <1>2, <1>3, Inductive, PTL DEF Spec

-----------------------------------------------------------------------------
(* The type invariant.                                                      *)

\* How far a session may have come with what it sends.
Sent(s) ==
  /\ sess[s].pc \in {"off", "run"} => sess[s].sent = 0
  /\ sess[s].pc \in {"open", "idle"} => sess[s].sent <= MaxSent
  /\ sess[s].sent <= MaxSent + 1

\* What the type invariant says beyond Control.
Bounded ==
  /\ Range(table) \subseteq Persisted /\ arch.list \subseteq Persisted
  /\ \A s \in Session : Sent(s) /\ Len(chan[s]) <= Cap
  /\ faults \in 0 .. MaxFaults /\ purged \in 0 .. MaxPurges
  /\ arch.pc # "off" => purged < MaxPurges

\* The rows, the archiver's listing and the budgets, whatever the step does to the log.
LEMMA LogBounded ==
  ASSUME IInv, Bounded, Reads \/ (\E first, batch : Writes(first, batch)) \/ Archives,
         faults' = faults \/ Fault
  PROVE  /\ Range(table') \subseteq Persisted' /\ arch'.list \subseteq Persisted'
         /\ faults' \in 0 .. MaxFaults /\ purged' \in 0 .. MaxPurges
         /\ arch'.pc # "off" => purged' < MaxPurges
<1>1. MaxFaults \in Nat /\ MaxPurges \in Nat  BY EventLogAssumption
<1>2. faults' \in 0 .. MaxFaults
  <2>1. CASE faults' = faults  BY <2>1 DEF Bounded
  <2>2. CASE Fault  BY <2>2, <1>1 DEF Bounded, Fault
  <2> QED BY <2>1, <2>2
<1>3. CASE Reads
  BY <1>2, <1>3 DEF Bounded, Reads, NoInsert, archiverVars, Persisted
<1>4. ASSUME NEW first, NEW batch, Writes(first, batch)
      PROVE  /\ Range(table') \subseteq Persisted' /\ arch'.list \subseteq Persisted'
             /\ purged' \in 0 .. MaxPurges
             /\ arch'.pc # "off" => purged' < MaxPurges
  <2>1. /\ Range(table') = Range(table) \cup Range(batch)
        /\ Persisted' = Persisted \cup Range(batch)
    BY <1>4, InsertAdds DEF IInv
  <2>2. arch' = arch /\ purged' = purged  BY <1>4 DEF Writes, archiverVars
  <2> QED BY <2>1, <2>2 DEF Bounded
<1>5. CASE ArchiveList
  <2>1. /\ UNCHANGED <<table, history, purged>> /\ purged < MaxPurges
        /\ arch' = [pc |-> "listed", list |-> Range(table)]
    BY <1>5 DEF ArchiveList, ArchiveAt, NoInsert
  <2> QED BY <1>2, <2>1 DEF Bounded, Persisted
<1>6. CASE ArchiveWrite
  <2>1. /\ UNCHANGED <<table, history, purged>> /\ arch.pc = "listed" /\ arch'.list = {}
    BY <1>6 DEF ArchiveWrite, ArchiveAt, NoInsert
  <2> QED BY <1>2, <2>1 DEF Bounded, Persisted
<1>7. CASE ArchiveDelete
  <2>1. /\ UNCHANGED history /\ arch.pc = "written" /\ arch' = [pc |-> "off", list |-> {}]
        /\ \/ table' = << >> /\ purged' = purged + 1
           \/ UNCHANGED <<table, purged>>
    BY <1>7 DEF ArchiveDelete, ArchiveAt
  <2>2. purged \in 0 .. MaxPurges /\ purged < MaxPurges  BY <2>1 DEF Bounded
  <2>3. purged' \in 0 .. MaxPurges  BY <2>1, <2>2, <1>1
  <2>4. Range(table') \subseteq Persisted'
    <3>1. Range(<< >>) = {}  BY DEF Range
    <3> QED BY <2>1, <3>1 DEF Bounded, Persisted
  <2> QED BY <1>2, <2>1, <2>3, <2>4
<1> QED BY <1>2, <1>3, <1>4, <1>5, <1>6, <1>7 DEF Archives

\* Sessions and consumers respect the bounds of what is sent and of the channel.
LEMMA SendsBounded ==
  ASSUME IInv, Bounded, NEW s \in Session,
         \/ Start(s) \/ SessionStep(s) \/ ConsumerStep(s)
         \/ \E delta, escape \in BOOLEAN : Send(s, delta, escape)
  PROVE  \A r \in Session : Sent(r)' /\ Len(chan'[r]) <= Cap
<1>1. /\ sess \in [Session -> SessionState] /\ sess[s] \in SessionState /\ sess[s].sent \in Nat
      /\ chan \in [Session -> Seq(Message)] /\ chan[s] \in Seq(Message) /\ Len(chan[s]) \in Nat
  BY LenProperties DEF IInv, Control, SessionState
<1>2. MaxSent \in Nat \ {0} /\ Cap \in Nat \ {0}  BY EventLogAssumption
<1>3. \A r \in Session : Sent(r) /\ Len(chan[r]) <= Cap  BY DEF Bounded
<1>4. ASSUME chan' = chan, NEW p \in SessionPc, At(s, p),
             p \in {"off", "run"} => sess[s].pc \in {"off", "run"},
             p \in {"open", "idle"} => sess[s].pc \in {"open", "idle"}
      PROVE  \A r \in Session : Sent(r)' /\ Len(chan'[r]) <= Cap
  <2>1. sess'[s].pc = p /\ sess'[s].sent = sess[s].sent
    BY <1>1, <1>4 DEF At, SessionState
  <2>2. \A r \in Session : r # s => sess'[r] = sess[r]  BY <1>1, <1>4 DEF At
  <2> QED BY <1>3, <1>4, <2>1, <2>2 DEF Sent
<1>5. ASSUME NEW delta \in BOOLEAN, Put(s, delta),
             NEW p \in SessionPc, NEW e,
             sess' = [sess EXCEPT ![s].pc = p, ![s].sent = @ + 1, ![s].escaped = e],
             \/ sess[s].pc = "run" /\ p = "open"
             \/ sess[s].pc = "open" /\ sess[s].sent < MaxSent /\ p = "open"
             \/ sess[s].pc = "idle" /\ p = "closed"
      PROVE  \A r \in Session : Sent(r)' /\ Len(chan'[r]) <= Cap
  <2>1. sess'[s].pc = p /\ sess'[s].sent = sess[s].sent + 1
    BY <1>1, <1>5 DEF SessionState
  <2>2. \A r \in Session : r # s => sess'[r] = sess[r] /\ chan'[r] = chan[r]
    BY <1>1, <1>5 DEF Put
  <2>3. Sent(s)'
    <3>1. Sent(s)  BY <1>3
    <3>2. CASE sess[s].pc = "run" /\ p = "open"
      BY <1>2, <2>1, <3>1, <3>2 DEF Sent
    <3>3. CASE sess[s].pc = "open" /\ sess[s].sent < MaxSent /\ p = "open"
      BY <1>1, <1>2, <2>1, <3>1, <3>3 DEF Sent
    <3>4. CASE sess[s].pc = "idle" /\ p = "closed"
      BY <1>1, <1>2, <2>1, <3>1, <3>4 DEF Sent
    <3> QED BY <1>5, <3>2, <3>3, <3>4
  <2>4. Len(chan'[s]) <= Cap
    <3> DEFINE m == [n |-> sess[s].sent + 1, delta |-> delta]
    <3>1. m \in Message  BY <1>1 DEF Message
    <3>2. chan'[s] = Append(chan[s], m) /\ Len(chan[s]) < Cap  BY <1>1, <1>5 DEF Put
    <3> HIDE DEF m
    <3>3. Len(chan'[s]) = Len(chan[s]) + 1  BY <1>1, <3>1, <3>2, AppendProperties
    <3> QED BY <1>1, <1>2, <3>2, <3>3
  <2> QED BY <1>3, <2>2, <2>3, <2>4 DEF Sent
<1>6. CASE ConsumerStep(s)
  <2>1. sess' = sess
    BY <1>6 DEF ConsumerStep, ReadSeq, Receive, Tick, Drained, ConsumerCancelled
  <2>2. chan' = chan \/ (chan[s] # << >> /\ chan' = [chan EXCEPT ![s] = Tail(@)])
    BY <1>6 DEF ConsumerStep, ReadSeq, Receive, Tick, Drained, ConsumerCancelled
  <2>3. \A r \in Session : Len(chan'[r]) <= Cap
    <3>1. CASE chan[s] # << >> /\ chan' = [chan EXCEPT ![s] = Tail(@)]
      <4>1. chan'[s] = Tail(chan[s]) /\ \A r \in Session : r # s => chan'[r] = chan[r]
        BY <1>1, <3>1
      <4>2. Len(chan[s]) # 0  BY <1>1, <3>1, EmptySeq
      <4>3. Len(chan'[s]) = Len(chan[s]) - 1  BY <1>1, <3>1, <4>1, <4>2, HeadTailProperties
      <4>4. Len(chan[s]) <= Cap  BY <1>3
      <4>5. Len(chan'[s]) <= Cap  BY <1>1, <1>2, <4>3, <4>4
      <4> QED BY <1>3, <4>1, <4>5
    <3> QED BY <1>3, <2>2, <3>1
  <2> QED BY <1>3, <2>1, <2>3 DEF Sent
<1>7. "run" \in SessionPc /\ "closed" \in SessionPc /\ "idle" \in SessionPc /\ "usage" \in SessionPc
      /\ "over" \in SessionPc /\ "open" \in SessionPc
  BY DEF SessionPc
<1>8. CASE Start(s)
  BY <1>4, <1>7, <1>8 DEF Start
<1>9. CASE NoSession(s) \/ Idle(s) \/ Abandon(s) \/ Usage(s) \/ UsagePublish(s)
  <2>1. chan' = chan
    BY <1>9 DEF NoSession, Idle, Abandon, Usage, UsagePublish, consumerVars
  <2>2. PICK p \in {"closed", "idle", "usage", "over"} :
          At(s, p) /\ (p = "idle" => sess[s].pc = "open")
    BY <1>9, Zenon DEF NoSession, Idle, Abandon, Usage, UsagePublish, Close
  <2> QED BY <1>4, <1>7, <2>1, <2>2
<1>10. CASE SessionStart(s)
  <2>1. sess' = [sess EXCEPT ![s].pc = "open", ![s].sent = @ + 1, ![s].escaped = sess[s].escaped]
    BY <1>1, <1>10 DEF SessionStart, SessionState
  <2>2. Put(s, FALSE) /\ sess[s].pc = "run"  BY <1>10 DEF SessionStart
  <2> QED BY <1>5, <1>7, <2>1, <2>2
<1>11. CASE SessionIdle(s)
  <2>1. sess' = [sess EXCEPT ![s].pc = "closed", ![s].sent = @ + 1, ![s].escaped = sess[s].escaped]
    BY <1>1, <1>11 DEF SessionIdle, SessionState
  <2>2. Put(s, FALSE) /\ sess[s].pc = "idle"  BY <1>11 DEF SessionIdle
  <2> QED BY <1>5, <1>7, <2>1, <2>2
<1>12. ASSUME NEW delta \in BOOLEAN, NEW escape \in BOOLEAN, Send(s, delta, escape)
       PROVE  \A r \in Session : Sent(r)' /\ Len(chan'[r]) <= Cap
  <2>1. /\ Put(s, delta) /\ sess[s].pc = "open" /\ sess[s].sent < MaxSent
        /\ sess' = [sess EXCEPT ![s].sent = @ + 1, ![s].escaped = @ \/ escape]
    BY <1>12 DEF Send
  <2>2. sess' = [sess EXCEPT ![s].pc = "open", ![s].sent = @ + 1,
                             ![s].escaped = (sess[s].escaped \/ escape)]
    BY <1>1, <2>1 DEF SessionState
  <2> QED BY <1>5, <1>7, <2>1, <2>2
<1> QED BY <1>6, <1>8, <1>9, <1>10, <1>11, <1>12 DEF SessionStep

\* Every step that is not the archiver's reads the log or writes at free numbers.
LEMMA LogTreated ==
  ASSUME IInv, [Next]_vars
  PROVE  Reads \/ (\E first, batch : Writes(first, batch)) \/ Archives
<1>1. /\ NextSeq \in Nat \ {0} /\ \A x : Free(NextSeq, <<x>>)
      /\ purged = 0 => NextSeq = Len(history) + 1
  BY NextSeqIsFree DEF IInv
<1>2. Len(history) \in Nat  BY LenProperties DEF IInv, Rows
<1>3. ASSUME NEW x \in Session \cup Emitter, Insert(NextSeq, <<Event(x, 0)>>), UNCHANGED archiverVars
      PROVE  Writes(NextSeq, <<Event(x, 0)>>)
  <2>1. Event(x, 0) \in Ev  BY DEF Event, Ev
  <2>2. <<Event(x, 0)>> \in Seq(Ev) /\ <<Event(x, 0)>> # << >>  BY <2>1
  <2> QED BY <1>1, <1>2, <1>3, <2>2 DEF Writes
<1>4. ASSUME NEW s \in Session, cons[s].pc = "loop", NEW b \in Seq(Ev), NEW next, NEW after,
             Flush(s, First(s), b, next, after), UNCHANGED archiverVars
      PROVE  Reads \/ Writes(First(s), b)
  <2>1. First(s) \in Nat \ {0} /\ (purged = 0 => First(s) <= Len(history) + 1)
    <3>1. cons[s].next \in Nat /\ Len(cons[s].batch) \in Nat
      BY LenProperties DEF IInv, Control, ConsumerState
    <3>2. First(s) \in Int  BY <3>1 DEF First
    <3>3. First(s) >= 1 /\ (purged = 0 => First(s) <= Len(history) + 1)
      BY <1>4 DEF IInv, Bounds
    <3> QED BY <3>2, <3>3
  <2> QED BY <1>4, <2>1 DEF Flush, Writes, Reads
<1>5. ASSUME NEW s \in Session, Start(s) \/ SessionStep(s)
                \/ (\E delta, escape \in BOOLEAN : Send(s, delta, escape))
      PROVE  Reads \/ Writes(NextSeq, <<Event(s, 0)>>)
  BY <1>3, <1>5 DEF SessionStep, Start, NoSession, SessionStart, Idle, SessionIdle, Abandon,
     Usage, UsagePublish, Send, Reads
<1>6. ASSUME NEW s \in Session, ConsumerStep(s)
      PROVE  Reads \/ \E b : Writes(First(s), b)
  <2>1. cons[s].batch \in Seq(Ev)  BY DEF IInv, Control, ConsumerState
  <2>2. CASE Receive(s)
    <3> DEFINE b == Append(cons[s].batch, Event(s, Head(chan[s]).n))
    <3>1. cons[s].pc = "loop" /\ chan[s] # << >> /\ UNCHANGED archiverVars  BY <2>2 DEF Receive
    <3>2. NoInsert \/ Flush(s, First(s), b, cons[s].next + 1, "loop")  BY <2>2 DEF Receive
    <3>3. Head(chan[s]) \in Message
      <4>1. chan[s] \in Seq(Message)  BY DEF IInv, Control
      <4> QED BY <3>1, <4>1, HeadTailProperties
    <3>4. Event(s, Head(chan[s]).n) \in Ev  BY <3>3 DEF Message, Event, Ev
    <3>5. b \in Seq(Ev)  BY <2>1, <3>4, AppendProperties
    <3> HIDE DEF b
    <3> QED BY <1>4, <3>1, <3>2, <3>5 DEF Reads
  <2>3. CASE Tick(s)  BY <1>4, <2>1, <2>3 DEF Tick
  <2>4. CASE Drained(s)  BY <1>4, <2>1, <2>4 DEF Drained
  <2>5. CASE ReadSeq(s) \/ ConsumerCancelled(s)
    BY <2>5 DEF ReadSeq, ConsumerCancelled, Reads
  <2> QED BY <1>6, <2>2, <2>3, <2>4, <2>5 DEF ConsumerStep
<1>7. ASSUME NEW e \in Emitter, AppendAutoSeq(e) \/ GcRead(e) \/ GcAppend(e) \/ EmitPublish(e)
      PROVE  Reads \/ \E first : Writes(first, <<Event(e, 0)>>)
  <2>1. CASE GcAppend(e)
    <3>1. emit[e].pc = "append" /\ UNCHANGED archiverVars  BY <2>1 DEF GcAppend
    <3>2. CASE Free(emit[e].seq, <<e>>) /\ Insert(emit[e].seq, <<Event(e, 0)>>)
      <4>1. Event(e, 0) \in Ev  BY DEF Event, Ev
      <4>2. <<Event(e, 0)>> \in Seq(Ev) /\ <<Event(e, 0)>> # << >>  BY <4>1
      <4>3. emit[e].seq \in Nat \ {0} /\ (purged = 0 => emit[e].seq <= Len(history) + 1)
        <5>1. emit[e].seq \in Nat  BY DEF IInv, Control
        <5> QED BY <3>1, <5>1 DEF IInv, Bounds
      <4>4. Free(emit[e].seq, <<Event(e, 0)>>)
        <5>1. Len(<<e>>) = 1 /\ Len(<<Event(e, 0)>>) = 1  OBVIOUS
        <5> QED BY <3>2, <5>1 DEF Free
      <4> QED BY <3>1, <3>2, <4>2, <4>3, <4>4 DEF Writes
    <3>3. CASE NoInsert  BY <3>1, <3>3 DEF Reads
    <3> QED BY <2>1, <3>2, <3>3 DEF GcAppend
  <2>2. CASE AppendAutoSeq(e)  BY <1>3, <2>2 DEF AppendAutoSeq, Reads
  <2>3. CASE GcRead(e) \/ EmitPublish(e)  BY <2>3 DEF GcRead, EmitPublish, Reads
  <2> QED BY <1>7, <2>1, <2>2, <2>3
<1>8. CASE Cancel \/ UNCHANGED vars
  BY <1>8 DEF Cancel, vars, Reads, NoInsert, archiverVars
<1> QED BY <1>5, <1>6, <1>7, <1>8 DEF Next, Archives

\* Every variable keeps its type: in particular no channel is ever longer than its
\* buffer, and the table and the archiver's listing hold committed events only.
THEOREM LogTypeCorrect == Spec => []TypeOK
<1>1. Init => Bounded
  <2> SUFFICES ASSUME Init PROVE Bounded  OBVIOUS
  <2>1. Range(<< >>) = {} /\ Len(<< >>) = 0  BY DEF Range
  <2>2. 0 \in 0 .. MaxFaults /\ 0 \in 0 .. MaxPurges /\ 0 <= Cap /\ 0 <= MaxSent + 1
    BY EventLogAssumption
  <2> QED BY <2>1, <2>2 DEF Init, Bounded, Sent
<1>2. IInv /\ Bounded /\ [Next]_vars => Bounded'
  <2> SUFFICES ASSUME IInv, Bounded, [Next]_vars PROVE Bounded'  OBVIOUS
  <2>1. faults' = faults \/ Fault
    <3>1. ASSUME NEW s \in Session, ConsumerStep(s) PROVE faults' = faults \/ Fault
      BY <3>1 DEF ConsumerStep, ReadSeq, Receive, Tick, Drained, ConsumerCancelled, Flush, CtxFails
    <3>2. ASSUME NEW s \in Session, Start(s) \/ SessionStep(s)
                    \/ (\E delta, escape \in BOOLEAN : Send(s, delta, escape))
          PROVE  faults' = faults \/ Fault
      BY <3>2 DEF SessionStep, Start, NoSession, SessionStart, Idle, SessionIdle, Abandon,
         Usage, UsagePublish, Send, CtxFails
    <3>3. ASSUME NEW e \in Emitter, AppendAutoSeq(e) \/ GcRead(e) \/ GcAppend(e) \/ EmitPublish(e)
          PROVE  faults' = faults \/ Fault
      BY <3>3 DEF AppendAutoSeq, GcRead, GcAppend, EmitPublish
    <3>4. CASE Cancel \/ ArchiveList \/ ArchiveWrite \/ ArchiveDelete \/ UNCHANGED vars
      BY <3>4 DEF Cancel, ArchiveList, ArchiveWrite, ArchiveDelete, vars
    <3> QED BY <3>1, <3>2, <3>3, <3>4 DEF Next
  <2>2. /\ Range(table') \subseteq Persisted' /\ arch'.list \subseteq Persisted'
        /\ faults' \in 0 .. MaxFaults /\ purged' \in 0 .. MaxPurges
        /\ arch'.pc # "off" => purged' < MaxPurges
    BY <2>1, LogTreated, LogBounded
  <2>3. \A r \in Session : Sent(r)' /\ Len(chan'[r]) <= Cap
    <3>1. CASE sess' = sess /\ chan' = chan  BY <3>1 DEF Bounded, Sent
    <3>2. ASSUME NEW e \in Emitter, AppendAutoSeq(e) \/ GcRead(e) \/ GcAppend(e) \/ EmitPublish(e)
          PROVE  sess' = sess /\ chan' = chan
      BY <3>2 DEF AppendAutoSeq, GcRead, GcAppend, EmitPublish, consumerVars
    <3>3. CASE Cancel \/ ArchiveList \/ ArchiveWrite \/ ArchiveDelete \/ UNCHANGED vars
      BY <3>1, <3>3 DEF Cancel, ArchiveList, ArchiveWrite, ArchiveDelete, vars, consumerVars
    <3> QED BY <3>1, <3>2, <3>3, SendsBounded DEF Next
  <2> QED BY <2>2, <2>3 DEF Bounded
<1>3. IInv /\ Bounded => TypeOK
  <2> SUFFICES ASSUME IInv, Bounded PROVE TypeOK  OBVIOUS
  <2>1. \A n \in DOMAIN table : n \in Nat \ {0} /\ table[n] \in Persisted
    BY DEF IInv, Rows, Bounded, Range
  <2>2. sess \in [Session -> [pc : {"off", "run", "open", "idle", "closed", "usage", "over"},
                              sent : 0 .. MaxSent + 1, escaped : BOOLEAN]]
    <3> SUFFICES ASSUME NEW s \in Session
        PROVE  sess[s] \in [pc : {"off", "run", "open", "idle", "closed", "usage", "over"},
                            sent : 0 .. MaxSent + 1, escaped : BOOLEAN]
      BY DEF IInv, Control
    <3>1. sess[s] \in SessionState  BY DEF IInv, Control
    <3>2. sess[s].sent \in 0 .. MaxSent + 1
      <4>1. sess[s].sent \in Nat /\ sess[s].sent <= MaxSent + 1
        BY <3>1 DEF SessionState, Bounded, Sent
      <4> QED BY <4>1, EventLogAssumption
    <3> QED BY <3>1, <3>2 DEF SessionState, SessionPc
  <2>3. \A s \in Session :
          /\ Len(chan[s]) <= Cap
          /\ cons[s].pc \in {"off", "start", "loop", "done", "failed", "collided"}
          /\ cons[s].next \in Nat
    BY DEF Bounded, IInv, Control, ConsumerState, ConsumerPc
  <2> QED BY <2>1, <2>2, <2>3 DEF TypeOK, Bounded, IInv, Control, Archiving
<1> QED BY <1>1, <1>2, <1>3, Inductive, PTL DEF Spec
=============================================================================
