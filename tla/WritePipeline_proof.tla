------------------------ MODULE WritePipeline_proof ------------------------
(***************************************************************************)
(* The write path for any number of users, writes, broken streams, changes *)
(* of user and kills, and any capacity of the pipeline.                    *)
(***************************************************************************)
EXTENDS WritePipeline, SequenceTheorems, WellFoundedInduction, TLAPS

-----------------------------------------------------------------------------
(* Operators on the mutation table. *)

\* The keys of the mutation table are in the order of the batch ids.
Ascending(rows) ==
    \A i, j \in DOMAIN rows : i < j => rows[i].id < rows[j].id

\* A sequence of batches is indexed from 1 and has batches for elements.
LEMMA RowsType ==
    ASSUME NEW rows \in Seq(Batch)
    PROVE  /\ Len(rows) \in Nat
           /\ DOMAIN rows = 1..Len(rows)
           /\ \A i \in 1..Len(rows) : /\ rows[i] \in Batch
                                      /\ rows[i].id \in Nat
                                      /\ rows[i].write \in Writes
<1>1. Len(rows) \in Nat /\ DOMAIN rows = 1..Len(rows)
  BY LenProperties
<1>2. \A i \in 1..Len(rows) : rows[i] \in Batch
  BY ElementOfSeq
<1> QED
  BY <1>1, <1>2 DEF Batch

\* NextMutationBatchAfterBatchId continues where it left off: after the last
\* id of the first n rows come exactly the rows after the n-th.
LEMMA RowsUpToPrefix ==
    ASSUME NEW rows \in Seq(Batch), Ascending(rows), NEW n \in 0..Len(rows)
    PROVE  RowsUpTo(rows, IF n = 0 THEN kBatchIdUnknown ELSE rows[n].id) = n
<1> DEFINE id == IF n = 0 THEN kBatchIdUnknown ELSE rows[n].id
           Splits(k) == \A i \in DOMAIN rows : i > k <=> rows[i].id > id
<1>1. DOMAIN rows = 1..Len(rows) /\ Len(rows) \in Nat
  BY LenProperties
<1>2. \A i \in DOMAIN rows : rows[i].id \in Nat
  BY RowsType
<1>3. id \in Int
  BY <1>1, <1>2 DEF kBatchIdUnknown
<1>4. Splits(n)
  BY <1>1, <1>2 DEF Ascending, kBatchIdUnknown
<1>5. ASSUME NEW m \in 0..Len(rows), Splits(m)
      PROVE  m = n
  <2>1. ~ m < n
    BY <1>1, <1>2, <1>5
  <2>2. ~ n < m
    BY <1>1, <1>2, <1>4, <1>5
  <2> QED
    BY <2>1, <2>2, <1>1
<1>6. RowsUpTo(rows, id) = CHOOSE k \in 0..Len(rows) : Splits(k)
  BY DEF RowsUpTo
<1> HIDE DEF Splits
<1> QED
  BY <1>4, <1>5, <1>6

\* Removing the batch at the head of a queue leaves the tail.
LEMMA RemoveHead ==
    ASSUME NEW rows \in Seq(Batch), Ascending(rows), rows # <<>>
    PROVE  RemoveMutationBatch(rows, Head(rows).id) = Tail(rows)
<1>1. DOMAIN rows = 1..Len(rows) /\ Len(rows) \in Nat /\ Len(rows) > 0
  BY LenProperties, EmptySeq
<1>2. \A i \in DOMAIN rows : rows[i].id \in Nat
  BY RowsType
<1>3. Head(rows) = rows[1]
  OBVIOUS
<1>4. \A i \in DOMAIN rows : rows[i].id = Head(rows).id => i = 1
  BY <1>1, <1>2, <1>3 DEF Ascending
<1>5. (CHOOSE i \in DOMAIN rows : rows[i].id = Head(rows).id) = 1
  BY <1>1, <1>3, <1>4
<1>6. RemoveMutationBatch(rows, Head(rows).id)
        = SubSeq(rows, 1, 1 - 1) \o SubSeq(rows, 1 + 1, Len(rows))
  BY <1>5, Zenon DEF RemoveMutationBatch
<1>7. SubSeq(rows, 1, 1 - 1) = <<>> /\ SubSeq(rows, 1 + 1, Len(rows)) = Tail(rows)
  BY <1>1, SubSeqEmpty, TailIsSubSeq
<1>8. Tail(rows) \in Seq(Batch)
  BY <1>1
<1> QED
  BY <1>6, <1>7, <1>8, ConcatEmptySeq

\* A nonempty set of naturals with a bound has a largest element.
LEMMA LargestOf ==
    ASSUME NEW S, S # {}, NEW n \in Nat, \A x \in S : x \in Nat /\ x < n
    PROVE  \E m \in S : \A x \in S : x <= m
<1> DEFINE gaps == {g \in Nat : \E x \in S : g = n - x}
<1>1. \A x \in S : n - x \in gaps
  OBVIOUS
<1>2. gaps # {} /\ gaps \subseteq Nat
  BY <1>1
<1>3. PICK g \in gaps : \A h \in gaps : ~ (<<h, g>> \in OpToRel(<, Nat))
  BY <1>2, NatLessThanWellFounded, WFMin
<1>4. \A h \in gaps : <<h, g>> \in OpToRel(<, Nat) <=> h < g
  BY <1>2, <1>3 DEF OpToRel
<1>5. PICK m \in S : g = n - m
  BY <1>3
<1>6. \A h \in gaps : g \in Nat /\ h \in Nat /\ ~ h < g
  BY <1>2, <1>3, <1>4, Zenon
<1>7. \A x \in S : g \in Nat /\ n - x \in Nat /\ ~ n - x < g
  BY <1>1, <1>6, Zenon
<1> HIDE DEF gaps
<1> QED
  BY <1>5, <1>7

\* The id LevelDbMutationQueue continues with after a start is larger than
\* the ids of all users' rows.
LEMMA NextBatchIdFresh ==
    ASSUME NEW table \in [Users -> Seq(Batch)], NEW n \in Nat,
           \A u \in Users : \A i \in DOMAIN table[u] : table[u][i].id < n
    PROVE  /\ LoadNextBatchId(table) \in Nat
           /\ \A u \in Users : \A i \in DOMAIN table[u] :
                 table[u][i].id < LoadNextBatchId(table)
<1> DEFINE ids == UNION {BatchIds(table[u]) : u \in Users}
<1>1. \A u \in Users : \A i \in DOMAIN table[u] : table[u][i].id \in Nat
  BY RowsType
<1>2. \A u \in Users : \A i \in DOMAIN table[u] : table[u][i].id \in ids
  BY DEF BatchIds
<1>3. \A id \in ids : id \in Nat /\ id < n
  BY <1>1 DEF BatchIds
<1>4. CASE ids = {}
  BY <1>2, <1>4 DEF LoadNextBatchId
<1>5. CASE ids # {}
  <2>1. \E m \in ids : \A id \in ids : id <= m
    BY <1>3, <1>5, LargestOf
  <2> DEFINE top == CHOOSE k \in ids : \A id \in ids : id <= k
  <2>6. top \in ids /\ \A id \in ids : id <= top
    BY <2>1
  <2>7. LoadNextBatchId(table) = 1 + top
    BY <1>5 DEF LoadNextBatchId
  <2> HIDE DEF top, ids
  <2> QED
    BY <2>6, <2>7, <1>2, <1>3
<1> QED
  BY <1>4, <1>5

-----------------------------------------------------------------------------
(* Operators on the stream and the pipeline. *)

\* Every method leaves a stream behind.
LEMMA StreamType ==
    ASSUME NEW s \in Streams
    PROVE  /\ NewStream \in Streams
           /\ Start(s) \in Streams
           /\ BackoffElapsed(s) \in Streams
           /\ OnStreamStart(s) \in Streams
           /\ InhibitBackoff(s) \in Streams
           /\ MarkIdle(s) \in Streams
           /\ CancelIdleCheck(s) \in Streams
           /\ Stop(s) \in Streams
           /\ OnStreamFinish(s) \in Streams
<1> USE DEF Streams, States
<1>1. NewStream \in Streams /\ Start(s) \in Streams
  BY DEF NewStream, Start
<1>2. BackoffElapsed(s) \in Streams
  BY DEF BackoffElapsed, Start
<1>3. OnStreamStart(s) \in Streams /\ InhibitBackoff(s) \in Streams
  BY DEF OnStreamStart, InhibitBackoff
<1>4. MarkIdle(s) \in Streams /\ CancelIdleCheck(s) \in Streams
  BY DEF MarkIdle, CancelIdleCheck, IsOpen
<1>5. Stop(s) \in Streams /\ OnStreamFinish(s) \in Streams
  BY DEF Stop, OnStreamFinish, Close
<1> QED
  BY <1>1, <1>2, <1>3, <1>4, <1>5

\* The RPC and the requests on it: the handshake is complete only on an open
\* stream, a stream is open only for a user's token, and only a stream whose
\* pipeline ran empty is idle.
Connection(r) ==
    /\ r.wire = IF r.handshake_complete THEN WritesOf(r.pipeline) ELSE <<>>
    /\ r.handled <= Len(r.wire)
    /\ r.handshake_complete => IsOpen(r.stream)
    /\ IsOpen(r.stream) => r.peer # Nil
    /\ r.stream.idle => r.handshake_complete /\ r.pipeline = <<>>

\* The pipeline is what the oldest rows of the queue leave room for.
HeadOf(r, rows) ==
    /\ Len(r.pipeline) <= Len(rows)
    /\ Len(r.pipeline) <= kMaxPendingWrites
    /\ r.pipeline = SubSeq(rows, 1, Len(r.pipeline))

\* The pipeline is as full as it can be and a stream is under way for it.
Serves(r, rows) ==
    /\ r \in Remote
    /\ HeadOf(r, rows)
    /\ Len(r.pipeline) = Len(rows) \/ Len(r.pipeline) = kMaxPendingWrites
    /\ r.pipeline # <<>> => IsStarted(r.stream)
    /\ Connection(r)

\* The writes of a sequence of batches are a sequence of writes.
LEMMA WritesOfType ==
    ASSUME NEW rows \in Seq(Batch)
    PROVE  /\ WritesOf(rows) \in Seq(Writes)
           /\ Len(WritesOf(rows)) = Len(rows)
           /\ DOMAIN WritesOf(rows) = 1..Len(rows)
           /\ \A i \in 1..Len(rows) : WritesOf(rows)[i] = rows[i].write
           /\ rows = <<>> => WritesOf(rows) = <<>>
           /\ rows # <<>> => Head(WritesOf(rows)) = Head(rows).write
<1>1. /\ Len(rows) \in Nat /\ DOMAIN rows = 1..Len(rows)
      /\ \A i \in 1..Len(rows) : rows[i].write \in Writes
  BY RowsType
<1>2. WritesOf(rows) = [i \in 1..Len(rows) |-> rows[i].write]
  BY <1>1 DEF WritesOf
<1>3. WritesOf(rows) \in Seq(Writes) /\ Len(WritesOf(rows)) = Len(rows)
  BY <1>1, <1>2, IsASeq
<1>4. \A i \in 1..Len(rows) : WritesOf(rows)[i] = rows[i].write
  BY <1>2
<1>5. rows = <<>> => WritesOf(rows) = <<>>
  BY <1>3, EmptySeq
<1>6. rows # <<>> => Head(WritesOf(rows)) = Head(rows).write
  BY <1>1, <1>2, <1>3, <1>4, EmptySeq
<1> QED
  BY <1>2, <1>3, <1>4, <1>5, <1>6

\* The writes of a queue to which another is added.
LEMMA WritesOfConcat ==
    ASSUME NEW rows \in Seq(Batch), NEW more \in Seq(Batch)
    PROVE  WritesOf(rows \o more) = WritesOf(rows) \o WritesOf(more)
<1>1. Len(rows) \in Nat /\ Len(more) \in Nat
  BY RowsType
<1>2. WritesOf(rows) \in Seq(Writes) /\ WritesOf(more) \in Seq(Writes)
  BY WritesOfType
<1>3. Len(WritesOf(rows)) = Len(rows) /\ Len(WritesOf(more)) = Len(more)
  BY WritesOfType
<1> DEFINE all == rows \o more
           ws  == WritesOf(rows) \o WritesOf(more)
<1>4. all \in Seq(Batch) /\ Len(all) = Len(rows) + Len(more)
  BY ConcatProperties
<1>5. \A i \in 1..Len(rows) + Len(more) :
         all[i] = IF i <= Len(rows) THEN rows[i] ELSE more[i - Len(rows)]
  BY ConcatProperties
<1>6. ws \in Seq(Writes) /\ Len(ws) = Len(rows) + Len(more)
  <2>1. ws \in Seq(Writes) /\ Len(ws) = Len(WritesOf(rows)) + Len(WritesOf(more))
    BY <1>2, ConcatProperties, Zenon
  <2> HIDE DEF ws
  <2> QED
    BY <1>3, <2>1
<1>7. \A i \in 1..Len(rows) + Len(more) :
         ws[i] = IF i <= Len(rows) THEN WritesOf(rows)[i] ELSE WritesOf(more)[i - Len(rows)]
  BY <1>2, <1>3, ConcatProperties
<1> HIDE DEF all, ws
<1>8. WritesOf(all) \in Seq(Writes) /\ Len(WritesOf(all)) = Len(rows) + Len(more)
  BY <1>4, WritesOfType
<1>9. ASSUME NEW i \in 1..Len(rows) + Len(more) PROVE WritesOf(all)[i] = ws[i]
  <2>1. WritesOf(all)[i] = all[i].write
    BY <1>4, WritesOfType
  <2>2. CASE i <= Len(rows)
    BY <1>1, <1>5, <1>7, <2>1, <2>2, WritesOfType
  <2>3. CASE i > Len(rows)
    <3>1. i - Len(rows) \in 1..Len(more) /\ ~ i <= Len(rows)
      BY <1>1, <2>3
    <3> QED
      BY <1>5, <1>7, <2>1, <3>1, WritesOfType
  <2> QED
    BY <1>1, <2>2, <2>3
<1>10. WritesOf(all) = ws
  BY <1>6, <1>8, <1>9, SeqEqual
<1> QED
  BY <1>10 DEF all, ws

\* The writes of a queue to which a batch is appended.
LEMMA WritesOfAppend ==
    ASSUME NEW rows \in Seq(Batch), NEW b \in Batch
    PROVE  WritesOf(Append(rows, b)) = Append(WritesOf(rows), b.write)
<1>1. Len(rows) \in Nat /\ b.write \in Writes
  BY RowsType DEF Batch
<1>2. WritesOf(rows) \in Seq(Writes) /\ Len(WritesOf(rows)) = Len(rows)
  BY WritesOfType
<1> DEFINE all == Append(rows, b)
           ws  == Append(WritesOf(rows), b.write)
<1>3. /\ all \in Seq(Batch) /\ Len(all) = Len(rows) + 1
      /\ \A i \in 1..Len(rows) : all[i] = rows[i]
      /\ all[Len(rows) + 1] = b
  BY AppendProperties
<1>4. /\ ws \in Seq(Writes) /\ Len(ws) = Len(rows) + 1
      /\ \A i \in 1..Len(rows) : ws[i] = WritesOf(rows)[i]
      /\ ws[Len(rows) + 1] = b.write
  BY <1>1, <1>2, AppendProperties
<1> HIDE DEF all, ws
<1>5. WritesOf(all) \in Seq(Writes) /\ Len(WritesOf(all)) = Len(rows) + 1
  BY <1>3, WritesOfType
<1>6. ASSUME NEW i \in 1..Len(rows) + 1 PROVE WritesOf(all)[i] = ws[i]
  <2>1. WritesOf(all)[i] = all[i].write
    BY <1>3, WritesOfType
  <2>2. i \in 1..Len(rows) \/ i = Len(rows) + 1
    BY <1>1
  <2> QED
    BY <1>3, <1>4, <2>1, <2>2, WritesOfType
<1>7. WritesOf(all) = ws
  BY <1>4, <1>5, <1>6, SeqEqual
<1> QED
  BY <1>7 DEF all, ws

\* The writes of a queue whose first batch was answered.
LEMMA WritesOfTail ==
    ASSUME NEW rows \in Seq(Batch), rows # <<>>
    PROVE  WritesOf(Tail(rows)) = Tail(WritesOf(rows))
<1>1. Len(rows) \in Nat
  BY RowsType
<1>2. WritesOf(rows) \in Seq(Writes) /\ Len(WritesOf(rows)) = Len(rows)
  BY WritesOfType
<1> DEFINE all == Tail(rows)
           ws  == Tail(WritesOf(rows))
<1>3. /\ all \in Seq(Batch) /\ Len(all) = Len(rows) - 1
      /\ \A i \in 1..Len(all) : all[i] = rows[i + 1]
  BY HeadTailProperties
<1>4. WritesOf(rows) # <<>>
  BY <1>1, <1>2, EmptySeq
<1>5. /\ ws \in Seq(Writes) /\ Len(ws) = Len(rows) - 1
      /\ \A i \in 1..Len(ws) : ws[i] = WritesOf(rows)[i + 1]
  BY <1>2, <1>4, HeadTailProperties
<1> HIDE DEF all, ws
<1>6. WritesOf(all) \in Seq(Writes) /\ Len(WritesOf(all)) = Len(rows) - 1
  BY <1>3, WritesOfType
<1>7. ASSUME NEW i \in 1..Len(rows) - 1 PROVE WritesOf(all)[i] = ws[i]
  <2>1. WritesOf(all)[i] = all[i].write
    BY <1>3, WritesOfType
  <2>2. i + 1 \in 1..Len(rows)
    BY <1>1
  <2> QED
    BY <1>3, <1>5, <2>1, <2>2, WritesOfType
<1>8. WritesOf(all) = ws
  BY <1>5, <1>6, <1>7, SeqEqual
<1> QED
  BY <1>8 DEF all, ws

\* FillWritePipeline takes the rows after those it has, oldest first, until
\* the pipeline is full or the queue empty, sends them on a stream that is
\* ready, and starts a stream when there is none; the answers outstanding
\* still match the pipeline.
LEMMA FillFromQueue ==
    ASSUME NEW r \in Remote, NEW rows \in Seq(Batch), Ascending(rows), HeadOf(r, rows),
           Connection(r), IsOpen(r.stream) => r.handshake_complete \/ rows # <<>>
    PROVE  LET f == FillWritePipeline(r, rows) IN
           /\ Serves(f, rows)
           /\ f.handled = r.handled /\ f.peer = r.peer
           /\ f.handshake_complete = r.handshake_complete
           /\ f.stream.close_count = r.stream.close_count
           /\ f.stream.state = IF IsStarted(r.stream) \/ f.pipeline = <<>>
                               THEN r.stream.state ELSE Start(r.stream).state
<1> DEFINE n       == Len(r.pipeline)
           upto    == IF Len(rows) <= kMaxPendingWrites THEN Len(rows) ELSE kMaxPendingWrites
           batches == SubSeq(rows, n + 1, upto)
           p2      == SubSeq(rows, 1, upto)
           s2      == IF r.handshake_complete /\ batches # <<>>
                      THEN CancelIdleCheck(r.stream) ELSE r.stream
           s3      == IF p2 = <<>> THEN MarkIdle(s2) ELSE s2
           s4      == IF ~ IsStarted(s3) /\ p2 # <<>> THEN Start(s3) ELSE s3
           w2      == IF r.handshake_complete THEN r.wire \o WritesOf(batches) ELSE r.wire
           f       == [r EXCEPT !.pipeline = p2, !.stream = s4, !.wire = w2]
<1>1. /\ r.pipeline \in Seq(Batch) /\ r.stream \in Streams /\ r.handshake_complete \in BOOLEAN
      /\ r.peer \in Users \cup {Nil} /\ r.wire \in Seq(Writes) /\ r.handled \in Nat
  BY DEF Remote
<1>2. Len(rows) \in Nat /\ n \in Nat /\ kMaxPendingWrites \in Nat \ {0}
  BY <1>1, LenProperties, CapacityAssumption
<1>3. upto \in Nat /\ upto <= Len(rows) /\ upto <= kMaxPendingWrites /\ n <= upto
      /\ (upto = Len(rows) \/ upto = kMaxPendingWrites)
  BY <1>2 DEF HeadOf
<1> HIDE DEF upto
<1>4. /\ p2 \in Seq(Batch) /\ Len(p2) = upto
      /\ batches \in Seq(Batch) /\ Len(batches) = upto - n
  <2>1. \A i \in 1..upto : rows[i] \in Batch
    BY <1>2, <1>3, RowsType
  <2>2. p2 \in Seq(Batch) /\ Len(p2) = IF 1 <= upto THEN upto - 1 + 1 ELSE 0
    BY <1>3, <2>1, SubSeqProperties
  <2> DEFINE k == n + 1
  <2>3. k \in Int /\ upto \in Int /\ \A i \in k..upto : rows[i] \in Batch
    BY <1>2, <1>3, <2>1
  <2> HIDE DEF k
  <2>4. /\ SubSeq(rows, k, upto) \in Seq(Batch)
        /\ Len(SubSeq(rows, k, upto)) = IF k <= upto THEN upto - k + 1 ELSE 0
    BY <2>3, SubSeqProperties
  <2>5. Len(p2) = upto
    BY <1>3, <2>2
  <2>6. Len(SubSeq(rows, k, upto)) = upto - n
    <3> DEFINE l == Len(SubSeq(rows, k, upto))
    <3>1. l = IF k <= upto THEN upto - k + 1 ELSE 0
      BY <2>4
    <3> HIDE DEF l
    <3>2. k = n + 1 /\ n \in Nat /\ upto \in Nat /\ n <= upto
      BY <1>2, <1>3 DEF k
    <3> HIDE DEF n
    <3>3. l = upto - n
      BY <3>1, <3>2
    <3> QED
      BY <3>3 DEF l
  <2> QED
    BY <2>2, <2>4, <2>5, <2>6 DEF k
<1>5. r.pipeline \o batches = p2
  <2>1. r.pipeline = SubSeq(rows, 1, n)
    BY DEF HeadOf
  <2>2. 1 \in 1..Len(rows) + 1 /\ n \in 1 - 1..Len(rows) /\ upto \in n..Len(rows)
    BY <1>2, <1>3
  <2>3. SubSeq(rows, 1, n) \o SubSeq(rows, n + 1, upto) = SubSeq(rows, 1, upto)
    BY <2>2, ConcatAdjacentSubSeq
  <2> QED
    BY <2>1, <2>3
<1>6. FillWritePipeline(r, rows) = f
  <2> DEFINE last == IF r.pipeline = <<>> THEN kBatchIdUnknown ELSE r.pipeline[n].id
             r2   == [r EXCEPT !.pipeline = p2, !.stream = s2, !.wire = w2]
             r3   == [r EXCEPT !.pipeline = p2, !.stream = s3, !.wire = w2]
  <2>1. RowsUpTo(rows, last) = n
    <3>1. r.pipeline = <<>> <=> n = 0
      BY <1>1, EmptySeq
    <3>2. n > 0 => r.pipeline[n] = rows[n]
      <4> SUFFICES ASSUME n > 0 PROVE r.pipeline[n] = rows[n]
        OBVIOUS
      <4>1. \A i \in 1..n : rows[i] \in Batch
        BY <1>2, <1>3, RowsType
      <4>2. SubSeq(rows, 1, n)[n] = rows[1 + n - 1]
        BY <1>2, <4>1, SubSeqProperties
      <4> QED
        BY <1>2, <4>2 DEF HeadOf
    <3>3. last = IF n = 0 THEN kBatchIdUnknown ELSE rows[n].id
      BY <1>2, <3>1, <3>2
    <3>4. n \in 0..Len(rows)
      BY <1>2, <1>3
    <3> HIDE DEF last
    <3> QED
      BY <3>3, <3>4, RowsUpToPrefix
  <2>2. (IF Len(rows) - n <= CanAdd(r) THEN Len(rows) ELSE n + CanAdd(r)) = upto
    BY <1>2 DEF CanAdd, upto
  <2>3. AddToWritePipeline(r, batches) = r2
    <3>1. r.wire \o [i \in DOMAIN batches |-> batches[i].write] = r.wire \o WritesOf(batches)
      BY DEF WritesOf
    <3> HIDE DEF p2, batches
    <3>2. CASE r.handshake_complete
      <4>1. IsOpen(r.stream)
        BY <3>2 DEF Connection
      <4>2. AddToWritePipeline(r, batches) = Send([r EXCEPT !.pipeline = p2], batches)
        BY <1>5, <3>2, <4>1 DEF AddToWritePipeline
      <4> QED
        BY <3>1, <3>2, <4>2 DEF Send, Remote
    <3>3. CASE ~ r.handshake_complete
      BY <1>5, <3>3 DEF AddToWritePipeline, Remote
    <3> QED
      BY <3>2, <3>3
  <2>4. FillWritePipeline(r, rows)
          = LET a == AddToWritePipeline(r, batches) IN
            StartIfNeeded(IF a.pipeline = <<>> THEN [a EXCEPT !.stream = MarkIdle(@)] ELSE a)
    BY <2>1, <2>2 DEF FillWritePipeline
  <2> HIDE DEF p2, s2, w2, batches, upto
  <2>5. FillWritePipeline(r, rows) = StartIfNeeded(r3)
    BY <2>3, <2>4 DEF Remote
  <2> HIDE DEF s3
  <2> QED
    BY <2>5 DEF StartIfNeeded, ShouldStartWriteStream, Remote
<1>7. s4 \in Streams /\ w2 \in Seq(Writes)
  BY <1>1, <1>4, StreamType, WritesOfType, ConcatProperties
<1>8. f \in Remote
  BY <1>1, <1>4, <1>7 DEF Remote
<1>9. /\ f.pipeline = p2 /\ f.stream = s4 /\ f.wire = w2
      /\ f.handled = r.handled /\ f.peer = r.peer
      /\ f.handshake_complete = r.handshake_complete
  BY DEF Remote
<1> HIDE DEF p2, batches
<1>10. p2 = <<>> <=> upto = 0
  BY <1>3, <1>4, EmptySeq
<1>11. batches = <<>> <=> upto = n
  BY <1>2, <1>3, <1>4, EmptySeq
<1>12. w2 = IF r.handshake_complete THEN WritesOf(p2) ELSE <<>>
  <2>1. r.wire = IF r.handshake_complete THEN WritesOf(r.pipeline) ELSE <<>>
    BY DEF Connection
  <2>2. WritesOf(r.pipeline \o batches) = WritesOf(r.pipeline) \o WritesOf(batches)
    BY <1>1, <1>4, WritesOfConcat
  <2> QED
    BY <1>5, <2>1, <2>2
<1>13. r.handled <= Len(w2)
  <2>1. r.handshake_complete => Len(w2) = upto /\ r.handled <= n
    BY <1>1, <1>4, <1>12, WritesOfType DEF Connection
  <2>2. ~ r.handshake_complete => w2 = r.wire
    OBVIOUS
  <2> HIDE DEF w2, n
  <2> QED
    BY <1>1, <1>2, <1>3, <2>1, <2>2 DEF Connection
<1>14. /\ s4.close_count = r.stream.close_count
       /\ s4.state = IF IsStarted(r.stream) \/ p2 = <<>>
                     THEN r.stream.state ELSE Start(r.stream).state
       /\ p2 # <<>> => IsStarted(s4)
  <2>1. s2 \in Streams /\ s2.state = r.stream.state /\ s2.close_count = r.stream.close_count
    BY <1>1, StreamType DEF CancelIdleCheck, Streams
  <2> HIDE DEF s2
  <2>2. s3 \in Streams /\ s3.state = r.stream.state /\ s3.close_count = r.stream.close_count
    BY <2>1, StreamType DEF MarkIdle, Streams
  <2> HIDE DEF s3
  <2> QED
    BY <1>1, <2>2 DEF Start, IsStarted, Streams
<1>15. s4.idle => r.handshake_complete /\ p2 = <<>>
  <2>1. s2.idle => r.handshake_complete /\ p2 = <<>>
    <3>1. CASE r.handshake_complete /\ batches # <<>>
      BY <1>1, <3>1 DEF CancelIdleCheck, Streams
    <3>2. CASE ~ (r.handshake_complete /\ batches # <<>>)
      <4>1. s2 = r.stream
        BY <3>2
      <4>2. r.stream.idle => r.handshake_complete /\ n = 0
        BY EmptySeq DEF Connection
      <4>3. r.stream.idle => batches = <<>>
        BY <3>2, <4>2
      <4> HIDE DEF n
      <4> QED
        BY <4>1, <4>2, <4>3, <1>10, <1>11
    <3> QED
      BY <3>1, <3>2
  <2>2. s3.idle => r.handshake_complete /\ p2 = <<>>
    <3>1. CASE p2 # <<>>
      BY <2>1, <3>1
    <3>2. CASE p2 = <<>>
      <4>1. rows = <<>>
        BY <1>2, <1>3, <1>10, <3>2, EmptySeq
      <4>2. s2 \in Streams /\ IsOpen(s2) = IsOpen(r.stream)
        BY <1>1, StreamType DEF CancelIdleCheck, IsOpen, Streams
      <4>3. s3 = MarkIdle(s2)
        BY <3>2
      <4> HIDE DEF s2, s3
      <4>4. s3.idle => s2.idle \/ IsOpen(s2)
        BY <4>2, <4>3 DEF MarkIdle, Streams
      <4> QED
        BY <2>1, <3>2, <4>1, <4>2, <4>4
    <3> QED
      BY <3>1, <3>2
  <2>3. s4.idle = s3.idle
    <3>1. s3 \in Streams
      BY <1>1, StreamType
    <3> HIDE DEF s3
    <3> QED
      BY <3>1 DEF Start, Streams
  <2> QED
    BY <2>2, <2>3
<1> HIDE DEF s4, w2
<1>16. Connection(f)
  <2>1. /\ r.handshake_complete => IsOpen(s4)
        /\ IsOpen(s4) => r.peer # Nil
    BY <1>1, <1>14 DEF Connection, IsOpen, IsStarted, Start, Streams
  <2> QED
    BY <1>9, <1>12, <1>13, <1>15, <2>1 DEF Connection
<1>17. HeadOf(f, rows)
  BY <1>3, <1>4, <1>9 DEF HeadOf, p2
<1> HIDE DEF f
<1> QED
  BY <1>3, <1>4, <1>6, <1>8, <1>9, <1>14, <1>16, <1>17 DEF Serves

\* A record of a stream without an RPC and with nothing in the pipeline.
Fresh(r) ==
    /\ r \in Remote /\ r.pipeline = <<>> /\ r.wire = <<>> /\ r.handled = 0 /\ r.peer = Nil
    /\ ~ r.handshake_complete /\ ~ IsOpen(r.stream) /\ ~ r.stream.idle

\* An empty pipeline without a stream, filled from a queue.
LEMMA FillEmpty ==
    ASSUME NEW r, Fresh(r), NEW rows \in Seq(Batch), Ascending(rows)
    PROVE  LET f == FillWritePipeline(r, rows) IN
           /\ Serves(f, rows)
           /\ f.handled = 0 /\ f.peer = Nil /\ ~ f.handshake_complete
           /\ f.stream.close_count = r.stream.close_count
           /\ f.stream.state = IF IsStarted(r.stream) \/ f.pipeline = <<>>
                               THEN r.stream.state ELSE Start(r.stream).state
<1>1. Len(rows) \in Nat /\ Len(r.pipeline) = 0 /\ SubSeq(rows, 1, 0) = <<>>
  BY LenProperties, EmptySeq, SubSeqEmpty DEF Fresh
<1>2. HeadOf(r, rows)
  BY <1>1, CapacityAssumption DEF HeadOf, Fresh
<1>3. Connection(r)
  BY EmptySeq DEF Connection, Fresh
<1>4. r \in Remote /\ (IsOpen(r.stream) => r.handshake_complete \/ rows # <<>>)
  BY DEF Fresh
<1> DEFINE f == FillWritePipeline(r, rows)
<1>5. /\ Serves(f, rows)
      /\ f.handled = r.handled /\ f.peer = r.peer
      /\ f.handshake_complete = r.handshake_complete
      /\ f.stream.close_count = r.stream.close_count
      /\ f.stream.state = IF IsStarted(r.stream) \/ f.pipeline = <<>>
                           THEN r.stream.state ELSE Start(r.stream).state
  BY <1>2, <1>3, <1>4, FillFromQueue
<1> QED
  BY <1>5 DEF Fresh

\* RestartNetwork: whatever the stream was doing, the next one starts with
\* the oldest rows of the queue, and a request for credentials made for the
\* previous one is out of date.
LEMMA RestartFromQueue ==
    ASSUME NEW r \in Remote, Connection(r), NEW rows \in Seq(Batch), Ascending(rows)
    PROVE  LET f == RestartNetwork(r, rows) IN
           /\ Serves(f, rows)
           /\ f.handled = 0 /\ f.peer = Nil /\ ~ f.handshake_complete
           /\ f.stream.close_count = IF IsStarted(r.stream) THEN r.stream.close_count + 1
                                     ELSE r.stream.close_count
           /\ f.stream.state = IF f.pipeline = <<>> THEN "Initial" ELSE "Starting"
<1> DEFINE s == InhibitBackoff(Stop(r.stream))
<1>1. r.stream \in Streams
  BY DEF Remote
<1>2. s \in Streams
  BY <1>1, StreamType
<1>3. /\ ~ IsOpen(s) /\ ~ IsStarted(s) /\ s.state = "Initial"
      /\ Start(s).state = "Starting"
      /\ s.close_count = IF IsStarted(r.stream) THEN r.stream.close_count + 1
                         ELSE r.stream.close_count
  BY <1>1 DEF InhibitBackoff, Stop, Close, IsOpen, IsStarted, Start, Streams
<1>4. ~ s.idle
  <2>1. r.stream.idle => IsStarted(r.stream)
    BY DEF Connection, IsOpen, IsStarted
  <2> QED
    BY <1>1, <2>1 DEF InhibitBackoff, Stop, Close, Streams
<1> DEFINE empty == [NoRPC EXCEPT !.stream = s]
<1>5. RestartNetwork(r, rows) = FillWritePipeline(empty, rows)
  BY DEF RestartNetwork
<1> HIDE DEF s
<1>6. Fresh(empty) /\ empty.stream = s
  BY <1>2, <1>3, <1>4, EmptySeq DEF NoRPC, Remote, Fresh
<1> HIDE DEF empty
<1> QED
  BY <1>3, <1>5, <1>6, FillEmpty

\* The order of the keys survives what is done to the table.
LEMMA AscendingQueue ==
    ASSUME NEW rows \in Seq(Batch), Ascending(rows), NEW b \in Batch,
           \A i \in DOMAIN rows : rows[i].id < b.id
    PROVE  Ascending(Append(rows, b))
<1>1. Len(rows) \in Nat /\ DOMAIN rows = 1..Len(rows) /\ b.id \in Nat
  BY RowsType DEF Batch
<1>2. /\ Append(rows, b) \in Seq(Batch) /\ Len(Append(rows, b)) = Len(rows) + 1
      /\ \A i \in 1..Len(rows) : Append(rows, b)[i] = rows[i]
      /\ Append(rows, b)[Len(rows) + 1] = b
  BY AppendProperties
<1>3. DOMAIN Append(rows, b) = 1..Len(rows) + 1
  BY <1>2, RowsType
<1> SUFFICES ASSUME NEW i \in 1..Len(rows) + 1, NEW j \in 1..Len(rows) + 1, i < j
             PROVE  Append(rows, b)[i].id < Append(rows, b)[j].id
  BY <1>3 DEF Ascending
<1>4. i \in 1..Len(rows) /\ (j \in 1..Len(rows) \/ j = Len(rows) + 1)
  BY <1>1
<1>5. Append(rows, b)[i] = rows[i] /\ rows[i].id < b.id
  BY <1>1, <1>2, <1>4
<1>6. CASE j \in 1..Len(rows)
  BY <1>1, <1>2, <1>4, <1>6 DEF Ascending
<1>7. CASE j = Len(rows) + 1
  BY <1>2, <1>5, <1>7
<1> QED
  BY <1>4, <1>6, <1>7

\* What is left of a queue and of its first rows when the first is removed.
LEMMA TailOfQueue ==
    ASSUME NEW rows \in Seq(Batch), Ascending(rows), NEW n \in 1..Len(rows)
    PROVE  /\ rows # <<>>
           /\ Tail(rows) \in Seq(Batch)
           /\ Len(Tail(rows)) = Len(rows) - 1
           /\ \A i \in 1..Len(rows) - 1 : Tail(rows)[i] = rows[i + 1]
           /\ Ascending(Tail(rows))
           /\ Head(SubSeq(rows, 1, n)) = Head(rows)
           /\ Head(rows) = rows[1]
           /\ Tail(SubSeq(rows, 1, n)) = SubSeq(Tail(rows), 1, n - 1)
<1>1. Len(rows) \in Nat /\ DOMAIN rows = 1..Len(rows)
  BY RowsType
<1>2. rows # <<>>
  BY <1>1, EmptySeq
<1>3. Tail(rows) \in Seq(Batch) /\ Len(Tail(rows)) = Len(rows) - 1
  BY <1>2, HeadTailProperties
<1>4. \A i \in 1..Len(rows) - 1 : Tail(rows)[i] = rows[i + 1]
  BY <1>2, <1>3, HeadTailProperties
<1>5. Ascending(Tail(rows))
  <2>1. DOMAIN Tail(rows) = 1..Len(rows) - 1
    BY <1>3, RowsType
  <2> QED
    BY <1>1, <1>4, <2>1 DEF Ascending
<1>6. Head(rows) = rows[1]
  BY <1>1, <1>2
<1>7. /\ Head(SubSeq(rows, 1, n)) = rows[1]
      /\ Tail(SubSeq(rows, 1, n)) = SubSeq(rows, 1 + 1, n)
  BY <1>1, HeadTailOfSubSeq
<1>8. SubSeq(rows, 1 + 1, n) = SubSeq(Tail(rows), 1, n - 1)
  <2> DEFINE a == SubSeq(rows, 2, n)
             t == Tail(rows)
             b == SubSeq(t, 1, n - 1)
  <2>1. \A i \in 2..n : rows[i] \in Batch
    BY <1>1, RowsType
  <2>2. /\ a \in Seq(Batch) /\ Len(a) = IF 2 <= n THEN n - 2 + 1 ELSE 0
        /\ \A i \in 1..n - 2 + 1 : a[i] = rows[2 + i - 1]
    BY <1>1, <2>1, SubSeqProperties
  <2> HIDE DEF a, t
  <2>3. t \in Seq(Batch) /\ Len(t) = Len(rows) - 1
        /\ \A i \in 1..Len(rows) - 1 : t[i] = rows[i + 1]
    BY <1>3, <1>4 DEF t
  <2>4. n - 1 \in Int /\ \A i \in 1..n - 1 : t[i] \in Batch
    BY <1>1, <2>3, RowsType
  <2>5. /\ b \in Seq(Batch) /\ Len(b) = IF 1 <= n - 1 THEN (n - 1) - 1 + 1 ELSE 0
        /\ \A i \in 1..(n - 1) - 1 + 1 : b[i] = t[1 + i - 1]
    BY <2>4, SubSeqProperties
  <2> HIDE DEF b
  <2>6. Len(a) = n - 1 /\ Len(b) = n - 1
    BY <1>1, <2>2, <2>5
  <2>7. \A i \in 1..n - 1 : a[i] = rows[i + 1] /\ b[i] = rows[i + 1]
    BY <1>1, <2>2, <2>3, <2>5
  <2>8. a = b
    BY <2>2, <2>5, <2>6, <2>7, SeqEqual
  <2> QED
    BY <2>8 DEF a, b, t
<1> QED
  BY <1>2, <1>3, <1>4, <1>5, <1>6, <1>7, <1>8

\* The requests that wait for an answer are those of the oldest rows.
LEMMA WireIsHeadOfQueue ==
    ASSUME NEW r \in Remote, NEW rows \in Seq(Batch), HeadOf(r, rows), Connection(r)
    PROVE  /\ Len(r.wire) \in Nat /\ Len(r.wire) <= Len(rows) /\ Len(rows) \in Nat
           /\ DOMAIN r.wire = 1..Len(r.wire)
           /\ Len(r.wire) <= Len(r.pipeline) /\ Len(r.pipeline) \in Nat
           /\ \A i \in 1..Len(r.pipeline) : r.pipeline[i] = rows[i]
           /\ \A i \in 1..Len(r.wire) : r.wire[i] = rows[i].write
           /\ r.wire # <<>> => r.handshake_complete /\ r.wire = WritesOf(r.pipeline)
<1>1. r.pipeline \in Seq(Batch) /\ r.wire \in Seq(Writes)
  BY DEF Remote
<1>2. /\ Len(r.pipeline) \in Nat /\ Len(rows) \in Nat /\ Len(r.pipeline) <= Len(rows)
      /\ Len(r.wire) \in Nat /\ DOMAIN r.wire = 1..Len(r.wire)
  BY <1>1, LenProperties DEF HeadOf
<1>3. r.wire # <<>> => r.handshake_complete /\ r.wire = WritesOf(r.pipeline)
  BY DEF Connection
<1>4. \A i \in 1..Len(r.pipeline) : r.pipeline[i] = rows[i]
  <2> DEFINE n == Len(r.pipeline)
  <2> HIDE DEF n
  <2>1. n \in Nat /\ \A i \in 1..n : rows[i] \in Batch
    BY <1>2, RowsType DEF n
  <2>2. \A i \in 1..n - 1 + 1 : SubSeq(rows, 1, n)[i] = rows[1 + i - 1]
    BY <2>1, SubSeqProperties
  <2>3. r.pipeline = SubSeq(rows, 1, n)
    BY DEF HeadOf, n
  <2>4. \A i \in 1..n : r.pipeline[i] = rows[i]
    BY <2>1, <2>2, <2>3
  <2> QED
    BY <2>4 DEF n
<1>5. CASE r.wire = <<>>
  BY <1>2, <1>3, <1>4, <1>5, EmptySeq
<1>6. CASE r.wire # <<>>
  <2>1. /\ Len(r.wire) = Len(r.pipeline)
        /\ \A i \in 1..Len(r.pipeline) : r.wire[i] = r.pipeline[i].write
    BY <1>1, <1>3, <1>6, WritesOfType
  <2> QED
    BY <1>2, <1>3, <1>4, <2>1
<1> QED
  BY <1>5, <1>6

\* A stream without an RPC for a pipeline that is kept.
LEMMA ClosedRPC ==
    ASSUME NEW r \in Remote, NEW s \in Streams, ~ IsOpen(s), ~ s.idle
    PROVE  LET c == Closed(r, s) IN
           /\ c \in Remote /\ Connection(c)
           /\ c.pipeline = r.pipeline /\ c.stream = s /\ ~ c.handshake_complete
           /\ c.peer = Nil /\ c.wire = <<>> /\ c.handled = 0
<1> DEFINE c == Closed(r, s)
<1>1. r.pipeline \in Seq(Batch) /\ <<>> \in Seq(Writes) /\ Len(<<>>) = 0
  BY EmptySeq DEF Remote
<1>2. /\ c \in Remote
      /\ c.pipeline = r.pipeline /\ c.stream = s /\ ~ c.handshake_complete
      /\ c.peer = Nil /\ c.wire = <<>> /\ c.handled = 0
  BY <1>1 DEF Closed, NoRPC, Remote
<1> HIDE DEF c
<1>3. Connection(c)
  BY <1>1, <1>2 DEF Connection
<1> QED
  BY <1>2, <1>3 DEF c

\* OnWriteStreamClose after an error that is not the write's: the pipeline
\* stays, to be sent again by the stream that starts after the backoff.
LEMMA BrokenKeepsPipeline ==
    ASSUME NEW rows \in Seq(Batch), NEW r, Serves(r, rows)
    PROVE  LET f == OnWriteStreamBroken(r) IN
           /\ Serves(f, rows)
           /\ f.handled = 0 /\ f.peer = Nil /\ ~ f.handshake_complete
           /\ f.stream.close_count = r.stream.close_count + 1
           /\ f.stream.state \in {"Error", "Backoff"}
<1> DEFINE s == OnStreamFinish(r.stream)
           c == Closed(r, s)
           f == OnWriteStreamBroken(r)
<1>1. r \in Remote /\ r.stream \in Streams
  BY DEF Serves, Remote
<1>2. /\ s \in Streams /\ s.state = "Error" /\ ~ IsOpen(s) /\ ~ s.idle /\ ~ IsStarted(s)
      /\ s.close_count = r.stream.close_count + 1
  BY <1>1, StreamType DEF OnStreamFinish, Close, IsOpen, IsStarted, Streams
<1> HIDE DEF s
<1>3. /\ c \in Remote /\ Connection(c)
      /\ c.pipeline = r.pipeline /\ c.stream = s /\ ~ c.handshake_complete
      /\ c.peer = Nil /\ c.wire = <<>> /\ c.handled = 0
  BY <1>1, <1>2, ClosedRPC
<1>4. f = StartIfNeeded(c)
  BY DEF OnWriteStreamBroken, s
<1>5. f = IF r.pipeline # <<>> THEN [c EXCEPT !.stream = Start(s)] ELSE c
  BY <1>2, <1>3, <1>4 DEF StartIfNeeded, ShouldStartWriteStream
<1> HIDE DEF c
<1>6. CASE r.pipeline = <<>>
  BY <1>2, <1>3, <1>5, <1>6 DEF Serves, HeadOf
<1>7. CASE r.pipeline # <<>>
  <2>1. /\ Start(s) \in Streams /\ Start(s).state = "Backoff" /\ ~ Start(s).idle
        /\ Start(s).close_count = s.close_count /\ IsStarted(Start(s)) /\ ~ IsOpen(Start(s))
    BY <1>2, StreamType DEF Start, IsStarted, IsOpen, Streams
  <2>2. /\ f \in Remote /\ f.pipeline = r.pipeline /\ f.stream = Start(s)
        /\ ~ f.handshake_complete /\ f.peer = Nil /\ f.wire = <<>> /\ f.handled = 0
    <3>1. f = [c EXCEPT !.stream = Start(s)]
      BY <1>5, <1>7
    <3> HIDE DEF f
    <3> QED
      BY <1>3, <2>1, <3>1 DEF Remote
  <2>3. Connection(f)
    BY <2>1, <2>2, EmptySeq DEF Connection
  <2>4. Serves(f, rows)
    BY <2>1, <2>2, <2>3 DEF Serves, HeadOf
  <2> QED
    BY <1>2, <2>1, <2>2, <2>4
<1> QED
  BY <1>6, <1>7

\* The batch that OnWriteStreamMutationResult and HandleWriteError answer is
\* the first row of the queue.
LEMMA AnswerIsForHead ==
    ASSUME NEW rows \in Seq(Batch), Ascending(rows), NEW r, Serves(r, rows), r.wire # <<>>
    PROVE  /\ rows # <<>> /\ r.pipeline # <<>> /\ r.handshake_complete
           /\ Head(rows) \in Batch /\ rows[1] = Head(rows)
           /\ Head(r.pipeline) = Head(rows)
           /\ Head(r.wire) = Head(rows).write /\ r.wire[1] = Head(rows).write
           /\ 1 \in 1..Len(rows)
           /\ RemoveMutationBatch(rows, Head(r.pipeline).id) = Tail(rows)
           /\ Tail(rows) \in Seq(Batch) /\ Ascending(Tail(rows))
           /\ HeadOf([r EXCEPT !.pipeline = Tail(@)], Tail(rows))
           /\ IsStarted(r.stream)
<1> DEFINE n == Len(r.pipeline)
<1>1. /\ r \in Remote /\ HeadOf(r, rows) /\ Connection(r)
      /\ r.pipeline \in Seq(Batch) /\ r.wire \in Seq(Writes)
  BY DEF Serves, Remote
<1>0. Len(r.wire) \in Nat \ {0}
  BY <1>1, EmptySeq
<1>2. /\ Len(r.wire) \in Nat \ {0} /\ Len(r.wire) <= n
      /\ n \in Nat /\ n <= Len(rows) /\ n <= kMaxPendingWrites /\ Len(rows) \in Nat
      /\ r.handshake_complete /\ r.wire[1] = rows[1].write
  BY <1>0, <1>1, WireIsHeadOfQueue DEF HeadOf
<1>3. n \in 1..Len(rows)
  BY <1>2
<1>4. r.pipeline = SubSeq(rows, 1, n) /\ r.pipeline # <<>>
  BY <1>1, <1>2, EmptySeq DEF HeadOf
<1>5. /\ rows # <<>> /\ Tail(rows) \in Seq(Batch) /\ Ascending(Tail(rows))
      /\ Len(Tail(rows)) = Len(rows) - 1
      /\ Head(SubSeq(rows, 1, n)) = Head(rows) /\ Head(rows) = rows[1]
      /\ Tail(SubSeq(rows, 1, n)) = SubSeq(Tail(rows), 1, n - 1)
  BY <1>3, TailOfQueue
<1>6. Head(r.pipeline) = Head(rows) /\ Head(rows) \in Batch
  BY <1>4, <1>5, HeadTailProperties
<1>7. RemoveMutationBatch(rows, Head(r.pipeline).id) = Tail(rows)
  BY <1>5, <1>6, RemoveHead
<1>8. Head(r.wire) = r.wire[1]
  BY <1>1
<1>9. HeadOf([r EXCEPT !.pipeline = Tail(@)], Tail(rows))
  <2> DEFINE t == Tail(r.pipeline)
  <2>1. t = SubSeq(Tail(rows), 1, n - 1) /\ Len(t) = n - 1
    BY <1>1, <1>4, <1>5, HeadTailProperties
  <2>2. [r EXCEPT !.pipeline = Tail(@)].pipeline = t
    BY <1>1 DEF Remote
  <2>3. n - 1 <= Len(rows) - 1 /\ n - 1 <= kMaxPendingWrites
    BY <1>2, CapacityAssumption
  <2> HIDE DEF t, n
  <2> QED
    BY <1>5, <2>1, <2>2, <2>3 DEF HeadOf
<1> QED
  BY <1>2, <1>3, <1>4, <1>5, <1>6, <1>7, <1>8, <1>9 DEF Serves

\* OnWriteStreamMutationResult: with the answered batch gone from the queue,
\* the pipeline and the stream, the answers outstanding still match.
LEMMA AcknowledgeHead ==
    ASSUME NEW rows \in Seq(Batch), Ascending(rows), NEW r, Serves(r, rows), r.handled > 0
    PROVE  LET a == [r EXCEPT !.pipeline = Tail(@), !.wire = Tail(@), !.handled = @ - 1]
               f == FillWritePipeline(a, Tail(rows))
           IN  /\ r.wire # <<>>
               /\ Serves(f, Tail(rows))
               /\ f.handled = r.handled - 1 /\ f.peer = r.peer /\ f.handshake_complete
               /\ f.stream.close_count = r.stream.close_count
               /\ f.stream.state = r.stream.state
<1> DEFINE a == [r EXCEPT !.pipeline = Tail(@), !.wire = Tail(@), !.handled = @ - 1]
<1>1. /\ r \in Remote /\ Connection(r) /\ r.handled \in Nat /\ r.stream \in Streams
      /\ r.pipeline \in Seq(Batch) /\ r.wire \in Seq(Writes) /\ r.handled <= Len(r.wire)
  BY DEF Serves, Remote, Connection
<1>2. r.wire # <<>>
  BY <1>1, EmptySeq
<1>3. /\ r.pipeline # <<>> /\ r.handshake_complete /\ IsStarted(r.stream)
      /\ Tail(rows) \in Seq(Batch) /\ Ascending(Tail(rows))
      /\ HeadOf([r EXCEPT !.pipeline = Tail(@)], Tail(rows))
  BY <1>2, AnswerIsForHead
<1>4. /\ Tail(r.pipeline) \in Seq(Batch) /\ Tail(r.wire) \in Seq(Writes)
      /\ Len(Tail(r.wire)) = Len(r.wire) - 1 /\ Len(r.wire) \in Nat
  BY <1>1, <1>2, <1>3, HeadTailProperties, LenProperties
<1>a. r.handled - 1 \in Nat
  BY <1>1
<1>5. /\ a \in Remote /\ a.pipeline = Tail(r.pipeline) /\ a.wire = Tail(r.wire)
      /\ a.handled = r.handled - 1 /\ a.stream = r.stream /\ a.peer = r.peer
      /\ a.handshake_complete = r.handshake_complete
  BY <1>1, <1>a, <1>4 DEF Remote
<1> HIDE DEF a
<1>6. HeadOf(a, Tail(rows))
  BY <1>1, <1>3, <1>5 DEF HeadOf, Remote
<1>7. Connection(a)
  <2>1. a.wire = WritesOf(a.pipeline)
    BY <1>1, <1>3, <1>5, WritesOfTail DEF Connection
  <2>2. a.handled <= Len(a.wire)
    BY <1>1, <1>4, <1>5
  <2>3. ~ a.stream.idle
    BY <1>3, <1>5 DEF Serves, Connection
  <2> QED
    BY <1>1, <1>3, <1>5, <2>1, <2>2, <2>3 DEF Connection
<1> DEFINE f == FillWritePipeline(a, Tail(rows))
<1>8. /\ Serves(f, Tail(rows))
      /\ f.handled = a.handled /\ f.peer = a.peer
      /\ f.handshake_complete = a.handshake_complete
      /\ f.stream.close_count = a.stream.close_count
      /\ f.stream.state = IF IsStarted(a.stream) \/ f.pipeline = <<>>
                           THEN a.stream.state ELSE Start(a.stream).state
  BY <1>3, <1>5, <1>6, <1>7, FillFromQueue
<1> HIDE DEF f
<1> QED
  BY <1>2, <1>3, <1>5, <1>8 DEF a, f

\* HandleWriteError: the refused batch is gone from queue and pipeline, and
\* a new stream starts at once with the rows after it.
LEMMA RefuseHead ==
    ASSUME NEW rows \in Seq(Batch), Ascending(rows), NEW r, Serves(r, rows), r.wire # <<>>
    PROVE  LET f == FillWritePipeline(OnWriteStreamRefused(r), Tail(rows))
           IN  /\ Serves(f, Tail(rows))
               /\ f.handled = 0 /\ f.peer = Nil /\ ~ f.handshake_complete
               /\ f.stream.close_count = r.stream.close_count + 1
               /\ f.stream.state = IF f.pipeline = <<>> THEN "Initial" ELSE "Starting"
<1> DEFINE s == InhibitBackoff(OnStreamFinish(r.stream))
           c == Closed(r, s)
           a == OnWriteStreamRefused(r)
<1>1. /\ r \in Remote /\ r.stream \in Streams /\ r.pipeline \in Seq(Batch)
  BY DEF Serves, Remote
<1>2. /\ r.pipeline # <<>> /\ Tail(rows) \in Seq(Batch) /\ Ascending(Tail(rows))
      /\ HeadOf([r EXCEPT !.pipeline = Tail(@)], Tail(rows))
  BY AnswerIsForHead
<1>3. /\ s \in Streams /\ s.state = "Initial" /\ ~ IsOpen(s) /\ ~ s.idle /\ ~ IsStarted(s)
      /\ s.close_count = r.stream.close_count + 1 /\ Start(s).state = "Starting"
  BY <1>1, StreamType DEF InhibitBackoff, OnStreamFinish, Close, IsOpen, IsStarted, Start, Streams
<1> HIDE DEF s
<1>4. /\ c \in Remote
      /\ c.pipeline = r.pipeline /\ c.stream = s /\ ~ c.handshake_complete
      /\ c.peer = Nil /\ c.wire = <<>> /\ c.handled = 0
  BY <1>1, <1>3, ClosedRPC
<1>5. a = [c EXCEPT !.pipeline = Tail(r.pipeline)]
  BY DEF OnWriteStreamRefused, s
<1>6. Tail(r.pipeline) \in Seq(Batch)
  BY <1>1, <1>2, HeadTailProperties
<1> HIDE DEF c
<1>7. /\ a \in Remote /\ a.pipeline = Tail(r.pipeline) /\ a.stream = s
      /\ ~ a.handshake_complete /\ a.peer = Nil /\ a.wire = <<>> /\ a.handled = 0
  BY <1>4, <1>5, <1>6 DEF Remote
<1> HIDE DEF a
<1>8. HeadOf(a, Tail(rows))
  BY <1>1, <1>2, <1>7 DEF HeadOf, Remote
<1>9. Connection(a)
  BY <1>3, <1>7, EmptySeq DEF Connection
<1> DEFINE f == FillWritePipeline(a, Tail(rows))
<1>10. /\ Serves(f, Tail(rows))
       /\ f.handled = a.handled /\ f.peer = a.peer
       /\ f.handshake_complete = a.handshake_complete
       /\ f.stream.close_count = a.stream.close_count
       /\ f.stream.state = IF IsStarted(a.stream) \/ f.pipeline = <<>>
                           THEN a.stream.state ELSE Start(a.stream).state
  BY <1>2, <1>3, <1>7, <1>8, <1>9, FillFromQueue
<1> HIDE DEF f
<1> QED
  BY <1>3, <1>7, <1>10 DEF a, f

-----------------------------------------------------------------------------
(* The inductive invariant of the pipeline. *)

\* The keys of every user's rows ascend, and the next one is larger than all
\* of them, although LevelDbMutationQueue forgets it at a restart and at a
\* change of user.
IdsFresh ==
    \A u \in Users : /\ Ascending(mutations[u])
                     /\ \A i \in DOMAIN mutations[u] : mutations[u][i].id < next_batch_id

\* Types, keys and pipeline hold each other up: which rows the pipeline is
\* filled with depends on the order of the keys, which row an answer removes
\* on what the pipeline holds.
PipelineInv ==
    /\ TypeOK
    /\ IdsFresh
    /\ Serves(remote, mutations[current_user])

\* The properties of the pipeline follow from the invariant.
LEMMA PipelineInvMeaning ==
    ASSUME PipelineInv
    PROVE  PipelineIsHeadOfQueue /\ RepliesMatchPipeline
<1>1. remote.pipeline \in Seq(Batch)
  BY DEF PipelineInv, Serves, Remote
<1>2. Len(remote.pipeline) > 0 => remote.pipeline # <<>>
  BY EmptySeq
<1> QED
  BY <1>1, <1>2 DEF PipelineInv, Serves, HeadOf, Connection,
                    PipelineIsHeadOfQueue, RepliesMatchPipeline

\* RequestCredentials adds requests for tokens.
LEMMA NetworkType ==
    ASSUME TypeOK, NEW r \in Remote, Network(r)
    PROVE  remote' = r /\ tokens' \subseteq Request
<1>1. r.stream.close_count \in Nat /\ provider.token_counter \in Nat
  BY DEF TypeOK, Remote, Streams
<1>2. Requests(remote.stream, r.stream) \subseteq Request
  BY <1>1 DEF Requests, Request
<1> QED
  BY <1>2 DEF Network, TypeOK

\* The invariant is about the types and these variables.
LEMMA PipelineInvUnchanged ==
    ASSUME PipelineInv, TypeOK',
           UNCHANGED <<current_user, mutations, next_batch_id, remote>>
    PROVE  PipelineInv'
BY DEF PipelineInv, IdsFresh, Serves, HeadOf, Connection, Ascending

\* The same when only the stream moves.
LEMMA PipelineInvStream ==
    ASSUME PipelineInv, TypeOK', UNCHANGED <<current_user, mutations, next_batch_id>>,
           Serves(remote', mutations[current_user])
    PROVE  PipelineInv'
BY DEF PipelineInv, IdsFresh, Serves, HeadOf, Connection, Ascending

\* Every initial state is one in which nothing was written yet.
LEMMA PipelineInit == Init => PipelineInv
<1> SUFFICES ASSUME Init PROVE PipelineInv
  OBVIOUS
<1>1. NewStream \in Streams /\ NewStream.state = "Initial" /\ ~ NewStream.idle
  BY DEF NewStream, Streams, States
<1>2. <<>> \in Seq(Batch) /\ <<>> \in Seq(Writes) /\ Len(<<>>) = 0
  BY EmptySeq
<1>3. /\ remote \in Remote /\ remote.pipeline = <<>> /\ remote.stream = NewStream
      /\ ~ remote.handshake_complete /\ remote.peer = Nil
      /\ remote.wire = <<>> /\ remote.handled = 0
  BY <1>1, <1>2 DEF Init, NoRPC, Remote
<1>4. TypeOK
  <2>1. main \in Seq(Notification \cup TokenCallback)
    BY EmptySeq DEF Init
  <2>2. worker \in Seq(WriteTask \cup UserTask \cup ResumeTask)
    BY EmptySeq DEF Init
  <2>3. mutations \in [Users -> Seq(Batch)] /\ callbacks \in [Users -> SUBSET Batch]
    BY <1>2 DEF Init
  <2>4. /\ MaxChanges \in Nat /\ MaxBreaks \in Nat /\ MaxKills \in Nat
    BY BoundsAssumption
  <2>5. budget \in [changes : Nat, breaks : Nat, kills : Nat]
    BY <2>4 DEF Init
  <2> QED
    BY <1>3, <2>1, <2>2, <2>3, <2>5 DEF Init, TypeOK, NoWrite
<1>5. IdsFresh
  BY DEF Init, IdsFresh, Ascending
<1>6. SubSeq(<<>>, 1, 0) = <<>>
  BY SubSeqEmpty
<1>7. mutations[current_user] = <<>>
  BY DEF Init
<1>8. Serves(remote, mutations[current_user])
  BY <1>1, <1>2, <1>3, <1>6, <1>7, CapacityAssumption
     DEF Serves, HeadOf, Connection, IsOpen
<1> QED
  BY <1>4, <1>5, <1>8 DEF PipelineInv

\* The bounds are never overdrawn.
LEMMA SpendType ==
    ASSUME TypeOK, Spend("changes") \/ Spend("breaks") \/ Spend("kills")
    PROVE  /\ budget' \in [changes : Nat, breaks : Nat, kills : Nat]
           /\ Spend("kills") => budget'.kills = budget.kills - 1
           /\ ~ Spend("kills") => budget'.kills = budget.kills
<1> DEFINE B == [changes : Nat, breaks : Nat, kills : Nat]
<1>1. /\ budget \in B /\ budget.changes \in Nat /\ budget.breaks \in Nat /\ budget.kills \in Nat
  BY DEF TypeOK
<1>2. CASE Spend("changes")
  <2>0. budget.changes > 0 /\ budget' = [budget EXCEPT !.changes = budget.changes - 1]
    BY <1>2, Zenon DEF Spend
  <2>1. budget.changes - 1 \in Nat /\ budget' = [budget EXCEPT !.changes = budget.changes - 1]
    BY <1>1, <2>0
  <2>2. budget' \in B /\ budget'.kills = budget.kills /\ budget'.changes = budget.changes - 1
    BY <1>1, <2>1
  <2> QED
    BY <1>1, <2>2 DEF Spend
<1>3. CASE Spend("breaks")
  <2>0. budget.breaks > 0 /\ budget' = [budget EXCEPT !.breaks = budget.breaks - 1]
    BY <1>3, Zenon DEF Spend
  <2>1. budget.breaks - 1 \in Nat /\ budget' = [budget EXCEPT !.breaks = budget.breaks - 1]
    BY <1>1, <2>0
  <2>2. budget' \in B /\ budget'.kills = budget.kills /\ budget'.breaks = budget.breaks - 1
    BY <1>1, <2>1
  <2> QED
    BY <1>1, <2>2 DEF Spend
<1>4. CASE Spend("kills")
  <2>0. budget.kills > 0 /\ budget' = [budget EXCEPT !.kills = budget.kills - 1]
    BY <1>4, Zenon DEF Spend
  <2>1. budget.kills - 1 \in Nat /\ budget' = [budget EXCEPT !.kills = budget.kills - 1]
    BY <1>1, <2>0
  <2> QED
    BY <1>1, <1>4, <2>1
<1> QED
  BY <1>2, <1>3, <1>4

\* The steps that leave queue, pipeline and stream alone: the app, FIRAuth
\* and the callbacks on the main thread.
LEMMA PipelineInvOutside ==
    ASSUME PipelineInv,
           \/ WriteMutations
           \/ Main
           \/ Auth
           \/ \E u \in Users : UpdateCurrentUser(u)
           \/ \E q \in tokens : TokenFailed(q)
    PROVE  PipelineInv'
<1> DEFINE M == Notification \cup TokenCallback
           W == WriteTask \cup UserTask \cup ResumeTask
<1>1. /\ TypeOK /\ main \in Seq(M) /\ worker \in Seq(W)
  BY DEF PipelineInv, TypeOK
<1>2. main # <<>> => Head(main) \in M /\ Tail(main) \in Seq(M)
  BY <1>1, HeadTailProperties
<1>3. \A m \in M : Append(main, m) \in Seq(M)
  BY <1>1, AppendProperties
<1>4. \A t \in W : Append(worker, t) \in Seq(W)
  BY <1>1, AppendProperties
<1>5. MaxWrites \in Nat
  BY BoundsAssumption
<1> HIDE DEF M, W
<1>6. CASE WriteMutations
  <2>1. issued + 1 \in Writes
    BY <1>1, <1>5, <1>6 DEF WriteMutations, TypeOK, Writes
  <2>2. [type |-> "write", write |-> issued + 1] \in W
    BY <2>1 DEF W, WriteTask
  <2>3. worker' \in Seq(W)
    BY <1>4, <1>6, <2>2 DEF WriteMutations
  <2>4. owner' \in [Writes -> Users \cup {Nil}]
    BY <1>1, <1>6, <2>1 DEF WriteMutations, TypeOK
  <2>5. TypeOK'
    BY <1>1, <1>6, <2>1, <2>3, <2>4 DEF WriteMutations, TypeOK, authVars, localVars, W
  <2> QED
    BY <1>6, <2>5, PipelineInvUnchanged DEF WriteMutations, localVars
<1>7. CASE AuthStateDidChange
  <2>1. Head(main).user \in Users
    BY <1>2, <1>7 DEF AuthStateDidChange, M, Notification, TokenCallback
  <2>2. [type |-> "user", user |-> Head(main).user] \in W
    BY <2>1 DEF W, UserTask
  <2>3. worker' \in Seq(W) /\ main' \in Seq(M)
    BY <1>2, <1>4, <1>7, <2>2 DEF AuthStateDidChange
  <2>4. provider' \in [current_user : Users, token_counter : Nat]
    <3>1. provider.token_counter \in Nat
      BY <1>1 DEF TypeOK
    <3> QED
      BY <1>7, <2>1, <3>1 DEF AuthStateDidChange
  <2>5. TypeOK'
    BY <1>1, <1>7, <2>3, <2>4
       DEF AuthStateDidChange, TypeOK, localVars, historyVars, W, M
  <2> QED
    BY <1>7, <2>5, PipelineInvUnchanged DEF AuthStateDidChange, localVars
<1>8. CASE GetTokenCallback
  <2> DEFINE q == Head(main).request
  <2>1. /\ q \in Request /\ q.count \in Nat /\ q.user \in Users \cup {Nil}
        /\ Head(main).ok \in BOOLEAN /\ provider.token_counter \in Nat
    BY <1>1, <1>2, <1>8
       DEF GetTokenCallback, M, Notification, TokenCallback, Request, TypeOK
  <2>2. [q EXCEPT !.counter = provider.token_counter, !.user = Nil] \in Request
    BY <2>1 DEF Request
  <2>3. [type |-> "resume", count |-> q.count, user |-> IF Head(main).ok THEN q.user ELSE Nil] \in W
    BY <2>1 DEF W, ResumeTask
  <2>4. main' \in Seq(M)
    BY <1>2, <1>8 DEF GetTokenCallback
  <2>5. worker' \in Seq(W) /\ tokens' \subseteq Request
    <3>1. tokens \subseteq Request
      BY <1>1 DEF TypeOK
    <3>2. CASE q.counter # provider.token_counter
      <4>1. /\ tokens' = tokens \cup {[q EXCEPT !.counter = provider.token_counter, !.user = Nil]}
            /\ worker' = worker
        BY <1>8, <3>2 DEF GetTokenCallback
      <4> QED
        BY <1>1, <2>2, <3>1, <4>1
    <3>3. CASE q.counter = provider.token_counter
      <4>1. /\ worker' = Append(worker, [type |-> "resume", count |-> q.count,
                                        user |-> IF Head(main).ok THEN q.user ELSE Nil])
            /\ tokens' = tokens
        BY <1>8, <3>3 DEF GetTokenCallback
      <4> HIDE DEF q
      <4> QED
        BY <1>4, <2>3, <3>1, <4>1
    <3> QED
      BY <3>2, <3>3
  <2>6. TypeOK'
    BY <1>1, <1>8, <2>4, <2>5 DEF GetTokenCallback, TypeOK, localVars, historyVars, W, M
  <2> QED
    BY <1>8, <2>6, PipelineInvUnchanged DEF GetTokenCallback, localVars
<1>9. ASSUME NEW u \in Users, UpdateCurrentUser(u) PROVE PipelineInv'
  <2>1. [type |-> "note", user |-> u] \in M
    BY DEF M, Notification
  <2>2. main' \in Seq(M)
    BY <1>3, <1>9, <2>1 DEF UpdateCurrentUser
  <2>3. budget' \in [changes : Nat, breaks : Nat, kills : Nat]
    BY <1>1, <1>9, SpendType DEF UpdateCurrentUser
  <2>4. TypeOK'
    BY <1>1, <1>9, <2>2, <2>3 DEF UpdateCurrentUser, TypeOK, localVars, historyVars, M
  <2> QED
    BY <1>9, <2>4, PipelineInvUnchanged DEF UpdateCurrentUser, localVars
<1>10. ASSUME NEW q \in tokens, GetTokenForcingRefresh(q) PROVE PipelineInv'
  <2>1. q \in Request /\ authUser \in Users
    BY <1>1 DEF TypeOK
  <2>a. [q EXCEPT !.user = authUser] \in Request
    BY <2>1 DEF Request
  <2>2. tokens' \subseteq Request
    BY <1>1, <1>10, <2>a DEF GetTokenForcingRefresh, TypeOK
  <2>3. TypeOK'
    BY <1>1, <1>10, <2>2 DEF GetTokenForcingRefresh, TypeOK, authVars, localVars, historyVars
  <2> QED
    BY <1>10, <2>3, PipelineInvUnchanged DEF GetTokenForcingRefresh, localVars
<1>11. ASSUME NEW q \in tokens, TokenFetched(q) \/ TokenFailed(q) PROVE PipelineInv'
  <2>1. PICK ok \in BOOLEAN : PostToken(q, ok)
    BY <1>11 DEF TokenFetched, TokenFailed
  <2>2. [type |-> "token", request |-> q, ok |-> ok] \in M
    BY <1>1 DEF M, TokenCallback, TypeOK
  <2>3. main' \in Seq(M)
    BY <1>3, <2>1, <2>2 DEF PostToken
  <2>4. budget' \in [changes : Nat, breaks : Nat, kills : Nat]
    BY <1>1, <1>11, SpendType DEF TokenFetched, TokenFailed, TypeOK
  <2>5. TypeOK'
    BY <1>1, <2>1, <2>3, <2>4 DEF PostToken, TypeOK, localVars, historyVars, M
  <2> QED
    BY <2>1, <2>5, PipelineInvUnchanged DEF PostToken, localVars
<1> QED
  BY <1>6, <1>7, <1>8, <1>9, <1>10, <1>11 DEF Main, Auth

\* SyncEngine::WriteMutations: the new row gets a key larger than all others
\* and the pipeline takes it if there is room.
LEMMA RunWriteMutationsStep ==
    ASSUME PipelineInv, RunWriteMutations
    PROVE  LET b == [id |-> next_batch_id, write |-> Head(worker).write] IN
           /\ b \in Batch
           /\ mutations' = [mutations EXCEPT ![current_user] = Append(@, b)]
           /\ mutations' \in [Users -> Seq(Batch)]
           /\ IdsFresh'
           /\ Serves(remote', mutations'[current_user])
           /\ remote'.handled = remote.handled /\ remote'.peer = remote.peer
           /\ remote'.handshake_complete = remote.handshake_complete
           /\ remote'.stream.close_count = remote.stream.close_count
           /\ remote'.stream.state = IF IsStarted(remote.stream) THEN remote.stream.state
                                     ELSE Start(remote.stream).state
<1> DEFINE b    == [id |-> next_batch_id, write |-> Head(worker).write]
           rows == mutations[current_user]
           more == Append(rows, b)
<1>1. /\ TypeOK /\ IdsFresh /\ Serves(remote, rows) /\ rows \in Seq(Batch)
      /\ current_user \in Users /\ next_batch_id \in Nat /\ mutations \in [Users -> Seq(Batch)]
  BY DEF PipelineInv, TypeOK
<1>2. b \in Batch /\ b.id = next_batch_id
  <2>1. Head(worker) \in WriteTask \cup UserTask \cup ResumeTask
    BY <1>1, HeadTailProperties DEF TypeOK, RunWriteMutations
  <2>2. Head(worker).write \in Writes
    BY <2>1 DEF RunWriteMutations, WriteTask, UserTask, ResumeTask
  <2> QED
    BY <1>1, <2>2 DEF Batch
<1>3. mutations' = [mutations EXCEPT ![current_user] = Append(@, b)]
  BY DEF RunWriteMutations
<1>4. next_batch_id' = next_batch_id + 1
  BY DEF RunWriteMutations
<1> HIDE DEF b
<1>5. Ascending(rows) /\ \A i \in DOMAIN rows : rows[i].id < b.id
  BY <1>1, <1>2 DEF IdsFresh
<1>6. more \in Seq(Batch) /\ Ascending(more) /\ more # <<>>
  BY <1>1, <1>2, <1>5, AppendProperties, AscendingQueue
<1>7. mutations' \in [Users -> Seq(Batch)] /\ mutations'[current_user] = more
  BY <1>1, <1>3, <1>6
<1>8. IdsFresh'
  <2> SUFFICES ASSUME NEW u \in Users
               PROVE  /\ Ascending(mutations'[u])
                      /\ \A i \in DOMAIN mutations'[u] : mutations'[u][i].id < next_batch_id'
    BY DEF IdsFresh, Ascending
  <2>1. CASE u = current_user
    <3>1. DOMAIN more = 1..Len(rows) + 1 /\ Len(rows) \in Nat /\ DOMAIN rows = 1..Len(rows)
      BY <1>1, <1>2, <1>6, AppendProperties, RowsType
    <3>2. ASSUME NEW i \in 1..Len(rows) + 1 PROVE more[i].id < next_batch_id + 1
      <4>1. i \in 1..Len(rows) \/ i = Len(rows) + 1
        BY <3>1
      <4>2. CASE i \in 1..Len(rows)
        <5>1. more[i] = rows[i] /\ rows[i].id < next_batch_id /\ rows[i].id \in Nat
          BY <1>1, <1>2, <1>5, <3>1, <4>2, AppendProperties, RowsType
        <5> QED
          BY <1>1, <5>1
      <4>3. CASE i = Len(rows) + 1
        <5>1. more[i] = b
          BY <1>1, <1>2, <4>3, AppendProperties
        <5> QED
          BY <1>1, <1>2, <5>1
      <4> QED
        BY <4>1, <4>2, <4>3
    <3> HIDE DEF more
    <3> QED
      BY <1>4, <1>6, <1>7, <2>1, <3>1, <3>2
  <2>2. CASE u # current_user
    <3>1. mutations'[u] = mutations[u]
      BY <1>1, <1>3, <2>2
    <3>2. \A i \in DOMAIN mutations[u] : mutations[u][i].id \in Nat
      BY <1>1, RowsType
    <3> QED
      BY <1>1, <1>4, <3>1, <3>2 DEF IdsFresh
  <2> QED
    BY <2>1, <2>2
<1>9. remote' = FillWritePipeline(remote, more)
  BY <1>7 DEF RunWriteMutations, Network
<1>10. HeadOf(remote, more) /\ Connection(remote) /\ remote \in Remote
  <2>1. /\ remote \in Remote /\ HeadOf(remote, rows) /\ Connection(remote)
        /\ remote.pipeline \in Seq(Batch)
    BY <1>1 DEF Serves, Remote
  <2> DEFINE n == Len(remote.pipeline)
  <2>2. n \in Nat /\ Len(rows) \in Nat /\ n <= Len(rows) /\ Len(more) = Len(rows) + 1
    BY <1>1, <1>2, <2>1, LenProperties, AppendProperties DEF HeadOf
  <2>3. SubSeq(more, 1, n) = SubSeq(rows, 1, n)
    <3> HIDE DEF n
    <3>1. /\ \A i \in 1..n : rows[i] \in Batch
          /\ \A i \in 1..n : more[i] = rows[i]
      BY <1>1, <1>2, <2>2, RowsType, AppendProperties
    <3> HIDE DEF more
    <3>2. /\ SubSeq(rows, 1, n) \in Seq(Batch)
          /\ Len(SubSeq(rows, 1, n)) = IF 1 <= n THEN n - 1 + 1 ELSE 0
          /\ \A i \in 1..n - 1 + 1 : SubSeq(rows, 1, n)[i] = rows[1 + i - 1]
      BY <2>2, <3>1, SubSeqProperties
    <3>3. /\ SubSeq(more, 1, n) \in Seq(Batch)
          /\ Len(SubSeq(more, 1, n)) = IF 1 <= n THEN n - 1 + 1 ELSE 0
          /\ \A i \in 1..n - 1 + 1 : SubSeq(more, 1, n)[i] = more[1 + i - 1]
      BY <2>2, <3>1, SubSeqProperties
    <3> DEFINE x == SubSeq(rows, 1, n)
               y == SubSeq(more, 1, n)
    <3>4. x \in Seq(Batch) /\ y \in Seq(Batch) /\ Len(x) = Len(y)
      BY <3>2, <3>3
    <3>5. \A i \in 1..n : x[i] = rows[i] /\ y[i] = rows[i]
      BY <2>2, <3>1, <3>2, <3>3
    <3>6. Len(x) = n
      BY <2>2, <3>2
    <3> HIDE DEF x, y
    <3>7. x = y
      BY <3>4, <3>5, <3>6, SeqEqual
    <3> QED
      BY <3>7 DEF x, y
  <2> HIDE DEF more
  <2> QED
    BY <2>1, <2>2, <2>3 DEF HeadOf
<1> DEFINE f == FillWritePipeline(remote, more)
<1> HIDE DEF more
<1>11. /\ Serves(f, more)
       /\ f.handled = remote.handled /\ f.peer = remote.peer
       /\ f.handshake_complete = remote.handshake_complete
       /\ f.stream.close_count = remote.stream.close_count
       /\ f.stream.state = IF IsStarted(remote.stream) \/ f.pipeline = <<>>
                           THEN remote.stream.state ELSE Start(remote.stream).state
  BY <1>6, <1>10, FillFromQueue
<1>12. f.pipeline # <<>>
  <2>1. Len(more) \in Nat \ {0}
    BY <1>6, EmptySeq
  <2>2. Len(f.pipeline) # 0
    BY <1>11, <2>1, CapacityAssumption DEF Serves
  <2> QED
    BY <2>2, EmptySeq
<1> HIDE DEF f
<1> QED
  BY <1>2, <1>3, <1>7, <1>8, <1>9, <1>11, <1>12 DEF f, b

\* AcknowledgeBatch and RejectBatch: whichever answer arrives, the row that
\* goes is the first of the user's queue and the one the server answered.
LEMMA AnswerStep ==
    ASSUME PipelineInv, MutationResult \/ WriteError
    PROVE  LET rows == mutations[current_user] IN
           /\ rows \in Seq(Batch) /\ rows # <<>> /\ Head(rows) \in Batch
           /\ 1 \in 1..Len(rows) /\ rows[1] = Head(rows)
           /\ Head(remote.pipeline) = Head(rows)
           /\ Head(remote.wire) = Head(rows).write /\ remote.wire[1] = Head(rows).write
           /\ remote.handshake_complete
           /\ mutations' = [mutations EXCEPT ![current_user] = Tail(@)]
           /\ mutations' \in [Users -> Seq(Batch)]
           /\ IdsFresh'
           /\ Serves(remote', mutations'[current_user])
           /\ MutationResult => /\ remote'.handled = remote.handled - 1
                                /\ remote'.peer = remote.peer
                                /\ remote'.handshake_complete
                                /\ remote'.stream.close_count = remote.stream.close_count
                                /\ remote'.stream.state = remote.stream.state
           /\ WriteError => /\ remote'.handled = 0 /\ remote'.peer = Nil
                            /\ ~ remote'.handshake_complete
                            /\ remote'.stream.close_count = remote.stream.close_count + 1
                            /\ remote'.stream.state \in {"Initial", "Starting"}
<1> DEFINE rows == mutations[current_user]
           batch == Head(remote.pipeline)
           a == [remote EXCEPT !.pipeline = Tail(@), !.wire = Tail(@), !.handled = @ - 1]
<1>1. /\ TypeOK /\ IdsFresh /\ Serves(remote, rows) /\ rows \in Seq(Batch) /\ Ascending(rows)
      /\ current_user \in Users /\ next_batch_id \in Nat /\ mutations \in [Users -> Seq(Batch)]
  BY DEF PipelineInv, TypeOK, IdsFresh
<1>2. MutationResult => remote.handled > 0
  BY DEF MutationResult
<1>3. remote.wire # <<>>
  BY <1>1, <1>2, AcknowledgeHead DEF WriteError
<1>4. /\ rows # <<>> /\ Head(rows) \in Batch /\ 1 \in 1..Len(rows) /\ rows[1] = Head(rows)
      /\ Head(remote.pipeline) = Head(rows) /\ remote.handshake_complete
      /\ Head(remote.wire) = Head(rows).write /\ remote.wire[1] = Head(rows).write
      /\ RemoveMutationBatch(rows, batch.id) = Tail(rows)
      /\ Tail(rows) \in Seq(Batch) /\ Ascending(Tail(rows))
  BY <1>1, <1>3, AnswerIsForHead
<1>5. mutations' = [mutations EXCEPT ![current_user] = Tail(@)]
  BY <1>4 DEF MutationResult, WriteError
<1>6. mutations' \in [Users -> Seq(Batch)] /\ mutations'[current_user] = Tail(rows)
  BY <1>1, <1>4, <1>5
<1>7. next_batch_id' = next_batch_id
  BY DEF MutationResult, WriteError
<1>8. IdsFresh'
  <2> SUFFICES ASSUME NEW u \in Users
               PROVE  /\ Ascending(mutations'[u])
                      /\ \A i \in DOMAIN mutations'[u] : mutations'[u][i].id < next_batch_id'
    BY DEF IdsFresh, Ascending
  <2>1. CASE u = current_user
    <3>1. /\ Len(rows) \in Nat /\ DOMAIN rows = 1..Len(rows)
          /\ DOMAIN Tail(rows) = 1..Len(rows) - 1
      BY <1>1, <1>4, RowsType, HeadTailProperties
    <3>2. \A i \in 1..Len(rows) - 1 : Tail(rows)[i] = rows[i + 1] /\ i + 1 \in DOMAIN rows
      BY <1>1, <1>4, <3>1, TailOfQueue
    <3> QED
      BY <1>1, <1>4, <1>6, <1>7, <2>1, <3>1, <3>2 DEF IdsFresh
  <2>2. CASE u # current_user
    BY <1>1, <1>5, <1>7, <2>2 DEF IdsFresh
  <2> QED
    BY <2>1, <2>2
<1>9. ASSUME MutationResult
      PROVE  /\ Serves(remote', Tail(rows))
             /\ remote'.handled = remote.handled - 1
             /\ remote'.peer = remote.peer
             /\ remote'.handshake_complete
             /\ remote'.stream.close_count = remote.stream.close_count
             /\ remote'.stream.state = remote.stream.state
  <2>1. remote' = FillWritePipeline(a, Tail(rows))
    BY <1>4, <1>9 DEF MutationResult, Network
  <2> HIDE DEF rows
  <2> QED
    BY <1>1, <1>2, <1>9, <2>1, AcknowledgeHead
<1>10. ASSUME WriteError
       PROVE  /\ Serves(remote', Tail(rows))
              /\ remote'.handled = 0 /\ remote'.peer = Nil
              /\ ~ remote'.handshake_complete
              /\ remote'.stream.close_count = remote.stream.close_count + 1
              /\ remote'.stream.state \in {"Initial", "Starting"}
  <2>1. remote' = FillWritePipeline(OnWriteStreamRefused(remote), Tail(rows))
    BY <1>4, <1>10 DEF WriteError, Network
  <2> HIDE DEF rows
  <2> QED
    BY <1>1, <1>3, <2>1, RefuseHead
<1> QED
  BY <1>1, <1>4, <1>5, <1>6, <1>8, <1>9, <1>10

\* HandleCredentialChange: the pipeline is that of the new user.
LEMMA HandleCredentialChangeStep ==
    ASSUME PipelineInv, HandleCredentialChange
    PROVE  /\ current_user' = Head(worker).user /\ current_user' \in Users
           /\ next_batch_id' \in Nat
           /\ IdsFresh'
           /\ Serves(remote', mutations'[current_user'])
           /\ remote'.handled = 0 /\ remote'.peer = Nil /\ ~ remote'.handshake_complete
           /\ remote'.stream.close_count = IF IsStarted(remote.stream)
                                          THEN remote.stream.close_count + 1
                                          ELSE remote.stream.close_count
           /\ remote'.stream.state \in {"Initial", "Starting"}
<1> DEFINE u == Head(worker).user
<1>1. /\ TypeOK /\ IdsFresh /\ mutations \in [Users -> Seq(Batch)] /\ next_batch_id \in Nat
      /\ remote \in Remote /\ Connection(remote)
  BY DEF PipelineInv, TypeOK, Serves
<1>2. u \in Users
  <2>1. Head(worker) \in WriteTask \cup UserTask \cup ResumeTask
    BY <1>1, HeadTailProperties DEF TypeOK, HandleCredentialChange
  <2> QED
    BY <2>1 DEF HandleCredentialChange, WriteTask, UserTask, ResumeTask
<1>3. /\ current_user' = u /\ mutations' = mutations
      /\ next_batch_id' = IF u = current_user THEN next_batch_id ELSE LoadNextBatchId(mutations)
      /\ remote' = RestartNetwork(remote, mutations[u])
  BY DEF HandleCredentialChange, Network
<1> HIDE DEF u
<1>4. next_batch_id' \in Nat /\ IdsFresh'
  <2>1. /\ LoadNextBatchId(mutations) \in Nat
        /\ \A v \in Users : \A i \in DOMAIN mutations[v] :
              mutations[v][i].id < LoadNextBatchId(mutations)
    BY <1>1, NextBatchIdFresh DEF IdsFresh
  <2> QED
    BY <1>1, <1>3, <2>1 DEF IdsFresh, Ascending
<1>5. mutations[u] \in Seq(Batch) /\ Ascending(mutations[u])
  BY <1>1, <1>2 DEF IdsFresh
<1>6. LET f == RestartNetwork(remote, mutations[u]) IN
      /\ Serves(f, mutations[u])
      /\ f.handled = 0 /\ f.peer = Nil /\ ~ f.handshake_complete
      /\ f.stream.close_count = IF IsStarted(remote.stream) THEN remote.stream.close_count + 1
                                ELSE remote.stream.close_count
      /\ f.stream.state = IF f.pipeline = <<>> THEN "Initial" ELSE "Starting"
  BY <1>1, <1>5, RestartFromQueue
<1> QED
  BY <1>2, <1>3, <1>4, <1>6 DEF u

\* FirestoreClient::Initialize after a kill: the rows that LevelDB kept are
\* the pipeline again.
LEMMA RestartStep ==
    ASSUME PipelineInv, Restart
    PROVE  /\ next_batch_id' \in Nat
           /\ IdsFresh'
           /\ Serves(remote', mutations'[current_user'])
           /\ remote'.handled = 0 /\ remote'.peer = Nil /\ ~ remote'.handshake_complete
           /\ remote'.stream.close_count = 0
           /\ remote'.stream.state \in {"Initial", "Starting"}
<1>1. /\ TypeOK /\ IdsFresh /\ mutations \in [Users -> Seq(Batch)] /\ next_batch_id \in Nat
      /\ authUser \in Users
  BY DEF PipelineInv, TypeOK, Serves
<1>2. /\ current_user' = authUser /\ mutations' = mutations
      /\ next_batch_id' = LoadNextBatchId(mutations)
      /\ remote' = FillWritePipeline(NoRPC, mutations[authUser])
  BY DEF Restart
<1>3. next_batch_id' \in Nat /\ IdsFresh'
  <2>1. /\ LoadNextBatchId(mutations) \in Nat
        /\ \A v \in Users : \A i \in DOMAIN mutations[v] :
              mutations[v][i].id < LoadNextBatchId(mutations)
    BY <1>1, NextBatchIdFresh DEF IdsFresh
  <2> QED
    BY <1>1, <1>2, <2>1 DEF IdsFresh, Ascending
<1>4. mutations[authUser] \in Seq(Batch) /\ Ascending(mutations[authUser])
  BY <1>1 DEF IdsFresh
<1>5. /\ NewStream \in Streams /\ ~ IsOpen(NewStream) /\ ~ NewStream.idle
      /\ ~ IsStarted(NewStream) /\ NewStream.close_count = 0
      /\ NewStream.state = "Initial" /\ Start(NewStream).state = "Starting"
  BY DEF NewStream, Streams, States, IsOpen, IsStarted, Start
<1>6. Fresh(NoRPC) /\ NoRPC.stream = NewStream
  BY <1>5, EmptySeq DEF NoRPC, Remote, Fresh
<1>7. LET f == FillWritePipeline(NoRPC, mutations[authUser]) IN
      /\ Serves(f, mutations[authUser])
      /\ f.handled = 0 /\ f.peer = Nil /\ ~ f.handshake_complete
      /\ f.stream.close_count = NewStream.close_count
      /\ f.stream.state = IF IsStarted(NewStream) \/ f.pipeline = <<>>
                          THEN NewStream.state ELSE Start(NewStream).state
  BY <1>4, <1>6, FillEmpty
<1> QED
  BY <1>2, <1>3, <1>5, <1>7

\* ConnectivityChange: the pipeline is taken from the queue again.
LEMMA ConnectivityChangeStep ==
    ASSUME PipelineInv, ConnectivityChange
    PROVE  /\ Serves(remote', mutations[current_user])
           /\ remote'.handled = 0 /\ remote'.peer = Nil /\ ~ remote'.handshake_complete
           /\ remote'.stream.close_count = IF IsStarted(remote.stream)
                                          THEN remote.stream.close_count + 1
                                          ELSE remote.stream.close_count
           /\ remote'.stream.state \in {"Initial", "Starting"}
<1> DEFINE rows == mutations[current_user]
<1>1. rows \in Seq(Batch) /\ Ascending(rows) /\ remote \in Remote /\ Connection(remote)
  BY DEF PipelineInv, TypeOK, IdsFresh, Serves
<1>2. remote' = RestartNetwork(remote, rows)
  BY DEF ConnectivityChange, Network
<1> HIDE DEF rows
<1>3. LET f == RestartNetwork(remote, rows) IN
      /\ Serves(f, rows)
      /\ f.handled = 0 /\ f.peer = Nil /\ ~ f.handshake_complete
      /\ f.stream.close_count = IF IsStarted(remote.stream) THEN remote.stream.close_count + 1
                                ELSE remote.stream.close_count
      /\ f.stream.state = IF f.pipeline = <<>> THEN "Initial" ELSE "Starting"
  BY <1>1, RestartFromQueue
<1> QED
  BY <1>2, <1>3 DEF rows

\* A broken stream, or one that got an error instead of a token.
LEMMA BrokenStep ==
    ASSUME PipelineInv, remote' = OnWriteStreamBroken(remote)
    PROVE  /\ Serves(remote', mutations[current_user])
           /\ remote'.handled = 0 /\ remote'.peer = Nil /\ ~ remote'.handshake_complete
           /\ remote'.stream.close_count = remote.stream.close_count + 1
           /\ remote'.stream.state \in {"Error", "Backoff"}
<1>1. mutations[current_user] \in Seq(Batch) /\ Serves(remote, mutations[current_user])
  BY DEF PipelineInv, TypeOK
<1> QED
  BY <1>1, BrokenKeepsPipeline

\* The credentials, the RPC, the handshake and the timers move the stream and
\* leave the pipeline alone.
LEMMA StreamStep ==
    ASSUME PipelineInv,
           \/ ResumeStart \/ StreamOpen \/ HandshakeComplete
           \/ StreamBreak \/ BackoffTimer \/ IdleTimer
    PROVE  Serves(remote', mutations[current_user])
<1> DEFINE rows == mutations[current_user]
           s == remote.stream
<1>1. /\ rows \in Seq(Batch) /\ Serves(remote, rows) /\ remote \in Remote /\ s \in Streams
      /\ remote.pipeline \in Seq(Batch) /\ remote.wire \in Seq(Writes)
      /\ remote.handled \in Nat /\ TypeOK
  BY DEF PipelineInv, TypeOK, Serves, Remote
<1> HIDE DEF rows
<1>2. CASE ResumeStart
  <2>1. CASE remote' = remote
    BY <1>1, <2>1 DEF rows
  <2>2. CASE remote' = OnWriteStreamBroken(remote)
    BY <2>2, BrokenStep
  <2>3. CASE Head(worker).user # Nil /\ remote' = [remote EXCEPT !.peer = Head(worker).user]
    <3>1. Head(worker).user \in Users
      <4>1. Head(worker) \in WriteTask \cup UserTask \cup ResumeTask
        BY <1>1, <1>2, HeadTailProperties DEF TypeOK, ResumeStart
      <4> QED
        BY <1>2, <2>3, <4>1 DEF ResumeStart, WriteTask, UserTask, ResumeTask
    <3>2. /\ remote' \in Remote /\ remote'.pipeline = remote.pipeline /\ remote'.stream = s
          /\ remote'.wire = remote.wire /\ remote'.handled = remote.handled
          /\ remote'.handshake_complete = remote.handshake_complete
          /\ remote'.peer # Nil
      BY <1>1, <2>3, <3>1 DEF Remote
    <3>3. Serves(remote', rows)
      BY <1>1, <3>2 DEF Serves, HeadOf, Connection
    <3> QED
      BY <3>3 DEF rows
  <2> QED
    BY <1>2, <2>1, <2>2, <2>3 DEF ResumeStart, Network
<1>3. CASE StreamOpen
  <2> DEFINE s2 == CancelIdleCheck(OnStreamStart(s))
  <2>1. s2 \in Streams /\ s2.state = "Open" /\ ~ s2.idle
    BY <1>1, StreamType DEF CancelIdleCheck, OnStreamStart, Streams, States
  <2> HIDE DEF s2
  <2>2. /\ remote' \in Remote /\ remote'.pipeline = remote.pipeline /\ remote'.stream = s2
        /\ remote'.wire = remote.wire /\ remote'.handled = remote.handled
        /\ remote'.handshake_complete = remote.handshake_complete
        /\ remote'.peer = remote.peer /\ remote.peer # Nil
    BY <1>1, <1>3, <2>1 DEF StreamOpen, Network, Remote, s2
  <2>3. Serves(remote', rows)
    BY <1>1, <2>1, <2>2 DEF Serves, HeadOf, Connection, IsOpen, IsStarted
  <2> QED
    BY <2>3 DEF rows
<1>4. CASE HandshakeComplete
  <2> DEFINE p  == remote.pipeline
             s2 == IF p = <<>> THEN s ELSE CancelIdleCheck(s)
  <2>1. /\ s2 \in Streams /\ s2.state = s.state /\ s.state = "Open" /\ ~ s2.idle
    BY <1>1, <1>4, StreamType
       DEF HandshakeComplete, CancelIdleCheck, IsOpen, Streams, Serves, Connection
  <2>2. remote.wire = <<>> /\ ~ remote.handshake_complete
    BY <1>1, <1>4 DEF HandshakeComplete, Serves, Connection
  <2>3. remote.wire \o [i \in DOMAIN p |-> p[i].write] = WritesOf(p) /\ WritesOf(p) \in Seq(Writes)
    <3>1. WritesOf(p) \in Seq(Writes)
      BY <1>1, WritesOfType
    <3>2. <<>> \o WritesOf(p) = WritesOf(p)
      BY <3>1, ConcatEmptySeq
    <3> QED
      BY <2>2, <3>1, <3>2 DEF WritesOf
  <2>4. remote' = Send([remote EXCEPT !.handshake_complete = TRUE], p)
    BY <1>4 DEF HandshakeComplete, Network
  <2>5. remote' = [remote EXCEPT !.handshake_complete = TRUE, !.wire = WritesOf(p), !.stream = s2]
    BY <1>1, <2>3, <2>4 DEF Send, Remote
  <2> HIDE DEF s2
  <2>6. /\ remote' \in Remote /\ remote'.pipeline = p /\ remote'.stream = s2
        /\ remote'.wire = WritesOf(p) /\ remote'.handled = remote.handled
        /\ remote'.handshake_complete /\ remote'.peer = remote.peer
    BY <1>1, <2>1, <2>3, <2>5 DEF Remote
  <2>7. remote.handled <= Len(WritesOf(p))
    <3>1. Len(WritesOf(p)) \in Nat /\ remote.handled <= 0
      BY <1>1, <2>2, <2>3, LenProperties, EmptySeq DEF Serves, Connection
    <3> QED
      BY <1>1, <3>1
  <2>8. Serves(remote', rows)
    BY <1>1, <2>1, <2>6, <2>7 DEF Serves, HeadOf, Connection, IsOpen, IsStarted
  <2> QED
    BY <2>8 DEF rows
<1>5. CASE StreamBreak
  BY <1>5, BrokenStep DEF StreamBreak, Network
<1>6. CASE BackoffTimer
  <2> DEFINE s2 == BackoffElapsed(s)
  <2>1. /\ s2 \in Streams /\ s2.state = "Starting" /\ s2.idle = s.idle /\ s.state = "Backoff"
    BY <1>1, <1>6, StreamType DEF BackoffTimer, BackoffElapsed, Start, Streams, States
  <2> HIDE DEF s2
  <2>2. /\ remote' \in Remote /\ remote'.pipeline = remote.pipeline /\ remote'.stream = s2
        /\ remote'.wire = remote.wire /\ remote'.handled = remote.handled
        /\ remote'.handshake_complete = remote.handshake_complete
        /\ remote'.peer = remote.peer
    BY <1>1, <1>6, <2>1 DEF BackoffTimer, Network, Remote, s2
  <2>3. Serves(remote', rows)
    BY <1>1, <2>1, <2>2 DEF Serves, HeadOf, Connection, IsOpen, IsStarted
  <2> QED
    BY <2>3 DEF rows
<1>7. CASE IdleTimer
  <2> DEFINE s2 == Stop(s)
  <2>1. s.idle /\ IsStarted(s) /\ remote.pipeline = <<>>
    BY <1>1, <1>7 DEF IdleTimer, Serves, Connection, IsOpen, IsStarted
  <2>2. s2 \in Streams /\ s2.state = "Initial" /\ ~ s2.idle /\ ~ IsOpen(s2)
    BY <1>1, <2>1, StreamType DEF Stop, Close, IsOpen
  <2> HIDE DEF s2
  <2>3. remote' = Closed(remote, s2)
    BY <1>7 DEF IdleTimer, Network, s2
  <2>4. remote' \in Remote /\ Connection(remote') /\ remote'.pipeline = remote.pipeline
    BY <1>1, <2>2, <2>3, ClosedRPC
  <2>5. Serves(remote', rows)
    BY <1>1, <2>1, <2>4 DEF Serves, HeadOf
  <2> QED
    BY <2>5 DEF rows
<1> QED
  BY <1>2, <1>3, <1>4, <1>5, <1>6, <1>7

\* The server applies one more of the requests on the stream.
LEMMA ServerCommitStep ==
    ASSUME PipelineInv, ServerCommit
    PROVE  LET w == remote.wire[remote.handled + 1] IN
           /\ w \in Writes
           /\ remote.handled + 1 \in 1..Len(remote.wire)
           /\ remote'.handled = remote.handled + 1
           /\ remote'.wire = remote.wire /\ remote'.pipeline = remote.pipeline
           /\ remote'.stream = remote.stream /\ remote'.peer = remote.peer
           /\ remote'.handshake_complete = remote.handshake_complete
           /\ Serves(remote', mutations[current_user])
<1>1. /\ remote \in Remote /\ remote.wire \in Seq(Writes) /\ remote.handled \in Nat
      /\ Serves(remote, mutations[current_user])
  BY DEF PipelineInv, Serves, Remote
<1>2. Len(remote.wire) \in Nat /\ remote.handled < Len(remote.wire)
  BY <1>1, LenProperties DEF ServerCommit
<1>3. remote.handled + 1 \in 1..Len(remote.wire) /\ remote.handled + 1 \in Nat
  BY <1>1, <1>2
<1>4. remote.wire[remote.handled + 1] \in Writes
  BY <1>1, <1>3, ElementOfSeq
<1>5. /\ remote' \in Remote /\ remote'.handled = remote.handled + 1
      /\ remote'.wire = remote.wire /\ remote'.pipeline = remote.pipeline
      /\ remote'.stream = remote.stream /\ remote'.peer = remote.peer
      /\ remote'.handshake_complete = remote.handshake_complete
  BY <1>1, <1>3 DEF ServerCommit, Remote
<1>6. Serves(remote', mutations[current_user])
  BY <1>1, <1>2, <1>3, <1>5 DEF Serves, HeadOf, Connection
<1> QED
  BY <1>3, <1>4, <1>5, <1>6

\* NotifyUser changes only what the app is told.
LEMMA NotifyUserType ==
    ASSUME TypeOK, NEW id, NEW status \in {"ok", "error"}, NotifyUser(id, status)
    PROVE  /\ told' \in [Writes -> {"none", "ok", "error"}]
           /\ callbacks' \in [Users -> SUBSET Batch]
<1>1. told \in [Writes -> {"none", "ok", "error"}] /\ callbacks \in [Users -> SUBSET Batch]
  BY DEF TypeOK
<1>2. told' \in [Writes -> {"none", "ok", "error"}]
  BY <1>1 DEF NotifyUser
<1>3. callbacks[current_user] \ Waiting(id) \subseteq Batch
  BY <1>1 DEF TypeOK
<1>4. callbacks' \in [Users -> SUBSET Batch]
  BY <1>1, <1>3 DEF NotifyUser
<1> QED
  BY <1>2, <1>4

\* Every step preserves the invariant.
LEMMA PipelineInvStep ==
    ASSUME PipelineInv, [Next]_vars
    PROVE  PipelineInv'
<1> DEFINE W == WriteTask \cup UserTask \cup ResumeTask
<1>1. TypeOK /\ IdsFresh /\ worker \in Seq(W) /\ mutations \in [Users -> Seq(Batch)]
  BY DEF PipelineInv, TypeOK
<1>2. worker # <<>> => Tail(worker) \in Seq(W)
  BY <1>1, HeadTailProperties
<1> HIDE DEF W
<1>3. CASE UNCHANGED vars
  <2>1. TypeOK'
    BY <1>1, <1>3 DEF TypeOK, vars, authVars, localVars, historyVars
  <2> QED
    BY <1>3, <2>1, PipelineInvUnchanged DEF vars, localVars
<1>4. CASE WriteMutations \/ Main \/ Auth \/ (\E u \in Users : UpdateCurrentUser(u))
           \/ (\E q \in tokens : TokenFailed(q))
  BY <1>4, PipelineInvOutside
<1>5. CASE RunWriteMutations
  <2> DEFINE b == [id |-> next_batch_id, write |-> Head(worker).write]
  <2>1. /\ b \in Batch /\ mutations' \in [Users -> Seq(Batch)] /\ IdsFresh'
        /\ Serves(remote', mutations'[current_user])
    BY <1>5, RunWriteMutationsStep
  <2>2. remote' \in Remote
    BY <2>1 DEF Serves
  <2>3. tokens' \subseteq Request
    BY <1>1, <1>5, <2>2, NetworkType DEF RunWriteMutations, Network
  <2>4. callbacks' \in [Users -> SUBSET Batch]
    <3>1. callbacks \in [Users -> SUBSET Batch]
      BY <1>1 DEF TypeOK
    <3>2. callbacks' = [callbacks EXCEPT ![current_user] =
                            IF Waiting(b.id) = {} THEN @ \cup {b} ELSE @]
      BY <1>5 DEF RunWriteMutations
    <3> HIDE DEF b
    <3> QED
      BY <2>1, <3>1, <3>2
  <2>5. worker' \in Seq(W) /\ next_batch_id' \in Nat
    BY <1>1, <1>2, <1>5 DEF RunWriteMutations, TypeOK
  <2>6. TypeOK'
    BY <1>1, <1>5, <2>1, <2>2, <2>3, <2>4, <2>5
       DEF TypeOK, RunWriteMutations, authVars, historyVars, W
  <2>7. current_user' = current_user
    BY <1>5 DEF RunWriteMutations
  <2> QED
    BY <2>1, <2>6, <2>7 DEF PipelineInv
<1>6. CASE HandleCredentialChange
  <2>1. /\ current_user' \in Users /\ next_batch_id' \in Nat /\ IdsFresh'
        /\ Serves(remote', mutations'[current_user'])
    BY <1>6, HandleCredentialChangeStep
  <2>2. remote' \in Remote
    BY <2>1 DEF Serves
  <2>3. tokens' \subseteq Request
    BY <1>1, <1>6, <2>2, NetworkType DEF HandleCredentialChange, Network
  <2>4. worker' \in Seq(W)
    BY <1>2, <1>6 DEF HandleCredentialChange
  <2>5. TypeOK'
    BY <1>1, <1>6, <2>1, <2>2, <2>3, <2>4
       DEF TypeOK, HandleCredentialChange, authVars, historyVars, W
  <2> QED
    BY <2>1, <2>5 DEF PipelineInv
<1>7. CASE ResumeStart \/ StreamOpen \/ HandshakeComplete \/ StreamBreak \/ BackoffTimer
           \/ IdleTimer \/ ConnectivityChange
  <2>1. Serves(remote', mutations[current_user])
    BY <1>7, StreamStep, ConnectivityChangeStep
  <2>2. remote' \in Remote
    BY <2>1 DEF Serves
  <2>3. Network(remote') \/ tokens' = tokens
    BY <1>7 DEF ResumeStart, StreamOpen, HandshakeComplete, StreamBreak, BackoffTimer,
                IdleTimer, ConnectivityChange, Network
  <2>4. tokens' \subseteq Request
    BY <1>1, <2>2, <2>3, NetworkType DEF TypeOK
  <2>5. worker' \in Seq(W)
    BY <1>1, <1>2, <1>7 DEF ResumeStart, StreamOpen, HandshakeComplete, StreamBreak,
                            BackoffTimer, IdleTimer, ConnectivityChange
  <2>6. budget' \in [changes : Nat, breaks : Nat, kills : Nat]
    <3>1. budget' = budget \/ Spend("breaks") \/ Spend("changes")
      BY <1>7 DEF ResumeStart, StreamOpen, HandshakeComplete, StreamBreak,
                  BackoffTimer, IdleTimer, ConnectivityChange
    <3> QED
      BY <1>1, <3>1, SpendType DEF TypeOK
  <2>7. UNCHANGED <<authVars, localVars, stored, historyVars>>
    BY <1>7 DEF ResumeStart, StreamOpen, HandshakeComplete, StreamBreak,
                BackoffTimer, IdleTimer, ConnectivityChange
  <2>8. TypeOK'
    BY <1>1, <2>2, <2>4, <2>5, <2>6, <2>7 DEF TypeOK, authVars, localVars, historyVars, W
  <2> QED
    BY <2>1, <2>7, <2>8, PipelineInvStream DEF localVars
<1>8. CASE ServerCommit
  <2> DEFINE w == remote.wire[remote.handled + 1]
  <2>1. w \in Writes /\ Serves(remote', mutations[current_user])
    BY <1>8, ServerCommitStep
  <2>2. stored' \in [Users -> Writes \cup {NoWrite}]
    BY <1>1, <1>8, <2>1 DEF ServerCommit, TypeOK
  <2>3. committed' \subseteq Writes
    BY <1>1, <1>8, <2>1 DEF ServerCommit, TypeOK
  <2>4. remote' \in Remote
    BY <2>1 DEF Serves
  <2>5. TypeOK'
    BY <1>1, <1>8, <2>2, <2>3, <2>4 DEF TypeOK, ServerCommit, authVars, localVars
  <2> QED
    BY <1>8, <2>1, <2>5, PipelineInvStream DEF ServerCommit, localVars
<1>9. CASE MutationResult \/ WriteError
  <2> DEFINE rows == mutations[current_user]
  <2>1. /\ Head(rows) \in Batch /\ mutations' \in [Users -> Seq(Batch)] /\ IdsFresh'
        /\ Serves(remote', mutations'[current_user]) /\ Head(remote.pipeline) = Head(rows)
    BY <1>9, AnswerStep
  <2>2. remote' \in Remote
    BY <2>1 DEF Serves
  <2>3. tokens' \subseteq Request
    <3>1. Network(remote')
      BY <1>9 DEF MutationResult, WriteError, Network
    <3> QED
      BY <1>1, <2>2, <3>1, NetworkType
  <2>4. /\ told' \in [Writes -> {"none", "ok", "error"}]
        /\ callbacks' \in [Users -> SUBSET Batch]
    BY <1>1, <1>9, NotifyUserType DEF MutationResult, WriteError
  <2>5. cache' \in [Users -> Writes \cup {NoWrite}]
    <3>1. Head(remote.pipeline).write \in Writes
      BY <2>1 DEF Batch
    <3> QED
      BY <1>1, <1>9, <3>1 DEF MutationResult, WriteError, TypeOK
  <2>6. UNCHANGED <<authVars, worker, current_user, next_batch_id, stored, issued, owner,
                    committed, budget>>
    BY <1>9 DEF MutationResult, WriteError
  <2>7. TypeOK'
    BY <1>1, <2>1, <2>2, <2>3, <2>4, <2>5, <2>6 DEF TypeOK, authVars
  <2> QED
    BY <2>1, <2>6, <2>7 DEF PipelineInv
<1>10. CASE Restart
  <2>1. next_batch_id' \in Nat /\ IdsFresh' /\ Serves(remote', mutations'[current_user'])
    BY <1>10, RestartStep
  <2>2. remote' \in Remote
    BY <2>1 DEF Serves
  <2>3. tokens' \subseteq Request
    BY <1>10 DEF Restart, Request
  <2>4. main' \in Seq(Notification \cup TokenCallback) /\ worker' \in Seq(W)
    BY <1>10, EmptySeq DEF Restart
  <2>5. budget' \in [changes : Nat, breaks : Nat, kills : Nat]
    BY <1>1, <1>10, SpendType DEF Restart
  <2>6. provider' \in [current_user : Users, token_counter : Nat]
    BY <1>1, <1>10 DEF Restart, TypeOK
  <2>7. TypeOK'
    BY <1>1, <1>10, <2>1, <2>2, <2>3, <2>4, <2>5, <2>6 DEF TypeOK, Restart, historyVars, W
  <2> QED
    BY <2>1, <2>7 DEF PipelineInv
<1> QED
  BY <1>3, <1>4, <1>5, <1>6, <1>7, <1>8, <1>9, <1>10 DEF Next, Worker

\* The pipeline's invariant holds in every reachable state.
THEOREM PipelineInvariant == Spec => []PipelineInv
<1>1. PipelineInv /\ [Next]_vars => PipelineInv'
  BY PipelineInvStep
<1> QED
  BY <1>1, PipelineInit, PTL DEF Spec

\* Every variable keeps its type, however threads interleave and wherever the
\* process is killed.
THEOREM TypeCorrect == Spec => []TypeOK
<1>1. PipelineInv => TypeOK
  BY DEF PipelineInv
<1> QED
  BY <1>1, PipelineInvariant, PTL

\* FillWritePipeline, AcknowledgeBatch, RejectBatch, RestartNetwork and
\* HandleCredentialChange together: the pipeline always is the head of the
\* signed-in user's queue, whatever its capacity.
THEOREM PipelineCorrect == Spec => []PipelineIsHeadOfQueue
<1>1. PipelineInv => PipelineIsHeadOfQueue
  BY PipelineInvMeaning
<1> QED
  BY <1>1, PipelineInvariant, PTL

\* An answer read from the stream is always the answer to the first batch of
\* the pipeline.
THEOREM RepliesCorrect == Spec => []RepliesMatchPipeline
<1>1. PipelineInv => RepliesMatchPipeline
  BY PipelineInvMeaning
<1> QED
  BY <1>1, PipelineInvariant, PTL

-----------------------------------------------------------------------------
(* Credentials and users: a token is used only for the stream that asked    *)
(* for it and only by the user it belongs to.                               *)

(* Requests for credentials. *)

\* The requests for a token with number n: at FIRAuth, in the callbacks on
\* the main queue, in the tasks of the worker queue.
AskedFor(n, tk) == {q \in tk : q.count = n}
CalledBack(n, mn) == {i \in DOMAIN mn : mn[i].type = "token" /\ mn[i].request.count = n}
Resuming(n, wk) == {i \in DOMAIN wk : wk[i].type = "resume" /\ wk[i].count = n}

AtMostOne(S) == \A x, y \in S : x = y

\* No request for credentials is from the future; at most one is for the
\* stream as it is, and then the stream waits for it.
RequestsOK(tk, mn, wk, s, peer) ==
    LET now   == s.close_count
        ask   == AskedFor(now, tk)
        call  == CalledBack(now, mn)
        start == Resuming(now, wk)
    IN  /\ \A q \in tk : q.count <= now
        /\ \A i \in DOMAIN mn : mn[i].type = "token" => mn[i].request.count <= now
        /\ \A i \in DOMAIN wk : wk[i].type = "resume" => wk[i].count <= now
        /\ AtMostOne(ask) /\ AtMostOne(call) /\ AtMostOne(start)
        /\ ask = {} \/ call = {}
        /\ ask = {} \/ start = {}
        /\ call = {} \/ start = {}
        /\ ask # {} \/ call # {} \/ start # {} => s.state = "Starting" /\ peer = Nil
        /\ peer # Nil => s.state \in {"Starting", "Open"}

RequestsInv ==
    RequestsOK(tokens, main, worker, remote.stream, remote.peer)

\* The HARD_ASSERTs of the stream follow.
LEMMA RequestsInvMeaning ==
    ASSUME PipelineInv, RequestsInv
    PROVE  AssertionsHold
<1>1. remote.stream.idle => remote.pipeline = <<>>
  BY DEF PipelineInv, Serves, Connection
<1>2. remote.peer # Nil => remote.stream.state \in {"Starting", "Open"}
  BY DEF RequestsInv, RequestsOK
<1>3. ASSUME NEW i \in DOMAIN worker, worker[i].type = "resume",
             worker[i].count = remote.stream.close_count
      PROVE  remote.stream.state = "Starting" /\ remote.peer = Nil
  <2>1. i \in Resuming(remote.stream.close_count, worker)
    BY <1>3 DEF Resuming
  <2> QED
    BY <2>1 DEF RequestsInv, RequestsOK
<1> QED
  BY <1>1, <1>2, <1>3 DEF AssertionsHold, Elements

\* A queue loses its first entry.
LEMMA IndicesOfTail ==
    ASSUME NEW S, NEW seq \in Seq(S), seq # <<>>
    PROVE  /\ DOMAIN seq = 1..Len(seq) /\ Len(seq) \in Nat /\ 1 \in DOMAIN seq
           /\ DOMAIN Tail(seq) = 1..Len(seq) - 1
           /\ \A i \in DOMAIN Tail(seq) : i + 1 \in DOMAIN seq /\ Tail(seq)[i] = seq[i + 1]
                  /\ i \in Nat
           /\ Head(seq) = seq[1]
           /\ Tail(seq) \in Seq(S)
<1>1. /\ Tail(seq) \in Seq(S) /\ Len(Tail(seq)) = Len(seq) - 1
      /\ \A i \in 1..Len(Tail(seq)) : Tail(seq)[i] = seq[i + 1]
  BY HeadTailProperties
<1>2. Len(seq) \in Nat \ {0} /\ DOMAIN seq = 1..Len(seq)
  BY EmptySeq, LenProperties
<1>3. DOMAIN Tail(seq) = 1..Len(seq) - 1
  BY <1>1, LenProperties
<1>4. \A i \in 1..Len(seq) - 1 : i + 1 \in 1..Len(seq) /\ i \in Nat
  BY <1>2
<1>5. 1 \in 1..Len(seq)
  BY <1>2
<1> QED
  BY <1>1, <1>2, <1>3, <1>4, <1>5

\* A queue gets one more entry.
LEMMA IndicesOfAppend ==
    ASSUME NEW S, NEW seq \in Seq(S), NEW e \in S
    PROVE  /\ DOMAIN seq = 1..Len(seq) /\ Len(seq) \in Nat
           /\ DOMAIN Append(seq, e) = DOMAIN seq \cup {Len(seq) + 1}
           /\ Len(seq) + 1 \notin DOMAIN seq
           /\ \A i \in DOMAIN seq : Append(seq, e)[i] = seq[i]
           /\ Append(seq, e)[Len(seq) + 1] = e
           /\ Append(seq, e) \in Seq(S)
<1>1. Len(seq) \in Nat /\ DOMAIN seq = 1..Len(seq)
  BY LenProperties
<1>2. /\ Append(seq, e) \in Seq(S) /\ Len(Append(seq, e)) = Len(seq) + 1
      /\ \A i \in 1..Len(seq) : Append(seq, e)[i] = seq[i]
      /\ Append(seq, e)[Len(seq) + 1] = e
  BY AppendProperties
<1>3. DOMAIN Append(seq, e) = 1..Len(seq) + 1
  BY <1>2, LenProperties
<1>4. 1..Len(seq) + 1 = 1..Len(seq) \cup {Len(seq) + 1} /\ Len(seq) + 1 \notin 1..Len(seq)
  BY <1>1
<1> QED
  BY <1>1, <1>2, <1>3, <1>4

\* A task that is not about credentials leaves the worker queue.
LEMMA RequestsTail ==
    ASSUME NEW S, NEW wk \in Seq(S), wk # <<>>, NEW tk, NEW mn, NEW s, NEW peer,
           RequestsOK(tk, mn, wk, s, peer)
    PROVE  /\ RequestsOK(tk, mn, Tail(wk), s, peer)
           /\ Head(wk).type = "resume" /\ Head(wk).count = s.close_count
                 => Resuming(s.close_count, Tail(wk)) = {}
<1> DEFINE now == s.close_count
<1>1. /\ 1 \in DOMAIN wk /\ Head(wk) = wk[1]
      /\ \A i \in DOMAIN Tail(wk) : i + 1 \in DOMAIN wk /\ Tail(wk)[i] = wk[i + 1] /\ i \in Nat
      /\ DOMAIN Tail(wk) = 1..Len(wk) - 1 /\ Len(wk) \in Nat
  BY IndicesOfTail
<1>2. \A i \in Resuming(now, Tail(wk)) : i + 1 \in Resuming(now, wk) /\ i \in Nat /\ i > 0
  BY <1>1 DEF Resuming
<1>3. AtMostOne(Resuming(now, Tail(wk)))
  <2> SUFFICES ASSUME NEW x \in Resuming(now, Tail(wk)), NEW y \in Resuming(now, Tail(wk))
               PROVE  x = y
    BY DEF AtMostOne
  <2>1. x + 1 = y + 1
    BY <1>2 DEF RequestsOK, AtMostOne
  <2> QED
    BY <1>2, <2>1
<1>4. \A i \in DOMAIN Tail(wk) : Tail(wk)[i].type = "resume" => Tail(wk)[i].count <= now
  BY <1>1 DEF RequestsOK
<1>5. Resuming(now, wk) = {} => Resuming(now, Tail(wk)) = {}
  BY <1>2
<1>6. RequestsOK(tk, mn, Tail(wk), s, peer)
  BY <1>3, <1>4, <1>5 DEF RequestsOK
<1>7. ASSUME Head(wk).type = "resume", Head(wk).count = now
      PROVE  Resuming(now, Tail(wk)) = {}
  <2>1. 1 \in Resuming(now, wk)
    BY <1>1, <1>7 DEF Resuming
  <2>2. ASSUME NEW i \in Resuming(now, Tail(wk)) PROVE FALSE
    <3>1. i + 1 = 1
      BY <1>2, <2>1 DEF RequestsOK, AtMostOne
    <3> QED
      BY <1>2, <3>1
  <2> QED
    BY <2>2
<1> QED
  BY <1>6, <1>7

\* A task that is not about credentials joins the worker queue.
LEMMA RequestsAppendTask ==
    ASSUME NEW S, NEW wk \in Seq(S), NEW t \in S, t.type # "resume",
           NEW tk, NEW mn, NEW s, NEW peer, RequestsOK(tk, mn, wk, s, peer)
    PROVE  RequestsOK(tk, mn, Append(wk, t), s, peer)
<1>1. /\ DOMAIN Append(wk, t) = DOMAIN wk \cup {Len(wk) + 1}
      /\ \A i \in DOMAIN wk : Append(wk, t)[i] = wk[i]
      /\ Append(wk, t)[Len(wk) + 1] = t
  BY IndicesOfAppend
<1>2. Resuming(s.close_count, Append(wk, t)) = Resuming(s.close_count, wk)
  BY <1>1 DEF Resuming
<1>3. \A i \in DOMAIN Append(wk, t) :
         Append(wk, t)[i].type = "resume" => Append(wk, t)[i].count <= s.close_count
  BY <1>1 DEF RequestsOK
<1> QED
  BY <1>2, <1>3 DEF RequestsOK

\* A notification joins the main queue.
LEMMA RequestsAppendNote ==
    ASSUME NEW S, NEW mn \in Seq(S), NEW m \in S, m.type # "token",
           NEW tk, NEW wk, NEW s, NEW peer, RequestsOK(tk, mn, wk, s, peer)
    PROVE  RequestsOK(tk, Append(mn, m), wk, s, peer)
<1>1. /\ DOMAIN Append(mn, m) = DOMAIN mn \cup {Len(mn) + 1}
      /\ \A i \in DOMAIN mn : Append(mn, m)[i] = mn[i]
      /\ Append(mn, m)[Len(mn) + 1] = m
  BY IndicesOfAppend
<1>2. CalledBack(s.close_count, Append(mn, m)) = CalledBack(s.close_count, mn)
  BY <1>1 DEF CalledBack
<1>3. \A i \in DOMAIN Append(mn, m) :
         Append(mn, m)[i].type = "token" => Append(mn, m)[i].request.count <= s.close_count
  BY <1>1 DEF RequestsOK
<1> QED
  BY <1>2, <1>3 DEF RequestsOK

\* A callback or notification leaves the main queue.
LEMMA RequestsMainTail ==
    ASSUME NEW S, NEW mn \in Seq(S), mn # <<>>, NEW tk, NEW wk, NEW s, NEW peer,
           RequestsOK(tk, mn, wk, s, peer)
    PROVE  /\ RequestsOK(tk, Tail(mn), wk, s, peer)
           /\ Head(mn).type = "token" => Head(mn).request.count <= s.close_count
           /\ Head(mn).type = "token" /\ Head(mn).request.count = s.close_count
                 => /\ CalledBack(s.close_count, Tail(mn)) = {}
                    /\ AskedFor(s.close_count, tk) = {}
                    /\ Resuming(s.close_count, wk) = {}
                    /\ s.state = "Starting" /\ peer = Nil
<1> DEFINE now == s.close_count
<1>1. /\ 1 \in DOMAIN mn /\ Head(mn) = mn[1]
      /\ \A i \in DOMAIN Tail(mn) : i + 1 \in DOMAIN mn /\ Tail(mn)[i] = mn[i + 1] /\ i \in Nat
      /\ DOMAIN Tail(mn) = 1..Len(mn) - 1 /\ Len(mn) \in Nat
  BY IndicesOfTail
<1>2. \A i \in CalledBack(now, Tail(mn)) : i + 1 \in CalledBack(now, mn) /\ i \in Nat /\ i > 0
  BY <1>1 DEF CalledBack
<1>3. AtMostOne(CalledBack(now, Tail(mn)))
  <2> SUFFICES ASSUME NEW x \in CalledBack(now, Tail(mn)), NEW y \in CalledBack(now, Tail(mn))
               PROVE  x = y
    BY DEF AtMostOne
  <2>1. x + 1 = y + 1
    BY <1>2 DEF RequestsOK, AtMostOne
  <2> QED
    BY <1>2, <2>1
<1>4. \A i \in DOMAIN Tail(mn) : Tail(mn)[i].type = "token" => Tail(mn)[i].request.count <= now
  BY <1>1 DEF RequestsOK
<1>5. CalledBack(now, mn) = {} => CalledBack(now, Tail(mn)) = {}
  BY <1>2
<1>6. RequestsOK(tk, Tail(mn), wk, s, peer)
  BY <1>3, <1>4, <1>5 DEF RequestsOK
<1>7. ASSUME Head(mn).type = "token", Head(mn).request.count = now
      PROVE  /\ CalledBack(now, Tail(mn)) = {}
             /\ AskedFor(now, tk) = {} /\ Resuming(now, wk) = {}
             /\ s.state = "Starting" /\ peer = Nil
  <2>1. 1 \in CalledBack(now, mn)
    BY <1>1, <1>7 DEF CalledBack
  <2>2. ASSUME NEW i \in CalledBack(now, Tail(mn)) PROVE FALSE
    <3>1. i + 1 = 1
      BY <1>2, <2>1 DEF RequestsOK, AtMostOne
    <3> QED
      BY <1>2, <3>1
  <2> QED
    BY <2>1, <2>2 DEF RequestsOK
<1>8. Head(mn).type = "token" => Head(mn).request.count <= now
  BY <1>1 DEF RequestsOK
<1> QED
  BY <1>6, <1>7, <1>8

\* The stream is closed, or was not waiting for credentials: no request from
\* before is for the stream as it is now, and one more may be made.
LEMMA RequestsMoved ==
    ASSUME TypeOK, NEW mn, NEW wk, RequestsOK(tokens, mn, wk, remote.stream, remote.peer),
           \A i \in DOMAIN mn : mn[i].type = "token" => mn[i].request.count \in Nat,
           \A i \in DOMAIN wk : wk[i].type = "resume" => wk[i].count \in Nat,
           NEW r \in Remote, Network(r),
           \/ r.stream.close_count = remote.stream.close_count + 1
           \/ /\ r.stream.close_count = remote.stream.close_count
              /\ remote.stream.state # "Starting"
           \/ /\ r.stream.close_count = remote.stream.close_count
              /\ remote.peer # Nil,
           r.stream.state = "Starting" => r.peer = Nil,
           r.peer # Nil => r.stream.state = "Open"
    PROVE  RequestsOK(tokens', mn, wk, r.stream, r.peer)
<1> DEFINE old == remote.stream.close_count
           now == r.stream.close_count
           new == Requests(remote.stream, r.stream)
<1>1. old \in Nat /\ now \in Nat /\ old <= now
  <2>1. old \in Nat
    BY DEF TypeOK, Remote, Streams
  <2>2. now = old + 1 \/ now = old
    OBVIOUS
  <2> HIDE DEF old, now
  <2> QED
    BY <2>1, <2>2
<1>2. \A q \in tokens : q.count \in Nat
  BY DEF TypeOK, Request
<1>3. tokens' = tokens \cup new
  BY DEF Network
<1>4. AskedFor(now, tokens) = {} /\ CalledBack(now, mn) = {} /\ Resuming(now, wk) = {}
  <2>1. CASE now = old + 1
    <3>1. \A n \in Nat : n <= old => n # now
      BY <1>1, <2>1
    <3>2. /\ \A q \in tokens : q.count # now
          /\ \A i \in DOMAIN mn : mn[i].type = "token" => mn[i].request.count # now
          /\ \A i \in DOMAIN wk : wk[i].type = "resume" => wk[i].count # now
      <4> HIDE DEF now
      <4> QED
        BY <1>2, <3>1 DEF RequestsOK
    <3> QED
      BY <3>2, Zenon DEF AskedFor, CalledBack, Resuming
  <2>2. CASE now = old
    BY <1>1, <2>2 DEF RequestsOK
  <2> QED
    BY <2>1, <2>2
<1>5. new = {} \/ \E q : new = {q} /\ q.count = now /\ r.stream.state = "Starting"
  BY DEF Requests
<1>6. \A q \in new : q.count = now
  BY <1>5
<1>7. AskedFor(now, tokens') = new
  BY <1>3, <1>4, <1>6 DEF AskedFor
<1>8. AtMostOne(AskedFor(now, tokens')) /\ AtMostOne({})
  BY <1>5, <1>7 DEF AtMostOne
<1>9. new # {} => r.stream.state = "Starting" /\ r.peer = Nil
  BY <1>5
<1>10. /\ \A q \in tokens' : q.count <= now
       /\ \A i \in DOMAIN mn : mn[i].type = "token" => mn[i].request.count <= now
       /\ \A i \in DOMAIN wk : wk[i].type = "resume" => wk[i].count <= now
  BY <1>1, <1>2, <1>3, <1>6 DEF RequestsOK
<1> HIDE DEF new
<1> QED
  BY <1>4, <1>7, <1>8, <1>9, <1>10 DEF RequestsOK

\* The entries of the two queues.
LEMMA QueueTypes ==
    ASSUME TypeOK
    PROVE  /\ main \in Seq(Notification \cup TokenCallback)
           /\ worker \in Seq(WriteTask \cup UserTask \cup ResumeTask)
           /\ \A i \in DOMAIN main :
                 /\ main[i] \in Notification \cup TokenCallback
                 /\ main[i].type \in {"note", "token"}
                 /\ main[i].type = "note" => main[i].user \in Users
                 /\ main[i].type = "token" => /\ main[i].request \in Request
                                              /\ main[i].request.count \in Nat
                                              /\ main[i].request.counter \in Nat
                                              /\ main[i].request.user \in Users \cup {Nil}
           /\ \A i \in DOMAIN worker :
                 /\ worker[i] \in WriteTask \cup UserTask \cup ResumeTask
                 /\ worker[i].type \in {"write", "user", "resume"}
                 /\ worker[i].type = "write" => worker[i].write \in Writes
                 /\ worker[i].type = "user" => worker[i].user \in Users
                 /\ worker[i].type = "resume" => /\ worker[i].count \in Nat
                                                 /\ worker[i].user \in Users \cup {Nil}
<1>1. /\ main \in Seq(Notification \cup TokenCallback)
      /\ worker \in Seq(WriteTask \cup UserTask \cup ResumeTask)
  BY DEF TypeOK
<1>2. \A i \in DOMAIN main : main[i] \in Notification \cup TokenCallback
  BY <1>1, LenProperties, ElementOfSeq
<1>3. \A i \in DOMAIN worker : worker[i] \in WriteTask \cup UserTask \cup ResumeTask
  BY <1>1, LenProperties, ElementOfSeq
<1>4. \A m \in Notification \cup TokenCallback :
         /\ m.type \in {"note", "token"}
         /\ m.type = "note" => m.user \in Users
         /\ m.type = "token" => /\ m.request \in Request
                                /\ m.request.count \in Nat /\ m.request.counter \in Nat
                                /\ m.request.user \in Users \cup {Nil}
  BY DEF Notification, TokenCallback, Request
<1>5. \A t \in WriteTask \cup UserTask \cup ResumeTask :
         /\ t.type \in {"write", "user", "resume"}
         /\ t.type = "write" => t.write \in Writes
         /\ t.type = "user" => t.user \in Users
         /\ t.type = "resume" => t.count \in Nat /\ t.user \in Users \cup {Nil}
  BY DEF WriteTask, UserTask, ResumeTask
<1> QED
  BY <1>1, <1>2, <1>3, <1>4, <1>5

\* Two streams with the same fields are the same.
LEMMA StreamEqual ==
    ASSUME NEW s \in Streams, NEW t \in Streams,
           s.state = t.state, s.idle = t.idle, s.close_count = t.close_count
    PROVE  s = t
BY DEF Streams

\* The steps of FIRAuth and of the main thread hand a request on.
LEMMA RequestsOutside ==
    ASSUME PipelineInv, RequestsInv,
           \/ WriteMutations
           \/ Main
           \/ Auth
           \/ \E u \in Users : UpdateCurrentUser(u)
           \/ \E q \in tokens : TokenFailed(q)
    PROVE  RequestsInv'
<1> DEFINE M == Notification \cup TokenCallback
           W == WriteTask \cup UserTask \cup ResumeTask
           s == remote.stream
           now == remote.stream.close_count
<1>1. TypeOK /\ main \in Seq(M) /\ worker \in Seq(W)
  BY DEF PipelineInv, TypeOK
<1>2. now \in Nat
  BY DEF PipelineInv, Serves, Remote, Streams
<1>3. remote' = remote
  BY DEF WriteMutations, Main, AuthStateDidChange, GetTokenCallback, Auth, TokenFetched,
         GetTokenForcingRefresh, UpdateCurrentUser, TokenFailed, PostToken
<1>4. RequestsOK(tokens, main, worker, s, remote.peer)
  BY DEF RequestsInv
<1> SUFFICES RequestsOK(tokens', main', worker', s, remote.peer)
  BY <1>3 DEF RequestsInv
<1>5. CASE WriteMutations
  <2> DEFINE t == [type |-> "write", write |-> issued + 1]
  <2>1. issued + 1 \in Writes
    <3>1. issued \in Writes \cup {0} /\ issued < MaxWrites /\ MaxWrites \in Nat
      BY <1>1, <1>5, BoundsAssumption DEF WriteMutations, TypeOK
    <3> QED
      BY <3>1 DEF Writes
  <2>2. t \in W /\ t.type # "resume"
    BY <2>1 DEF WriteTask
  <2>3. tokens' = tokens /\ main' = main /\ worker' = Append(worker, t)
    BY <1>5 DEF WriteMutations, authVars
  <2> HIDE DEF t, W
  <2> QED
    BY <1>1, <1>4, <2>2, <2>3, RequestsAppendTask
<1>6. CASE AuthStateDidChange
  <2> DEFINE t == [type |-> "user", user |-> Head(main).user]
  <2>1. Head(main) \in M
    BY <1>1, <1>6, HeadTailProperties DEF AuthStateDidChange
  <2>2. t \in W /\ t.type # "resume"
    BY <1>6, <2>1 DEF AuthStateDidChange, UserTask, Notification, TokenCallback
  <2>3. tokens' = tokens /\ main' = Tail(main) /\ worker' = Append(worker, t) /\ main # <<>>
    BY <1>6 DEF AuthStateDidChange
  <2> HIDE DEF t, W, M
  <2>4. RequestsOK(tokens, Tail(main), worker, s, remote.peer)
    BY <1>1, <1>4, <2>3, RequestsMainTail
  <2> QED
    BY <1>1, <2>2, <2>3, <2>4, RequestsAppendTask
<1>7. CASE GetTokenCallback
  <2> DEFINE q == Head(main).request
  <2>1. main # <<>> /\ Head(main).type = "token" /\ main' = Tail(main) /\ q \in Request
    <3>1. main # <<>> /\ Head(main).type = "token" /\ main' = Tail(main)
      BY <1>7 DEF GetTokenCallback
    <3>2. Head(main) \in M
      BY <1>1, <3>1, HeadTailProperties
    <3> QED
      BY <3>1, <3>2 DEF Notification, TokenCallback
  <2> HIDE DEF W, M
  <2>2. /\ RequestsOK(tokens, Tail(main), worker, s, remote.peer)
        /\ q.count <= now
        /\ q.count = now => /\ CalledBack(now, Tail(main)) = {} /\ AskedFor(now, tokens) = {}
                            /\ Resuming(now, worker) = {}
                            /\ s.state = "Starting" /\ remote.peer = Nil
    <3>1. main \in Seq(M) /\ main # <<>> /\ Head(main).type = "token"
      BY <1>1, <2>1
    <3>2. /\ RequestsOK(tokens, Tail(main), worker, s, remote.peer)
          /\ Head(main).request.count <= s.close_count
      BY ONLY <1>4, <3>1, RequestsMainTail
    <3>3. ASSUME Head(main).request.count = s.close_count
          PROVE  /\ CalledBack(s.close_count, Tail(main)) = {}
                 /\ AskedFor(s.close_count, tokens) = {}
                 /\ Resuming(s.close_count, worker) = {}
                 /\ s.state = "Starting" /\ remote.peer = Nil
      <4> HIDE DEF s
      <4> QED
        BY ONLY <1>4, <3>1, <3>3, RequestsMainTail, Zenon
    <3> QED
      BY <3>2, <3>3
  <2>3. CASE q.counter # provider.token_counter
    <3> DEFINE p == [q EXCEPT !.counter = provider.token_counter, !.user = Nil]
    <3>1. tokens' = tokens \cup {p} /\ worker' = worker
      BY <1>7, <2>3 DEF GetTokenCallback
    <3>2. p.count = q.count
      BY <2>1 DEF Request
    <3> HIDE DEF p
    <3>3. AskedFor(now, tokens') = IF q.count = now THEN {p} ELSE AskedFor(now, tokens)
      <4>1. CASE q.count = now
        BY <2>2, <3>1, <3>2, <4>1 DEF AskedFor
      <4>2. CASE q.count # now
        BY <3>1, <3>2, <4>2 DEF AskedFor
      <4> QED
        BY <4>1, <4>2
    <3>4. AtMostOne(AskedFor(now, tokens'))
      BY <2>2, <3>3 DEF AtMostOne, RequestsOK
    <3>5. \A x \in tokens' : x.count <= now
      BY <2>2, <3>1, <3>2 DEF RequestsOK
    <3> HIDE DEF q
    <3> QED
      BY <2>1, <2>2, <3>1, <3>3, <3>4, <3>5 DEF RequestsOK
  <2>4. CASE q.counter = provider.token_counter
    <3> DEFINE t == [type |-> "resume", count |-> q.count,
                     user |-> IF Head(main).ok THEN q.user ELSE Nil]
    <3>1. worker' = Append(worker, t) /\ tokens' = tokens
      BY <1>7, <2>4 DEF GetTokenCallback
    <3>2. t \in W /\ t.type = "resume" /\ t.count = q.count
      BY <2>1 DEF W, ResumeTask, Request
    <3> HIDE DEF t
    <3>3. /\ DOMAIN worker' = DOMAIN worker \cup {Len(worker) + 1}
          /\ \A i \in DOMAIN worker : worker'[i] = worker[i]
          /\ worker'[Len(worker) + 1] = t
      BY <1>1, <3>1, <3>2, IndicesOfAppend
    <3>4. Resuming(now, worker') = IF q.count = now THEN {Len(worker) + 1}
                                   ELSE Resuming(now, worker)
      <4>1. CASE q.count = now
        BY <2>2, <3>2, <3>3, <4>1 DEF Resuming
      <4>2. CASE q.count # now
        BY <3>2, <3>3, <4>2 DEF Resuming
      <4> QED
        BY <4>1, <4>2
    <3>5. AtMostOne(Resuming(now, worker'))
      BY <2>2, <3>4 DEF AtMostOne, RequestsOK
    <3>6. \A i \in DOMAIN worker' : worker'[i].type = "resume" => worker'[i].count <= now
      BY <2>2, <3>2, <3>3 DEF RequestsOK
    <3> HIDE DEF q
    <3> QED
      BY <2>1, <2>2, <3>1, <3>4, <3>5, <3>6 DEF RequestsOK
  <2> QED
    BY <2>3, <2>4
<1>8. ASSUME NEW u \in Users, UpdateCurrentUser(u)
      PROVE  RequestsOK(tokens', main', worker', s, remote.peer)
  <2> DEFINE m == [type |-> "note", user |-> u]
  <2>1. m \in M /\ m.type # "token"
    BY DEF Notification
  <2>2. tokens' = tokens /\ main' = Append(main, m) /\ worker' = worker
    BY <1>8 DEF UpdateCurrentUser
  <2> HIDE DEF m, M
  <2> QED
    BY <1>1, <1>4, <2>1, <2>2, RequestsAppendNote
<1>9. ASSUME NEW q \in tokens, GetTokenForcingRefresh(q)
      PROVE  RequestsOK(tokens', main', worker', s, remote.peer)
  <2> DEFINE p == [q EXCEPT !.user = authUser]
  <2>1. p.count = q.count
    BY <1>1 DEF TypeOK, Request
  <2>2. tokens' = (tokens \ {q}) \cup {p} /\ main' = main /\ worker' = worker
    BY <1>9 DEF GetTokenForcingRefresh, authVars
  <2> HIDE DEF p
  <2>3. q.count <= now /\ (q.count = now => q \in AskedFor(now, tokens))
    BY <1>4 DEF RequestsOK, AskedFor
  <2>4. AskedFor(now, tokens') = IF q.count = now THEN {p} ELSE AskedFor(now, tokens)
    <3>1. CASE q.count = now
      <4>1. \A x \in AskedFor(now, tokens) : x = q
        BY <1>4, <2>3, <3>1 DEF RequestsOK, AtMostOne
      <4> QED
        BY <2>1, <2>2, <3>1, <4>1 DEF AskedFor
    <3>2. CASE q.count # now
      BY <2>1, <2>2, <3>2 DEF AskedFor
    <3> QED
      BY <3>1, <3>2
  <2>5. AtMostOne(AskedFor(now, tokens')) /\ (AskedFor(now, tokens) = {} =>
            AskedFor(now, tokens') = {})
        /\ (AskedFor(now, tokens') # {} => AskedFor(now, tokens) # {})
    BY <1>4, <2>3, <2>4 DEF AtMostOne, RequestsOK
  <2>6. \A x \in tokens' : x.count <= now
    BY <1>4, <2>1, <2>2, <2>3 DEF RequestsOK
  <2> QED
    BY <1>4, <2>2, <2>5, <2>6 DEF RequestsOK
<1>10. ASSUME NEW q \in tokens, TokenFetched(q) \/ TokenFailed(q)
       PROVE  RequestsOK(tokens', main', worker', s, remote.peer)
  <2>1. PICK ok \in BOOLEAN : PostToken(q, ok)
    BY <1>10 DEF TokenFetched, TokenFailed
  <2> DEFINE m == [type |-> "token", request |-> q, ok |-> ok]
  <2>2. m \in M /\ m.type = "token" /\ m.request = q
    BY <1>1 DEF TokenCallback, TypeOK
  <2>3. tokens' = tokens \ {q} /\ main' = Append(main, m) /\ worker' = worker
    BY <2>1 DEF PostToken
  <2> HIDE DEF m, M
  <2>4. /\ DOMAIN main' = DOMAIN main \cup {Len(main) + 1}
        /\ \A i \in DOMAIN main : main'[i] = main[i]
        /\ main'[Len(main) + 1] = m
    BY <1>1, <2>2, <2>3, IndicesOfAppend
  <2>5. q.count <= now /\ (q.count = now => q \in AskedFor(now, tokens))
    BY <1>4 DEF RequestsOK, AskedFor
  <2>6. CASE q.count = now
    <3>1. \A x \in AskedFor(now, tokens) : x = q
      BY <1>4, <2>5, <2>6 DEF RequestsOK, AtMostOne
    <3>2. AskedFor(now, tokens') = {}
      BY <2>3, <3>1 DEF AskedFor
    <3>3. /\ CalledBack(now, main) = {} /\ Resuming(now, worker) = {}
          /\ s.state = "Starting" /\ remote.peer = Nil
      BY <1>4, <2>5, <2>6 DEF RequestsOK
    <3>4. CalledBack(now, main') = {Len(main) + 1}
      BY <2>2, <2>4, <2>6, <3>3 DEF CalledBack
    <3>5. \A i \in DOMAIN main' : main'[i].type = "token" => main'[i].request.count <= now
      BY <1>4, <2>2, <2>4, <2>5 DEF RequestsOK
    <3>6. AtMostOne(AskedFor(now, tokens')) /\ AtMostOne(CalledBack(now, main'))
      BY <3>2, <3>4 DEF AtMostOne
    <3>7. \A x \in tokens' : x.count <= now
      BY <1>4, <2>3 DEF RequestsOK
    <3> QED
      BY <1>4, <2>3, <3>2, <3>3, <3>5, <3>6, <3>7 DEF RequestsOK
  <2>7. CASE q.count # now
    <3>1. AskedFor(now, tokens') = AskedFor(now, tokens)
      BY <2>3, <2>7 DEF AskedFor
    <3>2. CalledBack(now, main') = CalledBack(now, main)
      BY <2>2, <2>4, <2>7 DEF CalledBack
    <3>3. \A i \in DOMAIN main' : main'[i].type = "token" => main'[i].request.count <= now
      BY <1>4, <2>2, <2>4, <2>5 DEF RequestsOK
    <3>4. \A x \in tokens' : x.count <= now
      BY <1>4, <2>3 DEF RequestsOK
    <3> QED
      BY <1>4, <2>3, <3>1, <3>2, <3>3, <3>4 DEF RequestsOK
  <2> QED
    BY <2>6, <2>7
<1> QED
  BY <1>5, <1>6, <1>7, <1>8, <1>9, <1>10 DEF Main, Auth

\* The worker queue: the steps that move the stream.
LEMMA RequestsWorker ==
    ASSUME PipelineInv, PipelineInv', RequestsInv,
           \/ Worker \/ StreamBreak \/ IdleTimer \/ ConnectivityChange
    PROVE  RequestsInv'
<1> DEFINE W == WriteTask \cup UserTask \cup ResumeTask
           s == remote.stream
           r == remote'
           now == remote.stream.close_count
<1>1. /\ TypeOK /\ worker \in Seq(W) /\ s \in Streams /\ r \in Remote /\ r.stream \in Streams
      /\ Connection(remote) /\ Connection(r) /\ now \in Nat
  BY DEF PipelineInv, TypeOK, Serves, Remote, Streams
<1>2. RequestsOK(tokens, main, worker, s, remote.peer)
  BY DEF RequestsInv
<1>3. \A i \in DOMAIN main : main[i].type = "token" => main[i].request.count \in Nat
  BY <1>1, QueueTypes
<1>4. \A i \in DOMAIN worker : worker[i].type = "resume" => worker[i].count \in Nat
  BY <1>1, QueueTypes
<1>5. worker # <<>> => /\ RequestsOK(tokens, main, Tail(worker), s, remote.peer)
                       /\ \A i \in DOMAIN Tail(worker) :
                             Tail(worker)[i].type = "resume" => Tail(worker)[i].count \in Nat
  <2> SUFFICES ASSUME worker # <<>>
               PROVE  /\ RequestsOK(tokens, main, Tail(worker), s, remote.peer)
                      /\ \A i \in DOMAIN Tail(worker) :
                            Tail(worker)[i].type = "resume" => Tail(worker)[i].count \in Nat
    OBVIOUS
  <2>1. \A i \in DOMAIN Tail(worker) : i + 1 \in DOMAIN worker /\ Tail(worker)[i] = worker[i + 1]
    BY <1>1, IndicesOfTail
  <2> QED
    BY <1>1, <1>2, <1>4, <2>1, RequestsTail
<1>6. remote.peer # Nil => s.state \in {"Starting", "Open"}
  BY <1>2 DEF RequestsOK
<1>7. main' = main
  BY DEF Worker, RunWriteMutations, HandleCredentialChange, ResumeStart, StreamOpen,
         HandshakeComplete, MutationResult, WriteError, BackoffTimer, StreamBreak, IdleTimer,
         ConnectivityChange, authVars
<1> SUFFICES RequestsOK(tokens', main, worker', r.stream, r.peer)
  BY <1>7 DEF RequestsInv
<1>8. Requests(s, s) = {}
  BY DEF Requests
<1>9. CASE RunWriteMutations
  <2>1. /\ r.peer = remote.peer /\ r.stream.close_count = now
        /\ r.stream.state = IF IsStarted(s) THEN s.state ELSE Start(s).state
    BY <1>9, RunWriteMutationsStep
  <2>2. worker # <<>> /\ worker' = Tail(worker) /\ Network(r)
    BY <1>9 DEF RunWriteMutations, Network
  <2>3. CASE s.state = "Starting"
    <3>1. IsStarted(s) /\ r.stream.state = s.state
      BY <2>1, <2>3 DEF IsStarted
    <3>2. r.stream.idle = FALSE /\ s.idle = FALSE
      BY <1>1, <2>3, <3>1 DEF Connection, IsOpen, Streams
    <3>3. r.stream = s
      BY <1>1, <2>1, <3>1, <3>2, StreamEqual
    <3>4. tokens' = tokens
      BY <1>8, <2>2, <3>3 DEF Network
    <3> QED
      BY <1>5, <2>1, <2>2, <3>3, <3>4
  <2>4. CASE s.state # "Starting"
    <3>1. r.stream.state = "Starting" => r.peer = Nil
      BY <1>1, <1>6, <2>1, <2>4 DEF IsStarted
    <3>2. r.peer # Nil => r.stream.state = "Open"
      BY <1>6, <2>1, <2>4 DEF IsStarted
    <3> QED
      BY <1>1, <1>3, <1>5, <2>1, <2>2, <2>4, <3>1, <3>2, RequestsMoved
  <2> QED
    BY <2>3, <2>4
<1>10. CASE HandleCredentialChange
  <2>1. /\ r.peer = Nil
        /\ r.stream.close_count = IF IsStarted(s) THEN now + 1 ELSE now
    BY <1>10, HandleCredentialChangeStep
  <2>2. worker # <<>> /\ worker' = Tail(worker) /\ Network(r)
    BY <1>10 DEF HandleCredentialChange, Network
  <2> QED
    BY <1>1, <1>3, <1>5, <2>1, <2>2, RequestsMoved DEF IsStarted
<1>11. CASE ConnectivityChange
  <2>1. /\ r.peer = Nil
        /\ r.stream.close_count = IF IsStarted(s) THEN now + 1 ELSE now
    BY <1>11, ConnectivityChangeStep
  <2>2. worker' = worker /\ Network(r)
    BY <1>11 DEF ConnectivityChange, Network
  <2> QED
    BY <1>1, <1>2, <1>3, <1>4, <2>1, <2>2, RequestsMoved DEF IsStarted
<1>12. CASE ResumeStart
  <2> DEFINE task == Head(worker)
  <2>1. worker # <<>> /\ task.type = "resume" /\ worker' = Tail(worker)
    BY <1>12 DEF ResumeStart
  <2>2. CASE task.count # now
    <3>1. tokens' = tokens /\ r = remote
      BY <1>12, <2>2 DEF ResumeStart
    <3> QED
      BY <1>5, <2>1, <3>1
  <2>3. CASE task.count = now /\ task.user = Nil
    <3>1. Network(r) /\ r = OnWriteStreamBroken(remote)
      BY <1>12, <2>3 DEF ResumeStart, Network
    <3>2. r.peer = Nil /\ r.stream.close_count = now + 1
      BY <3>1, BrokenStep
    <3> QED
      BY <1>1, <1>3, <1>5, <2>1, <3>1, <3>2, RequestsMoved
  <2>4. CASE task.count = now /\ task.user # Nil
    <3>1. r = [remote EXCEPT !.peer = task.user] /\ Network(r)
      BY <1>12, <2>4 DEF ResumeStart, Network
    <3>2. r.stream = s
      BY <3>1 DEF PipelineInv, Serves, Remote
    <3>3. tokens' = tokens
      BY <1>8, <3>1, <3>2 DEF Network
    <3>4. Resuming(now, Tail(worker)) = {}
      BY <1>1, <1>2, <2>1, <2>4, RequestsTail
    <3>5. 1 \in Resuming(now, worker)
      <4>1. 1 \in DOMAIN worker /\ task = worker[1]
        BY <1>1, <2>1, IndicesOfTail
      <4> QED
        BY <2>1, <2>4, <4>1 DEF Resuming
    <3>6. AskedFor(now, tokens) = {} /\ CalledBack(now, main) = {} /\ s.state = "Starting"
      BY <1>2, <3>5 DEF RequestsOK
    <3> QED
      BY <1>5, <2>1, <3>2, <3>3, <3>4, <3>6 DEF RequestsOK
  <2> QED
    BY <2>2, <2>3, <2>4
<1>13. CASE StreamOpen
  <2>1. Network(r) /\ worker' = worker /\ remote.peer # Nil
    BY <1>13 DEF StreamOpen, Network
  <2>2. r.stream.state = "Open" /\ r.stream.close_count = now
    BY <1>1, <1>13 DEF StreamOpen, Network, PipelineInv, Serves, Remote, CancelIdleCheck,
                       OnStreamStart, Streams
  <2> QED
    BY <1>1, <1>2, <1>3, <1>4, <2>1, <2>2, RequestsMoved
<1>14. CASE HandshakeComplete
  <2>1. Network(r) /\ worker' = worker /\ s.state = "Open"
    BY <1>14 DEF HandshakeComplete, Network, IsOpen
  <2>2. r.stream.state = "Open" /\ r.stream.close_count = now
    BY <1>1, <1>14, <2>1 DEF HandshakeComplete, Network, Send, PipelineInv, Serves, Remote,
                             CancelIdleCheck, Streams
  <2> QED
    BY <1>1, <1>2, <1>3, <1>4, <2>1, <2>2, RequestsMoved
<1>15. CASE MutationResult
  <2>1. r.stream.state = s.state /\ r.stream.close_count = now /\ remote.handshake_complete
    BY <1>15, AnswerStep
  <2>2. s.state = "Open"
    BY <1>1, <2>1 DEF Connection, IsOpen
  <2>3. Network(r) /\ worker' = worker
    BY <1>15 DEF MutationResult, Network
  <2> QED
    BY <1>1, <1>2, <1>3, <1>4, <2>1, <2>2, <2>3, RequestsMoved
<1>16. CASE WriteError
  <2>1. r.peer = Nil /\ r.stream.close_count = now + 1
    BY <1>16, AnswerStep
  <2>2. Network(r) /\ worker' = worker
    BY <1>16 DEF WriteError, Network
  <2> QED
    BY <1>1, <1>2, <1>3, <1>4, <2>1, <2>2, RequestsMoved
<1>17. CASE BackoffTimer
  <2>1. Network(r) /\ worker' = worker /\ s.state = "Backoff"
    BY <1>17 DEF BackoffTimer, Network
  <2>2. r.peer = remote.peer /\ r.stream.close_count = now
    BY <1>1, <1>17 DEF BackoffTimer, Network, PipelineInv, Serves, Remote,
                       BackoffElapsed, Start, Streams
  <2>3. r.peer = Nil
    BY <1>6, <2>1, <2>2
  <2> QED
    BY <1>1, <1>2, <1>3, <1>4, <2>1, <2>2, <2>3, RequestsMoved
<1>18. CASE StreamBreak
  <2>1. Network(r) /\ worker' = worker /\ r = OnWriteStreamBroken(remote)
    BY <1>18 DEF StreamBreak, Network
  <2>2. r.peer = Nil /\ r.stream.close_count = now + 1
    BY <2>1, BrokenStep
  <2> QED
    BY <1>1, <1>2, <1>3, <1>4, <2>1, <2>2, RequestsMoved
<1>19. CASE IdleTimer
  <2>1. Network(r) /\ worker' = worker /\ r = Closed(remote, Stop(s))
    BY <1>19 DEF IdleTimer, Network
  <2>2. IsStarted(s)
    BY <1>1, <1>19 DEF IdleTimer, Connection, IsOpen, IsStarted
  <2>3. r.peer = Nil /\ r.stream.close_count = now + 1
    BY <1>1, <2>1, <2>2 DEF Closed, NoRPC, Stop, Close
  <2> QED
    BY <1>1, <1>2, <1>3, <1>4, <2>1, <2>3, RequestsMoved
<1> QED
  BY <1>9, <1>10, <1>11, <1>12, <1>13, <1>14, <1>15, <1>16, <1>17, <1>18, <1>19 DEF Worker

\* Every step preserves the invariant on requests.
LEMMA RequestsStep ==
    ASSUME PipelineInv, PipelineInv', RequestsInv, [Next]_vars
    PROVE  RequestsInv'
<1>1. CASE Worker \/ StreamBreak \/ IdleTimer \/ ConnectivityChange
  BY <1>1, RequestsWorker
<1>2. CASE WriteMutations \/ Main \/ Auth \/ (\E u \in Users : UpdateCurrentUser(u))
           \/ (\E q \in tokens : TokenFailed(q))
  BY <1>2, RequestsOutside
<1>3. CASE ServerCommit
  <2>1. remote'.stream = remote.stream /\ remote'.peer = remote.peer
    BY <1>3, ServerCommitStep
  <2>2. UNCHANGED <<tokens, main, worker>>
    BY <1>3 DEF ServerCommit, authVars
  <2> QED
    BY <2>1, <2>2 DEF RequestsInv
<1>4. CASE Restart
  <2>1. remote'.peer = Nil /\ remote'.stream.close_count = 0
    BY <1>4, RestartStep
  <2>2. main' = <<>> /\ worker' = <<>>
    BY <1>4 DEF Restart
  <2>3. CalledBack(0, main') = {} /\ Resuming(0, worker') = {}
    BY <2>2 DEF CalledBack, Resuming
  <2>4. tokens' = IF remote'.stream.state = "Starting"
                  THEN {[count |-> 0, counter |-> 0, user |-> Nil]} ELSE {}
    BY <1>4 DEF Restart
  <2>5. /\ AtMostOne(AskedFor(0, tokens'))
        /\ AskedFor(0, tokens') # {} => remote'.stream.state = "Starting"
        /\ \A q \in tokens' : q.count <= 0
    BY <2>4 DEF AtMostOne, AskedFor
  <2>6. AtMostOne({})
    BY DEF AtMostOne
  <2>7. DOMAIN main' = {} /\ DOMAIN worker' = {}
    BY <2>2
  <2> QED
    BY <2>1, <2>3, <2>5, <2>6, <2>7 DEF RequestsInv, RequestsOK
<1>5. CASE UNCHANGED vars
  BY <1>5 DEF vars, authVars, RequestsInv
<1> QED
  BY <1>1, <1>2, <1>3, <1>4, <1>5 DEF Next

\* The invariant on requests holds in every reachable state.
THEOREM RequestsInvariant == Spec => []RequestsInv
<1>1. Init => RequestsInv
  <2> SUFFICES ASSUME Init PROVE RequestsInv
    OBVIOUS
  <2>1. tokens = {} /\ main = <<>> /\ worker = <<>> /\ remote.peer = Nil
    BY DEF Init, NoRPC
  <2>2. DOMAIN main = {} /\ DOMAIN worker = {}
    BY <2>1
  <2>3. \A n : AskedFor(n, tokens) = {} /\ CalledBack(n, main) = {} /\ Resuming(n, worker) = {}
    BY <2>1, <2>2 DEF AskedFor, CalledBack, Resuming
  <2>4. AtMostOne({})
    BY DEF AtMostOne
  <2> QED
    BY <2>1, <2>2, <2>3, <2>4 DEF RequestsInv, RequestsOK
<1>2. PipelineInv /\ PipelineInv' /\ RequestsInv /\ [Next]_vars => RequestsInv'
  BY RequestsStep
<1> QED
  BY <1>1, <1>2, PipelineInvariant, PTL DEF Spec

\* The assertions of stream.cc hold: credentials that pass the close count
\* meet a stream that waits for them, the idle timer meets an idle stream.
THEOREM AssertionsCorrect == Spec => []AssertionsHold
<1>1. PipelineInv /\ RequestsInv => AssertionsHold
  BY RequestsInvMeaning
<1> QED
  BY <1>1, PipelineInvariant, RequestsInvariant, PTL

-----------------------------------------------------------------------------
(* Whose token it is. *)

HasNote(mn) == \E j \in DOMAIN mn : mn[j].type = "note"
NoteBefore(mn, i) == \E j \in DOMAIN mn : j < i /\ mn[j].type = "note"

\* The provider will have heard of FIRAuth's user when the main queue is
\* empty.
AuthUserNoted ==
    /\ \A i \in DOMAIN main :
          main[i].type = "note" /\ (\A j \in DOMAIN main : j > i => main[j].type # "note")
             => main[i].user = authUser
    /\ ~ HasNote(main) => provider.current_user = authUser

\* A token counter is never ahead of the provider's.
CountersPast ==
    /\ \A q \in tokens : q.counter <= provider.token_counter
    /\ \A i \in DOMAIN main :
          main[i].type = "token" => main[i].request.counter <= provider.token_counter

\* A token with the provider's counter belongs to the provider's user, unless
\* a notification that will change the counter comes before it.
TokensOfUser ==
    /\ \A q \in tokens : q.user # Nil /\ q.counter = provider.token_counter
          => HasNote(main) \/ q.user = provider.current_user
    /\ \A i \in DOMAIN main :
          main[i].type = "token" /\ main[i].request.counter = provider.token_counter
          => NoteBefore(main, i) \/ main[i].request.user = provider.current_user

AuthInv == AuthUserNoted /\ CountersPast /\ TokensOfUser

\* A step that at most asks for tokens.
LEMMA AuthInvAsking ==
    ASSUME TypeOK, AuthInv, UNCHANGED authVars,
           \A q \in tokens' : q \in tokens \/ (q.user = Nil /\ q.counter = provider.token_counter)
    PROVE  AuthInv'
<1>1. authUser' = authUser /\ main' = main /\ provider' = provider
  BY DEF authVars
<1>2. provider.token_counter \in Nat
  BY DEF TypeOK
<1>3. AuthUserNoted'
  BY <1>1 DEF AuthInv, AuthUserNoted, HasNote
<1>4. CountersPast'
  BY <1>1, <1>2 DEF AuthInv, CountersPast
<1>5. TokensOfUser'
  BY <1>1 DEF AuthInv, TokensOfUser, HasNote, NoteBefore
<1> QED
  BY <1>3, <1>4, <1>5 DEF AuthInv

\* The stream asks with the provider's counter.
LEMMA NetworkAsks ==
    ASSUME NEW r, Network(r)
    PROVE  \A q \in tokens' : q \in tokens \/ (q.user = Nil /\ q.counter = provider.token_counter)
BY DEF Network, Requests

\* The notification of a change of user raises the counter, so that the
\* tokens of the previous user are out of date.
LEMMA AuthInvNotified ==
    ASSUME TypeOK, AuthInv, AuthStateDidChange
    PROVE  AuthInv'
<1> DEFINE M == Notification \cup TokenCallback
<1>1. /\ main \in Seq(M) /\ main # <<>> /\ Head(main).type = "note" /\ main' = Tail(main)
      /\ tokens' = tokens /\ authUser' = authUser /\ provider.token_counter \in Nat
      /\ provider'.current_user = Head(main).user
      /\ provider'.token_counter = provider.token_counter + 1
  BY DEF TypeOK, AuthStateDidChange
<1>2. /\ DOMAIN main = 1..Len(main) /\ Len(main) \in Nat /\ 1 \in DOMAIN main
      /\ DOMAIN main' = 1..Len(main) - 1
      /\ \A i \in DOMAIN main' : i + 1 \in DOMAIN main /\ main'[i] = main[i + 1]
      /\ Head(main) = main[1]
  BY <1>1, IndicesOfTail
<1>3. \A i \in DOMAIN main : i = 1 \/ (i - 1 \in DOMAIN main' /\ main'[i - 1] = main[i])
  BY <1>2
<1>4. /\ \A q \in tokens : q.counter \in Nat
      /\ \A i \in DOMAIN main : main[i].type = "token" => main[i].request.counter \in Nat
  BY QueueTypes DEF TypeOK, Request
<1>5. CountersPast'
  <2>1. \A q \in tokens' : q.counter <= provider'.token_counter
    BY <1>1, <1>4 DEF AuthInv, CountersPast
  <2>2. \A i \in DOMAIN main' :
           main'[i].type = "token" => main'[i].request.counter <= provider'.token_counter
    BY <1>1, <1>2, <1>4 DEF AuthInv, CountersPast
  <2> QED
    BY <2>1, <2>2 DEF CountersPast
<1>6. TokensOfUser'
  <2>1. \A q \in tokens' : q.counter # provider'.token_counter
    BY <1>1, <1>4 DEF AuthInv, CountersPast
  <2>2. \A i \in DOMAIN main' :
           main'[i].type = "token" => main'[i].request.counter # provider'.token_counter
    BY <1>1, <1>2, <1>4 DEF AuthInv, CountersPast
  <2> QED
    BY <2>1, <2>2 DEF TokensOfUser
<1>7. AuthUserNoted'
  <2>1. ASSUME NEW i \in DOMAIN main', main'[i].type = "note",
               \A j \in DOMAIN main' : j > i => main'[j].type # "note"
        PROVE  main'[i].user = authUser'
    <3>1. i + 1 \in DOMAIN main /\ main[i + 1].type = "note" /\ i \in Nat /\ i > 0
      BY <1>2, <2>1
    <3>2. ASSUME NEW j \in DOMAIN main, j > i + 1 PROVE main[j].type # "note"
      <4>1. j - 1 \in DOMAIN main' /\ main'[j - 1] = main[j] /\ j - 1 > i
        BY <1>2, <1>3, <3>1, <3>2
      <4> QED
        BY <2>1, <4>1
    <3> QED
      BY <1>1, <1>2, <3>1, <3>2 DEF AuthInv, AuthUserNoted
  <2>2. ASSUME ~ HasNote(main') PROVE provider'.current_user = authUser'
    <3>1. \A j \in DOMAIN main : j > 1 => main[j].type # "note"
      BY <1>2, <1>3, <2>2 DEF HasNote
    <3> QED
      BY <1>1, <1>2, <3>1 DEF AuthInv, AuthUserNoted
  <2> QED
    BY <2>1, <2>2 DEF AuthUserNoted, HasNote
<1> QED
  BY <1>5, <1>6, <1>7 DEF AuthInv

\* A token callback leaves the notifications as they are.
LEMMA AuthInvCallback ==
    ASSUME TypeOK, AuthInv, GetTokenCallback
    PROVE  AuthInv'
<1> DEFINE M == Notification \cup TokenCallback
<1>1. /\ main \in Seq(M) /\ main # <<>> /\ Head(main).type = "token" /\ main' = Tail(main)
      /\ authUser' = authUser /\ provider.token_counter \in Nat /\ provider' = provider
  BY DEF TypeOK, GetTokenCallback
<1>2. /\ DOMAIN main = 1..Len(main) /\ Len(main) \in Nat /\ 1 \in DOMAIN main
      /\ DOMAIN main' = 1..Len(main) - 1
      /\ \A i \in DOMAIN main' : i + 1 \in DOMAIN main /\ main'[i] = main[i + 1]
      /\ Head(main) = main[1]
  BY <1>1, IndicesOfTail
<1>3. \A i \in DOMAIN main : i = 1 \/ (i - 1 \in DOMAIN main' /\ main'[i - 1] = main[i])
  BY <1>2
<1>4. \A q \in tokens' : q \in tokens \/ (q.user = Nil /\ q.counter = provider.token_counter)
  <2> DEFINE q == Head(main).request
             p == [q EXCEPT !.counter = provider.token_counter, !.user = Nil]
  <2>1. q \in Request
    BY <1>1, <1>2, QueueTypes
  <2>2. p.user = Nil /\ p.counter = provider.token_counter
    BY <2>1 DEF Request
  <2>3. tokens' = tokens \/ tokens' = tokens \cup {p}
    BY DEF GetTokenCallback
  <2> QED
    BY <2>2, <2>3
<1>5. HasNote(main) => HasNote(main')
  <2> SUFFICES ASSUME NEW j \in DOMAIN main, main[j].type = "note" PROVE HasNote(main')
    BY DEF HasNote
  <2>1. j # 1
    BY <1>1, <1>2
  <2>2. j - 1 \in DOMAIN main' /\ main'[j - 1].type = "note"
    BY <1>3, <2>1
  <2> QED
    BY <2>2 DEF HasNote
<1>6. \A i \in DOMAIN main' : NoteBefore(main, i + 1) => NoteBefore(main', i)
  <2> SUFFICES ASSUME NEW i \in DOMAIN main', NEW j \in DOMAIN main, j < i + 1,
                      main[j].type = "note"
               PROVE  NoteBefore(main', i)
    BY DEF NoteBefore
  <2>1. j # 1
    BY <1>1, <1>2
  <2>2. j - 1 \in DOMAIN main' /\ main'[j - 1] = main[j] /\ j - 1 < i
    BY <1>2, <1>3, <2>1
  <2> QED
    BY <2>2 DEF NoteBefore
<1>7. CountersPast'
  BY <1>1, <1>2, <1>4 DEF AuthInv, CountersPast
<1>8. TokensOfUser'
  <2>1. \A q \in tokens' : q.user # Nil /\ q.counter = provider'.token_counter
           => HasNote(main') \/ q.user = provider'.current_user
    BY <1>1, <1>4, <1>5 DEF AuthInv, TokensOfUser
  <2>2. ASSUME NEW i \in DOMAIN main', main'[i].type = "token",
               main'[i].request.counter = provider'.token_counter
        PROVE  NoteBefore(main', i) \/ main'[i].request.user = provider'.current_user
    BY <1>1, <1>2, <1>6, <2>2 DEF AuthInv, TokensOfUser
  <2> QED
    BY <2>1, <2>2 DEF TokensOfUser, NoteBefore, HasNote
<1>9. AuthUserNoted'
  <2>1. ASSUME NEW i \in DOMAIN main', main'[i].type = "note",
               \A j \in DOMAIN main' : j > i => main'[j].type # "note"
        PROVE  main'[i].user = authUser'
    <3>1. i + 1 \in DOMAIN main /\ main[i + 1].type = "note" /\ i \in Nat /\ i > 0
      BY <1>2, <2>1
    <3>2. ASSUME NEW j \in DOMAIN main, j > i + 1 PROVE main[j].type # "note"
      <4>1. j - 1 \in DOMAIN main' /\ main'[j - 1] = main[j] /\ j - 1 > i
        BY <1>2, <1>3, <3>1, <3>2
      <4> QED
        BY <2>1, <4>1
    <3> QED
      BY <1>1, <1>2, <3>1, <3>2 DEF AuthInv, AuthUserNoted
  <2>2. ~ HasNote(main') => provider'.current_user = authUser'
    BY <1>1, <1>5 DEF AuthInv, AuthUserNoted
  <2> QED
    BY <2>1, <2>2 DEF AuthUserNoted, HasNote
<1> QED
  BY <1>7, <1>8, <1>9 DEF AuthInv

\* FIRAuth's work queue: a change of user is noted at once, a token is
\* fetched for the user of that moment.
LEMMA AuthInvWorkQueue ==
    ASSUME TypeOK, AuthInv,
           \/ \E u \in Users : UpdateCurrentUser(u)
           \/ \E q \in tokens : GetTokenForcingRefresh(q) \/ TokenFetched(q) \/ TokenFailed(q)
    PROVE  AuthInv'
<1> DEFINE M == Notification \cup TokenCallback
<1>1. main \in Seq(M) /\ provider.token_counter \in Nat
  BY DEF TypeOK
<1>2. DOMAIN main = 1..Len(main) /\ Len(main) \in Nat
  BY <1>1, LenProperties
<1>3. ASSUME NEW u \in Users, UpdateCurrentUser(u) PROVE AuthInv'
  <2> DEFINE m == [type |-> "note", user |-> u]
  <2>1. m \in M /\ m.type = "note" /\ m.user = u
    BY DEF Notification
  <2>2. main' = Append(main, m) /\ tokens' = tokens /\ provider' = provider /\ authUser' = u
    BY <1>3 DEF UpdateCurrentUser
  <2> HIDE DEF m, M
  <2>3. /\ DOMAIN main' = DOMAIN main \cup {Len(main) + 1}
        /\ Len(main) + 1 \notin DOMAIN main
        /\ \A i \in DOMAIN main : main'[i] = main[i]
        /\ main'[Len(main) + 1] = m
    BY <1>1, <2>1, <2>2, IndicesOfAppend
  <2>4. \A i \in DOMAIN main : Len(main) + 1 > i
    BY <1>2
  <2>5. HasNote(main')
    BY <2>1, <2>3 DEF HasNote
  <2>6. AuthUserNoted'
    <3>1. ASSUME NEW i \in DOMAIN main', \A j \in DOMAIN main' : j > i => main'[j].type # "note"
          PROVE  main'[i].user = authUser'
      <4>1. i = Len(main) + 1
        BY <2>1, <2>3, <2>4, <3>1
      <4> QED
        BY <2>1, <2>2, <2>3, <4>1
    <3> QED
      BY <2>5, <3>1 DEF AuthUserNoted, HasNote
  <2>7. CountersPast'
    BY <2>1, <2>2, <2>3 DEF AuthInv, CountersPast
  <2>8. TokensOfUser'
    <3>1. ASSUME NEW i \in DOMAIN main', main'[i].type = "token",
                 main'[i].request.counter = provider.token_counter
          PROVE  NoteBefore(main', i) \/ main'[i].request.user = provider.current_user
      <4>1. i \in DOMAIN main /\ main'[i] = main[i]
        BY <2>1, <2>3, <3>1
      <4>2. NoteBefore(main, i) => NoteBefore(main', i)
        BY <2>3 DEF NoteBefore
      <4> QED
        BY <3>1, <4>1, <4>2 DEF AuthInv, TokensOfUser
    <3> QED
      BY <2>2, <2>5, <3>1 DEF TokensOfUser, NoteBefore, HasNote
  <2> QED
    BY <2>6, <2>7, <2>8 DEF AuthInv
<1>4. ASSUME NEW q \in tokens, GetTokenForcingRefresh(q) PROVE AuthInv'
  <2> DEFINE p == [q EXCEPT !.user = authUser]
  <2>1. p.counter = q.counter /\ p.user = authUser
    BY DEF TypeOK, Request
  <2>2. /\ tokens' = (tokens \ {q}) \cup {p}
        /\ main' = main /\ provider' = provider /\ authUser' = authUser
    BY <1>4 DEF GetTokenForcingRefresh, authVars
  <2> HIDE DEF p
  <2>3. AuthUserNoted' /\ CountersPast'
    BY <2>1, <2>2 DEF AuthInv, AuthUserNoted, CountersPast, HasNote
  <2>4. HasNote(main) \/ p.user = provider.current_user
    BY <2>1 DEF AuthInv, AuthUserNoted
  <2>5. TokensOfUser'
    BY <2>2, <2>4 DEF AuthInv, TokensOfUser, HasNote, NoteBefore
  <2> QED
    BY <2>3, <2>5 DEF AuthInv
<1>5. ASSUME NEW q \in tokens, TokenFetched(q) \/ TokenFailed(q) PROVE AuthInv'
  <2>1. PICK ok \in BOOLEAN : PostToken(q, ok)
    BY <1>5 DEF TokenFetched, TokenFailed
  <2> DEFINE m == [type |-> "token", request |-> q, ok |-> ok]
  <2>2. m \in M /\ m.type = "token" /\ m.request = q
    BY DEF TokenCallback, TypeOK
  <2>3. /\ tokens' = tokens \ {q} /\ main' = Append(main, m)
        /\ provider' = provider /\ authUser' = authUser /\ q.user # Nil
    BY <2>1 DEF PostToken
  <2> HIDE DEF m, M
  <2>4. /\ DOMAIN main' = DOMAIN main \cup {Len(main) + 1}
        /\ Len(main) + 1 \notin DOMAIN main
        /\ \A i \in DOMAIN main : main'[i] = main[i]
        /\ main'[Len(main) + 1] = m
    BY <1>1, <2>2, <2>3, IndicesOfAppend
  <2>5. HasNote(main) <=> HasNote(main')
    BY <2>2, <2>4 DEF HasNote
  <2>6. AuthUserNoted'
    <3>1. ASSUME NEW i \in DOMAIN main', main'[i].type = "note",
                 \A j \in DOMAIN main' : j > i => main'[j].type # "note"
          PROVE  main'[i].user = authUser'
      BY <2>2, <2>3, <2>4, <3>1 DEF AuthInv, AuthUserNoted
    <3>2. ~ HasNote(main') => provider'.current_user = authUser'
      BY <2>3, <2>5 DEF AuthInv, AuthUserNoted
    <3> QED
      BY <3>1, <3>2 DEF AuthUserNoted, HasNote
  <2>7. CountersPast'
    BY <2>2, <2>3, <2>4 DEF AuthInv, CountersPast
  <2>8. TokensOfUser'
    <3>1. ASSUME NEW i \in DOMAIN main', main'[i].type = "token",
                 main'[i].request.counter = provider.token_counter
          PROVE  NoteBefore(main', i) \/ main'[i].request.user = provider.current_user
      <4>1. CASE i \in DOMAIN main
        <5>1. NoteBefore(main, i) => NoteBefore(main', i)
          BY <2>4 DEF NoteBefore
        <5> QED
          BY <2>4, <3>1, <4>1, <5>1 DEF AuthInv, TokensOfUser
      <4>2. CASE i = Len(main) + 1
        <5>1. HasNote(main) => NoteBefore(main', i)
          BY <1>2, <2>4, <4>2 DEF NoteBefore, HasNote
        <5> QED
          BY <2>2, <2>3, <2>4, <3>1, <4>2, <5>1 DEF AuthInv, TokensOfUser
      <4> QED
        BY <2>4, <4>1, <4>2
    <3>2. \A p \in tokens' : p.user # Nil /\ p.counter = provider.token_counter
             => HasNote(main') \/ p.user = provider.current_user
      BY <2>3, <2>5 DEF AuthInv, TokensOfUser
    <3> QED
      BY <2>3, <3>1, <3>2 DEF TokensOfUser, NoteBefore, HasNote
  <2> QED
    BY <2>6, <2>7, <2>8 DEF AuthInv
<1> QED
  BY <1>3, <1>4, <1>5

\* Every step preserves the invariant on tokens.
LEMMA AuthInvStep ==
    ASSUME TypeOK, AuthInv, [Next]_vars
    PROVE  AuthInv'
<1>1. CASE Worker \/ StreamBreak \/ IdleTimer \/ ConnectivityChange
  <2>1. UNCHANGED authVars
    BY <1>1 DEF Worker, RunWriteMutations, HandleCredentialChange, ResumeStart, StreamOpen,
                HandshakeComplete, MutationResult, WriteError, BackoffTimer, StreamBreak,
                IdleTimer, ConnectivityChange
  <2>2. tokens' = tokens \/ Network(remote')
    BY <1>1 DEF Worker, RunWriteMutations, HandleCredentialChange, ResumeStart, StreamOpen,
                HandshakeComplete, MutationResult, WriteError, BackoffTimer, StreamBreak,
                IdleTimer, ConnectivityChange, Network
  <2>3. \A q \in tokens' : q \in tokens \/ (q.user = Nil /\ q.counter = provider.token_counter)
    BY <2>2, NetworkAsks
  <2> QED
    BY <2>1, <2>3, AuthInvAsking
<1>2. CASE WriteMutations \/ ServerCommit \/ UNCHANGED vars
  BY <1>2, AuthInvAsking DEF WriteMutations, ServerCommit, vars
<1>3. CASE Main
  BY <1>3, AuthInvNotified, AuthInvCallback DEF Main
<1>4. CASE Auth \/ (\E u \in Users : UpdateCurrentUser(u)) \/ (\E q \in tokens : TokenFailed(q))
  BY <1>4, AuthInvWorkQueue DEF Auth
<1>5. CASE Restart
  <2>1. /\ main' = <<>> /\ DOMAIN main' = {} /\ authUser' = authUser
        /\ provider'.current_user = authUser /\ provider'.token_counter = 0
    BY <1>5 DEF Restart
  <2>2. \A q \in tokens' : q.user = Nil /\ q.counter = 0
    BY <1>5 DEF Restart
  <2> QED
    BY <2>1, <2>2 DEF AuthInv, AuthUserNoted, CountersPast, TokensOfUser, HasNote, NoteBefore
<1> QED
  BY <1>1, <1>2, <1>3, <1>4, <1>5 DEF Next

\* The invariant on tokens holds in every reachable state.
THEOREM AuthInvariant == Spec => []AuthInv
<1>1. Init => AuthInv
  <2> SUFFICES ASSUME Init PROVE AuthInv
    OBVIOUS
  <2>1. main = <<>> /\ DOMAIN main = {} /\ tokens = {} /\ provider.current_user = authUser
    BY DEF Init
  <2> QED
    BY <2>1 DEF AuthInv, AuthUserNoted, CountersPast, TokensOfUser, HasNote, NoteBefore
<1>2. TypeOK /\ AuthInv /\ [Next]_vars => AuthInv'
  BY AuthInvStep
<1> QED
  BY <1>1, <1>2, TypeCorrect, PTL DEF Spec

-----------------------------------------------------------------------------
(* Whose write it is. *)

\* The user SyncEngine will work for when the first i - 1 tasks of the worker
\* queue are done, cur being the one it works for now.
InEffect(u, cur, wk, i) ==
    \/ \E j \in DOMAIN wk : /\ j < i /\ wk[j].type = "user" /\ wk[j].user = u
                            /\ \A k \in DOMAIN wk : j < k /\ k < i => wk[k].type # "user"
    \/ (\A j \in DOMAIN wk : j < i => wk[j].type # "user") /\ u = cur

\* The order of the worker queue keeps users, writes and tokens together: a
\* write is run for the user it was issued for, a token reaches the stream
\* while its user is SyncEngine's.
TasksInv ==
    /\ InEffect(provider.current_user, current_user, worker, Len(worker) + 1)
    /\ \A i \in DOMAIN worker : worker[i].type = "write"
          => InEffect(owner[worker[i].write], current_user, worker, i)
    /\ \A i \in DOMAIN worker : worker[i].type = "resume" /\ worker[i].user # Nil
          => InEffect(worker[i].user, current_user, worker, i)
    /\ \A w \in Writes : w > issued => owner[w] = Nil

RowsInv ==
    /\ remote.peer # Nil => remote.peer = current_user
    /\ \A u \in Users : \A i \in DOMAIN mutations[u] : owner[mutations[u][i].write] = u

\* One more task changes nothing for those before it.
LEMMA InEffectAppend ==
    ASSUME NEW S, NEW wk \in Seq(S), NEW t \in S, NEW u, NEW cur, NEW i \in 1..Len(wk) + 1
    PROVE  /\ InEffect(u, cur, wk, i) => InEffect(u, cur, Append(wk, t), i)
           /\ t.type # "user" /\ InEffect(u, cur, wk, Len(wk) + 1)
                 => InEffect(u, cur, Append(wk, t), Len(wk) + 2)
           /\ t.type = "user" => InEffect(t.user, cur, Append(wk, t), Len(wk) + 2)
<1> DEFINE more == Append(wk, t)
<1>1. /\ DOMAIN wk = 1..Len(wk) /\ Len(wk) \in Nat
      /\ DOMAIN more = DOMAIN wk \cup {Len(wk) + 1}
      /\ \A j \in DOMAIN wk : more[j] = wk[j]
      /\ more[Len(wk) + 1] = t
  BY IndicesOfAppend
<1> HIDE DEF more
<1>2. InEffect(u, cur, wk, i) => InEffect(u, cur, more, i)
  BY <1>1 DEF InEffect
<1>3. ASSUME t.type # "user", InEffect(u, cur, wk, Len(wk) + 1)
      PROVE  InEffect(u, cur, more, Len(wk) + 2)
  BY <1>1, <1>3 DEF InEffect
<1>4. ASSUME t.type = "user"
      PROVE  InEffect(t.user, cur, more, Len(wk) + 2)
  <2>1. \A k \in DOMAIN more : ~ (Len(wk) + 1 < k /\ k < Len(wk) + 2)
    BY <1>1
  <2>2. Len(wk) + 1 \in DOMAIN more /\ Len(wk) + 1 < Len(wk) + 2
    BY <1>1
  <2> QED
    BY <1>1, <1>4, <2>1, <2>2 DEF InEffect
<1> QED
  BY <1>2, <1>3, <1>4 DEF more

\* The first task is done.
LEMMA InEffectTail ==
    ASSUME NEW S, NEW wk \in Seq(S), wk # <<>>, NEW u, NEW cur, NEW i \in Nat, i > 0,
           InEffect(u, cur, wk, i + 1)
    PROVE  InEffect(u, IF Head(wk).type = "user" THEN Head(wk).user ELSE cur, Tail(wk), i)
<1>1. /\ DOMAIN wk = 1..Len(wk) /\ Len(wk) \in Nat /\ 1 \in DOMAIN wk
      /\ DOMAIN Tail(wk) = 1..Len(wk) - 1
      /\ \A j \in DOMAIN Tail(wk) : j + 1 \in DOMAIN wk /\ Tail(wk)[j] = wk[j + 1]
      /\ Head(wk) = wk[1]
  BY IndicesOfTail
<1> DEFINE rest == Tail(wk)
<1> HIDE DEF rest
<1>2. \A j \in DOMAIN wk : j = 1 \/ (j - 1 \in DOMAIN rest /\ rest[j - 1] = wk[j])
  BY <1>1 DEF rest
<1>3. /\ DOMAIN rest = 1..Len(wk) - 1
      /\ \A j \in DOMAIN rest : j + 1 \in DOMAIN wk /\ rest[j] = wk[j + 1]
  BY <1>1 DEF rest
<1>4. CASE \A j \in DOMAIN wk : j < i + 1 => wk[j].type # "user"
  <2>1. u = cur
    BY <1>4 DEF InEffect
  <2>2. Head(wk).type # "user"
    BY <1>1, <1>4
  <2>3. \A j \in DOMAIN rest : j < i => rest[j].type # "user"
    BY <1>1, <1>3, <1>4
  <2> QED
    BY <2>1, <2>2, <2>3 DEF InEffect, rest
<1>5. ASSUME NEW j \in DOMAIN wk, j < i + 1, wk[j].type = "user", wk[j].user = u,
             \A k \in DOMAIN wk : j < k /\ k < i + 1 => wk[k].type # "user"
      PROVE  InEffect(u, IF Head(wk).type = "user" THEN Head(wk).user ELSE cur, rest, i)
  <2>1. CASE j = 1
    <3>1. \A k \in DOMAIN rest : k < i => rest[k].type # "user"
      BY <1>1, <1>3, <1>5, <2>1
    <3> QED
      BY <1>1, <1>5, <2>1, <3>1 DEF InEffect
  <2>2. CASE j # 1
    <3>1. j - 1 \in DOMAIN rest /\ rest[j - 1] = wk[j] /\ j - 1 < i
      BY <1>1, <1>2, <1>5, <2>2
    <3>2. \A k \in DOMAIN rest : j - 1 < k /\ k < i => rest[k].type # "user"
      BY <1>1, <1>3, <1>5
    <3> QED
      BY <1>5, <3>1, <3>2 DEF InEffect
  <2> QED
    BY <2>1, <2>2
<1> QED
  BY <1>4, <1>5 DEF InEffect, rest

\* The first task is run for the user SyncEngine works for.
LEMMA InEffectNow ==
    ASSUME NEW S, NEW wk \in Seq(S), NEW u, NEW cur, InEffect(u, cur, wk, 1)
    PROVE  u = cur
<1>1. \A j \in DOMAIN wk : ~ j < 1
  BY LenProperties
<1> QED
  BY <1>1 DEF InEffect

\* Only users are in effect.
LEMMA InEffectUser ==
    ASSUME TypeOK, NEW u, NEW i, InEffect(u, current_user, worker, i)
    PROVE  u \in Users
<1>1. \A j \in DOMAIN worker : worker[j].type = "user" => worker[j].user \in Users
  BY QueueTypes
<1>2. current_user \in Users
  BY DEF TypeOK
<1> QED
  BY <1>1, <1>2 DEF InEffect

\* TasksInv after the first task.
LEMMA TasksTail ==
    ASSUME TypeOK, TasksInv, worker # <<>>, worker' = Tail(worker),
           UNCHANGED <<provider, owner, issued>>,
           current_user' = IF Head(worker).type = "user" THEN Head(worker).user ELSE current_user
    PROVE  /\ TasksInv'
           /\ Head(worker).type = "write" => owner[Head(worker).write] = current_user
           /\ Head(worker).type = "resume" /\ Head(worker).user # Nil
                 => Head(worker).user = current_user
<1> DEFINE W == WriteTask \cup UserTask \cup ResumeTask
<1>1. worker \in Seq(W)
  BY DEF TypeOK
<1> HIDE DEF W
<1>2. /\ DOMAIN worker = 1..Len(worker) /\ Len(worker) \in Nat /\ 1 \in DOMAIN worker
      /\ DOMAIN worker' = 1..Len(worker) - 1
      /\ \A j \in DOMAIN worker' : j + 1 \in DOMAIN worker /\ worker'[j] = worker[j + 1]
                                   /\ j \in Nat /\ j > 0
      /\ Head(worker) = worker[1] /\ worker' \in Seq(W)
  BY <1>1, IndicesOfTail
<1>3. Len(worker') = Len(worker) - 1 /\ Len(worker) > 0
  BY <1>1, <1>2, HeadTailProperties
<1>4. \A u, i : i \in Nat /\ i > 0 /\ InEffect(u, current_user, worker, i + 1)
         => InEffect(u, current_user', worker', i)
  BY <1>1, InEffectTail
<1>5. InEffect(provider'.current_user, current_user', worker', Len(worker') + 1)
  <2>1. InEffect(provider.current_user, current_user, worker, Len(worker) + 1)
    BY DEF TasksInv
  <2>2. Len(worker') + 1 = Len(worker) /\ Len(worker) \in Nat /\ Len(worker) > 0
    BY <1>2, <1>3
  <2> QED
    BY <1>4, <2>1, <2>2
<1>6. \A i \in DOMAIN worker' : worker'[i].type = "write"
         => InEffect(owner'[worker'[i].write], current_user', worker', i)
  BY <1>2, <1>4 DEF TasksInv
<1>7. \A i \in DOMAIN worker' : worker'[i].type = "resume" /\ worker'[i].user # Nil
         => InEffect(worker'[i].user, current_user', worker', i)
  BY <1>2, <1>4 DEF TasksInv
<1>8. TasksInv'
  BY <1>5, <1>6, <1>7 DEF TasksInv
<1>9. Head(worker).type = "write" => owner[Head(worker).write] = current_user
  BY <1>1, <1>2, InEffectNow DEF TasksInv
<1>10. Head(worker).type = "resume" /\ Head(worker).user # Nil => Head(worker).user = current_user
  BY <1>1, <1>2, InEffectNow DEF TasksInv
<1> QED
  BY <1>8, <1>9, <1>10

\* TasksInv after a task was enqueued.
LEMMA TasksAppend ==
    ASSUME TypeOK, TasksInv, NEW t \in WriteTask \cup UserTask \cup ResumeTask,
           worker' = Append(worker, t), current_user' = current_user,
           \A i \in DOMAIN worker :
              worker[i].type = "write" => owner'[worker[i].write] = owner[worker[i].write],
           t.type = "write" => owner'[t.write] = provider.current_user,
           t.type = "resume" /\ t.user # Nil => t.user = provider.current_user,
           IF t.type = "user" THEN provider'.current_user = t.user
           ELSE provider'.current_user = provider.current_user,
           \A w \in Writes : w > issued' => owner'[w] = Nil
    PROVE  TasksInv'
<1> DEFINE W == WriteTask \cup UserTask \cup ResumeTask
<1>1. worker \in Seq(W) /\ t \in W
  BY DEF TypeOK
<1>t. t.type \in {"write", "user", "resume"}
  BY DEF WriteTask, UserTask, ResumeTask
<1> HIDE DEF W
<1>2. /\ DOMAIN worker = 1..Len(worker) /\ Len(worker) \in Nat
      /\ DOMAIN worker' = DOMAIN worker \cup {Len(worker) + 1}
      /\ \A i \in DOMAIN worker : worker'[i] = worker[i]
      /\ worker'[Len(worker) + 1] = t
  BY <1>1, IndicesOfAppend
<1>3. Len(worker') = Len(worker) + 1
  BY <1>1, AppendProperties
<1>4. \A u : \A i \in 1..Len(worker) + 1 :
         InEffect(u, current_user, worker, i) => InEffect(u, current_user, worker', i)
  BY <1>1, InEffectAppend
<1>5. InEffect(provider.current_user, current_user, worker, Len(worker) + 1)
  BY DEF TasksInv
<1>6. InEffect(provider.current_user, current_user, worker', Len(worker) + 1)
  <2>1. Len(worker) + 1 \in 1..Len(worker) + 1
    BY <1>2
  <2> QED
    BY <1>4, <1>5, <2>1
<1>7. InEffect(provider'.current_user, current_user', worker', Len(worker') + 1)
  <2>1. InEffect(provider'.current_user, current_user, worker', Len(worker) + 2)
    <3>1. CASE t.type = "user"
      BY <1>1, <1>2, <3>1, InEffectAppend
    <3>2. CASE t.type # "user"
      <4>1. 1 \in 1..Len(worker) + 1
        BY <1>2
      <4> QED
        BY <1>1, <1>5, <3>2, <4>1, InEffectAppend
    <3> QED
      BY <3>1, <3>2
  <2>2. Len(worker') + 1 = Len(worker) + 2
    BY <1>2, <1>3
  <2> QED
    BY <2>1, <2>2
<1>8. ASSUME NEW i \in DOMAIN worker', worker'[i].type = "write"
      PROVE  InEffect(owner'[worker'[i].write], current_user', worker', i)
  <2>1. CASE i \in DOMAIN worker
    <3>1. i \in 1..Len(worker) + 1
      BY <1>2, <2>1
    <3> QED
      BY <1>2, <1>4, <1>8, <2>1, <3>1 DEF TasksInv
  <2>2. CASE i = Len(worker) + 1
    BY <1>2, <1>6, <1>8, <2>2
  <2> QED
    BY <1>2, <2>1, <2>2
<1>9. ASSUME NEW i \in DOMAIN worker', worker'[i].type = "resume", worker'[i].user # Nil
      PROVE  InEffect(worker'[i].user, current_user', worker', i)
  <2>1. CASE i \in DOMAIN worker
    <3>1. i \in 1..Len(worker) + 1
      BY <1>2, <2>1
    <3> QED
      BY <1>2, <1>4, <1>9, <2>1, <3>1 DEF TasksInv
  <2>2. CASE i = Len(worker) + 1
    BY <1>2, <1>6, <1>9, <2>2
  <2> QED
    BY <1>2, <2>1, <2>2
<1> QED
  BY <1>7, <1>8, <1>9 DEF TasksInv

\* No credentials and no write of one user is ever used for another.
UsersInv == TasksInv /\ RowsInv

\* What the properties need of it: the requests on the wire are rows of the
\* user whose token the stream was opened with.
LEMMA UsersInvMeaning ==
    ASSUME PipelineInv, UsersInv
    PROVE  OwnCredentials
<1> DEFINE rows == mutations[current_user]
<1>1. /\ rows \in Seq(Batch) /\ remote \in Remote /\ HeadOf(remote, rows) /\ Connection(remote)
      /\ current_user \in Users /\ mutations \in [Users -> Seq(Batch)]
  BY DEF PipelineInv, TypeOK, Serves
<1>2. /\ Len(remote.wire) \in Nat /\ Len(remote.wire) <= Len(rows) /\ Len(rows) \in Nat
      /\ DOMAIN remote.wire = 1..Len(remote.wire) /\ DOMAIN rows = 1..Len(rows)
      /\ \A i \in 1..Len(remote.wire) : remote.wire[i] = rows[i].write
      /\ remote.wire # <<>> => remote.handshake_complete
  BY <1>1, WireIsHeadOfQueue, RowsType
<1>3. ASSUME NEW i \in DOMAIN remote.wire PROVE owner[remote.wire[i]] = remote.peer
  <2>1. i \in DOMAIN rows /\ remote.wire[i] = rows[i].write /\ remote.wire # <<>>
    BY <1>2
  <2>2. remote.peer # Nil
    BY <1>1, <1>2, <2>1 DEF Connection
  <2> QED
    BY <1>1, <2>1, <2>2 DEF UsersInv, RowsInv
<1>4. \A w \in Elements(remote.wire) : owner[w] = remote.peer
  BY <1>3 DEF Elements
<1>5. \A u \in Users : \A row \in Elements(mutations[u]) : owner[row.write] = u
  BY DEF UsersInv, RowsInv, Elements
<1> QED
  BY <1>4, <1>5 DEF OwnCredentials

\* The steps of the app and of the callbacks on the main thread.
LEMMA UsersOutside ==
    ASSUME PipelineInv, AuthInv, UsersInv, WriteMutations \/ Main
    PROVE  UsersInv'
<1>1. /\ TypeOK /\ worker \in Seq(WriteTask \cup UserTask \cup ResumeTask)
      /\ main \in Seq(Notification \cup TokenCallback) /\ mutations \in [Users -> Seq(Batch)]
  BY DEF PipelineInv, TypeOK
<1>2. TasksInv /\ RowsInv
  BY DEF UsersInv
<1>3. CASE WriteMutations
  <2> DEFINE t == [type |-> "write", write |-> issued + 1]
  <2>1. /\ issued + 1 \in Writes /\ issued \in Nat
        /\ owner \in [Writes -> Users \cup {Nil}]
    <3>1. issued \in Writes \cup {0} /\ issued < MaxWrites /\ MaxWrites \in Nat
      BY <1>1, <1>3, BoundsAssumption DEF WriteMutations, TypeOK
    <3>2. owner \in [Writes -> Users \cup {Nil}]
      BY <1>1 DEF TypeOK
    <3> QED
      BY <3>1, <3>2 DEF Writes
  <2>2. /\ worker' = Append(worker, t) /\ issued' = issued + 1
        /\ owner' = [owner EXCEPT ![issued + 1] = provider.current_user]
        /\ UNCHANGED <<provider, current_user, mutations, remote>>
    BY <1>3 DEF WriteMutations, authVars, localVars
  <2>3. /\ t \in WriteTask \cup UserTask \cup ResumeTask
        /\ t.type = "write" /\ t.write = issued + 1
    BY <2>1 DEF WriteTask
  <2>4. owner[issued + 1] = Nil
    BY <1>2, <2>1 DEF TasksInv
  <2>5. \A w \in Writes : w # issued + 1 => owner'[w] = owner[w]
    BY <2>1, <2>2
  <2>6. ASSUME NEW i \in DOMAIN worker, worker[i].type = "write"
        PROVE  owner'[worker[i].write] = owner[worker[i].write]
    <3>1. owner[worker[i].write] \in Users
      BY <1>1, <1>2, <2>6, InEffectUser DEF TasksInv
    <3>2. worker[i].write # issued + 1 /\ worker[i].write \in Writes
      BY <1>1, <2>4, <2>6, <3>1, QueueTypes, NilAssumption
    <3> QED
      BY <2>5, <3>2
  <2>7. owner'[issued + 1] = provider.current_user
    BY <2>1, <2>2
  <2>8. \A w \in Writes : w > issued' => owner'[w] = Nil
    BY <1>2, <2>1, <2>2, <2>5 DEF TasksInv, Writes
  <2> HIDE DEF t
  <2>9. TasksInv'
    BY <1>1, <1>2, <2>2, <2>3, <2>6, <2>7, <2>8, TasksAppend
  <2>10. RowsInv'
    <3>1. ASSUME NEW u \in Users, NEW i \in DOMAIN mutations[u]
          PROVE  owner'[mutations[u][i].write] = u
      <4>1. mutations[u][i].write \in Writes /\ owner[mutations[u][i].write] = u
        BY <1>1, <1>2, RowsType DEF RowsInv
      <4>2. mutations[u][i].write # issued + 1
        BY <2>4, <4>1, NilAssumption
      <4> QED
        BY <2>5, <4>1, <4>2
    <3> QED
      BY <1>2, <2>2, <3>1 DEF RowsInv
  <2> QED
    BY <2>9, <2>10 DEF UsersInv
<1>4. CASE AuthStateDidChange
  <2> DEFINE t == [type |-> "user", user |-> Head(main).user]
  <2>1. /\ main # <<>> /\ Head(main).type = "note"
        /\ worker' = Append(worker, t) /\ provider'.current_user = Head(main).user
        /\ UNCHANGED <<owner, issued, current_user, mutations, remote>>
    BY <1>4 DEF AuthStateDidChange, localVars, historyVars
  <2>2. Head(main) \in Notification \cup TokenCallback
    BY <1>1, <2>1, HeadTailProperties
  <2>3. /\ t \in WriteTask \cup UserTask \cup ResumeTask
        /\ t.type = "user" /\ t.user = Head(main).user
    BY <2>1, <2>2 DEF UserTask, Notification, TokenCallback
  <2> HIDE DEF t
  <2>4. TasksInv'
    BY <1>1, <1>2, <2>1, <2>3, TasksAppend DEF TasksInv
  <2>5. RowsInv'
    BY <1>2, <2>1 DEF RowsInv
  <2> QED
    BY <2>4, <2>5 DEF UsersInv
<1>5. CASE GetTokenCallback
  <2> DEFINE q == Head(main).request
             t == [type |-> "resume", count |-> q.count,
                   user |-> IF Head(main).ok THEN q.user ELSE Nil]
  <2>1. /\ main # <<>> /\ Head(main).type = "token"
        /\ UNCHANGED <<provider, owner, issued, current_user, mutations, remote>>
    BY <1>5 DEF GetTokenCallback, localVars, historyVars
  <2>2. RowsInv'
    BY <1>2, <2>1 DEF RowsInv
  <2>3. CASE q.counter # provider.token_counter
    <3>1. worker' = worker
      BY <1>5, <2>3 DEF GetTokenCallback
    <3> QED
      BY <1>2, <2>1, <2>2, <3>1 DEF UsersInv, TasksInv
  <2>4. CASE q.counter = provider.token_counter
    <3>1. worker' = Append(worker, t)
      BY <1>5, <2>4 DEF GetTokenCallback
    <3>2. /\ 1 \in DOMAIN main /\ Head(main) = main[1]
          /\ \A j \in DOMAIN main : ~ j < 1
      BY <1>1, <2>1, IndicesOfTail
    <3>3. q.user = provider.current_user
      BY <2>1, <2>4, <3>2 DEF AuthInv, TokensOfUser, NoteBefore
    <3>4. q.count \in Nat /\ q.user \in Users \cup {Nil}
      BY <1>1, <2>1, <3>2, QueueTypes
    <3>5. /\ t \in WriteTask \cup UserTask \cup ResumeTask
          /\ t.type = "resume" /\ (t.user # Nil => t.user = provider.current_user)
      BY <3>3, <3>4 DEF ResumeTask
    <3> HIDE DEF t, q
    <3>6. TasksInv'
      BY <1>1, <1>2, <2>1, <3>1, <3>5, TasksAppend DEF TasksInv
    <3> QED
      BY <2>2, <3>6 DEF UsersInv
  <2> QED
    BY <2>3, <2>4
<1> QED
  BY <1>3, <1>4, <1>5 DEF Main

\* The tasks of the worker queue.
LEMMA UsersTasks ==
    ASSUME PipelineInv, UsersInv, RunWriteMutations \/ HandleCredentialChange \/ ResumeStart
    PROVE  UsersInv'
<1>1. TypeOK /\ mutations \in [Users -> Seq(Batch)] /\ current_user \in Users
  BY DEF PipelineInv, TypeOK
<1>2. TasksInv /\ RowsInv
  BY DEF UsersInv
<1>3. /\ worker # <<>> /\ worker' = Tail(worker) /\ UNCHANGED <<provider, owner, issued>>
      /\ RunWriteMutations => Head(worker).type = "write"
      /\ HandleCredentialChange => Head(worker).type = "user"
      /\ ResumeStart => Head(worker).type = "resume"
  BY DEF RunWriteMutations, HandleCredentialChange, ResumeStart, authVars, historyVars
<1>4. current_user' = IF Head(worker).type = "user" THEN Head(worker).user ELSE current_user
  BY <1>3 DEF RunWriteMutations, HandleCredentialChange, ResumeStart, localVars
<1>5. /\ TasksInv'
      /\ Head(worker).type = "write" => owner[Head(worker).write] = current_user
      /\ Head(worker).type = "resume" /\ Head(worker).user # Nil
            => Head(worker).user = current_user
  BY <1>1, <1>2, <1>3, <1>4, TasksTail
<1>6. CASE RunWriteMutations
  <2> DEFINE b == [id |-> next_batch_id, write |-> Head(worker).write]
  <2>1. /\ b \in Batch /\ mutations' = [mutations EXCEPT ![current_user] = Append(@, b)]
        /\ remote'.peer = remote.peer /\ b.write = Head(worker).write
    BY <1>6, RunWriteMutationsStep
  <2>2. current_user' = current_user /\ owner[b.write] = current_user
    BY <1>3, <1>4, <1>5, <1>6, <2>1
  <2> HIDE DEF b
  <2>3. ASSUME NEW u \in Users, NEW i \in DOMAIN mutations'[u]
        PROVE  owner[mutations'[u][i].write] = u
    <3>1. CASE u # current_user
      BY <1>1, <1>2, <2>1, <2>3, <3>1 DEF RowsInv
    <3>2. CASE u = current_user
      <4> DEFINE rows == mutations[u]
      <4>1. rows \in Seq(Batch) /\ mutations'[u] = Append(rows, b)
        BY <1>1, <2>1, <3>2
      <4>2. /\ DOMAIN mutations'[u] = DOMAIN rows \cup {Len(rows) + 1}
            /\ \A j \in DOMAIN rows : mutations'[u][j] = rows[j]
            /\ mutations'[u][Len(rows) + 1] = b
        BY <2>1, <4>1, IndicesOfAppend
      <4> QED
        BY <1>2, <2>2, <2>3, <3>2, <4>2 DEF RowsInv
    <3> QED
      BY <3>1, <3>2
  <2>4. RowsInv'
    BY <1>2, <1>3, <2>1, <2>2, <2>3 DEF RowsInv
  <2> QED
    BY <1>5, <2>4 DEF UsersInv
<1>7. CASE HandleCredentialChange
  <2>1. remote'.peer = Nil /\ mutations' = mutations
    BY <1>7, HandleCredentialChangeStep DEF HandleCredentialChange
  <2>2. RowsInv'
    BY <1>2, <1>3, <2>1 DEF RowsInv
  <2> QED
    BY <1>5, <2>2 DEF UsersInv
<1>8. CASE ResumeStart
  <2>1. mutations' = mutations /\ current_user' = current_user
    BY <1>8 DEF ResumeStart, localVars
  <2>2. remote'.peer # Nil => remote'.peer = current_user
    <3>1. CASE remote' = remote
      BY <1>2, <3>1 DEF RowsInv
    <3>2. CASE remote' = OnWriteStreamBroken(remote)
      BY <3>2, BrokenStep
    <3>3. CASE Head(worker).user # Nil /\ remote' = [remote EXCEPT !.peer = Head(worker).user]
      <4>1. remote'.peer = Head(worker).user
        BY <3>3 DEF PipelineInv, Serves, Remote
      <4> QED
        BY <1>3, <1>5, <1>8, <3>3, <4>1
    <3> QED
      BY <1>8, <3>1, <3>2, <3>3 DEF ResumeStart, Network
  <2>3. RowsInv'
    BY <1>2, <1>3, <2>1, <2>2 DEF RowsInv
  <2> QED
    BY <1>5, <2>3 DEF UsersInv
<1> QED
  BY <1>6, <1>7, <1>8

\* Answers, streams and timers leave users alone.
LEMMA UsersStreams ==
    ASSUME PipelineInv, UsersInv,
           \/ StreamOpen \/ HandshakeComplete \/ BackoffTimer \/ StreamBreak \/ IdleTimer
           \/ ConnectivityChange \/ ServerCommit \/ MutationResult \/ WriteError
    PROVE  UsersInv'
<1>1. TypeOK /\ mutations \in [Users -> Seq(Batch)] /\ remote \in Remote
  BY DEF PipelineInv, TypeOK
<1>2. UNCHANGED <<provider, worker, owner, issued, current_user>>
  BY DEF StreamOpen, HandshakeComplete, BackoffTimer, StreamBreak, IdleTimer, authVars,
         ConnectivityChange, ServerCommit, MutationResult, WriteError, localVars, historyVars
<1>3. TasksInv'
  BY <1>2 DEF UsersInv, TasksInv
<1>4. remote'.peer \in {Nil, remote.peer}
  <2>1. CASE StreamOpen \/ HandshakeComplete \/ BackoffTimer
    BY <1>1, <2>1 DEF StreamOpen, HandshakeComplete, BackoffTimer, Network, Send, Remote
  <2>2. CASE StreamBreak
    BY <2>2, BrokenStep DEF StreamBreak, Network
  <2>3. CASE IdleTimer
    BY <2>3 DEF IdleTimer, Network, Closed, NoRPC
  <2>4. CASE ConnectivityChange \/ ServerCommit \/ MutationResult \/ WriteError
    BY <2>4, ConnectivityChangeStep, ServerCommitStep, AnswerStep
  <2> QED
    BY <2>1, <2>2, <2>3, <2>4
<1>5. ASSUME NEW u \in Users, NEW i \in DOMAIN mutations'[u]
      PROVE  owner[mutations'[u][i].write] = u
  <2>1. CASE mutations' = mutations
    BY <1>5, <2>1 DEF UsersInv, RowsInv
  <2>2. CASE MutationResult \/ WriteError
    <3> DEFINE rows == mutations[current_user]
    <3>1. /\ rows \in Seq(Batch) /\ rows # <<>>
          /\ mutations' = [mutations EXCEPT ![current_user] = Tail(@)]
      BY <2>2, AnswerStep
    <3>2. CASE u # current_user
      BY <1>1, <1>5, <3>1, <3>2 DEF UsersInv, RowsInv
    <3>3. CASE u = current_user
      <4>1. mutations'[u] = Tail(rows)
        BY <1>1, <3>1, <3>3
      <4>2. \A j \in DOMAIN Tail(rows) : j + 1 \in DOMAIN rows /\ Tail(rows)[j] = rows[j + 1]
        BY <3>1, IndicesOfTail
      <4> QED
        BY <1>5, <3>3, <4>1, <4>2 DEF UsersInv, RowsInv
    <3> QED
      BY <3>2, <3>3
  <2> QED
    BY <2>1, <2>2 DEF StreamOpen, HandshakeComplete, BackoffTimer, StreamBreak, IdleTimer,
                      ConnectivityChange, ServerCommit, localVars
<1>6. RowsInv'
  BY <1>2, <1>4, <1>5 DEF UsersInv, RowsInv
<1> QED
  BY <1>3, <1>6 DEF UsersInv

\* Every step preserves the invariant on users.
LEMMA UsersStep ==
    ASSUME PipelineInv, AuthInv, UsersInv, [Next]_vars
    PROVE  UsersInv'
<1>1. CASE WriteMutations \/ Main
  BY <1>1, UsersOutside
<1>2. CASE RunWriteMutations \/ HandleCredentialChange \/ ResumeStart
  BY <1>2, UsersTasks
<1>3. CASE StreamOpen \/ HandshakeComplete \/ BackoffTimer \/ StreamBreak \/ IdleTimer
           \/ ConnectivityChange \/ ServerCommit \/ MutationResult \/ WriteError
  BY <1>3, UsersStreams
<1>4. CASE Auth \/ (\E u \in Users : UpdateCurrentUser(u)) \/ (\E q \in tokens : TokenFailed(q))
           \/ UNCHANGED vars
  <2>1. UNCHANGED <<provider, worker, owner, issued, current_user, mutations, remote>>
    BY <1>4 DEF Auth, GetTokenForcingRefresh, TokenFetched, TokenFailed, PostToken,
                UpdateCurrentUser, vars, authVars, localVars, historyVars
  <2> QED
    BY <2>1 DEF UsersInv, TasksInv, RowsInv
<1>5. CASE Restart
  <2>1. remote'.peer = Nil
    BY <1>5, RestartStep
  <2>2. /\ worker' = <<>> /\ DOMAIN worker' = {} /\ provider'.current_user = authUser
        /\ current_user' = authUser /\ UNCHANGED <<mutations, owner, issued>>
    BY <1>5 DEF Restart, historyVars
  <2>3. TasksInv'
    BY <2>2 DEF UsersInv, TasksInv, InEffect
  <2>4. RowsInv'
    BY <2>1, <2>2 DEF UsersInv, RowsInv
  <2> QED
    BY <2>3, <2>4 DEF UsersInv
<1> QED
  BY <1>1, <1>2, <1>3, <1>4, <1>5 DEF Next, Worker

\* The invariant on users holds in every reachable state.
THEOREM UsersInvariant == Spec => []UsersInv
<1>1. Init => UsersInv
  <2> SUFFICES ASSUME Init PROVE UsersInv
    OBVIOUS
  <2>1. /\ worker = <<>> /\ DOMAIN worker = {} /\ provider.current_user = current_user
        /\ owner = [w \in Writes |-> Nil] /\ remote.peer = Nil
        /\ mutations = [u \in Users |-> <<>>]
    BY DEF Init, NoRPC
  <2>2. TasksInv
    BY <2>1 DEF TasksInv, InEffect
  <2>3. RowsInv
    BY <2>1 DEF RowsInv
  <2> QED
    BY <2>2, <2>3 DEF UsersInv
<1>2. PipelineInv /\ AuthInv /\ UsersInv /\ [Next]_vars => UsersInv'
  BY UsersStep
<1> QED
  BY <1>1, <1>2, PipelineInvariant, AuthInvariant, PTL DEF Spec

\* However a sign-out or a change of account interleaves with writes, token
\* requests and streams: no write is sent with another user's credentials or
\* put in another user's queue.
THEOREM CredentialsCorrect == Spec => []OwnCredentials
<1>1. PipelineInv /\ UsersInv => OwnCredentials
  BY UsersInvMeaning
<1> QED
  BY <1>1, PipelineInvariant, UsersInvariant, PTL
=============================================================================
