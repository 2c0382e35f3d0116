----------------------- MODULE NatsRecordBufferProofs -----------------------
(***************************************************************************)
(* For every limit and every record size: the counters of NatsRecordBuffer *)
(* add up, which is why close() cannot throw and leaves nothing behind, no *)
(* record is stranded, flush() always makes progress, and queuedBytes is   *)
(* what the queue holds, within the limit.                                 *)
(***************************************************************************)
EXTENDS NatsRecordBuffer, SequenceTheorems, WellFoundedInduction, TLAPS

\* What a suffix of the queue is, element by element.
LEMMA DropTyped ==
    ASSUME NEW S, NEW entries \in Seq(S), NEW k \in 0 .. Len(entries)
    PROVE  /\ Drop(entries, k) \in Seq(S)
           /\ Len(Drop(entries, k)) = Len(entries) - k
           /\ \A i \in 1 .. Len(entries) - k : Drop(entries, k)[i] = entries[i + k]
  BY DEF Drop

---------------------------------------------------------------------------
(* What a sum of bytes is. The induction theorems of the library speak of  *)
(* a predicate; a set of naturals needs only that < is well-founded.       *)

\* A set of naturals has a least member.
LEMMA LeastOf ==
    ASSUME NEW T \in SUBSET Nat, T # {}
    PROVE  \E x \in T : \A y \in T : ~(y < x)
<1> DEFINE R == {pair \in Nat \X Nat : pair[1] < pair[2]}
<1>1. IsWellFoundedOn(R, Nat)
  BY NatLessThanWellFounded DEF OpToRel
<1>2. \E x \in T : \A y \in T : ~(<<y, x>> \in R)
  <2>. HIDE DEF R
  <2>. QED
    BY <1>1, WFMin
<1>. QED
  BY <1>2

\* Induction over the members of a set.
LEMMA SetInduction ==
    ASSUME NEW S, 0 \in S, \A n \in Nat : n \in S => n + 1 \in S
    PROVE  Nat \subseteq S
<1> DEFINE T == Nat \ S
<1>1. ASSUME T # {} PROVE FALSE
  <2>1. PICK x \in T : \A y \in T : ~(y < x)
    <3>1. T \in SUBSET Nat
      OBVIOUS
    <3>. HIDE DEF T
    <3>. QED
      BY <1>1, <3>1, LeastOf
  <2>2. x # 0 /\ x - 1 \in Nat
    BY <2>1
  <2>. QED
    BY <2>1, <2>2
<1>. QED
  BY <1>1

\* The sums of the first records, the first n of them.
AreSums(sums, entries, n) ==
    sums = [i \in 0 .. n |-> IF i = 0 THEN 0 ELSE sums[i - 1] + entries[i]]

\* A recursive definition names a function only if there is one.
LEMMA SumsExist ==
    ASSUME NEW entries \in Seq(Nat), NEW m \in Nat, m <= Len(entries)
    PROVE  \E sums \in [0 .. m -> Nat] : AreSums(sums, entries, m)
<1> DEFINE S == {n \in Nat : n <= Len(entries) => \E sums \in [0 .. n -> Nat] : AreSums(sums, entries, n)}
<1>1. 0 \in S
  <2>1. AreSums([i \in 0 .. 0 |-> 0], entries, 0)
    BY DEF AreSums
  <2>. QED
    BY <2>1
<1>2. ASSUME NEW n \in Nat, n \in S PROVE n + 1 \in S
  <2>1. SUFFICES ASSUME n + 1 <= Len(entries)
                 PROVE  \E sums \in [0 .. n + 1 -> Nat] : AreSums(sums, entries, n + 1)
    OBVIOUS
  <2>2. PICK sums \in [0 .. n -> Nat] : AreSums(sums, entries, n)
    BY <1>2, <2>1
  <2> DEFINE more == [i \in 0 .. n + 1 |-> IF i = n + 1 THEN sums[n] + entries[n + 1] ELSE sums[i]]
  <2>3. more \in [0 .. n + 1 -> Nat]
    BY <2>1
  <2>4. \A i \in 0 .. n + 1 :
           more[i] = IF i = 0 THEN 0 ELSE more[i - 1] + entries[i]
    BY <2>2 DEF AreSums
  <2>5. AreSums(more, entries, n + 1)
    BY <2>4 DEF AreSums
  <2>. QED
    BY <2>3, <2>5
<1>3. m \in S
  <2>. HIDE DEF S
  <2>. QED
    BY <1>1, <1>2, SetInduction
<1>. QED
  BY <1>3

\* There is no other function with these sums.
LEMMA SumsAreUnique ==
    ASSUME NEW entries, NEW m \in Nat, NEW f, NEW g, AreSums(f, entries, m), AreSums(g, entries, m)
    PROVE  f = g
<1> DEFINE S == {i \in Nat : i <= m => f[i] = g[i]}
<1>1. 0 \in S
  BY DEF AreSums
<1>2. ASSUME NEW i \in Nat, i \in S PROVE i + 1 \in S
  <2>1. SUFFICES ASSUME i + 1 <= m PROVE f[i + 1] = g[i + 1]
    OBVIOUS
  <2>2. f[i + 1] = f[i] + entries[i + 1] /\ g[i + 1] = g[i] + entries[i + 1]
    BY <2>1 DEF AreSums
  <2>. QED
    BY <1>2, <2>1, <2>2
<1>3. \A i \in 0 .. m : f[i] = g[i]
  <2>1. Nat \subseteq S
    <3>. HIDE DEF S
    <3>. QED
      BY <1>1, <1>2, SetInduction
  <2>. QED
    BY <2>1
<1>4. f = [i \in 0 .. m |-> f[i]] /\ g = [i \in 0 .. m |-> g[i]]
  BY DEF AreSums
<1>. QED
  BY <1>3, <1>4

\* Bytes is the last of the sums.
LEMMA BytesAreSums ==
    ASSUME NEW entries \in Seq(Nat)
    PROVE  \E sums \in [0 .. Len(entries) -> Nat] :
              AreSums(sums, entries, Len(entries)) /\ Bytes(entries) = sums[Len(entries)]
<1>1. PICK some \in [0 .. Len(entries) -> Nat] : AreSums(some, entries, Len(entries))
  BY SumsExist
<1> DEFINE Of == CHOOSE sums : AreSums(sums, entries, Len(entries))
<1>2. AreSums(Of, entries, Len(entries))
  BY <1>1
<1>3. Bytes(entries) = Of[Len(entries)]
  BY DEF Bytes, AreSums
<1>4. Of = some
  <2>. HIDE DEF Of
  <2>. QED
    BY <1>1, <1>2, SumsAreUnique
<1>. QED
  BY <1>1, <1>3, <1>4

\* A queue is its k oldest records and the n others.
Joins(s, m, old, k, rest, n) ==
    /\ m \in Nat /\ k \in Nat /\ n \in Nat /\ m = k + n
    /\ \A i \in 1 .. m : s[i] \in Nat
    /\ \A i \in 1 .. k : old[i] = s[i]
    /\ \A i \in 1 .. n : rest[i] = s[k + i]

\* Sums of naturals
AreNatSums(sums, entries, n) == sums \in [0 .. n -> Nat] /\ AreSums(sums, entries, n)

\* The sum of a queue is that of both of its parts, whatever sums they have.
LEMMA SumsSplit ==
    ASSUME NEW s, NEW old, NEW rest, NEW m, NEW k, NEW n, Joins(s, m, old, k, rest, n),
           NEW f, NEW g, NEW h, AreNatSums(f, s, m), AreNatSums(g, old, k), AreNatSums(h, rest, n)
    PROVE  f[m] = g[k] + h[n]
<1>0. m \in Nat /\ k \in Nat /\ n \in Nat /\ m = k + n
  BY DEF Joins
<1>1. f[k] = g[k]
  <2> DEFINE S == {i \in Nat : i <= k => f[i] = g[i]}
  <2>1. 0 \in S
    BY <1>0 DEF AreNatSums, AreSums
  <2>2. ASSUME NEW i \in Nat, i \in S PROVE i + 1 \in S
    <3>1. SUFFICES ASSUME i + 1 <= k PROVE f[i + 1] = g[i + 1]
      OBVIOUS
    <3>2. f[i + 1] = f[i] + s[i + 1]
      BY <1>0, <3>1 DEF AreNatSums, AreSums
    <3>3. g[i + 1] = g[i] + old[i + 1]
      BY <1>0, <3>1 DEF AreNatSums, AreSums
    <3>. QED
      BY <1>0, <2>2, <3>1, <3>2, <3>3 DEF Joins, AreNatSums
  <2>3. k \in S
    <3>. HIDE DEF S
    <3>. QED
      BY <1>0, <2>1, <2>2, SetInduction
  <2>. QED
    BY <1>0, <2>3
<1>2. f[k + n] = f[k] + h[n]
  <2> DEFINE S == {i \in Nat : i <= n => f[k + i] = f[k] + h[i]}
  <2>1. 0 \in S
    BY <1>0 DEF AreNatSums, AreSums
  <2>2. ASSUME NEW i \in Nat, i \in S PROVE i + 1 \in S
    <3>1. SUFFICES ASSUME i + 1 <= n PROVE f[k + (i + 1)] = f[k] + h[i + 1]
      OBVIOUS
    <3>2. f[k + (i + 1)] = f[k + i] + s[k + (i + 1)]
      BY <1>0, <3>1 DEF AreNatSums, AreSums
    <3>3. h[i + 1] = h[i] + s[k + (i + 1)]
      BY <1>0, <3>1, SMTT(20) DEF AreNatSums, AreSums, Joins
    <3>4. s[k + (i + 1)] \in Nat /\ h[i] \in Nat /\ f[k] \in Nat
      BY <1>0, <3>1 DEF Joins, AreNatSums
    <3>5. f[k + i] = f[k] + h[i]
      BY <1>0, <2>2, <3>1
    <3>. QED
      BY <3>2, <3>3, <3>4, <3>5
  <2>3. n \in S
    <3>. HIDE DEF S
    <3>. QED
      BY <1>0, <2>1, <2>2, SetInduction
  <2>. QED
    BY <1>0, <2>3
<1>. QED
  BY <1>0, <1>1, <1>2

\* The bytes of a queue are those of its oldest records and of the others.
LEMMA BytesSplit ==
    ASSUME NEW s \in Seq(Nat), NEW k \in 0 .. Len(s)
    PROVE  /\ Bytes(s) = Bytes(SubSeq(s, 1, k)) + Bytes(Drop(s, k))
           /\ {Bytes(s), Bytes(SubSeq(s, 1, k)), Bytes(Drop(s, k))} \subseteq Nat
<1>1. PICK m \in Nat : Len(s) = m
  OBVIOUS
<1>2. k \in Nat /\ m - k \in Nat /\ \A i \in 1 .. m : s[i] \in Nat
  BY <1>1
<1>3. PICK n \in Nat : n = m - k
  BY <1>2
<1>4. PICK old : old = SubSeq(s, 1, k)
  OBVIOUS
<1>5. PICK rest : rest = Drop(s, k)
  OBVIOUS
<1>6. old \in Seq(Nat) /\ Len(old) = k /\ \A i \in 1 .. k : old[i] = s[i]
  BY <1>4
<1>7. rest \in Seq(Nat) /\ Len(rest) = n /\ \A i \in 1 .. n : rest[i] = s[i + k]
  BY <1>1, <1>2, <1>3, <1>5, DropTyped
<1>8. m = k + n
  BY <1>2, <1>3
<1>9. Joins(s, m, old, k, rest, n)
  <2>1. \A i \in 1 .. n : i + k = k + i
    BY <1>2, <1>3
  <2>. QED
    BY <1>1, <1>2, <1>3, <1>6, <1>7, <1>8, <2>1 DEF Joins
<1>10. PICK f : AreNatSums(f, s, m) /\ Bytes(s) = f[m]
  BY <1>1, BytesAreSums DEF AreNatSums
<1>11. PICK g : AreNatSums(g, old, k) /\ Bytes(old) = g[k]
  BY <1>6, BytesAreSums DEF AreNatSums
<1>12. PICK h : AreNatSums(h, rest, n) /\ Bytes(rest) = h[n]
  BY <1>7, BytesAreSums DEF AreNatSums
<1>13. f[m] = g[k] + h[n]
  BY <1>9, <1>10, <1>11, <1>12, SumsSplit
<1>14. f[m] \in Nat /\ g[k] \in Nat /\ h[n] \in Nat
  BY <1>1, <1>2, <1>3, <1>10, <1>11, <1>12 DEF AreNatSums
<1>. QED
  BY <1>4, <1>5, <1>10, <1>11, <1>12, <1>13, <1>14

\* What the bytes of no record and of one record are.
LEMMA BytesOfFew ==
    /\ Bytes(<<>>) = 0
    /\ \A entry \in Nat : Bytes(<<entry>>) = entry
<1>1. Bytes(<<>>) = 0
  <2>1. <<>> \in Seq(Nat) /\ Len(<<>>) = 0
    OBVIOUS
  <2>2. PICK f \in [0 .. 0 -> Nat] : AreSums(f, <<>>, 0) /\ Bytes(<<>>) = f[0]
    BY <2>1, BytesAreSums
  <2>. QED
    BY <2>2 DEF AreSums
<1>2. ASSUME NEW entry \in Nat PROVE Bytes(<<entry>>) = entry
  <2>1. <<entry>> \in Seq(Nat) /\ Len(<<entry>>) = 1 /\ <<entry>>[1] = entry
    OBVIOUS
  <2>2. PICK f \in [0 .. 1 -> Nat] : AreSums(f, <<entry>>, 1) /\ Bytes(<<entry>>) = f[1]
    BY <2>1, BytesAreSums
  <2>3. f[1] = f[0] + <<entry>>[1] /\ f[0] = 0
    BY <2>2 DEF AreSums
  <2>. QED
    BY <2>1, <2>2, <2>3
<1>. QED
  BY <1>1, <1>2

\* A receipt adds its bytes.
LEMMA BytesAppend ==
    ASSUME NEW s \in Seq(Nat), NEW entry \in Nat
    PROVE  Bytes(Append(s, entry)) = Bytes(s) + entry
<1> DEFINE t == Append(s, entry)
<1>1. t \in Seq(Nat) /\ Len(t) = Len(s) + 1 /\ Len(s) \in 0 .. Len(t)
  OBVIOUS
<1>2. SubSeq(t, 1, Len(s)) = s
  BY <1>1, SubSeqProperties
<1>3. Drop(t, Len(s)) = <<entry>>
  <2>1. Drop(t, Len(s)) \in Seq(Nat) /\ Len(Drop(t, Len(s))) = 1 /\ Drop(t, Len(s))[1] = entry
    <3>1. /\ Drop(t, Len(s)) \in Seq(Nat) /\ Len(Drop(t, Len(s))) = Len(t) - Len(s)
          /\ \A i \in 1 .. Len(t) - Len(s) : Drop(t, Len(s))[i] = t[i + Len(s)]
      <4>. HIDE DEF t
      <4>. QED
        BY <1>1, DropTyped
    <3>2. t[1 + Len(s)] = entry
      OBVIOUS
    <3>. HIDE DEF t
    <3>. QED
      BY <1>1, <3>1, <3>2
  <2>. HIDE DEF t
  <2>. QED
    BY <2>1
<1>4. Bytes(t) = Bytes(SubSeq(t, 1, Len(s))) + Bytes(Drop(t, Len(s)))
  BY <1>1, BytesSplit
<1>. QED
  BY <1>2, <1>3, <1>4, BytesOfFew

---------------------------------------------------------------------------
\* The invariant: Conserved is what bounds omitted and published, and so what
\* keeps close() from overflowing; the queue is empty once it is closed.
Inv ==
    /\ TypeOK
    /\ Conserved
    /\ closed => pending = <<>> /\ queuedBytes = 0 /\ ~timer /\ ~flushing
    /\ EveryRecordFitsABatch
    /\ NothingStranded
    /\ Len(pending) <= QueuedRecords

LEMMA LimitsAreNumbers ==
    /\ QueuedRecords \in Nat /\ QueuedRecords > 0 /\ BatchBytes \in Nat
    /\ EnvelopeBytes \in Nat /\ MaxCounter \in Nat
    /\ Sizes \subseteq Nat
  BY LimitsAssumption

LEMMA InitInv == Init => Inv
<1> SUFFICES ASSUME Init PROVE Inv
  OBVIOUS
<1>1. pending \in Seq(Sizes) /\ Len(pending) = 0
  BY DEF Init
<1>2. TypeOK
  <2>1. 0 \in 0 .. MaxCounter
    BY LimitsAreNumbers
  <2>. QED
    BY <1>1, <2>1 DEF Init, TypeOK
<1>3. Conserved /\ NothingStranded /\ ~closed
  BY <1>1 DEF Init, Conserved, NothingStranded
<1>4. EveryRecordFitsABatch /\ Len(pending) <= QueuedRecords
  BY <1>1, LimitsAreNumbers DEF EveryRecordFitsABatch
<1>. QED
  BY <1>2, <1>3, <1>4 DEF Inv

\* The counters that Conserved bounds leave close() nothing to overflow.
LEMMA CloseNeverThrows == Inv => ~Overflows(omitted, Len(pending))
  BY LimitsAreNumbers DEF Inv, TypeOK, Conserved, Overflows

LEMMA CloseKeepsInv == Inv /\ CloseBuffer => Inv'
<1> SUFFICES ASSUME Inv, CloseBuffer PROVE Inv'
  OBVIOUS
<1>1. Len(pending) \in Nat /\ received \in Nat /\ omitted \in Nat /\ published \in Nat
  BY LimitsAreNumbers DEF Inv, TypeOK
<1>2. /\ closed' = TRUE /\ timer' = FALSE /\ flushing' = FALSE
      /\ omitted' = omitted + Len(pending) /\ pending' = <<>> /\ queuedBytes' = 0
      /\ UNCHANGED <<received, published, presenting>>
  BY CloseNeverThrows DEF CloseBuffer, Close
<1>3. Len(pending') = 0 /\ pending' \in Seq(Sizes)
  BY <1>2
<1>4. Conserved'
  BY <1>1, <1>2, <1>3 DEF Inv, Conserved
<1>5. TypeOK'
  <2>1. omitted' \in 0 .. MaxCounter
    BY <1>1, <1>2, LimitsAreNumbers DEF Inv, TypeOK, Conserved
  <2>. QED
    BY <1>2, <1>3, <2>1 DEF Inv, TypeOK
<1>6. EveryRecordFitsABatch' /\ NothingStranded' /\ Len(pending') <= QueuedRecords
  BY <1>2, <1>3, LimitsAreNumbers DEF EveryRecordFitsABatch, NothingStranded
<1>. QED
  BY <1>2, <1>4, <1>5, <1>6 DEF Inv

\* A receipt moves received and omitted together, and arms the timer.
LEMMA OmissionKeepsInv == Inv /\ AcceptOmission => Inv'
<1> SUFFICES ASSUME Inv, AcceptOmission PROVE Inv'
  OBVIOUS
<1>1. Len(pending) \in Nat /\ received \in Nat /\ omitted \in Nat /\ published \in Nat
  BY LimitsAreNumbers DEF Inv, TypeOK
<1>2. /\ ~closed /\ received + 1 <= MaxCounter
      /\ received' = received + 1 /\ omitted' = omitted + 1
      /\ UNCHANGED <<pending, queuedBytes, published, presenting, flushing, closed>>
  BY <1>1, LimitsAreNumbers DEF AcceptOmission, Overflows
<1>3. Conserved'
  BY <1>1, <1>2 DEF Inv, Conserved
<1>4. TypeOK'
  <2>1. received' \in 0 .. MaxCounter /\ omitted' \in 0 .. MaxCounter
    BY <1>1, <1>2, LimitsAreNumbers DEF Inv, Conserved
  <2>2. timer' \in BOOLEAN
    BY DEF AcceptOmission, Inv, TypeOK
  <2>. QED
    BY <1>2, <2>1, <2>2 DEF Inv, TypeOK
<1>5. EveryRecordFitsABatch' /\ Len(pending') <= QueuedRecords
  BY <1>2 DEF Inv, EveryRecordFitsABatch
<1>6. NothingStranded'
  BY DEF AcceptOmission, NothingStranded, Inv, TypeOK
<1>. QED
  BY <1>2, <1>3, <1>4, <1>5, <1>6 DEF Inv

LEMMA RecordKeepsInv ==
    ASSUME Inv, NEW bytes \in Sizes, AcceptRecord(bytes)
    PROVE  Inv'
<1>1. PICK k \in 0 .. Len(pending) :
         /\ IsEviction(k, bytes)
         /\ pending' = Append(Drop(pending, k), bytes)
         /\ omitted' = omitted + k
  BY DEF AcceptRecord
<1>2. pending \in Seq(Sizes) /\ Len(pending) \in Nat
  BY DEF Inv, TypeOK
<1>3. /\ Drop(pending, k) \in Seq(Sizes)
      /\ Len(Drop(pending, k)) = Len(pending) - k
      /\ \A i \in 1 .. Len(pending) - k : Drop(pending, k)[i] = pending[i + k]
  BY <1>2, DropTyped
<1>4. /\ pending' \in Seq(Sizes)
      /\ Len(pending') = Len(pending) - k + 1
      /\ \A i \in 1 .. Len(pending) - k : pending'[i] = pending[i + k]
      /\ pending'[Len(pending) - k + 1] = bytes
  BY <1>1, <1>2, <1>3
<1>5. TypeOK' /\ Conserved'
  <2>1. received' = received + 1 /\ received + 1 <= MaxCounter /\ UNCHANGED published
    BY LimitsAreNumbers DEF AcceptRecord, Overflows, Inv, TypeOK
  <2>2. Conserved'
    BY <1>1, <1>2, <1>4, <2>1 DEF Inv, TypeOK, Conserved
  <2>3. omitted' \in 0 .. MaxCounter
    <3>1. omitted' = omitted + k /\ omitted \in Nat /\ k \in Nat /\ published \in Nat
      BY <1>1, <1>2, LimitsAreNumbers DEF Inv, TypeOK
    <3>2. received' = omitted' + published + Len(pending') /\ received' <= MaxCounter
      BY <2>1, <2>2 DEF Conserved
    <3>3. Len(pending') \in Nat /\ received' \in Nat
      BY <1>2, <1>4, <2>1, LimitsAreNumbers DEF Inv, TypeOK
    <3>. QED
      BY <3>1, <3>2, <3>3, LimitsAreNumbers
  <2>4. /\ presenting' \in BOOLEAN /\ timer' \in BOOLEAN
        /\ flushing' \in BOOLEAN /\ closed' \in BOOLEAN
    BY DEF Inv, TypeOK, AcceptRecord
  <2>. QED
    BY <1>4, <2>1, <2>2, <2>3, <2>4, LimitsAreNumbers DEF Inv, TypeOK
<1>6. EveryRecordFitsABatch'
  <2>1. bytes + EnvelopeBytes <= BatchBytes
    BY DEF AcceptRecord, IsRetainable
  <2>. QED
    BY <1>2, <1>4, <2>1, SMTT(20) DEF Inv, EveryRecordFitsABatch
<1>7. Len(pending') <= QueuedRecords
  <2>1. Len(pending) - k < QueuedRecords \/ k = Len(pending)
    BY <1>1 DEF IsEviction, HasRoomWithout
  <2>. QED
    BY <1>2, <1>4, <2>1, LimitsAreNumbers
<1>8. NothingStranded' /\ ~closed'
  BY DEF AcceptRecord, NothingStranded, Inv, TypeOK
<1>. QED
  BY <1>5, <1>6, <1>7, <1>8 DEF Inv

LEMMA PublishKeepsInv == Inv /\ PublishBatch => Inv'
<1> SUFFICES ASSUME Inv, PublishBatch PROVE Inv'
  OBVIOUS
<1>1. PICK count \in 0 .. Len(pending) :
         pending' = Drop(pending, count) /\ published' = published + count
  BY DEF PublishBatch
<1>2. pending \in Seq(Sizes) /\ Len(pending) \in Nat
  BY DEF Inv, TypeOK
<1>3. /\ pending' \in Seq(Sizes)
      /\ Len(pending') = Len(pending) - count
      /\ \A i \in 1 .. Len(pending) - count : pending'[i] = pending[i + count]
  BY <1>1, <1>2, DropTyped
<1>4. UNCHANGED <<received, omitted, presenting, closed>> /\ ~closed /\ ~timer'
  BY DEF PublishBatch
<1>5. Conserved'
  BY <1>1, <1>2, <1>3, <1>4 DEF Inv, TypeOK, Conserved
<1>6. TypeOK'
  <2>1. published' \in 0 .. MaxCounter
    BY <1>1, <1>2, <1>3, <1>4, <1>5, LimitsAreNumbers DEF Inv, TypeOK, Conserved
  <2>2. timer' \in BOOLEAN /\ flushing' \in BOOLEAN
    BY DEF PublishBatch
  <2>. QED
    BY <1>3, <1>4, <2>1, <2>2 DEF Inv, TypeOK
<1>7. EveryRecordFitsABatch'
  BY <1>2, <1>3 DEF Inv, EveryRecordFitsABatch
<1>8. NothingStranded'
  BY DEF PublishBatch, NothingStranded
<1>. QED
  BY <1>1, <1>2, <1>3, <1>4, <1>5, <1>6, <1>7, <1>8, LimitsAreNumbers DEF Inv

LEMMA NextKeepsInv == Inv /\ [Next]_vars => Inv'
<1> SUFFICES ASSUME Inv, [Next]_vars PROVE Inv'
  OBVIOUS
<1>1. CASE AcceptOmission \/ \E bytes \in Sizes : AcceptUnretainable(bytes)
  BY <1>1, OmissionKeepsInv DEF AcceptUnretainable
<1>2. CASE \E bytes \in Sizes : AcceptRecord(bytes)
  BY <1>2, RecordKeepsInv
<1>3. CASE AcceptOverflows \/ CloseBuffer
  BY <1>3, CloseKeepsInv DEF AcceptOverflows
<1>4. CASE StartPublishing
  <2>1. /\ ~closed /\ presenting' = TRUE /\ timer' = (timer \/ received > 0)
        /\ UNCHANGED <<pending, queuedBytes, received, omitted, published, flushing, closed>>
    BY <1>4 DEF StartPublishing
  <2>2. timer' \in BOOLEAN
    BY <2>1
  <2>3. received = 0 => pending = <<>>
    BY LimitsAreNumbers DEF Inv, TypeOK, Conserved
  <2>4. NothingStranded'
    <3>1. received = 0 \/ received > 0
      BY LimitsAreNumbers DEF Inv, TypeOK
    <3>. QED
      BY <2>1, <2>3, <3>1 DEF NothingStranded
  <2>5. TypeOK' /\ Conserved' /\ EveryRecordFitsABatch' /\ Len(pending') <= QueuedRecords
    BY <2>1, <2>2 DEF Inv, TypeOK, Conserved, EveryRecordFitsABatch
  <2>. QED
    BY <2>1, <2>4, <2>5 DEF Inv
<1>5. CASE PublishBatch
  BY <1>5, PublishKeepsInv
<1>6. CASE UNCHANGED vars
  BY <1>6 DEF vars, Inv, TypeOK, Conserved, EveryRecordFitsABatch, NothingStranded
<1>. QED
  BY <1>1, <1>2, <1>3, <1>4, <1>5, <1>6 DEF Next

LEMMA BufferInvariant == Spec => []Inv
  BY InitInv, NextKeepsInv, PTL DEF Spec

\* received = omitted + published + queued, for every limit and record size.
THEOREM CountersAddUp == Spec => [](TypeOK /\ Conserved)
  BY BufferInvariant, PTL DEF Inv

\* close() never throws on its way: a closed buffer is empty, and no flush of
\* it is due.
THEOREM CloseLeavesNothing == Spec => []ClosedIsEmpty
<1>1. Inv => ClosedIsEmpty
  BY DEF Inv, ClosedIsEmpty
<1>. QED
  BY <1>1, BufferInvariant, PTL

\* Both: the counters that the workspace shows account for every record, also
\* after a close at any point.
THEOREM RecordsKeepAddingUp == Spec => []RecordsAddUp
<1>1. Inv => RecordsAddUp
  BY DEF Inv, ClosedIsEmpty, RecordsAddUp
<1>. QED
  BY <1>1, BufferInvariant, PTL

\* Every queued record fits a batch alone, and none waits without a flush that
\* is due or under way.
THEOREM FlushProgresses == Spec => []FlushProgress
<1>1. Inv => FlushProgress
  BY DEF Inv, FlushProgress
<1>. QED
  BY <1>1, BufferInvariant, PTL

---------------------------------------------------------------------------
(* The bytes of the queue.                                                 *)

\* Sizes are numbers.
LEMMA PendingIsOfNumbers == TypeOK => pending \in Seq(Nat)
<1>1. Sizes \subseteq Nat
  BY LimitsAssumption
<1>2. ASSUME NEW s \in Seq(Sizes) PROVE s \in Seq(Nat)
  <2>1. Len(s) \in Nat /\ s = [i \in 1 .. Len(s) |-> s[i]] /\ \A i \in 1 .. Len(s) : s[i] \in Sizes
    OBVIOUS
  <2>2. \A i \in 1 .. Len(s) : s[i] \in Nat
    BY <1>1, <2>1
  <2>. QED
    BY <2>1, <2>2
<1>. QED
  BY <1>2 DEF TypeOK

\* The queue is empty at first.
LEMMA InitBounded == Init => QueueIsBounded
  BY LimitsAssumption, BytesOfFew DEF Init, QueueIsBounded

\* A record is queued without the oldest ones, as many as leave it room: all
\* of them leave it room.
LEMMA RecordKeepsBounded ==
    ASSUME Inv, QueueIsBounded, NEW bytes \in Sizes, AcceptRecord(bytes), Inv'
    PROVE  QueueIsBounded'
<1>1. PICK k \in 0 .. Len(pending) :
         /\ HasRoomWithout(k, bytes) \/ k = Len(pending)
         /\ pending' = Append(Drop(pending, k), bytes)
         /\ queuedBytes' = queuedBytes - Bytes(SubSeq(pending, 1, k)) + bytes
  BY DEF AcceptRecord, IsEviction
<1>2. pending \in Seq(Nat) /\ bytes \in Nat /\ bytes <= QueuedBytes /\ QueuedBytes \in Nat
  BY LimitsAssumption, PendingIsOfNumbers DEF Inv, AcceptRecord, IsRetainable
<1>3. /\ Bytes(pending) = Bytes(SubSeq(pending, 1, k)) + Bytes(Drop(pending, k))
      /\ {Bytes(pending), Bytes(SubSeq(pending, 1, k)), Bytes(Drop(pending, k))} \subseteq Nat
  BY <1>2, BytesSplit
<1>4. Drop(pending, k) \in Seq(Nat)
  BY <1>2, DropTyped
<1>5. Bytes(pending') = Bytes(Drop(pending, k)) + bytes
  BY <1>1, <1>2, <1>4, BytesAppend
<1>6. queuedBytes = Bytes(pending)
  BY DEF QueueIsBounded
<1>7. queuedBytes' = Bytes(pending')
  BY <1>1, <1>2, <1>3, <1>5, <1>6
<1>8. queuedBytes' <= QueuedBytes
  <2>1. CASE HasRoomWithout(k, bytes)
    BY <1>1, <2>1 DEF HasRoomWithout
  <2>2. CASE k = Len(pending)
    <3>1. Drop(pending, k) = <<>>
      BY <1>2, <2>2 DEF Drop
    <3>. QED
      BY <1>2, <1>5, <1>7, <3>1, BytesOfFew
  <2>. QED
    BY <1>1, <2>1, <2>2
<1>. QED
  BY <1>7, <1>8 DEF QueueIsBounded, Inv

\* A batch takes its bytes along.
LEMMA PublishKeepsBounded ==
    ASSUME Inv, QueueIsBounded, PublishBatch, Inv'
    PROVE  QueueIsBounded'
<1>1. PICK count \in 0 .. Len(pending) :
         /\ pending' = Drop(pending, count)
         /\ queuedBytes' = queuedBytes - Bytes(SubSeq(pending, 1, count))
  BY DEF PublishBatch
<1>2. pending \in Seq(Nat) /\ QueuedBytes \in Nat
  BY LimitsAssumption, PendingIsOfNumbers DEF Inv
<1>3. /\ Bytes(pending) = Bytes(SubSeq(pending, 1, count)) + Bytes(Drop(pending, count))
      /\ {Bytes(pending), Bytes(SubSeq(pending, 1, count)), Bytes(Drop(pending, count))} \subseteq Nat
  BY <1>2, BytesSplit
<1>. QED
  BY <1>1, <1>2, <1>3 DEF QueueIsBounded, Inv

\* A close empties the queue; nothing else changes it.
LEMMA NextKeepsBounded == Inv /\ QueueIsBounded /\ [Next]_vars /\ Inv' => QueueIsBounded'
<1> SUFFICES ASSUME Inv, QueueIsBounded, [Next]_vars, Inv' PROVE QueueIsBounded'
  OBVIOUS
<1>1. CASE \E bytes \in Sizes : AcceptRecord(bytes)
  BY <1>1, RecordKeepsBounded
<1>2. CASE PublishBatch
  BY <1>2, PublishKeepsBounded
<1>3. CASE AcceptOverflows \/ CloseBuffer
  <2>1. pending' = <<>> /\ queuedBytes' = 0
    BY <1>3, CloseNeverThrows DEF AcceptOverflows, CloseBuffer, Close
  <2>. QED
    BY <2>1, BytesOfFew, LimitsAssumption DEF QueueIsBounded
<1>4. CASE AcceptOmission \/ StartPublishing \/ (\E bytes \in Sizes : AcceptUnretainable(bytes)) \/ UNCHANGED vars
  <2>1. UNCHANGED <<pending, queuedBytes>>
    BY <1>4 DEF AcceptOmission, StartPublishing, AcceptUnretainable, vars
  <2>. QED
    BY <2>1 DEF QueueIsBounded
<1>. QED
  BY <1>1, <1>2, <1>3, <1>4 DEF Next

\* The queue never holds more records or bytes than it may, queuedBytes is what
\* it holds, and all of it can leave: eviction, receipt and publication move
\* the same bytes, for every limit and record size.
THEOREM QueueStaysSound == Spec => []QueueIsSound
<1>1. Inv => FlushProgress
  BY DEF Inv, FlushProgress
<1>2. Inv /\ QueueIsBounded => QueueIsSound
  BY <1>1 DEF QueueIsSound
<1>3. Spec => []QueueIsBounded
  BY InitBounded, NextKeepsBounded, BufferInvariant, PTL DEF Spec
<1>. QED
  BY <1>2, <1>3, BufferInvariant, PTL
============================================================================
