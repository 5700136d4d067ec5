-------------------------- MODULE TxBucket_proofs ---------------------------
(***************************************************************************)
(* Proof that the transaction bucket implements a FIFO queue with markers, *)
(* for every history of batches and for stores an older version left.      *)
(***************************************************************************)
EXTENDS TxBucket, FiniteSetTheorems, TLAPS

-----------------------------------------------------------------------------
(* Encodings.                                                              *)

(* Every value of the bucket decodes to a TxPoint, and a TxPoint survives  *)
(* being stored.                                                           *)
LEMMA DecodeType ==
  ASSUME NEW v \in RawValue
  PROVE  Decode(v) \in TxPoint
<1>1. CASE v \in (Sigs \cup {NoSig}) \X (Slots \cup {0})
  <2>1. PICK x \in Sigs \cup {NoSig}, y \in Slots \cup {0} : v = <<x, y>>
    BY <1>1
  <2>2. Len(v) = 2 /\ v[1] = x /\ v[2] = y  BY <2>1
  <2> QED  BY <2>2 DEF Decode, TxPoint
<1>2. CASE \E s \in Sigs : v = <<s>>
  <2>1. PICK s \in Sigs : v = <<s>>  BY <1>2
  <2>2. Len(v) = 1 /\ v[1] = s  BY <2>1
  <2> QED  BY <2>2 DEF Decode, TxPoint
<1> QED  BY <1>1, <1>2 DEF RawValue

LEMMA EncodeType ==
  ASSUME NEW p \in TxPoint
  PROVE  Encode(p) \in RawValue /\ Decode(Encode(p)) = p
<1>1. /\ p.sig \in Sigs \cup {NoSig}
      /\ p.slot \in Slots \cup {0}
      /\ p = [sig |-> p.sig, slot |-> p.slot]
  BY DEF TxPoint
<1>2. Encode(p) = <<p.sig, p.slot>>  BY DEF Encode
<1>3. Encode(p) \in RawValue  BY <1>1, <1>2 DEF RawValue
<1>4. Len(Encode(p)) = 2 /\ Encode(p)[1] = p.sig /\ Encode(p)[2] = p.slot
  BY <1>2
<1>5. Decode(Encode(p)) = [sig |-> p.sig, slot |-> p.slot]
  BY <1>4 DEF Decode
<1> QED  BY <1>1, <1>3, <1>5

(* A batch without its zero signatures is a sequence of TxPoints: every    *)
(* position of the result has an entry of that rank.                       *)
LEMMA NonEmptyType ==
  ASSUME NEW batch \in Seq(TxPoint)
  PROVE  NonEmpty(batch) \in Seq(TxPoint)
<1> DEFINE K == {i \in DOMAIN batch : batch[i].sig # NoSig}
           Upto(i) == {j \in K : j <= i}
           rank == [i \in K |-> Cardinality(Upto(i))]
           I == 1..Cardinality(K)
<1>1. K \subseteq 1..Len(batch) /\ Len(batch) \in Nat /\ K \subseteq Nat
  OBVIOUS
<1>2. IsFiniteSet(K) /\ Cardinality(K) \in Nat
  <2>1. IsFiniteSet(1..Len(batch))  BY <1>1, FS_Interval
  <2>2. IsFiniteSet(K)  BY <1>1, <2>1, FS_Subset
  <2> QED  BY <2>2, FS_CardinalityType
<1>3. ASSUME NEW i
      PROVE  /\ Upto(i) \subseteq K
             /\ IsFiniteSet(Upto(i))
             /\ Cardinality(Upto(i)) \in Nat
             /\ Cardinality(Upto(i)) <= Cardinality(K)
  <2>1. Upto(i) \subseteq K  OBVIOUS
  <2>2. IsFiniteSet(Upto(i)) /\ Cardinality(Upto(i)) <= Cardinality(K)
    BY <1>2, <2>1, FS_Subset
  <2> QED  BY <2>1, <2>2, FS_CardinalityType
<1>4. ASSUME NEW i \in K PROVE Cardinality(Upto(i)) \in I
  <2>1. i \in Upto(i)  BY <1>1
  <2>2. Cardinality(Upto(i)) # 0  BY <1>3, <2>1, FS_EmptySet
  <2>3. Cardinality(Upto(i)) \in Nat /\ Cardinality(Upto(i)) <= Cardinality(K)
    BY <1>3
  <2> HIDE DEF K, Upto
  <2> QED  BY <1>2, <2>2, <2>3
<1>5. ASSUME NEW i \in K, NEW j \in K, i < j
      PROVE  Cardinality(Upto(i)) # Cardinality(Upto(j))
  <2>1. i \in Nat /\ j \in Nat  BY <1>1
  <2>2. ASSUME NEW k \in K, k <= i PROVE k <= j  BY <1>1, <1>5, <2>1, <2>2
  <2>3. Upto(i) \subseteq Upto(j)  BY <2>2
  <2>4. j \in Upto(j) /\ j \notin Upto(i)  BY <1>5, <2>1
  <2>5. Upto(i) # Upto(j)  BY <2>4
  <2> QED  BY <1>3, <2>3, <2>5, FS_Subset
<1>6. rank \in Injection(K, I)
  <2>1. rank \in [K -> I]  BY <1>4
  <2>2. ASSUME NEW i \in K, NEW j \in K, rank[i] = rank[j] PROVE i = j
    <3>1. Cardinality(Upto(i)) = Cardinality(Upto(j))  BY <2>2
    <3>2. i \in Nat /\ j \in Nat  BY <1>1
    <3>3. ~(i < j) /\ ~(j < i)  BY <1>5, <3>1
    <3> HIDE DEF K
    <3> QED  BY <3>2, <3>3
  <2> HIDE DEF rank, I, K
  <2> QED  BY <2>1, <2>2 DEF Injection, IsInjective
<1>7. IsFiniteSet(I) /\ Cardinality(I) = Cardinality(K)
  BY <1>2, FS_Interval
<1>8. rank \in Surjection(K, I)  BY <1>2, <1>6, <1>7, FS_Injection
<1>9. ASSUME NEW n \in I PROVE \E i \in K : Cardinality(Upto(i)) = n
  <2>1. \E i \in K : rank[i] = n
    <3> HIDE DEF rank, I, K
    <3> QED  BY <1>8 DEF Surjection
  <2> QED  BY <2>1
<1>10. ASSUME NEW n \in I
       PROVE  batch[CHOOSE i \in K : Cardinality(Upto(i)) = n] \in TxPoint
  <2>1. (CHOOSE i \in K : Cardinality(Upto(i)) = n) \in K  BY <1>9
  <2> QED  BY <1>1, <2>1
<1>11. NonEmpty(batch)
         = [n \in I |-> batch[CHOOSE i \in K : Cardinality(Upto(i)) = n]]
  BY DEF NonEmpty
<1>12. NonEmpty(batch) \in [I -> TxPoint]  BY <1>10, <1>11
<1> HIDE DEF K
<1> QED  BY <1>2, <1>12

-----------------------------------------------------------------------------
(* The layout.                                                             *)

(* A queue grows at tail and shrinks at head.                              *)
BucketInv == TypeOK /\ head <= tail

LEMMA TxPointZero == NoTx \in TxPoint
BY DEF NoTx, TxPoint

LEMMA MarkerType ==
  ASSUME NEW v \in RawValue \cup {Absent}
  PROVE  GetTxPoint(v) \in TxPoint
BY DecodeType, TxPointZero DEF GetTxPoint

LEMMA QueueType ==
  ASSUME BucketInv
  PROVE  /\ GetAllUnprocessedTransactions \in Seq(TxPoint)
         /\ Len(GetAllUnprocessedTransactions) = tail - head
         /\ \A i \in 1..(tail - head) :
              /\ head + i - 1 \in head..(tail - 1)
              /\ GetAllUnprocessedTransactions[i] = Decode(entries[head + i - 1])
<1> DEFINE q == GetAllUnprocessedTransactions
<1>1. head \in Nat /\ tail \in Nat /\ tail - head \in Nat
  BY DEF BucketInv, TypeOK
<1>2. ASSUME NEW i \in 1..(tail - head)
      PROVE  /\ head + i - 1 \in head..(tail - 1)
             /\ Decode(entries[head + i - 1]) \in TxPoint
  <2>1. head + i - 1 \in head..(tail - 1)  BY <1>1
  <2>2. entries[head + i - 1] \in RawValue  BY <2>1 DEF BucketInv, TypeOK
  <2> QED  BY <2>1, <2>2, DecodeType
<1>3. q = [i \in 1..(tail - head) |-> Decode(entries[head + i - 1])]
  BY DEF GetAllUnprocessedTransactions
<1>4. q \in [1..(tail - head) -> TxPoint]  BY <1>2, <1>3
<1>5. q \in Seq(TxPoint) /\ Len(q) = tail - head  BY <1>1, <1>4
<1> QED  BY <1>2, <1>3, <1>5

LEMMA BucketInit == Init => BucketInv
<1> SUFFICES ASSUME Init PROVE BucketInv
  OBVIOUS
<1>1. PICK q \in LegacyQueues :
        /\ head = 0
        /\ tail = Len(q)
        /\ entries = [k \in 0..(Len(q) - 1) |-> <<q[k + 1]>>]
  BY DEF Init
<1>2. q \in Seq(Sigs)  BY BucketAssumption
<1>3. Len(q) \in Nat  BY <1>2
<1>4. ASSUME NEW k \in 0..(Len(q) - 1) PROVE <<q[k + 1]>> \in RawValue
  <2>1. k + 1 \in 1..Len(q)  BY <1>3
  <2>2. q[k + 1] \in Sigs  BY <1>2, <2>1
  <2> QED  BY <2>2 DEF RawValue
<1>5. entries \in [head..(tail - 1) -> RawValue]  BY <1>1, <1>4
<1>6. lastProcessed \in RawValue \cup {Absent} /\ lastQueried \in RawValue \cup {Absent}
  BY DEF Init, RawValue
<1> QED  BY <1>1, <1>3, <1>5, <1>6 DEF BucketInv, TypeOK

(* A push leaves the old entries in place and puts the batch behind them.  *)
LEMMA PushStep ==
  ASSUME BucketInv, NEW batch \in Batches, PushUnprocessedTransactions(batch)
  PROVE  /\ BucketInv'
         /\ GetAllUnprocessedTransactions'
              = GetAllUnprocessedTransactions \o NonEmpty(batch)
<1> DEFINE added == NonEmpty(batch)
           new == tail..(tail + Len(added) - 1)
           q == GetAllUnprocessedTransactions
<1>1. added \in Seq(TxPoint)  BY BucketAssumption, NonEmptyType
<1>2. Len(added) \in Nat /\ \A i \in 1..Len(added) : added[i] \in TxPoint
  BY <1>1
<1>3. /\ entries' = [k \in DOMAIN entries \cup new |->
                       IF k \in new THEN Encode(added[k - tail + 1])
                                    ELSE entries[k]]
      /\ tail' = tail + Len(added)
      /\ head' = head
      /\ lastProcessed' = lastProcessed /\ lastQueried' = lastQueried
  BY DEF PushUnprocessedTransactions
<1> HIDE DEF added
<1>4. head \in Nat /\ tail \in Nat /\ head <= tail
  BY DEF BucketInv, TypeOK
<1>5. DOMAIN entries = head..(tail - 1)
  BY DEF BucketInv, TypeOK
<1>6. DOMAIN entries \cup new = head'..(tail' - 1)
  BY <1>2, <1>3, <1>4, <1>5
<1>7. ASSUME NEW k \in new
      PROVE  k - tail + 1 \in 1..Len(added) /\ Encode(added[k - tail + 1]) \in RawValue
  <2>1. k - tail + 1 \in 1..Len(added)  BY <1>2, <1>4
  <2> QED  BY <1>2, <2>1, EncodeType
<1>8. \A k \in head..(tail - 1) : entries[k] \in RawValue
  BY DEF BucketInv, TypeOK
<1>9. entries' \in [head'..(tail' - 1) -> RawValue]
  <2>1. ASSUME NEW k \in DOMAIN entries \cup new
        PROVE  (IF k \in new THEN Encode(added[k - tail + 1])
                             ELSE entries[k]) \in RawValue
    <3>1. CASE k \in new  BY <1>7, <3>1
    <3>2. CASE k \notin new  BY <1>5, <1>8, <3>2
    <3> QED  BY <3>1, <3>2
  <2> HIDE DEF new
  <2> QED  BY <1>3, <1>6, <2>1
<1>10. BucketInv'
  BY <1>2, <1>3, <1>4, <1>9 DEF BucketInv, TypeOK
<1>11. /\ q \in Seq(TxPoint) /\ Len(q) = tail - head
       /\ \A i \in 1..(tail - head) :
            q[i] = Decode(entries[head + i - 1])
  BY QueueType
<1>12. q' = [i \in 1..(tail' - head') |-> Decode(entries'[head' + i - 1])]
  BY DEF GetAllUnprocessedTransactions
<1> HIDE DEF q
<1>13. /\ q \o added \in Seq(TxPoint)
       /\ Len(q \o added) = tail' - head'
       /\ DOMAIN (q \o added) = 1..(tail' - head')
  BY <1>1, <1>2, <1>3, <1>4, <1>11
<1>14. ASSUME NEW i \in 1..(tail' - head')
       PROVE  Decode(entries'[head' + i - 1]) = (q \o added)[i]
  <2>1. head' + i - 1 \in DOMAIN entries \cup new
    BY <1>2, <1>3, <1>4, <1>6
  <2>2. CASE i <= tail - head
    <3>1. i \in 1..(tail - head) /\ head + i - 1 \notin new
      BY <1>2, <1>3, <1>4, <2>2
    <3>2. entries'[head' + i - 1] = entries[head + i - 1]
      BY <1>3, <2>1, <3>1
    <3>3. (q \o added)[i] = q[i]  BY <1>1, <1>11, <2>2
    <3> QED  BY <1>11, <3>1, <3>2, <3>3
  <2>3. CASE ~(i <= tail - head)
    <3> DEFINE n == i - (tail - head)
    <3>1. /\ n \in 1..Len(added)
          /\ head + i - 1 \in new
          /\ head + i - 1 - tail + 1 = n
      BY <1>2, <1>3, <1>4, <2>3
    <3>2. entries'[head' + i - 1] = Encode(added[n])
      <4> DEFINE k == head' + i - 1
      <4>1. k = head + i - 1  BY <1>3
      <4> HIDE DEF new, n
      <4> HIDE DEF k
      <4>2. k \in new  BY <3>1, <4>1
      <4>3. i \in Int /\ k \in Int /\ k - tail + 1 = n
        BY <1>2, <1>3, <1>4, <3>1, <4>1
      <4>4. entries'[k] = Encode(added[k - tail + 1])  BY <1>3, <4>2
      <4> QED  BY <4>3, <4>4 DEF k
    <3>3. (q \o added)[i] = added[n]  BY <1>1, <1>2, <1>3, <1>4, <1>11, <2>3, <3>1
    <3>4. Decode(Encode(added[n])) = added[n]  BY <1>2, <3>1, EncodeType
    <3> QED  BY <3>2, <3>3, <3>4
  <2> QED  BY <2>2, <2>3
<1>15. q' = q \o added
  <2> DEFINE r == q \o added
             m == tail' - head'
  <2>1. r \in Seq(TxPoint) /\ Len(r) = m /\ m \in Nat
    BY <1>2, <1>3, <1>4, <1>13
  <2>2. \A i \in 1..m : q'[i] = r[i]  BY <1>12, <1>14
  <2>3. DOMAIN q' = 1..m /\ q' = [i \in 1..m |-> q'[i]]  BY <1>12
  <2> HIDE DEF r, m
  <2>4. r = [i \in 1..m |-> r[i]]  BY <2>1
  <2>5. q' = r  BY <2>2, <2>3, <2>4
  <2> QED  BY <2>5 DEF r
<1> QED  BY <1>10, <1>15 DEF q, added

(* Finalizing removes the front.                                           *)
LEMMA FinalizeStep ==
  ASSUME BucketInv, NEW sig \in Sigs, FinalizeProcessedTransaction(sig)
  PROVE  /\ BucketInv'
         /\ GetAllUnprocessedTransactions # <<>>
         /\ GetAllUnprocessedTransactions' = Tail(GetAllUnprocessedTransactions)
         /\ GetTxPoint(lastProcessed') = Head(GetAllUnprocessedTransactions)
<1> DEFINE q == GetAllUnprocessedTransactions
<1>1. /\ head < tail
      /\ entries' = [k \in DOMAIN entries \ {head} |-> entries[k]]
      /\ head' = head + 1
      /\ tail' = tail
      /\ lastProcessed' = Encode(Decode(entries[head]))
      /\ lastQueried' = lastQueried
  BY DEF FinalizeProcessedTransaction
<1>2. /\ head \in Nat /\ tail \in Nat
      /\ DOMAIN entries = head..(tail - 1)
      /\ \A k \in head..(tail - 1) : entries[k] \in RawValue
  BY DEF BucketInv, TypeOK
<1>3. DOMAIN entries \ {head} = head'..(tail' - 1)  BY <1>1, <1>2
<1>4. entries' \in [head'..(tail' - 1) -> RawValue]  BY <1>1, <1>2, <1>3
<1>5. head \in head..(tail - 1)  BY <1>1, <1>2
<1>6. Decode(entries[head]) \in TxPoint  BY <1>2, <1>5, DecodeType
<1>7. lastProcessed' \in RawValue /\ Decode(lastProcessed') = Decode(entries[head])
  BY <1>1, <1>6, EncodeType
<1>8. BucketInv'
  BY <1>1, <1>2, <1>4, <1>7 DEF BucketInv, TypeOK
<1>9. /\ q \in Seq(TxPoint) /\ Len(q) = tail - head
      /\ \A i \in 1..(tail - head) : q[i] = Decode(entries[head + i - 1])
  BY QueueType
<1>10. q' = [i \in 1..(tail' - head') |-> Decode(entries'[head' + i - 1])]
  BY DEF GetAllUnprocessedTransactions
<1> HIDE DEF q
<1>11. q # <<>> /\ Len(Tail(q)) = tail' - head' /\ Tail(q) \in Seq(TxPoint)
  BY <1>1, <1>2, <1>9
<1>12. ASSUME NEW i \in 1..(tail' - head')
       PROVE  Decode(entries'[head' + i - 1]) = Tail(q)[i]
  <2>1. /\ i + 1 \in 1..(tail - head)
        /\ head' + i - 1 \in head'..(tail' - 1)
        /\ head' + i - 1 = head + (i + 1) - 1
    BY <1>1, <1>2
  <2>2. Tail(q)[i] = q[i + 1]  BY <1>1, <1>2, <1>9, <1>11
  <2>3. entries'[head' + i - 1] = entries[head' + i - 1]  BY <1>1, <1>3, <2>1
  <2> QED  BY <1>9, <2>1, <2>2, <2>3
<1>13. q' = Tail(q)
  <2> DEFINE r == Tail(q)
             m == tail' - head'
  <2>1. r \in Seq(TxPoint) /\ Len(r) = m /\ m \in Nat
    BY <1>1, <1>2, <1>11
  <2>2. \A i \in 1..m : q'[i] = r[i]  BY <1>10, <1>12
  <2>3. DOMAIN q' = 1..m /\ q' = [i \in 1..m |-> q'[i]]  BY <1>10
  <2> HIDE DEF r, m
  <2>4. r = [i \in 1..m |-> r[i]]  BY <2>1
  <2>5. q' = r  BY <2>2, <2>3, <2>4
  <2> QED  BY <2>5 DEF r
<1>14. GetTxPoint(lastProcessed') = Head(q)
  <2>1. Head(q) = q[1]  BY <1>9, <1>11
  <2>2. 1 \in 1..(tail - head) /\ head + 1 - 1 = head  BY <1>1, <1>2
  <2>3. q[1] = Decode(entries[head])  BY <1>9, <2>2
  <2>4. lastProcessed' # Absent
    BY <1>1 DEF Encode, Absent
  <2> QED  BY <1>7, <2>1, <2>3, <2>4 DEF GetTxPoint
<1> QED  BY <1>8, <1>11, <1>13, <1>14 DEF q

(* Setting a marker leaves the queue alone.                                *)
LEMMA MarkerStep ==
  ASSUME BucketInv, NEW p \in TxPoints,
         \/ SetLastProcessedTransaction(p)
         \/ StoreLatestQueriedTransaction(p)
  PROVE  /\ BucketInv'
         /\ GetAllUnprocessedTransactions' = GetAllUnprocessedTransactions
<1>1. p \in TxPoint  BY DEF TxPoints
<1>2. Encode(p) \in RawValue  BY <1>1, EncodeType
<1> QED
  BY <1>2 DEF SetLastProcessedTransaction, StoreLatestQueriedTransaction,
              BucketInv, TypeOK, GetAllUnprocessedTransactions

LEMMA BucketNext == BucketInv /\ [Next]_vars => BucketInv'
<1> SUFFICES ASSUME BucketInv, [Next]_vars PROVE BucketInv'
  OBVIOUS
<1>1. CASE \E batch \in Batches : PushUnprocessedTransactions(batch)
  BY <1>1, PushStep
<1>2. CASE \E sig \in Sigs : FinalizeProcessedTransaction(sig)
  BY <1>2, FinalizeStep
<1>3. CASE \E p \in TxPoints : SetLastProcessedTransaction(p)
  BY <1>3, MarkerStep
<1>4. CASE \E p \in TxPoints : StoreLatestQueriedTransaction(p)
  BY <1>4, MarkerStep
<1>5. CASE UNCHANGED vars
  BY <1>5 DEF vars, BucketInv, TypeOK
<1> QED  BY <1>1, <1>2, <1>3, <1>4, <1>5 DEF Next

(* The bucket holds exactly the entries between the counters, each a value *)
(* that decodes, after any sequence of pushes and removals.                *)
THEOREM LayoutCorrect == Spec => []TypeOK
<1>1. BucketInv => TypeOK  BY DEF BucketInv
<1> QED  BY BucketInit, BucketNext, <1>1, PTL DEF Spec

-----------------------------------------------------------------------------
(* The refinement.                                                         *)

(* The entries between two counters in the transaction bucket, decoded,    *)
(* are a FIFO queue for every sequence of store calls: pushing keeps the   *)
(* order of a batch and drops zero signatures, and finalizing moves the    *)
(* front into the last processed marker.                                   *)
THEOREM BucketIsQueue == Spec => ImplementsQueue
<1>1. Init => Queue!Init
  <2> SUFFICES ASSUME Init PROVE Queue!Init
    OBVIOUS
  <2>1. BucketInv  BY BucketInit
  <2>2. GetAllUnprocessedTransactions \in Seq(TxPoint)  BY <2>1, QueueType
  <2>3. GetTxPoint(lastProcessed) \in TxPoint /\ GetTxPoint(lastQueried) \in TxPoint
    BY <2>1, MarkerType DEF BucketInv, TypeOK
  <2> QED  BY <2>2, <2>3 DEF Queue!Init
<1>2. BucketInv /\ [Next]_vars
        => [Queue!Next]_<<GetAllUnprocessedTransactions,
                          GetTxPoint(lastProcessed), GetTxPoint(lastQueried)>>
  <2> SUFFICES ASSUME BucketInv, [Next]_vars
               PROVE  [Queue!Next]_<<GetAllUnprocessedTransactions,
                        GetTxPoint(lastProcessed), GetTxPoint(lastQueried)>>
    OBVIOUS
  <2>1. CASE \E batch \in Batches : PushUnprocessedTransactions(batch)
    <3>1. PICK batch \in Batches : PushUnprocessedTransactions(batch)  BY <2>1
    <3>2. GetAllUnprocessedTransactions'
            = GetAllUnprocessedTransactions \o NonEmpty(batch)
      BY <3>1, PushStep
    <3>3. lastProcessed' = lastProcessed /\ lastQueried' = lastQueried
      BY <3>1 DEF PushUnprocessedTransactions
    <3>4. /\ GetTxPoint(lastProcessed)' = GetTxPoint(lastProcessed)
          /\ GetTxPoint(lastQueried)' = GetTxPoint(lastQueried)
      BY <3>3 DEF GetTxPoint
    <3>5. Queue!Push  BY <3>2, <3>4 DEF Queue!Push
    <3> QED  BY <3>5 DEF Queue!Next
  <2>2. CASE \E sig \in Sigs : FinalizeProcessedTransaction(sig)
    <3>1. PICK sig \in Sigs : FinalizeProcessedTransaction(sig)  BY <2>2
    <3>2. /\ GetAllUnprocessedTransactions # <<>>
          /\ GetAllUnprocessedTransactions' = Tail(GetAllUnprocessedTransactions)
          /\ GetTxPoint(lastProcessed') = Head(GetAllUnprocessedTransactions)
      BY <3>1, FinalizeStep
    <3>3. lastQueried' = lastQueried
      BY <3>1 DEF FinalizeProcessedTransaction
    <3>4. GetTxPoint(lastQueried)' = GetTxPoint(lastQueried)
      BY <3>3 DEF GetTxPoint
    <3>5. GetTxPoint(lastProcessed)' = GetTxPoint(lastProcessed')
      BY DEF GetTxPoint
    <3>6. Queue!Finalize  BY <3>2, <3>4, <3>5 DEF Queue!Finalize
    <3> QED  BY <3>6 DEF Queue!Next
  <2>3. CASE \E p \in TxPoints : \/ SetLastProcessedTransaction(p)
                                 \/ StoreLatestQueriedTransaction(p)
    <3>1. BucketInv' /\ GetAllUnprocessedTransactions' = GetAllUnprocessedTransactions
      BY <2>3, MarkerStep
    <3>2. lastProcessed' \in RawValue \cup {Absent} /\ lastQueried' \in RawValue \cup {Absent}
      BY <3>1 DEF BucketInv, TypeOK
    <3>3. GetTxPoint(lastProcessed') \in TxPoint /\ GetTxPoint(lastQueried') \in TxPoint
      BY <3>2, MarkerType
    <3>4. /\ GetTxPoint(lastProcessed)' = GetTxPoint(lastProcessed')
          /\ GetTxPoint(lastQueried)' = GetTxPoint(lastQueried')
      BY DEF GetTxPoint
    <3>5. Queue!SetMarkers  BY <3>1, <3>3, <3>4 DEF Queue!SetMarkers
    <3> QED  BY <3>5 DEF Queue!Next
  <2>4. CASE UNCHANGED vars
    BY <2>4 DEF vars, GetAllUnprocessedTransactions, GetTxPoint
  <2> QED  BY <2>1, <2>2, <2>3, <2>4 DEF Next
<1> QED  BY BucketInit, BucketNext, <1>1, <1>2, PTL DEF Spec, ImplementsQueue, Queue!Spec
=============================================================================
