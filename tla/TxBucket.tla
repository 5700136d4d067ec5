------------------------------ MODULE TxBucket ------------------------------
(***************************************************************************)
(* The transaction bucket of the persistent store (tracker/store/          *)
(* bolt_storage_handler.go): a queue laid out as entries between two       *)
(* counters, and two markers.  A method is one BoltDB transaction, so a    *)
(* write that fails, or a process that stops in the middle of one, changes *)
(* nothing.                                                                *)
(***************************************************************************)
EXTENDS Integers, Sequences, FiniteSets

CONSTANTS
  Sigs,         \* transaction signatures, without the zero one
  Slots,        \* slots of transactions, without 0
  Batches,      \* batches the tracker pushes: sequences of TxPoints
  LegacyQueues, \* queues an older version left: sequences of signatures
  MaxQueued     \* how many transactions are ever queued (bound)

NoSig == "none"

TxPoint == [sig : Sigs \cup {NoSig}, slot : Slots \cup {0}]
NoTx == [sig |-> NoSig, slot |-> 0]

(* A value of the transaction bucket: a signature and a slot.  Older       *)
(* versions stored the signature only.                                     *)
RawValue == ((Sigs \cup {NoSig}) \X (Slots \cup {0})) \cup {<<s>> : s \in Sigs}
Absent == <<>>

ASSUME BucketAssumption ==
  /\ Slots \subseteq Nat \ {0}
  /\ NoSig \notin Sigs
  /\ Batches \subseteq Seq(TxPoint)
  /\ LegacyQueues \subseteq Seq(Sigs)
  /\ MaxQueued \in Nat

VARIABLES
  entries,       \* index -> value
  head, tail,    \* the two counters
  lastProcessed, \* the two markers
  lastQueried

vars == <<entries, head, tail, lastProcessed, lastQueried>>

(* The bucket holds the entries between the two counters and no other one. *)
TypeOK ==
  /\ head \in Nat /\ tail \in Nat
  /\ entries \in [head..(tail - 1) -> RawValue]
  /\ lastProcessed \in RawValue \cup {Absent}
  /\ lastQueried \in RawValue \cup {Absent}

-----------------------------------------------------------------------------
(* Encodings.                                                              *)

(* Mutant: the older encoding, without the slot.                           *)
EncodeSignature(p) == <<p.sig>>

(* encodeTxPoint                                                           *)
Encode(p) == <<p.sig, p.slot>>

(* txPointFromBucketValue                                                  *)
Decode(v) == [sig |-> v[1], slot |-> IF Len(v) = 2 THEN v[2] ELSE 0]

(* The entries of a batch with a signature, in their order.                *)
NonEmpty(batch) ==
  LET kept == {i \in DOMAIN batch : batch[i].sig # NoSig} IN
  [n \in 1..Cardinality(kept) |->
     batch[CHOOSE i \in kept : Cardinality({j \in kept : j <= i}) = n]]

-----------------------------------------------------------------------------
(* Readers.                                                                *)

GetAllUnprocessedTransactions ==
  [i \in 1..(tail - head) |-> Decode(entries[head + i - 1])]

(* getTxPointByKey                                                         *)
GetTxPoint(value) == IF value = Absent THEN NoTx ELSE Decode(value)

-----------------------------------------------------------------------------
(* A new store, or one in which an older version has queued and marked     *)
(* signatures without their slots.                                         *)
Init ==
  /\ \E q \in LegacyQueues :
       /\ head = 0
       /\ tail = Len(q)
       /\ entries = [k \in 0..(Len(q) - 1) |-> <<q[k + 1]>>]
  /\ lastProcessed \in {Absent} \cup {<<s>> : s \in Sigs}
  /\ lastQueried \in {Absent} \cup {<<s>> : s \in Sigs}

-----------------------------------------------------------------------------
PushUnprocessedTransactions(batch) ==
  LET added == NonEmpty(batch)
      new == tail..(tail + Len(added) - 1)
  IN
  /\ tail + Len(added) <= MaxQueued
  /\ entries' = [k \in DOMAIN entries \cup new |->
                   IF k \in new THEN Encode(added[k - tail + 1]) ELSE entries[k]]
  /\ tail' = tail + Len(added)
  /\ UNCHANGED <<head, lastProcessed, lastQueried>>

(* Mutant: the entry stays in the bucket.                                  *)
FinalizeUndeleted(sig) ==
  /\ head < tail
  /\ Decode(entries[head]).sig = sig
  /\ head' = head + 1
  /\ lastProcessed' = Encode(Decode(entries[head]))
  /\ UNCHANGED <<entries, tail, lastQueried>>

(* Only the front can be finalized.                                        *)
FinalizeProcessedTransaction(sig) ==
  /\ head < tail
  /\ Decode(entries[head]).sig = sig
  /\ entries' = [k \in DOMAIN entries \ {head} |-> entries[k]]
  /\ head' = head + 1
  /\ lastProcessed' = Encode(Decode(entries[head]))
  /\ UNCHANGED <<tail, lastQueried>>

SetLastProcessedTransaction(p) ==
  /\ lastProcessed' = Encode(p)
  /\ UNCHANGED <<entries, head, tail, lastQueried>>

StoreLatestQueriedTransaction(p) ==
  /\ lastQueried' = Encode(p)
  /\ UNCHANGED <<entries, head, tail, lastProcessed>>

-----------------------------------------------------------------------------
TxPoints == {p \in TxPoint : p.sig # NoSig /\ p.slot # 0}

Next ==
  \/ \E batch \in Batches : PushUnprocessedTransactions(batch)
  \/ \E sig \in Sigs : FinalizeProcessedTransaction(sig)
  \/ \E p \in TxPoints : SetLastProcessedTransaction(p)
  \/ \E p \in TxPoints : StoreLatestQueriedTransaction(p)

Spec == Init /\ [][Next]_vars

-----------------------------------------------------------------------------
(* What the bucket promises.                                               *)

Queue == INSTANCE TxQueue
           WITH Pushes <- {NonEmpty(batch) : batch \in Batches},
                queue <- GetAllUnprocessedTransactions,
                lastProcessed <- GetTxPoint(lastProcessed),
                lastQueried <- GetTxPoint(lastQueried)

(* The counters and the entries of the transaction bucket, read back by    *)
(* GetAllUnprocessedTransactions, behave as a FIFO queue: batches keep     *)
(* their order, and the finalized front becomes the last processed         *)
(* transaction with the slot it was pushed with.                           *)
ImplementsQueue == Queue!Spec
=============================================================================
