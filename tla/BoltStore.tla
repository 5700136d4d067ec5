------------------------------ MODULE BoltStore ------------------------------
(***************************************************************************)
(* The event and block buckets of the persistent store (tracker/store/     *)
(* bolt_storage_handler.go): one action per writing method, and readers.   *)
(* A method is one BoltDB transaction, so a write that fails, or a process *)
(* that stops in the middle of one, changes nothing.                       *)
(*                                                                         *)
(* GetBlockhashBySlot and the block number of its answer take three        *)
(* transactions; a consumer's lookup is a process of its own, between      *)
(* whose steps the refresher stores blocks.                                *)
(*                                                                         *)
(* A bucket is a function from its keys.  A block's hash is its slot.      *)
(***************************************************************************)
EXTENDS Integers, Sequences, FiniteSets, FiniteSetsExt, Functions

CONSTANTS
  Slots,        \* slots of events and blocks, without 0
  LegacyEvents, \* number of events an older version left
  Heights,      \* block heights by slot
  MaxEvents     \* how many events are ever stored (bound)

Record == [slot : Slots, number : Nat]

ASSUME StoreAssumption ==
  /\ Slots \subseteq Nat \ {0}
  /\ LegacyEvents \in Nat
  /\ Heights \in [Slots -> Nat \ {0}]
  /\ \A r, s \in Slots : r < s => Heights[r] < Heights[s]
  /\ MaxEvents \in Nat

VARIABLES
  events,       \* unprocessed_events: ID -> record
  counter,      \* event_id_counter
  byNumber,     \* event_ids_by_block_number: number -> IDs
  blocks,       \* blocks: slot -> block number
  hashToNumber, \* block_hash_to_number: hash -> block number
  point,        \* latestBlockPoint: its slot, 0 if none
  lookup        \* the consumer's lookup of a slot

eventBuckets == <<events, counter, byNumber>>
blockBuckets == <<blocks, hashToNumber, point>>
vars == <<eventBuckets, blockBuckets, lookup>>

Phases == {"idle", "search", "number", "done"}

TypeOK ==
  /\ counter \in Nat
  /\ events \in [1..counter -> Record]
  /\ DOMAIN byNumber \subseteq Nat
  /\ \A n \in DOMAIN byNumber : byNumber[n] \in Seq(1..counter)
  /\ DOMAIN blocks \subseteq Slots /\ \A s \in DOMAIN blocks : blocks[s] \in Nat
  /\ DOMAIN hashToNumber \subseteq Slots
  /\ \A h \in DOMAIN hashToNumber : hashToNumber[h] \in Nat
  /\ point \in Slots \cup {0}
  /\ lookup \in [phase : Phases, slot : Nat, hash : Nat, number : Nat]

-----------------------------------------------------------------------------
(* bucket.Put                                                              *)
Put(bucket, key, value) ==
  [k \in DOMAIN bucket \cup {key} |-> IF k = key THEN value ELSE bucket[k]]

-----------------------------------------------------------------------------
(* Readers.                                                                *)

(* The index entry GetEventsByBlockNumber reads.                           *)
EventIDs(number) ==
  IF number \in DOMAIN byNumber THEN byNumber[number] ELSE <<>>

(* GetEventsBySlot scans all records.                                      *)
EventsBySlot(slot) == {id \in DOMAIN events : events[id].slot = slot}

(* Slots of stored blocks at or before slot.                               *)
StoredUpTo(slot) == {s \in DOMAIN blocks : s <= slot}

-----------------------------------------------------------------------------
(* A new store, or one an older version left: events without a block       *)
(* number and outside the index.                                           *)
Init ==
  /\ counter = LegacyEvents
  /\ events \in [1..LegacyEvents -> [slot : Slots, number : {0}]]
  /\ byNumber = <<>>
  /\ blocks = <<>>
  /\ hashToNumber = <<>>
  /\ point = 0
  /\ lookup = [phase |-> "idle", slot |-> 0, hash |-> 0, number |-> 0]

-----------------------------------------------------------------------------
(* Events.                                                                 *)

(* Mutant: the counter keeps its value.                                    *)
StoreEventUncounted(slot) ==
  LET id == counter + 1
      number == Heights[slot]
  IN
  /\ id <= MaxEvents
  /\ events' = Put(events, id, [slot |-> slot, number |-> number])
  /\ byNumber' = Put(byNumber, number, Append(EventIDs(number), id))
  /\ UNCHANGED <<counter, blockBuckets, lookup>>

(* Mutant: the index keeps the last event of a block only.                 *)
StoreEventAlone(slot) ==
  LET id == counter + 1
      number == Heights[slot]
  IN
  /\ id <= MaxEvents
  /\ counter' = id
  /\ events' = Put(events, id, [slot |-> slot, number |-> number])
  /\ byNumber' = Put(byNumber, number, <<id>>)
  /\ UNCHANGED <<blockBuckets, lookup>>

(* getNextEventID, the record and its index entry, in one transaction.     *)
StoreEvent(slot) ==
  LET id == counter + 1
      number == Heights[slot]
  IN
  /\ id <= MaxEvents
  /\ counter' = id
  /\ events' = Put(events, id, [slot |-> slot, number |-> number])
  /\ byNumber' = Put(byNumber, number, Append(EventIDs(number), id))
  /\ UNCHANGED <<blockBuckets, lookup>>

-----------------------------------------------------------------------------
(* Blocks.                                                                 *)

(* Mutant: blocks are stored at or below the recorded head as well.        *)
StoreOldBlock(slot) ==
  /\ blocks' = Put(blocks, slot, Heights[slot])
  /\ hashToNumber' = Put(hashToNumber, slot, Heights[slot])
  /\ UNCHANGED <<eventBuckets, point, lookup>>

(* The tracker stores blocks beyond the recorded head only (AnswersStable  *)
(* of ChainHead).                                                          *)
StoreBlock(slot) ==
  /\ slot > point
  /\ blocks' = Put(blocks, slot, Heights[slot])
  /\ hashToNumber' = Put(hashToNumber, slot, Heights[slot])
  /\ UNCHANGED <<eventBuckets, point, lookup>>

(* The tracker records a block it has stored, and never an older one.      *)
StoreLatestBlockPoint(slot) ==
  /\ slot \in DOMAIN blocks
  /\ slot > point
  /\ point' = slot
  /\ UNCHANGED <<eventBuckets, blocks, hashToNumber, lookup>>

-----------------------------------------------------------------------------
(* A consumer's lookup: GetBlockhashBySlot, then GetBlockNumberByBlockhash *)
(* of its answer.                                                          *)

(* A slot beyond the head is refused.                                      *)
LookupHead(slot) ==
  /\ lookup.phase \in {"idle", "done"}
  /\ slot <= point
  /\ lookup' = [phase |-> "search", slot |-> slot, hash |-> 0, number |-> 0]
  /\ UNCHANGED <<eventBuckets, blockBuckets>>

(* Walk back to the last stored block; without one the lookup fails.       *)
LookupHash ==
  /\ lookup.phase = "search"
  /\ lookup' = IF StoredUpTo(lookup.slot) = {}
                 THEN [lookup EXCEPT !.phase = "idle"]
                 ELSE [lookup EXCEPT !.phase = "number",
                                     !.hash = Max(StoredUpTo(lookup.slot))]
  /\ UNCHANGED <<eventBuckets, blockBuckets>>

(* An unknown hash makes the lookup fail.                                  *)
LookupNumber ==
  /\ lookup.phase = "number"
  /\ lookup' = IF lookup.hash \in DOMAIN hashToNumber
                 THEN [lookup EXCEPT !.phase = "done",
                                     !.number = hashToNumber[lookup.hash]]
                 ELSE [lookup EXCEPT !.phase = "idle"]
  /\ UNCHANGED <<eventBuckets, blockBuckets>>

-----------------------------------------------------------------------------
WriteEvent == \E slot \in Slots : StoreEvent(slot)

WriteBlock ==
  \E slot \in Slots : StoreBlock(slot) \/ StoreLatestBlockPoint(slot)

Lookup == (\E slot \in Slots : LookupHead(slot)) \/ LookupHash \/ LookupNumber

Next == WriteEvent \/ WriteBlock \/ Lookup

Spec == Init /\ [][Next]_vars

-----------------------------------------------------------------------------
(* What the store promises.                                                *)

(* The index by block number lists the events of a slot's block that a     *)
(* scan by slot finds, in the order they were stored; only events an older *)
(* version left are missing from it.                                       *)
IndexMatchesScan ==
  \A slot \in Slots :
    LET ids == EventIDs(Heights[slot]) IN
    /\ Range(ids) = {id \in EventsBySlot(slot) : id > LegacyEvents}
    /\ \A i, j \in DOMAIN ids : i < j => ids[i] < ids[j]

(* A lookup never meets a hash without a number, and when it has finished  *)
(* it has the hash of the last stored block at or before its slot and that *)
(* block's number, although blocks were stored and the head moved between  *)
(* its three transactions.                                                 *)
LookupConsistent ==
  /\ lookup.phase = "number" => lookup.hash \in DOMAIN hashToNumber
  /\ lookup.phase = "done" =>
       /\ lookup.hash \in StoredUpTo(lookup.slot)
       /\ \A s \in StoredUpTo(lookup.slot) : s <= lookup.hash
       /\ lookup.number = blocks[lookup.hash]
=============================================================================
