-------------------------- MODULE BoltStore_proofs --------------------------
(***************************************************************************)
(* Proofs about the event and block buckets: the event index agrees with a *)
(* scan of the records, and a consumer's lookup is consistent although it  *)
(* takes several transactions.                                             *)
(***************************************************************************)
EXTENDS BoltStore, WellFoundedInduction, NaturalsInduction, TLAPS

-----------------------------------------------------------------------------
(* Sequences of a smaller set are sequences of a larger one.               *)
LEMMA SeqWiden ==
  ASSUME NEW S, NEW T, S \subseteq T, NEW s \in Seq(S)
  PROVE  s \in Seq(T)
<1>1. Len(s) \in Nat /\ s \in [1..Len(s) -> S]  OBVIOUS
<1>2. s \in [1..Len(s) -> T]  BY <1>1
<1> QED  BY <1>1, <1>2

(* What Append adds and keeps.                                             *)
LEMMA AppendFacts ==
  ASSUME NEW S, NEW T, S \subseteq T, NEW s \in Seq(S), NEW x \in T
  PROVE  /\ Len(s) \in Nat /\ DOMAIN s = 1..Len(s)
         /\ Append(s, x) \in Seq(T)
         /\ DOMAIN Append(s, x) = 1..(Len(s) + 1)
         /\ Append(s, x)[Len(s) + 1] = x
         /\ \A i \in 1..Len(s) : Append(s, x)[i] = s[i] /\ s[i] \in S
<1>1. Len(s) \in Nat /\ DOMAIN s = 1..Len(s) /\ \A i \in 1..Len(s) : s[i] \in S
  OBVIOUS
<1>2. s \in Seq(T)  BY SeqWiden
<1> QED  BY <1>1, <1>2

(* A non-empty bounded set of naturals has a greatest member.              *)
LEMMA MaxBounded ==
  ASSUME NEW n \in Nat, NEW S \in SUBSET (0..n), S # {}
  PROVE  Max(S) \in S /\ \A s \in S : s <= Max(S)
<1> DEFINE D == {d \in Nat : n - d \in S}
<1>1. D # {}
  <2>1. PICK s \in S : TRUE  OBVIOUS
  <2>2. n - s \in Nat /\ n - (n - s) = s  BY <2>1
  <2> QED  BY <2>2
<1>2. PICK d \in D : \A e \in D : ~(<<e, d>> \in OpToRel(<, Nat))
  BY <1>1, NatLessThanWellFounded, WFMin
<1>3. \A e \in D : ~(e < d)  BY <1>2 DEF OpToRel
<1>4. ASSUME NEW s \in S PROVE n - d >= s
  <2>1. n - s \in Nat /\ n - (n - s) = s  BY <1>4
  <2>2. n - s \in D  BY <2>1
  <2>3. ~(n - s < d)  BY <1>3, <2>2
  <2> QED  BY <2>3
<1>5. \E x \in S : \A y \in S : x >= y  BY <1>4
<1>6. Max(S) \in S /\ \A y \in S : Max(S) >= y  BY <1>5 DEF Max
<1> QED  BY <1>6

-----------------------------------------------------------------------------
(* Events.                                                                 *)

EventTypes ==
  /\ counter \in Nat /\ LegacyEvents <= counter
  /\ events \in [1..counter -> Record]
  /\ DOMAIN byNumber \subseteq Nat
  /\ \A n \in DOMAIN byNumber : byNumber[n] \in Seq(1..counter)

EventInv == EventTypes /\ IndexMatchesScan

LEMMA EventInit == Init => EventInv
<1> SUFFICES ASSUME Init PROVE EventInv
  OBVIOUS
<1>1. /\ counter = LegacyEvents /\ LegacyEvents \in Nat
      /\ events \in [1..LegacyEvents -> [slot : Slots, number : {0}]]
      /\ DOMAIN byNumber = {}
  BY StoreAssumption DEF Init
<1>2. events \in [1..counter -> Record]
  <2>1. [slot : Slots, number : {0}] \subseteq Record  BY DEF Record
  <2> QED  BY <1>1, <2>1
<1>3. EventTypes  BY <1>1, <1>2 DEF EventTypes
<1>4. ASSUME NEW slot \in Slots
      PROVE  /\ EventIDs(Heights[slot]) = <<>>
             /\ {id \in EventsBySlot(slot) : id > LegacyEvents} = {}
  <2>1. EventIDs(Heights[slot]) = <<>>  BY <1>1 DEF EventIDs
  <2>2. ASSUME NEW id \in EventsBySlot(slot) PROVE ~(id > LegacyEvents)
    BY <1>1 DEF EventsBySlot
  <2> QED  BY <2>1, <2>2
<1>5. Range(<<>>) = {} /\ DOMAIN <<>> = {}  BY DEF Range
<1>6. IndexMatchesScan  BY <1>4, <1>5 DEF IndexMatchesScan
<1> QED  BY <1>3, <1>6 DEF EventInv

(* An index entry is a sequence of known IDs.                              *)
LEMMA EventIDsType ==
  ASSUME EventTypes, NEW n
  PROVE  EventIDs(n) \in Seq(1..counter)
<1>1. CASE n \in DOMAIN byNumber  BY <1>1 DEF EventTypes, EventIDs
<1>2. CASE n \notin DOMAIN byNumber
  <2>1. EventIDs(n) = <<>>  BY <1>2 DEF EventIDs
  <2>2. <<>> \in Seq(1..counter)  OBVIOUS
  <2> QED  BY <2>1, <2>2
<1> QED  BY <1>1, <1>2

LEMMA EventStep ==
  ASSUME EventInv, NEW slot \in Slots, StoreEvent(slot)
  PROVE  EventInv'
<1> DEFINE id == counter + 1
           number == Heights[slot]
           record == [slot |-> slot, number |-> number]
<1>1. /\ counter' = id
      /\ events' = Put(events, id, record)
      /\ byNumber' = Put(byNumber, number, Append(EventIDs(number), id))
  BY DEF StoreEvent
<1>2. /\ counter \in Nat /\ LegacyEvents \in Nat /\ LegacyEvents <= counter
      /\ events \in [1..counter -> Record]
      /\ DOMAIN byNumber \subseteq Nat
      /\ \A n \in DOMAIN byNumber : byNumber[n] \in Seq(1..counter)
  BY StoreAssumption DEF EventInv, EventTypes
<1>3. number \in Nat /\ record \in Record /\ record.slot = slot
  BY StoreAssumption DEF Record
<1>4. \A n : EventIDs(n) \in Seq(1..counter)
  BY EventIDsType DEF EventInv
<1>5. id \in Nat /\ id > counter /\ id \notin 1..counter
      /\ 1..id = (1..counter) \cup {id}
  BY <1>2
<1> HIDE DEF id, number, record
<1>6. /\ DOMAIN events' = 1..id
      /\ events'[id] = record
      /\ \A k \in 1..counter : events'[k] = events[k]
  BY <1>1, <1>2, <1>5 DEF Put
<1>7. events' \in [1..counter' -> Record]
  <2>1. \A k \in 1..id : events'[k] \in Record  BY <1>2, <1>3, <1>5, <1>6
  <2>2. events' = [k \in DOMAIN events \cup {id} |->
                     IF k = id THEN record ELSE events[k]]
    BY <1>1 DEF Put
  <2> QED  BY <1>1, <1>6, <2>1, <2>2
<1>8. /\ DOMAIN byNumber' = DOMAIN byNumber \cup {number}
      /\ byNumber'[number] = Append(EventIDs(number), id)
      /\ \A n \in DOMAIN byNumber : n # number => byNumber'[n] = byNumber[n]
  BY <1>1 DEF Put
<1>9. /\ \A n : n # number => EventIDs(n)' = EventIDs(n)
      /\ EventIDs(number)' = Append(EventIDs(number), id)
  BY <1>8 DEF EventIDs
<1>10. ASSUME NEW n PROVE EventIDs(n)' \in Seq(1..id)
  <2>1. EventIDs(n) \in Seq(1..id)
    <3>1. EventIDs(n) \in Seq(1..counter)  BY <1>4
    <3>2. 1..counter \subseteq 1..id  BY <1>5
    <3> QED  BY <3>1, <3>2, SeqWiden
  <2>2. CASE n # number  BY <1>9, <2>1, <2>2
  <2>3. CASE n = number
    <3>1. id \in 1..id  BY <1>5
    <3>2. Append(EventIDs(n), id) \in Seq(1..id)  BY <2>1, <3>1
    <3> QED  BY <1>9, <2>3, <3>2
  <2> QED  BY <2>2, <2>3
<1>11. ASSUME NEW n \in DOMAIN byNumber' PROVE byNumber'[n] \in Seq(1..counter')
  <2>1. EventIDs(n)' = byNumber'[n]  BY <1>11 DEF EventIDs
  <2> QED  BY <1>1, <1>10, <2>1
<1>12. EventTypes'
  <2>1. counter' \in Nat /\ LegacyEvents <= counter'
    BY <1>1, <1>2, <1>5
  <2>2. DOMAIN byNumber' \subseteq Nat  BY <1>2, <1>3, <1>8
  <2> QED  BY <1>7, <1>11, <2>1, <2>2 DEF EventTypes
<1>13. ASSUME NEW s \in Slots, s # slot
       PROVE  /\ EventIDs(Heights[s])' = EventIDs(Heights[s])
              /\ EventsBySlot(s)' = EventsBySlot(s)
  <2>1. Heights[s] # number
    <3>1. s \in Nat /\ slot \in Nat /\ Heights[s] \in Nat /\ Heights[slot] \in Nat
      BY StoreAssumption
    <3>2. s < slot \/ slot < s  BY <1>13, <3>1
    <3>3. Heights[s] < Heights[slot] \/ Heights[slot] < Heights[s]
      BY <3>2, StoreAssumption
    <3> QED  BY <3>1, <3>3 DEF number
  <2>2. EventsBySlot(s)' = EventsBySlot(s)
    <3>1. EventsBySlot(s)' = {k \in 1..id : events'[k].slot = s}
      BY <1>6 DEF EventsBySlot
    <3>2. EventsBySlot(s) = {k \in 1..counter : events[k].slot = s}
      BY <1>2 DEF EventsBySlot
    <3>3. events'[id].slot # s  BY <1>3, <1>6, <1>13
    <3> QED  BY <1>5, <1>6, <3>1, <3>2, <3>3
  <2> QED  BY <1>9, <2>1, <2>2
<1>14. ASSUME NEW s \in Slots
       PROVE  LET ids == EventIDs(Heights[s])' IN
              /\ Range(ids) = {k \in EventsBySlot(s)' : k > LegacyEvents}
              /\ \A i, j \in DOMAIN ids : i < j => ids[i] < ids[j]
  <2> DEFINE old == EventIDs(Heights[s])
  <2>1. /\ Range(old) = {k \in EventsBySlot(s) : k > LegacyEvents}
        /\ \A i, j \in DOMAIN old : i < j => old[i] < old[j]
    BY DEF EventInv, IndexMatchesScan
  <2>2. CASE s # slot
    <3>1. EventIDs(Heights[s])' = old /\ EventsBySlot(s)' = EventsBySlot(s)
      BY <1>13, <2>2
    <3> QED  BY <2>1, <3>1
  <2>3. CASE s = slot
    <3>1. EventIDs(Heights[s])' = Append(old, id)
      BY <1>9, <2>3 DEF number
    <3>2. old \in Seq(1..counter)  BY <1>4
    <3>3. EventsBySlot(s)' = EventsBySlot(s) \cup {id}
      <4>1. EventsBySlot(s)' = {k \in 1..id : events'[k].slot = s}
        BY <1>6 DEF EventsBySlot
      <4>2. EventsBySlot(s) = {k \in 1..counter : events[k].slot = s}
        BY <1>2 DEF EventsBySlot
      <4>3. events'[id].slot = s  BY <1>3, <1>6, <2>3
      <4> QED  BY <1>5, <1>6, <4>1, <4>2, <4>3
    <3>4. id > LegacyEvents  BY <1>2, <1>5
    <3> HIDE DEF old
    <3>5. /\ Len(old) \in Nat /\ DOMAIN old = 1..Len(old)
          /\ DOMAIN Append(old, id) = 1..(Len(old) + 1)
          /\ Append(old, id)[Len(old) + 1] = id
          /\ \A i \in 1..Len(old) : Append(old, id)[i] = old[i] /\ old[i] \in 1..counter
      <4> DEFINE S == 1..counter
                 T == 1..id
      <4>1. S \subseteq T /\ id \in T /\ old \in Seq(S)  BY <1>5, <3>2
      <4> HIDE DEF S, T
      <4>2. /\ Len(old) \in Nat /\ DOMAIN old = 1..Len(old)
            /\ DOMAIN Append(old, id) = 1..(Len(old) + 1)
            /\ Append(old, id)[Len(old) + 1] = id
            /\ \A i \in 1..Len(old) : Append(old, id)[i] = old[i] /\ old[i] \in S
        BY <4>1, AppendFacts
      <4> QED  BY <4>2 DEF S
    <3>6. Range(Append(old, id)) = Range(old) \cup {id}
      <4>1. Range(Append(old, id)) = {Append(old, id)[i] : i \in 1..(Len(old) + 1)}
        BY <3>5 DEF Range
      <4>2. Range(old) = {old[i] : i \in 1..Len(old)}  BY <3>5 DEF Range
      <4>3. 1..(Len(old) + 1) = (1..Len(old)) \cup {Len(old) + 1}  BY <3>5
      <4> QED  BY <3>5, <4>1, <4>2, <4>3
    <3>7. Range(Append(old, id)) = {k \in EventsBySlot(s)' : k > LegacyEvents}
      BY <2>1, <3>3, <3>4, <3>6
    <3>8. ASSUME NEW i \in 1..(Len(old) + 1), NEW j \in 1..(Len(old) + 1), i < j
          PROVE  Append(old, id)[i] < Append(old, id)[j]
      <4>1. i \in 1..Len(old)  BY <3>5, <3>8
      <4>2. CASE j \in 1..Len(old)
        <5>1. old[i] < old[j]  BY <2>1, <3>5, <3>8, <4>1, <4>2
        <5> QED  BY <3>5, <4>1, <4>2, <5>1
      <4>3. CASE j = Len(old) + 1
        <5>1. old[i] \in 1..counter /\ Append(old, id)[i] = old[i]  BY <3>5, <4>1
        <5>2. old[i] < id  BY <1>2, <1>5, <5>1
        <5> QED  BY <3>5, <4>3, <5>1, <5>2
      <4> QED  BY <3>5, <4>2, <4>3
    <3> QED  BY <3>1, <3>5, <3>7, <3>8
  <2> QED  BY <2>2, <2>3
<1>15. IndexMatchesScan'  BY <1>14 DEF IndexMatchesScan
<1> QED  BY <1>12, <1>15 DEF EventInv

LEMMA EventQuiet ==
  ASSUME EventInv, UNCHANGED eventBuckets
  PROVE  EventInv'
BY DEF eventBuckets, EventInv, EventTypes, IndexMatchesScan, EventIDs, EventsBySlot

LEMMA EventNext == EventInv /\ [Next]_vars => EventInv'
<1> SUFFICES ASSUME EventInv, [Next]_vars PROVE EventInv'
  OBVIOUS
<1>1. CASE WriteEvent  BY <1>1, EventStep DEF WriteEvent
<1>2. CASE WriteBlock
  <2>1. UNCHANGED eventBuckets
    BY <1>2 DEF WriteBlock, StoreBlock, StoreLatestBlockPoint
  <2> QED  BY <2>1, EventQuiet
<1>3. CASE Lookup
  <2>1. UNCHANGED eventBuckets
    BY <1>3 DEF Lookup, LookupHead, LookupHash, LookupNumber
  <2> QED  BY <2>1, EventQuiet
<1>4. CASE UNCHANGED vars
  <2>1. UNCHANGED eventBuckets  BY <1>4 DEF vars
  <2> QED  BY <2>1, EventQuiet
<1> QED  BY <1>1, <1>2, <1>3, <1>4 DEF Next

(* Whatever events are stored in whatever order, and whatever an older     *)
(* version left, GetEventsByBlockNumber finds through the index what a     *)
(* scan by slot finds.                                                     *)
THEOREM IndexComplete == Spec => []IndexMatchesScan
<1>1. EventInv => IndexMatchesScan  BY DEF EventInv
<1> QED  BY EventInit, EventNext, <1>1, PTL DEF Spec

-----------------------------------------------------------------------------
(* Lookups.                                                                *)

(* The two block indexes agree, and a lookup under way stays at or below   *)
(* the recorded head, where no block is stored any more.                   *)
BlockInv ==
  /\ DOMAIN blocks \subseteq Slots
  /\ DOMAIN hashToNumber = DOMAIN blocks
  /\ \A s \in DOMAIN blocks : blocks[s] = Heights[s] /\ hashToNumber[s] = Heights[s]
  /\ point \in Slots \cup {0}
  /\ lookup \in [phase : Phases, slot : Nat, hash : Nat, number : Nat]
  /\ lookup.phase # "idle" => lookup.slot <= point
  /\ lookup.phase \in {"number", "done"} =>
       /\ lookup.hash \in StoredUpTo(lookup.slot)
       /\ \A s \in StoredUpTo(lookup.slot) : s <= lookup.hash
  /\ lookup.phase = "done" => lookup.number = Heights[lookup.hash]

LEMMA BlockInit == Init => BlockInv
<1> SUFFICES ASSUME Init PROVE BlockInv
  OBVIOUS
<1>1. /\ DOMAIN blocks = {} /\ DOMAIN hashToNumber = {} /\ point = 0
      /\ lookup = [phase |-> "idle", slot |-> 0, hash |-> 0, number |-> 0]
  BY DEF Init
<1> QED  BY <1>1 DEF BlockInv, Phases

LEMMA SlotsNat == Slots \subseteq Nat /\ \A s \in Slots : Heights[s] \in Nat
BY StoreAssumption

(* A block beyond the head does not change what a lookup under way sees.   *)
LEMMA StoreBlockStep ==
  ASSUME BlockInv, NEW slot \in Slots, StoreBlock(slot)
  PROVE  BlockInv'
<1>1. /\ slot > point
      /\ blocks' = Put(blocks, slot, Heights[slot])
      /\ hashToNumber' = Put(hashToNumber, slot, Heights[slot])
      /\ point' = point /\ lookup' = lookup
  BY DEF StoreBlock
<1>2. /\ DOMAIN blocks' = DOMAIN blocks \cup {slot}
      /\ DOMAIN hashToNumber' = DOMAIN hashToNumber \cup {slot}
      /\ blocks'[slot] = Heights[slot] /\ hashToNumber'[slot] = Heights[slot]
      /\ \A s \in DOMAIN blocks : s # slot => blocks'[s] = blocks[s]
      /\ \A s \in DOMAIN hashToNumber :
           s # slot => hashToNumber'[s] = hashToNumber[s]
  BY <1>1 DEF Put
<1>3. /\ DOMAIN blocks' \subseteq Slots
      /\ DOMAIN hashToNumber' = DOMAIN blocks'
      /\ \A s \in DOMAIN blocks' : blocks'[s] = Heights[s] /\ hashToNumber'[s] = Heights[s]
  BY <1>2 DEF BlockInv
<1>4. ASSUME lookup.phase # "idle"
      PROVE  StoredUpTo(lookup.slot)' = StoredUpTo(lookup.slot)
  <2>1. lookup.slot <= point /\ lookup.slot \in Nat /\ point \in Nat /\ slot \in Nat
    BY <1>4, SlotsNat DEF BlockInv
  <2>2. ~(slot <= lookup.slot)  BY <1>1, <2>1
  <2> QED  BY <1>1, <1>2, <2>2 DEF StoredUpTo
<1> QED  BY <1>1, <1>3, <1>4 DEF BlockInv

LEMMA PointStep ==
  ASSUME BlockInv, NEW slot \in Slots, StoreLatestBlockPoint(slot)
  PROVE  BlockInv'
<1>1. /\ slot > point /\ point' = slot
      /\ blocks' = blocks /\ hashToNumber' = hashToNumber /\ lookup' = lookup
  BY DEF StoreLatestBlockPoint
<1>2. lookup.slot \in Nat /\ point \in Nat /\ slot \in Nat
  BY SlotsNat DEF BlockInv
<1>3. lookup.phase # "idle" => lookup.slot <= point'
  BY <1>1, <1>2 DEF BlockInv
<1> QED  BY <1>1, <1>3 DEF BlockInv, StoredUpTo

LEMMA LookupStep ==
  ASSUME BlockInv, Lookup
  PROVE  BlockInv'
<1>1. blocks' = blocks /\ hashToNumber' = hashToNumber /\ point' = point
  BY DEF Lookup, LookupHead, LookupHash, LookupNumber, blockBuckets
<1>2. lookup \in [phase : Phases, slot : Nat, hash : Nat, number : Nat]
  BY DEF BlockInv
<1>3. CASE \E slot \in Slots : LookupHead(slot)
  <2>1. PICK slot \in Slots : LookupHead(slot)  BY <1>3
  <2>2. /\ slot <= point
        /\ lookup' = [phase |-> "search", slot |-> slot, hash |-> 0, number |-> 0]
    BY <2>1 DEF LookupHead
  <2>3. slot \in Nat  BY SlotsNat
  <2> QED  BY <1>1, <2>2, <2>3 DEF BlockInv, Phases
<1>4. CASE LookupHash /\ StoredUpTo(lookup.slot) = {}
  <2>1. lookup' = [lookup EXCEPT !.phase = "idle"]  BY <1>4 DEF LookupHash
  <2> QED  BY <1>1, <1>2, <2>1 DEF BlockInv, Phases
<1>5. CASE LookupHash /\ StoredUpTo(lookup.slot) # {}
  <2> DEFINE S == StoredUpTo(lookup.slot)
             h == Max(S)
  <2>1. lookup.phase = "search" /\ lookup' = [lookup EXCEPT !.phase = "number", !.hash = h]
    BY <1>5 DEF LookupHash
  <2>2. S \in SUBSET (0..lookup.slot) /\ lookup.slot \in Nat
    <3>1. lookup.slot \in Nat  BY <1>2
    <3>2. ASSUME NEW s \in S PROVE s \in 0..lookup.slot
      <4>1. s \in DOMAIN blocks /\ s <= lookup.slot  BY <3>2 DEF StoredUpTo
      <4>2. s \in Nat  BY <4>1, SlotsNat DEF BlockInv
      <4> QED  BY <3>1, <4>1, <4>2
    <3> QED  BY <3>1, <3>2
  <2>3. h \in S /\ \A s \in S : s <= h  BY <1>5, <2>2, MaxBounded
  <2>4. h \in Nat  BY <2>2, <2>3
  <2> HIDE DEF h
  <2>5. /\ lookup'.phase = "number" /\ lookup'.slot = lookup.slot /\ lookup'.hash = h
        /\ lookup' \in [phase : Phases, slot : Nat, hash : Nat, number : Nat]
    BY <1>2, <2>1, <2>4 DEF Phases
  <2>6. StoredUpTo(lookup.slot)' = S  BY <1>1, <2>5 DEF StoredUpTo
  <2>7. lookup.slot <= point  BY <2>1 DEF BlockInv
  <2> QED  BY <1>1, <2>3, <2>5, <2>6, <2>7 DEF BlockInv
<1>6. CASE LookupNumber
  <2>1. lookup.phase = "number" /\ lookup.hash \in StoredUpTo(lookup.slot)
    BY <1>6 DEF LookupNumber, BlockInv
  <2>2. lookup.hash \in DOMAIN hashToNumber /\ hashToNumber[lookup.hash] = Heights[lookup.hash]
    BY <2>1 DEF BlockInv, StoredUpTo
  <2>3. lookup' = [lookup EXCEPT !.phase = "done", !.number = hashToNumber[lookup.hash]]
    BY <1>6, <2>2 DEF LookupNumber
  <2>4. hashToNumber[lookup.hash] \in Nat
    BY <2>2, SlotsNat DEF BlockInv
  <2>5. /\ lookup'.phase = "done" /\ lookup'.slot = lookup.slot
        /\ lookup'.hash = lookup.hash /\ lookup'.number = Heights[lookup.hash]
        /\ lookup' \in [phase : Phases, slot : Nat, hash : Nat, number : Nat]
    BY <1>2, <2>2, <2>3, <2>4 DEF Phases
  <2>6. StoredUpTo(lookup.slot)' = StoredUpTo(lookup.slot)
    BY <1>1, <2>5 DEF StoredUpTo
  <2> QED  BY <1>1, <2>1, <2>5, <2>6 DEF BlockInv
<1> QED  BY <1>3, <1>4, <1>5, <1>6 DEF Lookup

LEMMA BlockQuiet ==
  ASSUME BlockInv, UNCHANGED <<blockBuckets, lookup>>
  PROVE  BlockInv'
BY DEF BlockInv, blockBuckets, StoredUpTo

LEMMA BlockNext == BlockInv /\ [Next]_vars => BlockInv'
<1> SUFFICES ASSUME BlockInv, [Next]_vars PROVE BlockInv'
  OBVIOUS
<1>1. CASE WriteEvent
  <2>1. UNCHANGED <<blockBuckets, lookup>>  BY <1>1 DEF WriteEvent, StoreEvent
  <2> QED  BY <2>1, BlockQuiet
<1>2. CASE WriteBlock  BY <1>2, StoreBlockStep, PointStep DEF WriteBlock
<1>3. CASE Lookup  BY <1>3, LookupStep
<1>4. CASE UNCHANGED vars
  <2>1. UNCHANGED <<blockBuckets, lookup>>  BY <1>4 DEF vars
  <2> QED  BY <2>1, BlockQuiet
<1> QED  BY <1>1, <1>2, <1>3, <1>4 DEF Next

(* However the refresher's writes fall between the transactions of         *)
(* GetBlockhashBySlot and GetBlockNumberByBlockhash, the consumer gets the *)
(* hash and the number of one block, the last stored at or before its slot.*)
THEOREM LookupsConsistent == Spec => []LookupConsistent
<1>1. BlockInv => LookupConsistent
  BY DEF BlockInv, LookupConsistent, StoredUpTo
<1> QED  BY BlockInit, BlockNext, <1>1, PTL DEF Spec

-----------------------------------------------------------------------------
(* The buckets and the lookup keep their types; in particular every ID in  *)
(* the index has a record, so GetEventsByBlockNumber never misses one.     *)
THEOREM StoreTypeCorrect == Spec => []TypeOK
<1>1. EventInv /\ BlockInv => TypeOK
  BY SlotsNat DEF EventInv, EventTypes, BlockInv, TypeOK
<1> QED  BY EventInit, EventNext, BlockInit, BlockNext, <1>1, PTL DEF Spec
=============================================================================
