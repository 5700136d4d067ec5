------------------------------ MODULE TxPolling ------------------------------
(***************************************************************************)
(* The transaction polling loop of the event tracker (tracker/tracker.go,  *)
(* runTransactionPolling) over its persistent store and an RPC node.       *)
(*                                                                         *)
(* One goroutine alternates between listing new signatures of the tracked  *)
(* programs into a persistent queue and draining that queue one            *)
(* transaction at a time.  Every RPC call and every store transaction is   *)
(* a step of its own: the chain grows between two calls, a call or a write *)
(* fails, and the process stops and restarts between any two of them.      *)
(*                                                                         *)
(* A transaction is its position on the chain, 1..NumTxs; 0 stands for the *)
(* zero signature.  The RPC node lists signatures newest first, so a       *)
(* listing is represented by the set of its members.                       *)
(***************************************************************************)
EXTENDS Integers, Sequences, FiniteSets, FiniteSetsExt

CONSTANTS
  TrackedPrograms, \* addresses whose signatures are listed
  NumTxs,          \* number of transactions the chain ever holds (bound)
  MaxSlot,         \* last slot the chain ever reaches (bound)
  Ledgers,         \* the chains considered, functions from Tx to TxRecord
  Height,          \* block height of the block at a slot
  StartFromSlot,   \* EventTrackerConfig.StartFromSlot
  MaxLimit,        \* getSignaturesForAddressMaxLimit
  Commitment,      \* "finalized" or "confirmed"
  Faults,          \* kinds of fault that may happen
  MaxFaults        \* how many of them (bound)

Tx == 1..NumTxs
NoTx == 0
TxOrNone == 0..NumTxs

(* What a transaction's metadata decides: it ran, it was reverted          *)
(* (Meta.Err), or its inner instructions were not recorded.                *)
Status == {"ok", "reverted", "unrecorded"}

(* emits counts the tracked events among the inner instructions that parse *)
(* and, for TransactionExecutedEvent, whose batch payload is found: the    *)
(* other ones are passed over without any effect.                          *)
TxRecord == [slot : 1..MaxSlot, programs : SUBSET TrackedPrograms,
             status : Status, emits : Nat]

ASSUME BoundsAssumption ==
  /\ NumTxs \in Nat
  /\ MaxSlot \in Nat
  /\ MaxFaults \in Nat

ASSUME ConfigAssumption ==
  /\ StartFromSlot \in Nat
  /\ MaxLimit \in Nat \ {0}
  /\ Commitment \in {"finalized", "confirmed"}
  /\ Faults \subseteq {"rpc", "cursor", "write", "crash"}
  /\ TrackedPrograms # {}

ASSUME LedgerAssumption ==
  \A l \in Ledgers :
    /\ l \in [Tx -> TxRecord]
    /\ \A t, u \in Tx : t < u => l[t].slot <= l[u].slot

ASSUME HeightAssumption ==
  /\ Height \in [0..MaxSlot -> Nat]
  /\ \A s, u \in 0..MaxSlot : s < u => Height[s] < Height[u]

VARIABLES
  ledger,          \* the chain, chosen once; tip says how much of it exists
  tip,             \* newest slot at the tracker's commitment
  finalized,       \* newest finalized slot
  queue,           \* unprocessed transactions, front first
  lastProcessed,   \* the last processed transaction
  lastQueried,     \* the latest queried transaction: the cursor
  finalizedNumber, \* the latest finalized block number
  stored,          \* stored event records; a record's ID is its index
  pc,              \* where the polling goroutine is
  todo,            \* tracked programs the current pass has not queried yet
  program,         \* program being queried
  cursor,          \* lastQueried as read at the start of the pass
  height,          \* finalized height read before the listing
  sigs,            \* signatures listed so far
  lost,            \* the node did not know the cursor
  newest,          \* transaction the cursor is about to move to
  next,            \* next event of the transaction being processed
  delivered,       \* every AddEvent call that returned, in order (history)
  faults           \* faults so far

chain == <<ledger, tip, finalized>>
txState == <<queue, lastProcessed, lastQueried>>
listing == <<todo, program, cursor, height, sigs, lost, newest>>
vars == <<chain, txState, finalizedNumber, stored, pc, listing, next,
          delivered, faults>>

(* The event records and notifications, as <<transaction, event number>>.  *)
EventId == Tx \X Nat

PcValues == {"pass", "program", "signatures", "page", "enqueue", "cursor",
             "fetch", "block", "deliver", "record", "finish"}

TypeOK ==
  /\ ledger \in Ledgers
  /\ tip \in 0..MaxSlot
  /\ finalized \in 0..tip
  /\ queue \in Seq(Tx)
  /\ lastProcessed \in TxOrNone
  /\ lastQueried \in TxOrNone
  /\ finalizedNumber \in Nat
  /\ stored \in Seq(EventId)
  /\ pc \in PcValues
  /\ todo \subseteq TrackedPrograms
  /\ program \in TrackedPrograms
  /\ cursor \in TxOrNone
  /\ height \in Nat
  /\ sigs \subseteq Tx
  /\ lost \in BOOLEAN
  /\ newest \in TxOrNone
  /\ next \in Nat
  /\ delivered \in Seq(EventId)
  /\ faults \in 0..MaxFaults

-----------------------------------------------------------------------------
(* Sets of positions as listings.                                          *)

(* The first page of a listing of S: its n newest members.                 *)
Newest(n, S) == {t \in S : Cardinality({u \in S : u > t}) < n}

(* Mutant: the listing is queued in the order it is returned.              *)
NewestFirst(S) ==
  [i \in 1..Cardinality(S) |->
     CHOOSE t \in S : Cardinality({u \in S : u >= t}) = i]

(* The members of S, oldest first.                                         *)
OldestFirst(S) ==
  [i \in 1..Cardinality(S) |->
     CHOOSE t \in S : Cardinality({u \in S : u <= t}) = i]

(* The slot recorded in a TxPoint; the zero TxPoint has slot 0.            *)
SlotOf(t) == IF t = NoTx THEN 0 ELSE ledger[t].slot

(* What the RPC node lists for p: everything at the tracker's commitment   *)
(* after the until position and before the before position.                *)
Listed(p, until, before) ==
  {t \in Tx : /\ p \in ledger[t].programs
              /\ ledger[t].slot <= tip
              /\ until < t /\ t < before}

(* Mutant: the records of the cursor's slot are not consulted.             *)
QueuedOnly == Range(queue) \cup ({lastProcessed} \ {NoTx})

(* Mutant: the last processed transaction is not remembered.               *)
QueuedOrStored ==
  Range(queue)
    \cup {t \in {e[1] : e \in Range(stored)} : SlotOf(t) = SlotOf(cursor)}

(* getQueuedTxSignatures: what a listing must not queue again.             *)
Queued ==
  Range(queue)
    \cup {t \in {e[1] : e \in Range(stored)} : SlotOf(t) = SlotOf(cursor)}
    \cup ({lastProcessed} \ {NoTx})

Fresh == sigs \ Queued

(* On the first run, transactions before the start slot are skipped.       *)
ToPush ==
  IF cursor = NoTx THEN {t \in Fresh : SlotOf(t) >= StartFromSlot} ELSE Fresh

Init ==
  /\ ledger \in Ledgers
  /\ tip \in 0..MaxSlot
  /\ finalized \in 0..tip
  /\ Commitment = "finalized" => finalized = tip
  /\ queue = <<>>
  /\ lastProcessed = NoTx
  /\ lastQueried = NoTx
  /\ finalizedNumber = 0
  /\ stored = <<>>
  /\ pc = "pass"
  /\ todo = {}
  /\ program \in TrackedPrograms
  /\ cursor = NoTx
  /\ height = 0
  /\ sigs = {}
  /\ lost = FALSE
  /\ newest = NoTx
  /\ next = 1
  /\ delivered = <<>>
  /\ faults = 0

-----------------------------------------------------------------------------
(* The chain: blocks become visible, then final.                           *)

NewBlock ==
  /\ tip < MaxSlot
  /\ tip' = tip + 1
  /\ finalized' = IF Commitment = "finalized" THEN tip + 1 ELSE finalized
  /\ UNCHANGED <<ledger, txState, finalizedNumber, stored, pc, listing, next,
                 delivered, faults>>

FinalizeBlock ==
  /\ finalized < tip
  /\ finalized' = finalized + 1
  /\ UNCHANGED <<ledger, tip, txState, finalizedNumber, stored, pc, listing,
                 next, delivered, faults>>

-----------------------------------------------------------------------------
(* runTransactionPolling.                                                  *)

(* Leave the query of the current program for the next one of the pass, or *)
(* end the pass.                                                           *)
NextProgram(rest) ==
  /\ pc' = IF rest = {} THEN "pass" ELSE "program"
  /\ todo' = rest
  /\ cursor' = IF rest = {} THEN NoTx ELSE cursor
  /\ height' = 0
  /\ sigs' = {}
  /\ lost' = FALSE
  /\ newest' = NoTx
  /\ UNCHANGED program

(* Queued work first: nothing new is listed while the markers differ.      *)
StartProcessing ==
  /\ pc = "pass"
  /\ lastQueried # lastProcessed
  /\ pc' = "fetch"
  /\ UNCHANGED <<chain, txState, finalizedNumber, stored, listing, next,
                 delivered, faults>>

(* Mutant: new signatures are listed before the queue is drained.          *)
StartQueryingEarly ==
  /\ pc = "pass"
  /\ pc' = "program"
  /\ todo' = TrackedPrograms
  /\ cursor' = lastQueried
  /\ UNCHANGED <<chain, txState, finalizedNumber, stored, program, height,
                 sigs, lost, newest, next, delivered, faults>>

(* One lastQueried is read for all the programs of the pass.               *)
StartQuerying ==
  /\ pc = "pass"
  /\ lastQueried = lastProcessed
  /\ pc' = "program"
  /\ todo' = TrackedPrograms
  /\ cursor' = lastQueried
  /\ UNCHANGED <<chain, txState, finalizedNumber, stored, program, height,
                 sigs, lost, newest, next, delivered, faults>>

-----------------------------------------------------------------------------
(* fetchNextGetSignaturesForAddress.                                       *)

QueryHeight ==
  /\ pc = "program"
  /\ \E p \in todo :
       /\ program' = p
       /\ todo' = todo \ {p}
  /\ height' = Height[finalized]
  /\ pc' = "signatures"
  /\ UNCHANGED <<chain, txState, finalizedNumber, stored, cursor, sigs, lost,
                 newest, next, delivered, faults>>

(* Mutant: the listing includes the signature it stops at.                 *)
QuerySignaturesInclusive ==
  LET page == Newest(MaxLimit, Listed(program, cursor, NumTxs + 1)) IN
  /\ pc = "signatures"
  /\ sigs' = page \cup {cursor}
  /\ pc' = IF Cardinality(page) = MaxLimit THEN "page" ELSE "enqueue"
  /\ UNCHANGED <<chain, txState, finalizedNumber, stored, todo, program,
                 cursor, height, lost, newest, next, delivered, faults>>

(* signaturesForAddressFetcher, the cursor being known to the node.        *)
QuerySignatures ==
  LET page == Newest(MaxLimit, Listed(program, cursor, NumTxs + 1)) IN
  /\ pc = "signatures"
  /\ sigs' = page
  /\ pc' = IF Cardinality(page) = MaxLimit THEN "page" ELSE "enqueue"
  /\ UNCHANGED <<chain, txState, finalizedNumber, stored, todo, program,
                 cursor, height, lost, newest, next, delivered, faults>>

(* Mutant: only one more page is fetched.                                  *)
QueryPageOnce ==
  /\ pc = "page"
  /\ sigs' = sigs \cup Newest(MaxLimit,
               Listed(program, IF lost THEN NoTx ELSE cursor, Min(sigs)))
  /\ pc' = "enqueue"
  /\ UNCHANGED <<chain, txState, finalizedNumber, stored, todo, program,
                 cursor, height, lost, newest, next, delivered, faults>>

(* catchUpLoop: page backwards from the oldest signature seen; after a     *)
(* lost cursor, back to its slot.                                          *)
QueryPage ==
  LET page == Newest(MaxLimit,
                Listed(program, IF lost THEN NoTx ELSE cursor, Min(sigs)))
      kept == IF lost
                THEN {t \in page : SlotOf(t) >= SlotOf(cursor)}
                ELSE page
  IN
  /\ pc = "page"
  /\ sigs' = sigs \cup kept
  /\ pc' = IF Cardinality(kept) < MaxLimit THEN "enqueue" ELSE "page"
  /\ UNCHANGED <<chain, txState, finalizedNumber, stored, todo, program,
                 cursor, height, lost, newest, next, delivered, faults>>

(* Mutant: the finalized height is read after the listing.                 *)
NothingNewLateHeight ==
  /\ pc = "enqueue"
  /\ Fresh = {}
  /\ finalizedNumber' = Height[finalized]
  /\ NextProgram(todo)
  /\ UNCHANGED <<chain, txState, stored, next, delivered, faults>>

(* Mutant: an empty listing leaves the finalized block number alone.       *)
NothingNewNoStore ==
  /\ pc = "enqueue"
  /\ Fresh = {}
  /\ NextProgram(todo)
  /\ UNCHANGED <<chain, txState, finalizedNumber, stored, next, delivered,
                 faults>>

(* Everything listed is known: record the finalized height.                *)
NothingNew ==
  /\ pc = "enqueue"
  /\ Fresh = {}
  /\ finalizedNumber' = height
  /\ NextProgram(todo)
  /\ UNCHANGED <<chain, txState, stored, next, delivered, faults>>

(* Everything new is before the start slot: mark the newest processed,     *)
(* then (StoreCursor) queried.                                             *)
SkipHistory ==
  /\ pc = "enqueue"
  /\ Fresh # {}
  /\ ToPush = {}
  /\ lastProcessed' = Max(Fresh)
  /\ newest' = Max(Fresh)
  /\ pc' = "cursor"
  /\ UNCHANGED <<chain, queue, lastQueried, finalizedNumber, stored, todo,
                 program, cursor, height, sigs, lost, next, delivered, faults>>

(* PushUnprocessedTransactions, oldest first.                              *)
PushNew ==
  /\ pc = "enqueue"
  /\ ToPush # {}
  /\ queue' = queue \o OldestFirst(ToPush)
  /\ newest' = Max(ToPush)
  /\ pc' = "cursor"
  /\ UNCHANGED <<chain, lastProcessed, lastQueried, finalizedNumber, stored,
                 todo, program, cursor, height, sigs, lost, next, delivered,
                 faults>>

(* StoreLatestQueriedTransaction, a store transaction of its own.          *)
StoreCursor ==
  /\ pc = "cursor"
  /\ lastQueried' = newest
  /\ NextProgram(todo)
  /\ UNCHANGED <<chain, queue, lastProcessed, finalizedNumber, stored, next,
                 delivered, faults>>

-----------------------------------------------------------------------------
(* fetchNextGetFullTxBySignature.                                          *)

(* Mutant: the transaction leaves the queue without being marked.          *)
FinalizeUnmarked ==
  /\ queue' = Tail(queue)
  /\ pc' = "pass"
  /\ next' = 1
  /\ UNCHANGED <<chain, lastProcessed, lastQueried, finalizedNumber, stored,
                 listing, delivered, faults>>

(* FinalizeProcessedTransaction: pop the front and mark it processed.      *)
Finalize ==
  /\ queue' = Tail(queue)
  /\ lastProcessed' = Head(queue)
  /\ pc' = "pass"
  /\ next' = 1
  /\ UNCHANGED <<chain, lastQueried, finalizedNumber, stored, listing,
                 delivered, faults>>

QueueDrained ==
  /\ pc = "fetch"
  /\ queue = <<>>
  /\ pc' = "pass"
  /\ UNCHANGED <<chain, txState, finalizedNumber, stored, listing, next,
                 delivered, faults>>

(* Events are only delivered for a transaction that ran, whose inner       *)
(* instructions were recorded, and that was not processed last.            *)
HasEvents == Head(queue) # lastProcessed /\ ledger[Head(queue)].status = "ok"

(* The front is finalized without its events: dropped because it was       *)
(* queued again after it was processed, or fetched and passed over.        *)
SkipTx ==
  /\ pc = "fetch"
  /\ queue # <<>>
  /\ ~HasEvents
  /\ Finalize

FetchTx ==
  /\ pc = "fetch"
  /\ queue # <<>>
  /\ HasEvents
  /\ pc' = IF ledger[Head(queue)].emits = 0 THEN "finish" ELSE "block"
  /\ UNCHANGED <<chain, txState, finalizedNumber, stored, listing, next,
                 delivered, faults>>

(* The event's block is fetched and its height stored before delivery.     *)
StoreBlockNumber ==
  /\ pc = "block"
  /\ finalizedNumber' = Height[ledger[Head(queue)].slot]
  /\ pc' = "deliver"
  /\ UNCHANGED <<chain, txState, stored, listing, next, delivered, faults>>

AddEvent ==
  /\ pc = "deliver"
  /\ delivered' = Append(delivered, <<Head(queue), next>>)
  /\ pc' = "record"
  /\ UNCHANGED <<chain, txState, finalizedNumber, stored, listing, next,
                 faults>>

StoreEvent ==
  /\ pc = "record"
  /\ stored' = Append(stored, <<Head(queue), next>>)
  /\ next' = next + 1
  /\ pc' = IF next < ledger[Head(queue)].emits THEN "block" ELSE "finish"
  /\ UNCHANGED <<chain, txState, finalizedNumber, listing, delivered, faults>>

FinishTx ==
  /\ pc = "finish"
  /\ Finalize

-----------------------------------------------------------------------------
(* Faults.                                                                 *)

Fault(kind) ==
  /\ kind \in Faults
  /\ faults < MaxFaults
  /\ faults' = faults + 1

(* getBlockHeight fails: the program is left out of this pass.             *)
HeightFails ==
  /\ pc = "program"
  /\ Fault("rpc")
  /\ \E p \in todo : NextProgram(todo \ {p})
  /\ UNCHANGED <<chain, txState, finalizedNumber, stored, next, delivered>>

(* A listing call fails, or a page fails ten times, or a store transaction *)
(* fails: the rest of the handler is abandoned.                            *)
QueryFails ==
  /\ \/ pc \in {"signatures", "page"} /\ Fault("rpc")
     \/ pc \in {"enqueue", "cursor"} /\ Fault("write")
  /\ NextProgram(todo)
  /\ UNCHANGED <<chain, txState, finalizedNumber, stored, next, delivered>>

(* Mutant: the fallback keeps what is older than the cursor's slot.        *)
CursorNotFoundUnfiltered ==
  LET page == Newest(MaxLimit, Listed(program, NoTx, NumTxs + 1)) IN
  /\ pc = "signatures"
  /\ cursor # NoTx
  /\ Fault("cursor")
  /\ lost' = TRUE
  /\ sigs' = page
  /\ pc' = IF Cardinality(page) = MaxLimit THEN "page" ELSE "enqueue"
  /\ UNCHANGED <<chain, txState, finalizedNumber, stored, todo, program,
                 cursor, height, newest, next, delivered>>

(* The node does not know the cursor (error -32020): list without it and   *)
(* keep what is not older than its slot.                                   *)
CursorNotFound ==
  LET page == Newest(MaxLimit, Listed(program, NoTx, NumTxs + 1))
      kept == {t \in page : SlotOf(t) >= SlotOf(cursor)}
  IN
  /\ pc = "signatures"
  /\ cursor # NoTx
  /\ Fault("cursor")
  /\ lost' = TRUE
  /\ sigs' = kept
  /\ pc' = IF Cardinality(kept) = MaxLimit THEN "page" ELSE "enqueue"
  /\ UNCHANGED <<chain, txState, finalizedNumber, stored, todo, program,
                 cursor, height, newest, next, delivered>>

(* Mutant: a transaction that cannot be processed is given up.             *)
ProcessFailsDropped ==
  /\ pc = "fetch" => queue # <<>>
  /\ pc \in {"fetch", "block"}
  /\ Fault("rpc")
  /\ queue' = Tail(queue)
  /\ lastProcessed' = Head(queue)
  /\ pc' = "pass"
  /\ next' = 1
  /\ UNCHANGED <<chain, lastQueried, finalizedNumber, stored, listing,
                 delivered>>

(* An RPC call, a store transaction or the subscriber fails while a        *)
(* transaction is processed: the next pass starts it over.                 *)
ProcessFails ==
  /\ pc = "fetch" => queue # <<>>
  /\ \/ pc \in {"fetch", "block"} /\ Fault("rpc")
     \/ pc \in {"fetch", "block", "deliver", "record", "finish"}
          /\ Fault("write")
  /\ pc' = "pass"
  /\ next' = 1
  /\ UNCHANGED <<chain, txState, finalizedNumber, stored, listing, delivered>>

(* The process stops, or its context is cancelled, and a new one starts    *)
(* from what the store holds.                                              *)
Crash ==
  /\ pc # "pass"
  /\ Fault("crash")
  /\ NextProgram({})
  /\ next' = 1
  /\ UNCHANGED <<chain, txState, finalizedNumber, stored, delivered>>

-----------------------------------------------------------------------------
Environment == NewBlock \/ FinalizeBlock

Query ==
  \/ StartQuerying \/ QueryHeight \/ QuerySignatures \/ QueryPage
  \/ NothingNew \/ SkipHistory \/ PushNew \/ StoreCursor

Process ==
  \/ StartProcessing \/ QueueDrained \/ SkipTx \/ FetchTx
  \/ StoreBlockNumber \/ AddEvent \/ StoreEvent \/ FinishTx

Failure ==
  HeightFails \/ QueryFails \/ CursorNotFound \/ ProcessFails \/ Crash

Next == Environment \/ Query \/ Process \/ Failure

Spec == Init /\ [][Next]_vars

(* The goroutine never stops polling (the loop has no other exit than its  *)
(* context), so it always takes its next step; faults are not fair.        *)
FairSpec == Spec /\ WF_vars(Query \/ Process)

-----------------------------------------------------------------------------
(* What the loop promises.                                                 *)

(* The events of t that reach the subscriber when t is processed.          *)
Deliverable(t) == IF ledger[t].status = "ok" THEN ledger[t].emits ELSE 0

(* The transactions the tracker owes its subscriber.                       *)
Due(t) == ledger[t].slot >= StartFromSlot

Delivered(t) ==
  \A k \in 1..Deliverable(t) : <<t, k>> \in Range(delivered)

(* The cursor never moves past an owed transaction that is neither queued  *)
(* nor fully delivered, whatever fails in between: listing by pages, the   *)
(* fallback for a lost cursor, the filter of known signatures and the two  *)
(* separate writes of queue and cursor lose nothing.                       *)
NoEventLost ==
  \A t \in Tx :
    t <= lastQueried /\ Due(t) => t \in Range(queue) \/ Delivered(t)

(* A transaction waits in the queue once, and the last processed one does  *)
(* not wait at all, whichever way it was listed: the front of the queue is *)
(* always work still to be done.                                           *)
QueuedOnce ==
  /\ \A i, j \in DOMAIN queue : i # j => queue[i] # queue[j]
  /\ lastProcessed \notin Range(queue)

(* No event is handed to the subscriber twice.                             *)
NoRepeat ==
  \A i, j \in DOMAIN delivered : i # j => delivered[i] # delivered[j]

Recorded(t) ==
  \A k \in 1..Deliverable(t) : <<t, k>> \in Range(stored)

(* Every owed event in a block below the recorded finalized block number   *)
(* is in the store (and was delivered before), so a reader that stops      *)
(* short of that number misses nothing.                                    *)
FinalizedWorkDone ==
  \A t \in Tx :
    Due(t) /\ Height[ledger[t].slot] < finalizedNumber => Recorded(t)

(* Between passes the two markers differ exactly when transactions are     *)
(* queued, which is what runTransactionPolling reads into them.            *)
MarkersTellBacklog ==
  pc = "pass" => (lastQueried # lastProcessed <=> queue # <<>>)

(* The cursor never returns to an earlier slot.                            *)
CursorSlotAdvances == [][SlotOf(lastQueried') >= SlotOf(lastQueried)]_vars

(* The recorded finalized block number never goes back.                    *)
FinalizedNumberAdvances == [][finalizedNumber' >= finalizedNumber]_vars

(* Every owed event on the chain is eventually delivered.                  *)
EventuallyDelivered ==
  \A t \in Tx : (Due(t) /\ ledger[t].slot <= tip) ~> Delivered(t)

(* Once the chain stands still, the finalized block number reaches it.     *)
FinalizedNumberCatchesUp ==
  (finalized = MaxSlot) ~> (finalizedNumber = Height[MaxSlot])

(* The loop lists new signatures again and again.                          *)
KeepsListing == []<>(pc = "signatures")

(* Owed events on the chain so far, and those that reached the subscriber. *)
Published ==
  UNION {{<<t, k>> : k \in 1..Deliverable(t)} :
            t \in {u \in Tx : Due(u) /\ ledger[u].slot <= tip}}

Feed == INSTANCE EventFeed
          WITH published <- Published,
               received <- Range(delivered) \cap Published

(* The loop implements the ordered feed: the first delivery of each owed   *)
(* event comes after that of every older one, with no gap.                 *)
DeliversInOrder == Feed!Spec
=============================================================================
