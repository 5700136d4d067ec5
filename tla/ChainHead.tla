------------------------------ MODULE ChainHead ------------------------------
(***************************************************************************)
(* The chain head refresher of the event tracker (tracker/tracker.go,      *)
(* runChainHeadRefresh): one goroutine that walks the chain in windows of  *)
(* slots, stores the blocks at the rounding boundaries, and records the    *)
(* latest one as the chain head.  The store resolves a slot to the last    *)
(* stored block at or before it (GetBlockhashBySlot).                      *)
(*                                                                         *)
(* Every RPC call and every store transaction is a step of its own.  The   *)
(* waits between two refreshes are not modelled: the chain may advance by  *)
(* any number of slots, or by none, between two calls.  A failing          *)
(* getBlocks changes nothing.                                              *)
(***************************************************************************)
EXTENDS Integers, FiniteSets, FiniteSetsExt

CONSTANTS
  MaxSlot,       \* last slot the chain ever reaches (bound)
  Chains,        \* the chains considered: sets of slots with a block
  StartFromSlot, \* EventTrackerConfig.StartFromSlot
  Threshold,     \* blockRoundingThreshold
  Offset,        \* chainHeadSlotOffset
  Target,        \* chainHeadTargetBlockCount
  Faults,        \* kinds of fault that may happen
  MaxFaults      \* how many of them (bound)

Backoff == 3 \* emptySlotsWithBlocksBackoff

ASSUME BoundsAssumption ==
  /\ MaxSlot \in Nat
  /\ MaxFaults \in Nat
  /\ Chains \subseteq SUBSET (1..MaxSlot)

(* NewEventTracker rejects the other configurations.                       *)
ASSUME ConfigAssumption ==
  /\ StartFromSlot \in Nat
  /\ Threshold \in Nat \ {0}
  /\ Offset \in Nat
  /\ Target \in Nat
  /\ Backoff < Target /\ Target <= Offset
  /\ Faults \subseteq {"fetch", "slot", "point", "crash"}

VARIABLES
  blocks,        \* the chain, chosen once: slots that have a block
  tip,           \* slot the chain has advanced to
  stored,        \* slots whose block is in the store
  point,         \* slot of the latest block point, 0 if none
  chainHeadSlot, \* the head in memory
  latest,        \* latestGetBlocksState: the window seen last
  pc,            \* where the goroutine is
  window,        \* slots with blocks returned by getBlocks
  pending,       \* slots of the window still to be stored
  bp,            \* slot stored last in this refresh, 0 if none
  faults         \* faults so far

chain == <<blocks, tip>>
refresh == <<pc, window, pending, bp>>
vars == <<chain, stored, point, chainHeadSlot, latest, refresh, faults>>

WindowState == [slot : Nat, len : Nat]

TypeOK ==
  /\ blocks \in Chains
  /\ tip \in 0..MaxSlot
  /\ stored \subseteq blocks
  /\ point \in 0..MaxSlot
  /\ chainHeadSlot \in Nat
  /\ latest \in WindowState
  /\ pc \in {"refresh", "unstick", "blocks"}
  /\ window \subseteq blocks
  /\ pending \subseteq window
  /\ bp \in 0..MaxSlot
  /\ faults \in 0..MaxFaults

(* Mutant: the boundary slots themselves are asked for, block or not.      *)
BoundarySlots(W) ==
  {s \in 1..MaxSlot : s % Threshold = 0 /\ \E u \in W : s <= u}

(* Mutant: a slot on the boundary does not stand for itself.               *)
SlotsBeforeBoundary(W) ==
  {s \in W : \E u \in W : /\ s < u
                          /\ \A v \in W : ~(s < v /\ v < u)
                          /\ u \div Threshold # s \div Threshold}

(* Mutant: a boundary without a block is passed over.                      *)
SlotsOnBoundary(W) == {s \in W : s % Threshold = 0}

(* getSlotsToQueryBlocks: the slots on a boundary, and the last one before *)
(* a boundary unless the next one is on a boundary itself.                 *)
SlotsToQuery(W) ==
  {s \in W : \/ s % Threshold = 0
             \/ \E u \in W : /\ s < u
                             /\ \A v \in W : ~(s < v /\ v < u)
                             /\ u \div Threshold # s \div Threshold
                             /\ u % Threshold # 0}

(* What getBlocks returns for the window at the head.                      *)
SlotsWithBlocks ==
  {s \in blocks : /\ chainHeadSlot <= s
                  /\ s <= chainHeadSlot + Offset
                  /\ s <= tip}

Seen == [slot |-> chainHeadSlot, len |-> Cardinality(SlotsWithBlocks)]

(* NewEventTracker and initialize.                                         *)
Start(head) ==
  /\ chainHeadSlot' = head
  /\ latest' = [slot |-> StartFromSlot, len |-> 0]

Init ==
  /\ blocks \in Chains
  /\ tip \in 0..MaxSlot
  /\ stored = {}
  /\ point = 0
  /\ chainHeadSlot = StartFromSlot
  /\ latest = [slot |-> StartFromSlot, len |-> 0]
  /\ pc = "refresh"
  /\ window = {}
  /\ pending = {}
  /\ bp = 0
  /\ faults = 0

-----------------------------------------------------------------------------
(* The chain advances by a slot, with or without a block in it.            *)
NewSlot ==
  /\ tip < MaxSlot
  /\ tip' = tip + 1
  /\ UNCHANGED <<blocks, stored, point, chainHeadSlot, latest, refresh, faults>>

-----------------------------------------------------------------------------
(* refreshChainHead.                                                       *)

Return ==
  /\ pc' = "refresh"
  /\ window' = {}
  /\ pending' = {}
  /\ bp' = 0

(* getBlocks answers with a window not seen before.                        *)
GetBlocks ==
  /\ pc = "refresh"
  /\ Seen # latest
  /\ latest' = Seen
  /\ window' = SlotsWithBlocks
  /\ pending' = SlotsToQuery(SlotsWithBlocks)
  /\ pc' = IF SlotsWithBlocks = {} THEN "refresh" ELSE "blocks"
  /\ UNCHANGED <<chain, stored, point, chainHeadSlot, bp, faults>>

(* Mutant: an unchanged window is simply asked for again.                  *)
GetBlocksForever ==
  /\ pc = "refresh"
  /\ Seen = latest
  /\ UNCHANGED vars

(* getBlocks answers with the window of the last refresh.                  *)
GetSameBlocks ==
  /\ pc = "refresh"
  /\ Seen = latest
  /\ window' = SlotsWithBlocks
  /\ pc' = "unstick"
  /\ UNCHANGED <<chain, stored, point, chainHeadSlot, latest, pending, bp,
                 faults>>

(* The slot the head is on is passed over.                                 *)
SkipHead ==
  /\ pc = "blocks"
  /\ pending # {}
  /\ Min(pending) = chainHeadSlot
  /\ pending' = pending \ {Min(pending)}
  /\ UNCHANGED <<chain, stored, point, chainHeadSlot, latest, pc, window, bp,
                 faults>>

(* getBlock and StoreBlock; the head moves in memory.                      *)
StoreBlock ==
  /\ pc = "blocks"
  /\ pending # {}
  /\ Min(pending) # chainHeadSlot
  /\ stored' = stored \cup {Min(pending)}
  /\ chainHeadSlot' = Min(pending)
  /\ bp' = Min(pending)
  /\ pending' = pending \ {Min(pending)}
  /\ UNCHANGED <<chain, point, latest, pc, window, faults>>

(* StoreLatestBlockPoint, once for the window.                             *)
StoreLatestBlockPoint ==
  /\ pc = "blocks"
  /\ pending = {}
  /\ point' = IF bp > 0 THEN bp ELSE point
  /\ Return
  /\ UNCHANGED <<chain, stored, chainHeadSlot, latest, faults>>

-----------------------------------------------------------------------------
(* unstickChainHead.                                                       *)

ForceAdvance(slot) ==
  /\ chainHeadSlot' = slot
  /\ latest' = [slot |-> slot, len |-> 0]
  /\ Return
  /\ UNCHANGED <<chain, stored, point, faults>>

ResumeAtLast ==
  /\ pc = "unstick"
  /\ Cardinality(window) > 1
  /\ ForceAdvance(Max(window))

(* Mutant: the current slot is not asked for.                              *)
StepOverGapBlindly ==
  /\ pc = "unstick"
  /\ Cardinality(window) <= 1
  /\ ForceAdvance(chainHeadSlot + Target - Backoff)

(* getSlot says whether the chain is past the slot to jump to.             *)
StepOverGap ==
  /\ pc = "unstick"
  /\ Cardinality(window) <= 1
  /\ LET slot == chainHeadSlot + Target - Backoff IN
     ForceAdvance(IF slot > tip THEN chainHeadSlot ELSE slot)

-----------------------------------------------------------------------------
(* Faults.                                                                 *)

Fault(kind) ==
  /\ kind \in Faults
  /\ faults < MaxFaults
  /\ faults' = faults + 1

(* A block cannot be fetched (ten times) or stored: the refresh returns    *)
(* without recording the head it may have moved.                           *)
FetchFails ==
  /\ pc = "blocks"
  /\ pending # {}
  /\ Min(pending) # chainHeadSlot
  /\ Fault("fetch")
  /\ Return
  /\ UNCHANGED <<chain, stored, point, chainHeadSlot, latest>>

(* The latest block point cannot be stored.                                *)
PointFails ==
  /\ pc = "blocks"
  /\ pending = {}
  /\ bp > 0
  /\ Fault("point")
  /\ Return
  /\ UNCHANGED <<chain, stored, point, chainHeadSlot, latest>>

(* getSlot fails while unsticking.                                         *)
SlotFails ==
  /\ pc = "unstick"
  /\ Cardinality(window) <= 1
  /\ Fault("slot")
  /\ Return
  /\ UNCHANGED <<chain, stored, point, chainHeadSlot, latest>>

(* Mutant: the stored head is not read on startup.                         *)
RestartFromConfig ==
  /\ Fault("crash")
  /\ Start(StartFromSlot)
  /\ Return
  /\ UNCHANGED <<chain, stored, point>>

(* The process stops and a new one starts from what the store holds.       *)
Restart ==
  /\ Fault("crash")
  /\ Start(IF point > StartFromSlot THEN point ELSE StartFromSlot)
  /\ Return
  /\ UNCHANGED <<chain, stored, point>>

-----------------------------------------------------------------------------
Refresh ==
  \/ GetBlocks \/ GetSameBlocks \/ SkipHead \/ StoreBlock
  \/ StoreLatestBlockPoint \/ ResumeAtLast \/ StepOverGap

Failure == FetchFails \/ PointFails \/ SlotFails \/ Restart

Next == NewSlot \/ Refresh \/ Failure

Spec == Init /\ [][Next]_vars

(* The refresh loop has no other exit than its context; the chain and the  *)
(* faults are not fair.                                                    *)
FairSpec == Spec /\ WF_vars(Refresh)

-----------------------------------------------------------------------------
(* What the refresher promises.                                            *)

(* The recorded chain head never goes back, across restarts, failed        *)
(* refreshes and forced advances.                                          *)
PointAdvances == [][point' >= point]_vars

(* The slots of a set at or before m: GetBlockhashBySlot answers m with    *)
(* the last one stored.                                                    *)
UpTo(m, S) == {s \in S : s <= m}

(* Once the recorded head covers a slot, GetBlockhashBySlot never changes  *)
(* its answer for it: no block at or before the head is stored any more.   *)
AnswersStable ==
  [][\A m \in 1..point : UpTo(m, stored') = UpTo(m, stored)]_vars

(* A forced advance does not overshoot the chain.                          *)
HeadWithinChain == chainHeadSlot <= tip \/ chainHeadSlot = StartFromSlot

(* Only blocks a rounding boundary resolves to are asked for, and all of   *)
(* those inside the window, unless the next block is on a later boundary:  *)
(* that one is asked for in its place.                                     *)
SelectionExact ==
  /\ \A s \in SlotsToQuery(window) :
       \E m \in 1..MaxSlot : /\ m % Threshold = 0
                             /\ s \in UpTo(m, window)
                             /\ s = Max(UpTo(m, window))
  /\ \A m \in 1..MaxSlot :
       LET after == {s \in window : m < s} IN
       /\ m % Threshold = 0
       /\ UpTo(m, window) # {}
       /\ after # {}
       /\ Min(after) % Threshold # 0
       => Max(UpTo(m, window)) \in SlotsToQuery(window)

(* Every block on a rounding boundary after the start slot and up to the   *)
(* recorded head is in the store.                                          *)
BoundaryBlocksStored ==
  \A s \in blocks :
    s % Threshold = 0 /\ StartFromSlot < s /\ s <= point => s \in stored

(* Once the chain stands still, the head gets past all blocks but the last *)
(* one and has that one within its window, however long the stretches      *)
(* without blocks are.                                                     *)
ReachesTip ==
  LET ahead == {s \in blocks : s >= chainHeadSlot} IN
  (tip = MaxSlot) ~> /\ Cardinality(ahead) <= 1
                     /\ \A s \in ahead : s <= chainHeadSlot + Offset
=============================================================================
