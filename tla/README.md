# A TLA+ model of the Solana infrastructure library

This directory holds a verification development of the Go library in `src/`: an
*event tracker*, which follows a Solana program and hands its events to a
subscriber, and a *transaction sender*, which builds and submits bridge
transactions. The modules model the code, the `.cfg` files check them on small
instances with TLC, and the `*_proofs` modules prove properties for every value
of the constants with TLAPS. `PROJECT.json` maps every definition to the lines
it models and lists the runs, the mutants that each checked property rejects,
the theorems, the findings and the hazards.

## The system

| Part | Code | State | Operations |
|---|---|---|---|
| transaction polling loop | `tracker/tracker.go` | none of its own between passes: it works from the store | list signatures (paging, lost-cursor fallback), queue them, process one transaction, deliver its events |
| chain head refresher | `tracker/tracker.go` | head slot, window seen last | list a window of slots, fetch and store boundary blocks, record the head, force an advance |
| persistent store | `tracker/store` | BoltDB buckets: queue with head and tail counter, two transaction markers, block index, latest block point, finalized block number, events processed and unprocessed | one BoltDB transaction per call |
| event and payload extraction | `tracker/cpi_events.go`, `payload_parser.go` | none | inner instructions to events; batch payload of an executed transaction |
| RPC client limits | `common` | per method: mutex, limiter and cooldown; the client's mutex and global limiter | every RPC call of the process |
| transaction sender | `sendtx/tx_sender.go`, `instruction.go` | one instruction configuration, shared and unlocked | check, derive addresses, query tokens, build instructions, choose the message format |
| address lookup tables | `wallet/lookup_table.go`, `alt_admin.go`, `sendtx/alt.go` | resolver cache | resolve, preload, invalidate; create, extend, freeze, deactivate and close a table |
| provider and wallet | `wallet` | keys | RPC wrappers, wait for a signature |
| program bindings | `sendtx/skyline_program` | none | account lists and serialisation of the program's instructions |

`EventTracker.Start` runs the polling loop and the chain head refresher as two
goroutines. They share the store (in disjoint buckets, apart from reads by
consumers) and one RPC client, and no variable. A consumer of the tracker gets
events through `AddEvent`, and reads block hashes by slot, the latest block
point and the finalized block number from the store.

On the other side, a batcher asks the sender for a transaction, possibly through
a lookup table that the resolver knows, collects signatures, sends it and waits
for it. Any number of goroutines may share the sender, the resolver and the RPC
client. The loop closes when the tracker reads the batch back: it must find the
event among the transaction's inner instructions and the signed payload next to
the bridge instruction.

What is hard about it:

* *Two store transactions where one is meant.* The queue and the cursor, or the
  two transaction markers, are written one after the other, and the next process
  draws conclusions from what it finds.
* *Answers that are out of date.* A listing, a height and a slot come from three
  calls, and the chain moves between them. One cursor is read for all programs.
* *Retries.* A transaction whose processing fails is started over from its first
  event, and a refresh that fails leaves the window it has seen remembered.
* *Boundaries.* Full pages, the slot of a lost cursor, rounding boundaries,
  stretches without blocks longer than a window.
* *Waits inside locks.* A call keeps its method's mutex through cooldowns, rate
  limits and retries, and checks the cooldown before it waits for the rest.
* *Shared scratch state.* Builders write the keys they need into one record,
  field by field, and read it back later, some of them after an RPC call.
* *Positions.* Accounts are named by their position in a list, in a table that
  grows, in a message, in a byte layout; each is computed on one side and read
  on another.

## Modules

| Module | Models |
|---|---|
| `TxPolling` | the polling loop over the store and an RPC node, with faults |
| `EventFeed` | what a subscriber is promised: owed events, oldest first, no gap |
| `MCTxPolling` | small chains for TLC |
| `TxPolling_proofs` | types; no owed event is lost; the queue has no duplicates; the loop implements `EventFeed`; cursor, markers, deliveries and finalized number |
| `ChainHead` | the chain head refresher over the block index, with faults |
| `MCChainHead` | small chains for TLC |
| `ChainHead_proofs` | types; no overshoot; the recorded head never goes back; answers for slots below it never change; the selection of slots; boundary blocks are stored |
| `TxQueue` | what the store promises about transactions: a FIFO queue and two markers |
| `TxBucket`, `MCTxBucket` | the transaction bucket: entries between two counters, encodings old and new |
| `TxBucket_proofs` | the bucket's layout; the bucket implements `TxQueue` |
| `BoltStore`, `MCBoltStore` | event and block buckets with their indexes, and a consumer's lookup |
| `BoltStore_proofs` | types; the event index is complete; lookups are consistent |
| `RpcLimits` | `withRPCLimits`: a call's way through mutexes, cooldown, limiter, request and retry, in discrete time |
| `SignatureWait` | `WaitForSignature` as one of the client's callers (extends `RpcLimits`) |
| `MCRpc` | two callers and two methods for TLC |
| `RpcLimits_proofs` | types; quotas and cooldowns are kept; a reported success is real |
| `Subsequences` | loops that pick elements of a list, as the list at a set of positions |
| `InstructionConfig` | account keys, and the options that derive them into the sender's record |
| `SkylineProgram` | the account lists of the program's instructions, with roles and flags |
| `BatchMessage` | signature layout, message format and compute budget; how the tracker reads events and payload back |
| `TxBuilders` | what the builders of `CreateTx` and `BridgeTransactionALTAddresses` check, ask for and build (extends the three above) |
| `TxBuilders_proofs` | lemmas about lists, account lists and layouts that the next two proof modules share |
| `TxSender`, `MCTxSender` | calls of several goroutines on one sender, option by option |
| `TxSender_proofs` | accounts, layout, payload, compute budget and listed addresses |
| `LookupTables`, `MCLookupTables` | a table's life, the resolver, and a batch from the sender through the table to the tracker |
| `LookupTables_proofs` | types; stale contents are prefixes; extending; what lands is what was meant; the tracker reads it |

### TxPolling

A transaction is its position on the chain, `1..NumTxs`; 0 is the zero
signature, which the code uses for "none". The chain (`ledger`) is chosen once
in `Init` from `Ledgers`; `tip` and `finalized` say how much of it is visible at
the tracker's commitment and final, and grow by `NewBlock` and `FinalizeBlock`.
A transaction's record keeps its slot, the tracked programs it touches, whether
its metadata make the code skip it, and the number of tracked events it emits.
The payload of an event is left out.

`queue`, `lastProcessed`, `lastQueried`, `finalizedNumber` and `stored` are the
store's buckets. `pc` and the listing variables are the goroutine's locals; they
have their initial values between passes, so a restart (`Crash`) keeps only the
store. `delivered` is a history variable: the `AddEvent` calls so far.

| Code | Actions |
|---|---|
| `runTransactionPolling` | `StartProcessing` when the markers differ, else `StartQuerying`; `NextProgram` |
| `fetchNextGetSignaturesForAddress` | `QueryHeight`, `NothingNew`, `SkipHistory`, `PushNew`, `StoreCursor` |
| `signaturesForAddressFetcher`, `catchUpLoop` | `QuerySignatures`, `CursorNotFound`, `QueryPage` |
| `fetchNextGetFullTxBySignature` | `QueueDrained`, `SkipTx`, `FetchTx`, `StoreBlockNumber`, `AddEvent`, `StoreEvent`, `FinishTx` |
| failing calls and writes | `HeightFails`, `QueryFails`, `ProcessFails` |

Each RPC call and each store transaction is one step, so the chain may grow, a
call may fail and the process may stop between any two of them.

### ChainHead

`blocks` is the set of slots that have a block, `tip` the slot the chain has
advanced to. `stored` and `point` are the block index and the latest block
point; `chainHeadSlot` and `latest` are the tracker's fields. `window`,
`pending` and `bp` are the locals of one refresh. Slots are visited in
increasing order, which the code's sorted slice does by iteration and the model
by `Min(pending)`.

| Code | Actions |
|---|---|
| `refreshChainHead` | `GetBlocks` (new window), `GetSameBlocks` (same as last time), `SkipHead`, `StoreBlock`, `StoreLatestBlockPoint` |
| `unstickChainHead` | `ResumeAtLast`, `StepOverGap` |
| `getSlotsToQueryBlocks` | operator `SlotsToQuery` |
| failing calls and writes | `FetchFails`, `PointFails`, `SlotFails`; a failing getBlocks changes nothing |
| `NewEventTracker`, `initialize` | `Init`, `Restart` |

The waits between refreshes are left out: the chain may advance by any number
of slots, or none, between two calls, which includes every wait. In the code the
wait makes it unlikely that two refreshes see the same window; the findings
below need two answers that are equal, which a chain that stands still for the
wait, or a refresh that returned an error and therefore did not wait, produces.

### TxBucket and BoltStore

A bucket is a function from keys to values, and a writing method of
`BoltStorageHandler` is one action, since it is one BoltDB transaction: a write
that fails, or a process that stops inside one, changes nothing and needs no
action.

`TxBucket` keeps the entries by index, the two counters and the two markers.
Values are tuples, `<<sig, slot>>` or the older `<<sig>>`, and `Decode` reads
both. `Init` is an empty store or one in which an older version has left a queue
and markers. `GetAllUnprocessedTransactions` and `getTxPointByKey` (operator
`GetTxPoint`) are the refinement mapping to `TxQueue`.

`BoltStore` keeps the event records, the ID counter and the index by block
number, and the two block indexes with the latest block point. The three
transactions of `GetBlockhashBySlot` followed by `GetBlockNumberByBlockhash` are
the actions `LookupHead`, `LookupHash` and `LookupNumber` of a consumer. The
guards of `StoreBlock` and `StoreLatestBlockPoint` (a block beyond the recorded
head; a stored block, never an older one) are what the refresher does, proved
of `ChainHead` as `AnswersStable` and `PointAdvances`. The processed-events
bucket is created and read but never written, and is left out. The finalized
block number is a variable of `TxPolling`.

### RpcLimits and SignatureWait

Each caller has a `pc`: `idle`, `lock` (waiting for the method's mutex), `gate`
(cooldown), `limiter`, `client` (waiting for the client's mutex), `take` (global
limiter) and `sent`.

| Code | Actions |
|---|---|
| the thirteen wrappers (`GetBalance` ...) | `Request` |
| `withRPCLimits` | `LockMethod`, `PassGate`, `PassLimiter`, `LockClient`, `Send`, `Answer`, `Refuse429`; `GiveUp` where the context is done |
| `newRPCMethodLimiter`, `limiter.Wait` | operators `Burst`, `Interval`, `Full`; `PassLimiter`, refill in `Tick` |
| `rateLimitRetryAfter`, `parseRetryAfter` | operators `RetryAfter`, `ParseRetryAfter` |
| `WaitForSignature` | `Poll`, `PollStep`, `Polled` (with `Judge`), `PollGivenUp`, `PollAgain`, `TimeOut`, `WaitCancelled` |
| the cluster | `Process`, `Drop`, `Settle` |

Time is discrete and relative: `cooldown` holds what remains, `level` the
limiter's tokens counted in ticks of refill, `sent` the ages of the requests of
the last window (a history variable). `Tick` may fall between any two steps. The
global limiter only delays a request, which `Tick` between `LockClient` and
`Send` covers. A context may be done at any time; `mu.Lock` does not look at it.

Observations that are not findings, as nothing in the repository denies them:

* `newRPCMethodLimiter` with a count of 0 is unlimited, and with a count of 1
  divides by zero (`LimitsAssumption` leaves both out).
* A cancelled call that waits for the mutex of a method refused for ever is
  stuck behind the holder: `OthersProceed` speaks of the other methods.
* A transaction that failed while merely processed ends the wait as failed,
  although its fork may be dropped; and success at level `processed` promises
  nothing, which `WaitSound` excepts.
* By the precedence of `&&` over `||` (`txprovider.go:324-328`) the guard against
  an empty status does not cover the comparison with an empty commitment; both
  always have a value in the model.

### TxSender and the modules below it

A key is a tuple that says how it came about, so two keys are equal exactly when
they are derived alike; the zero key, the native SOL mint and the System
Program's key are one (`constants.go:43-46`). A builder is: checks (`Refused`), the options it applies
to the shared record (`OptionsOf`), for two kinds a query of the registered
tokens and late checks (`QueryTokens`, `RefusedLate`), and the instruction from
what the record then holds (`Instruction`, `BridgeTransaction`).
`Begin`, `ApplyOption` (one option each), `QueryTokens`, `BuildInstruction` and
`BuildBatch` are the steps at which calls interleave.
`BridgeTransactionALTAddresses` lists the keys of every batch (`BeginListing`)
and then goes through the caller's map from token IDs to mints, `d.mints`, in the
order of the IDs: each token's registry is written to the record
(`ApplyRegistry`) and read back behind its mint (`AppendEntry`); `EndListing`
returns the list. `ALTAddresses` is the same without other calls in between, for
`LookupTables`.
`CreateTx` (operator of `BatchMessage`) chooses between a v0, a v1 and a legacy
message. `overlap` is a history variable: the requests of the calls that ran
beside a call.

What interleaved calls do to each other is left to the callers by the code, and
`OwnAccounts` bounds it: an account may be derived from the program, token or
mint of a call that ran beside it, in any combination (even a token registry of
one call's token under the other call's program, which is nobody's), but never
from an earlier call. Alone, a call only gets its own accounts. An option and the
final read are atomic in the model; keys torn by the data race are left out.

Observations:

* A batch with a token that is not registered gets the zero key of a missing map
  entry, which is the native SOL mint (`tx_sender.go:588`); `bridge_request`
  refuses such a token, batches do not.
* `MaxBridgeTransactionReceivers` receivers ask for 400,000 compute units
  (`tx_sender.go:547-550` speaks of an increase), which is what two instructions
  get without asking.
* `BridgeTransactionALTAddresses` leaves out the event authority, although
  `alt.go:13` speaks of the full set. But for it, what a batch can look up and
  what is listed are the same: `ALTAddressesUsed` says so of maps that agree with
  the chain (`FromChain`). A map that does not lists keys that no batch names.
* A registry is keyed by its token ID only (`skyline_program/instructions.go:496`),
  so several tokens may have one mint. The listing then names the mint and its
  token account once per token, as `alt_test.go:105-128` expects; it is
  `NewExtendInstructions` that adds each key once (`ExtendAddsMissing`, with such
  a request). A single batch names one registry per mint, that of the first token
  that brought it in, so the listed registries are those of several batches.
* A listing that another call runs beside may hold that call's registry, vault or
  validator set: `ALTAddressesUsed` speaks of the other listings.
* `Refused` leaves out the parsing of addresses and the check of the configured
  treasury (`tx_sender.go:400`): such requests are refused before they touch the
  record, so the model has more calls than the code. The check of a mint behind
  the skip of native SOL (`alt.go:78`) cannot fail.
* `BridgingFee + OperationFee` is an unchecked sum of two `uint64`. Amounts and
  fees in an instruction's data are not modelled.

### LookupTables

`table` is the table on chain, `plan` the administrator's extend instructions
that have not landed, `cache` the resolver's entry, `user` the goroutines that
resolve the table and send the batch.

| Code | Actions |
|---|---|
| `NewCreateInstruction`, `NewFreeze...`, `NewDeactivate...`, `NewCloseInstruction` | `Create`, `Freeze`, `Deactivate`, `Close` (when they land) |
| `NewExtendInstructions` | `PlanExtend`; each instruction is `LandExtend` or `LoseExtend` |
| `Resolve`, `Preload`, `Invalidate` | `Resolve`, `Fetch`, `Store`; `Invalidate` |
| `CreateTx` with tables | `BuildTx` (external `Compile`) |
| the runtime | `Land`, `Expire` |
| `transactionAccountKeys`, `collectCPIEvents`, `findBatchPayloadAtInstruction` | operators of `BatchMessage`, applied to what landed |

A fetch that is under way when `Invalidate` is called stores its answer
afterwards (`lookup_table.go:98`), so the cache may hold old contents until the
next invalidation. `StaleIsPrefix` and `LandedAsMeant` say that this is harmless
while the table lives: old contents are a prefix of the new ones.

## What the runs show

Runs that pass:

| Run | Instance | Properties |
|---|---|---|
| `faults` | 3 transactions in 3 slots, pages of 2, confirmed commitment, two faults of any kind | `NoEventLost`, `QueuedOnce`, `DeliversInOrder` (refinement of `EventFeed`), `CursorSlotAdvances`, `TypeOK` |
| `outage` | 4 transactions in 3 slots, pages of 1, finalized commitment, two RPC failures or lost cursors, fair loop | `NoRepeat`, `FinalizedWorkDone`, `MarkersTellBacklog`, `FinalizedNumberAdvances`; `EventuallyDelivered`, `FinalizedNumberCatchesUp`, `KeepsListing` |
| `head_near` | all chains of 8 slots, window past the tip, failed point writes and restarts | `BoundaryBlocksStored`, `SelectionExact`, `TypeOK` |
| `head_gaps` | all chains of 9 slots, window of 5, one fault of any kind, fair loop | `HeadWithinChain`, `PointAdvances`, `AnswersStable`, `ReachesTip` |
| `tx_bucket` | batches of up to two, with zero signatures, four entries ever, new and old stores | `ImplementsQueue` (refinement of `TxQueue`), `TypeOK` (the layout) |
| `bolt_store` | four slots, three events of which one is left by an older version, one consumer | `IndexMatchesScan`, `LookupConsistent`, `TypeOK` |
| `rpc` | a waiting goroutine and another one, two methods of which one is refused for ever, quota 3 per window, fair calls | `WindowQuota`, `CooldownHonoured`, `OthersProceed`, `WaitSound`, `WaitEnds`, `WaitTypeOK` |
| `sender` | two calls of any kinds on one sender, two programs, tokens of two mints, two of them with the same, native SOL and an unregistered token, up to 255 signers, with and without tables | `OwnAccounts`, `BatchLayout`, `PayloadFound`, `BudgetKept`, `ALTAddressesUsed` |
| `tables` | one table, extended in chunks of 5 with losses and with the keys of two tokens that share a mint, two goroutines, a batch of three receivers over two mints | `StaleIsPrefix`, `ExtendAddsMissing`, `LandedAsMeant`, `TrackerReadsBatch`, `TablesTypeOK` |

Runs that end in a violation, each a behaviour of the code that a comment or a
test of the repository denies (`findings` in `PROJECT.json` quotes it):

| Run | What happens |
|---|---|
| `programs` | two programs share a cursor and one overtakes the other's transactions, without a fault |
| `wait_forever` | both timers of `WaitForSignature` are armed anew in every round, so a `maxWaitTime` of more than a second never fires |
| `batch_order` | the same batch gives different transactions, as signatures are laid out in the order of a map iteration |

The passing runs leave out what would break their properties by known behaviours
of the code:

* *Repeated delivery.* `outage` has at most one event per transaction. With two
  (`Kinds <- TwoEvents`), one failed block fetch between them lets the
  transaction be started over and the first event be delivered again, and
  `NoRepeat` fails.
* *Restarts.* `outage` has none. With `"crash"` among its `Faults`, a stop
  between push and cursor write leaves queued transactions waiting until a
  further one appears (`MarkersTellBacklog`, `EventuallyDelivered`), and the
  finalized number may cover undelivered events meanwhile.
* *The finalized number of the block being processed.* `FinalizedWorkDone` speaks
  of blocks below the recorded number: the number of a block is recorded before
  the block's events are stored.
* *History.* `outage` starts at slot 1. When the cursor set by the history skip
  is lost, the fallback queues the skipped transactions of its slot, since the
  start slot is only compared while the cursor is zero (`tracker.go:607`). A
  restart between the two marker writes of the history skip (`tracker.go:636`)
  leaves markers that differ over an empty queue:
  `fetchNextGetFullTxBySignature` returns at once in every pass and
  `KeepsListing` fails.
* *Commitment.* `outage` runs at finalized commitment. At confirmed commitment
  the height of a confirmed event block is stored as the finalized block number
  and the next empty listing stores the lower finalized height, so
  `FinalizedNumberAdvances` fails, although the comment on
  `StoreLatestFinalizedBlockNumber` says that the tracker only ever advances the
  number.
* *Programs.* All passing runs of `TxPolling` have one program.
* *Failed block fetches.* `head_near` has none. With `"fetch"` among its
  `Faults`, the window of the failed refresh is remembered, the next refresh takes
  the chain for stuck, and the head is forced past boundary blocks
  (`BoundaryBlocksStored`).
* *Small windows.* The window of `head_near` reaches past the tip: with a smaller
  one, blocks produced between getBlocks and getSlot may lie inside the forced
  step (`tracker.go:1043`) and are never stored.
* *Boundaries.* `SelectionExact` makes an exception for a block followed by one
  on a later boundary: with threshold 2 and blocks at 1 and 4, slot 1 is not
  asked for, although boundary 2 resolves to it (`tracker.go:899`). So the head
  may park on a block that is never stored although a boundary resolves to it.
* *Two administrators.* `tables` has one, which waits for its plan. Two that plan
  from the same state store addresses twice.

### Bounds

`NumTxs`, `MaxSlot`, `MaxFaults` bound the chain and the faults. Three
transactions in three slots give every relative position of a cursor: alone in
its slot, first or last of several, with older and newer slots around. Four
transactions with pages of one give up to four full pages and an empty one, and
page boundaries inside the cursor's slot; pages of two (`faults`) give short
pages. `StartFromSlot` is such that some history is before it (`faults`) or none
(`outage`). Two faults reach a
fault during the recovery from the first. Nine slots with a window of five and a
step of `Target - Backoff = 2` give stretches without blocks longer than a
window, and several windows. Block heights start at 11, so that a height is
never mistaken for "none". Four queue entries with batches of two give a queue
that is emptied and filled again, and old entries next to new ones; four slots
give a lookup between, before and after stored blocks.

In `rpc`, `Cancellable`, `Audited`, `Storm` and `MaxRefusals` say whose context
may be cancelled, for which method the request history is kept, which method is
refused for ever and how often the other one is. With `Window = 2`, a quota of 3
and a burst of 1 a token takes one tick, so that burst, refill and a delayed
request meet within one window; a `Headers` cooldown lasts a whole window. The
waiter's `MaxWaits` equals the pause in `rpc`, where either timer may win, and
exceeds it in `wait_forever`. In `sender`, `MaxCalls = 2` gives every pair of
kinds one after the other on one goroutine or interleaved on two; a third call
could only repeat what the record's ten fields let an earlier call leave behind.
`MaxReceivers = 3` (5 in the code) is reached by one batch and missed by
others. Two iteration orders of the signature map stand for all: nothing but the
order of the signers depends on it. In `tables`, `MaxPerIx = 5` cuts the twelve
addresses of two tokens into three instructions and the nine of one token into two.

Deadlock is checked in every run but `sender` and `batch_order`, which stop after
`MaxCalls` calls, and `tables`, where both batches end landed and the table
closed.

### Fairness

`FairSpec` asserts weak fairness of the goroutine's own steps together
(`Query \/ Process`, `Refresh`): the loops have no exit but their context, RPC
calls have a timeout, and nothing else can block them. Neither the chain nor the
faults are fair, so no property relies on a block appearing or on a fault
happening; since `MaxFaults` is finite, calls eventually succeed.

In `SignatureWait`, every call under way takes its steps, time passes
(`WaitTick`), the waiting goroutine polls when it may, and of the two timers of
its select one fires (`PollAgain \/ TimeOut` together, as Go chooses either when
both are ready). The two mutexes are strongly fair: Go hands a mutex to the
waiter at the front once it has starved for a millisecond. New calls,
cancellations, refusals and the cluster are not fair. The method of `Storm` may
be refused for ever; `MaxRefusals` bounds the others, without which nothing could
be promised.

## What is proved

`TxPolling_proofs`: `TypeCorrect`, and `NothingLost`: with one tracked program,
for every chain, start slot, page size, commitment and number of faults, the
cursor never passes an owed transaction that is neither queued nor fully
delivered. `NoEventLost` is not inductive: the cursor moves to the newest
signature of a listing, so one must know what a listing holds. The invariant
`LossInv` adds

* `PassInv`: where the goroutine's locals are reset, and that the transaction
  being processed is the front of a non-empty queue;
* `ListingInv`: a listing in progress holds every visible transaction from its
  oldest member up, and a complete one everything after the cursor (after a lost
  cursor, everything from its slot on);
* `CursorInv`: the cursor read at the start of a pass is still the stored one;
* `EventInv`: the events of the transaction being processed before `next` have
  been delivered, and stored events have been delivered;
* `CoverInv`: `NoEventLost` itself, extended to what is about to be covered by
  the next cursor write.

`QueueHasNoDuplicates`: no transaction is queued twice and the last processed
one is not queued, for any number of programs. The filter of known signatures
(`getQueuedTxSignatures`) already covers what the drop of an already processed
front in `fetchNextGetFullTxBySignature` guards against, so that branch, part of
`SkipTx` in the model, is never taken.

`SingleProgram` is needed for `NothingLost`: run `programs` shows the statement's
liveness companion false without it. The theorems below assume it too.

* `CursorAdvances` (`CursorSlotAdvances`), from `FloorInv`: a listing keeps
  nothing older than the slot of the cursor it started from.
* `FeedInOrder` (`DeliversInOrder`): the loop implements `EventFeed`, under every
  kind of fault. The mapping is the projection of `delivered`; `OrderInv` adds to
  `LossInv` that whatever is owed and older than a queued transaction has been
  delivered or is queued before it (`FrontInv`), so that the first delivery of an
  event comes when all older ones have been made.
* `MarkersExact` (`MarkersTellBacklog`), from `BacklogInv`: the cursor, or the
  transaction it is about to move to, is the last one queued, or the last one
  processed when nothing is queued.
* `DeliveredOnce` (`NoRepeat`), from `RecordInv`: what was delivered is recorded
  before anything else happens, and a transaction that is fully recorded is not
  queued again, as the listing recognises it in the cursor's slot and keeps
  nothing below that slot.
* `NumberMeansDone` (`FinalizedWorkDone`), from `HeightInv`: since the height is
  read before the listing, a listing holds everything up to it.
* `NumberAdvances` (`FinalizedNumberAdvances`), from `NumberInv`: the number is
  neither ahead of the chain nor of the height that a pass has read.

The last four also assume that the store does not fail and the process does not
stop (`StoreReliable`): the section on the runs says what happens otherwise.
`DeliveredOnce` needs `OneEventEach`, and `NumberAdvances` finalized commitment
and a start from the first slot (`FromTheStart`): when the cursor that the
history skip wrote is lost, skipped transactions of its slot are queued and
write the number of an old block.

`ChainHead_proofs`: `HeadTypeCorrect`, `NoOvershoot` (`HeadWithinChain`),
`PointNeverGoesBack` (`PointAdvances`) and `AnswersNeverChange`
(`AnswersStable`: what a consumer was told for a slot stays true), from the invariant `HeadInv`: the slots
of a refresh are between the head and the tip, and what is or will be recorded
is not ahead of the head in memory. The one exception of `HeadWithinChain` is a
start slot configured ahead of the chain.

`SelectionCorrect` (`SelectionExact`) is about the operator: for every window and
threshold, what `getSlotsToQueryBlocks` picks is what boundaries resolve to.
`BoundaryBlocksKept` (`BoundaryBlocksStored`) says which steps can lose a block
on a boundary: only those of `LeavesBehind`, a block fetch that fails for good,
and a forced advance over a block that getBlocks had not returned and that
appeared before getSlot was asked. Every behaviour without these keeps all of
them, for every configuration and with crashes, failed writes and failed getSlot
calls. Its invariant `KeptInv` has to say what `latest` stands for: a window that
looks like the last one (same head, same number of slots) is the same set, since
windows at one head only grow, and its boundary blocks were stored by the refresh
that saw it first.

`TxBucket_proofs`: `LayoutCorrect` (`TypeOK`: the bucket holds the entries
between its counters and no other) and `BucketIsQueue` (`ImplementsQueue`), from
the invariant `BucketInv`, which adds `head <= tail`. The lemmas say what each
action does to the decoded queue; `NonEmptyType` counts positions of a batch.

`BoltStore_proofs`: `StoreTypeCorrect`, `IndexComplete` (`IndexMatchesScan`,
inductive together with the types; it uses that heights grow with slots) and
`LookupsConsistent` (`LookupConsistent`), from `BlockInv`: the two block indexes
agree, and a lookup under way is at or below the recorded head, where no block is
stored any more.

`RpcLimits_proofs`: `WaitTypeCorrect`, `QuotaNeverExceeded` (`WindowQuota`),
`CooldownKept` (`CooldownHonoured`) and `SuccessIsReal` (`WaitSound`), for any
number of callers and methods. The first three come from the client's invariant
`RpcInv`, which every step of the wait keeps since it is a step of a caller or
leaves the client alone (`WaitUsesClient`):

* `MutexInv`: the holder of a method's mutex is the one call of that method past
  the lock;
* `CooldownInv`: past the gate the method does not cool down, as only the holder
  could start a cooldown;
* `QuotaInv`: `WindowQuota` does not say what is left in the limiter, so one
  needs, for the k-th last request of a method of age a,
  `level + Interval * (k - 1 + taken) <= Full + a`, where `taken` is the token
  that the holder has and has not used. The limiter was at most full when that
  request went out, and has gained at most a since.

`RefillAssumption` (a token takes a whole number of ticks) is what makes the
bound exact: `Interval * (LimitCount - Burst) = Window`. The code divides
nanoseconds and drops the remainder, so its refill is faster by less than
`LimitCount` nanoseconds per window, and a window may see one request more when
they come that close to its ends.

`TxBuilders_proofs` holds lemmas only. The loops over lists (`DeriveMints`,
`ToAdd`, the compiled keys) are stated as the list at a set of positions
(`Subsequences`), since what a recursive definition computes cannot be proved
with the provers at hand; the lemmas say that `At(seq, FirstPositions(seq))` has
the members of `seq`, each once, and that `PositionIn` finds them.

`TxSender_proofs`: `AccountsOwn` (`OwnAccounts`), `LayoutExact` (`BatchLayout`),
`PayloadRead` (`PayloadFound`), `BudgetExact` (`BudgetKept`) and `ListingExact`
(`ALTAddressesUsed`), for any requests, registries and number of goroutines. They
come from one invariant, `SenderInv`. `OwnAccounts` speaks of what was built; it
is not inductive, as it does not say what the record held before. So

* `Beside`: of two calls under way, each is in the other's `overlap`;
* `Fields`: every field that a running call has set so far (the options it has
  applied) holds a key derived for that call or for one in its `overlap`. Another
  call may overwrite it, but is then in the `overlap`;
* `Listings`: a listing under way with an empty `overlap` has listed the keys of
  its own tokens so far, three for each (`Written`), and between an option and
  its entry the record holds the registry of the token at hand;
* `BuiltAll`: a built transaction was made of a record that held such keys in all
  fields its builder asks for.

The proofs then go through the account lists role by role (`AllFit`), through
the byte layout of up to 255 signers (no 16-bit offset wraps), and through the
positions of mints and receivers. For `ListingExact`, `LookupExact` says which
keys a batch can look up, for any receivers, and `ListingSet` and
`ListingRepeats` what a complete listing holds and when it repeats a key.

`LookupTables_proofs`: `TablesTyped`, `StaleAgrees` (`StaleIsPrefix`, inductive
together with `TableTypes`), `ExtendExact` (`ExtendAddsMissing`, likewise),
`LandedExact` (`LandedAsMeant`) and `BatchRead` (`TrackerReadsBatch`), for any
batch, requests and number of goroutines. The last two come from `BatchInv`: a
sent message was compiled against contents that are a prefix of the table as
long as it is not closed, and the accounts loaded for a landed one are those of
the contents it was compiled against. The core is a round trip (`ResolvesTo`):
the keys recovered from a compiled message at its indices are the keys that went
in, for every list of instructions and every table.

The assumptions are those of the modules: the bounds are naturals, the
configuration is one `NewEventTracker` accepts, slots grow along the chain, a
method's quota is at least two, and

* `RegistryAssumption`: a registered mint is a mint account or native SOL, never
  a derived address; several tokens may have the same;
* `DtosAssumption`, `BatchAssumption`, `RequestsAssumption`: requests have the
  shape that their Go types give them, no request names a system program as its
  bridge, and the length of a payload fits 16 bits. The code only refuses an
  empty payload (`tx_sender.go:731`); a longer one fits no transaction.

Only model-checked: the liveness properties (`EventuallyDelivered`,
`FinalizedNumberCatchesUp`, `KeepsListing`, `ReachesTip`, `OthersProceed`,
`WaitEnds`), which need fairness. Every other property of a passing run is
stated by a theorem.

## Not modelled

* The test harness (`tracker/internal/trackertest`) and `wallet/txprovider_mock.go`:
  they are not part of the running system.
* Generated serialisation (`skyline_program/types.go`, `accounts.go`,
  `events.go`, the data part of `instructions.go`), event discriminators, Borsh
  and JSON encodings: byte conversions without a choice.
* `SendTx` and the other provider methods (one RPC call each, a `Request` of
  `RpcLimits`), `GetProgramConfig` (one read), signing and key handling.
* Amounts, names and metadata in instruction data; the loaded-accounts data size
  limit of a v1 message.
* Keys torn by the data race on the sender's configuration.
* Linter rules, logging, the waits between polls.

## Plan

1. `TxPolling`, `EventFeed`, `ChainHead` and their proofs: done.
2. `TxBucket`, `TxQueue`, `BoltStore` and their proofs: done.
3. `RpcLimits`, `SignatureWait` and their proofs: done.
4. `TxSender` and what it is built from, and its proofs: done.
5. `LookupTables` with the tracker's reading of a batch, and its proofs: done.
6. Left: `MarkersExact`, `DeliveredOnce` and `NumberMeansDone` with failing
   writes that do not stop the process (`StoreReliable` leaves them out together
   with restarts); two administrators of one table, and what they may store twice.
