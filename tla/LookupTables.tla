----------------------------- MODULE LookupTables -----------------------------
(***************************************************************************)
(* An address lookup table from its creation to the tracker's reading of a *)
(* batch that went through it. The administrator builds the instructions   *)
(* that create and change the table (wallet/alt_admin.go), the resolver    *)
(* caches its contents (wallet/lookup_table.go), the sender compiles a     *)
(* batch against what the resolver gave it (sendtx/tx_sender.go), the      *)
(* cluster resolves the indices when the transaction lands, and the        *)
(* tracker reads events and payload back out of it (tracker/cpi_events.go). *)
(*                                                                         *)
(* The table program and the runtime's use of tables are external: a table *)
(* only ever grows, until it is closed for good. Transactions land late,   *)
(* in any order, or never. A resolver call takes its three steps (look,    *)
(* fetch, store) between those of other goroutines.                        *)
(***************************************************************************)
EXTENDS TxBuilders

CONSTANTS
  Users,       \* goroutines that send the batch through the table
  Batch,       \* the request they send
  AltRequests, \* address lists that the administrator asks for
  MaxPerIx,    \* ExtendLookupTableMaxPerIx
  NoEntry      \* the resolver's cache has no entry

ASSUME TablesAssumption == MaxPerIx \in Nat \ {0}

(* A request carries a map of token IDs. *)
ASSUME RequestsAssumption ==
  \A r \in AltRequests : DOMAIN r.mints \in SUBSET Nat /\ IsFiniteSet(DOMAIN r.mints)

(* The batch is one that the sender accepts; the length of its payload    *)
(* fits its 16 bits, and its program is no system program.                *)
ASSUME BatchAssumption ==
  /\ Batch.receivers \in Seq(ToSet(Batch.receivers))
  /\ Batch.signers \in Seq(ToSet(Batch.signers))
  /\ ~Ed25519Refused(Batch.signers, Batch.payload)
  /\ Batch.payload.size \in Nat /\ U16(Batch.payload.size) = Batch.payload.size
  /\ Batch.payload # NoPayload
  /\ Batch.program # WellKnown("system")

VARIABLES
  table,    \* on chain: its state and the addresses it holds
  plan,     \* the administrator's extend instructions that have not landed
  cache,    \* the resolver's entry for the table
  user      \* each goroutine: its resolver call, then its transaction

vars == <<table, plan, cache, user>>

Init ==
  /\ table = [state |-> "none", keys |-> << >>]
  /\ plan = [chunks |-> << >>, wanted |-> {}, lost |-> FALSE]
  /\ cache = NoEntry
  /\ user = [u \in Users |-> [pc |-> "idle"]]

Fetchable == table.state \in {"active", "frozen", "deactivating"}

-----------------------------------------------------------------------------
(* The administrator. *)

(* NewCreateInstruction, landed. *)
Create ==
  /\ table.state = "none"
  /\ table' = [table EXCEPT !.state = "active"]
  /\ UNCHANGED <<plan, cache, user>>

(* Mutant: repetitions among the asked addresses are kept. *)
ToAddWithRepetitions(stored, asked) == SelectSeq(asked, LAMBDA k : k \notin ToSet(stored))

(* The addresses that the table does not hold yet, each once. *)
ToAdd(stored, asked) ==
  At(asked, {i \in FirstPositions(asked) : asked[i] \notin ToSet(stored)})

(* Chunks of at most MaxPerIx addresses, one per instruction. *)
Chunks(keys) ==
  LET count == (Len(keys) + MaxPerIx - 1) \div MaxPerIx
      End(i) == IF i * MaxPerIx > Len(keys) THEN Len(keys) ELSE i * MaxPerIx
  IN [i \in 1..count |-> SubSeq(keys, (i - 1) * MaxPerIx + 1, End(i))]

(* The addresses of BridgeTransactionALTAddresses. *)
Asked(r) == ALTAddresses(ApplyOptions(NewInstructionConfig, ALTAddressesOptions, r), r)

AskedKeys == UNION {ToSet(Asked(r)) : r \in AltRequests}

(* No entry is something else than an empty one. *)
ASSUME EntryAssumption == NoEntry \notin Seq(AskedKeys)

(* NewExtendInstructions, by an administrator that waits for the          *)
(* instructions of one plan before it makes the next.                     *)
PlanExtend(asked) ==
  /\ Fetchable
  /\ plan.chunks = << >>
  /\ plan' = [chunks |-> Chunks(ToAdd(table.keys, asked)), wanted |-> ToSet(asked), lost |-> FALSE]
  /\ UNCHANGED <<table, cache, user>>

(* An extend instruction lands, or its transaction is lost. *)
LandExtend ==
  /\ plan.chunks # << >>
  /\ table.state = "active"
  /\ table' = [table EXCEPT !.keys = @ \o Head(plan.chunks)]
  /\ plan' = [plan EXCEPT !.chunks = Tail(@)]
  /\ UNCHANGED <<cache, user>>

LoseExtend ==
  /\ plan.chunks # << >>
  /\ plan' = [plan EXCEPT !.chunks = Tail(@), !.lost = TRUE]
  /\ UNCHANGED <<table, cache, user>>

(* NewFreezeInstruction, NewDeactivateInstruction and NewCloseInstruction, *)
(* landed. A frozen table stays as it is.                                 *)
Freeze ==
  /\ table.state = "active" /\ table.keys # << >>
  /\ table' = [table EXCEPT !.state = "frozen"]
  /\ UNCHANGED <<plan, cache, user>>

Deactivate ==
  /\ table.state = "active"
  /\ table' = [table EXCEPT !.state = "deactivating"]
  /\ UNCHANGED <<plan, cache, user>>

Close ==
  /\ table.state = "deactivating"
  /\ table' = [state |-> "closed", keys |-> << >>]
  /\ UNCHANGED <<plan, cache, user>>

-----------------------------------------------------------------------------
(* The resolver. *)

(* Resolve and Preload look into the cache under the read lock. *)
Resolve(u) ==
  /\ user[u].pc = "idle"
  /\ user' = [user EXCEPT ![u] =
                IF cache = NoEntry THEN [pc |-> "fetch"] ELSE [pc |-> "resolved", keys |-> cache]]
  /\ UNCHANGED <<table, plan, cache>>

(* Mutant: a table that does not exist is taken for its answer. *)
FetchUnchecked(u) ==
  /\ user[u].pc = "fetch"
  /\ user' = [user EXCEPT ![u] = [pc |-> "store", keys |-> IF Fetchable THEN table.keys ELSE NoEntry]]
  /\ UNCHANGED <<table, plan, cache>>

(* They fetch what is missing, or fail. *)
Fetch(u) ==
  /\ user[u].pc = "fetch"
  /\ \/ Fetchable /\ user' = [user EXCEPT ![u] = [pc |-> "store", keys |-> table.keys]]
     \/ user' = [user EXCEPT ![u] = [pc |-> "idle"]]
  /\ UNCHANGED <<table, plan, cache>>

(* Mutant: what was fetched is added to the entry that is there by now. *)
StoreAppends(u) ==
  /\ user[u].pc = "store"
  /\ cache' = IF cache = NoEntry THEN user[u].keys ELSE cache \o user[u].keys
  /\ user' = [user EXCEPT ![u].pc = "resolved"]
  /\ UNCHANGED <<table, plan>>

(* They cache it under the lock, whatever was invalidated meanwhile. *)
Store(u) ==
  /\ user[u].pc = "store"
  /\ cache' = user[u].keys
  /\ user' = [user EXCEPT ![u].pc = "resolved"]
  /\ UNCHANGED <<table, plan>>

(* Called after a change to the table, or never. *)
Invalidate ==
  /\ cache # NoEntry
  /\ cache' = NoEntry
  /\ UNCHANGED <<table, plan, user>>

-----------------------------------------------------------------------------
(* The transaction. *)

(* solana-go compiles the instructions: keys that the given table holds   *)
(* are named by their index in it, but for signers and programs.          *)
Compile(instructions, keys) ==
  LET metas == FlattenSeq([i \in DOMAIN instructions |-> instructions[i].accounts])
      programs == [i \in DOMAIN instructions |-> instructions[i].program]
      listed == [i \in DOMAIN metas |-> metas[i].key] \o programs
      all == At(listed, FirstPositions(listed))
      Flagged(k, f) == \E m \in ToSet(metas) : m.key = k /\ f \in m.flags
      InTable(k) == k \in ToSet(keys) /\ k \notin ToSet(programs) /\ ~Flagged(k, "s")
      tabled == {i \in DOMAIN all : InTable(all[i])}
      written == {i \in tabled : Flagged(all[i], "w")}
      static == At(all, DOMAIN all \ tabled)
      writable == At(all, written)
      readonly == At(all, tabled \ written)
      order == static \o writable \o readonly
      Indices(ks) == [i \in DOMAIN ks |-> PositionIn(keys, ks[i])]
  IN [static |-> static, writable |-> Indices(writable), readonly |-> Indices(readonly),
      instructions |->
        [i \in DOMAIN instructions |->
           [program  |-> PositionIn(order, programs[i]),
            accounts |-> [j \in DOMAIN instructions[i].accounts |->
                            PositionIn(order, instructions[i].accounts[j].key)],
            data     |-> IF programs[i] = Ed25519Program THEN instructions[i].data ELSE << >>]]]

(* The batch that the sender builds when nothing interleaves with it. *)
BatchInstructions ==
  BridgeTransaction(ApplyOptions(NewInstructionConfig, BridgeTransactionOptions, Batch),
                    Batch, Batch.signers)

(* CreateTx with the resolved table. *)
BuildTx(u) ==
  /\ user[u].pc = "resolved"
  /\ LET tx == CreateTx("bridge_transaction", BatchInstructions, TRUE)
     IN user' = [user EXCEPT ![u] = [pc |-> "sent", message |-> Compile(tx.instructions, user[u].keys)]]
  /\ UNCHANGED <<table, plan, cache>>

(* The runtime loads the accounts of the table as it is now. *)
Loads(message) ==
  /\ Fetchable
  /\ ToSet(message.writable) \cup ToSet(message.readonly) \subseteq DOMAIN table.keys

Loaded(message) ==
  [writable |-> [i \in DOMAIN message.writable |-> table.keys[message.writable[i]]],
   readonly |-> [i \in DOMAIN message.readonly |-> table.keys[message.readonly[i]]]]

(* What the run leaves behind: the program's event, emitted by a call of  *)
(* itself with the event authority it was given, between inner calls of   *)
(* other programs.                                                        *)
Inner(message) ==
  LET top == Len(message.instructions)
      bridge == message.instructions[top]
      authority == bridge.accounts[8]
      Call(program, first, tagged, batch) ==
        [program |-> program, accounts |-> <<first>>, tagged |-> tagged, top |-> top, batch |-> batch]
  IN <<Call(bridge.accounts[4], 1, FALSE, 0),
       Call(bridge.accounts[5], authority, TRUE, 0),
       Call(bridge.program, authority, TRUE, Batch.payload.batch),
       Call(bridge.program, 1, FALSE, 0)>>

Land(u) ==
  /\ user[u].pc = "sent"
  /\ Loads(user[u].message)
  /\ user' = [user EXCEPT ![u] = [pc |-> "landed", message |-> user[u].message,
                                  loaded |-> Loaded(user[u].message)]]
  /\ UNCHANGED <<table, plan, cache>>

(* The transaction fails or expires; the goroutine starts over. *)
Expire(u) ==
  /\ user[u].pc = "sent"
  /\ user' = [user EXCEPT ![u] = [pc |-> "idle"]]
  /\ UNCHANGED <<table, plan, cache>>

-----------------------------------------------------------------------------
Next ==
  \/ Create \/ LandExtend \/ LoseExtend \/ Freeze \/ Deactivate \/ Close
  \/ \E r \in AltRequests : PlanExtend(Asked(r))
  \/ Invalidate
  \/ \E u \in Users : Resolve(u) \/ Fetch(u) \/ Store(u) \/ BuildTx(u) \/ Land(u) \/ Expire(u)

Spec == Init /\ [][Next]_vars

-----------------------------------------------------------------------------
(* Properties. *)

TablesTypeOK ==
  /\ table.state \in {"none", "active", "frozen", "deactivating", "closed"}
  /\ \A u \in Users :
       /\ user[u].pc \in {"idle", "fetch", "store", "resolved", "sent", "landed"}
       /\ user[u].pc \in {"store", "resolved"} => user[u].keys # NoEntry
  /\ plan.lost \in BOOLEAN

(* Whatever a goroutine or the cache still holds, however stale, agrees   *)
(* with the table on every index: old contents are a prefix of the new    *)
(* ones (lookup_table.go:61-82, a fetch that is stored after later        *)
(* extends and invalidations).                                            *)
StaleIsPrefix ==
  table.state # "closed" =>
    /\ cache # NoEntry => IsPrefix(cache, table.keys)
    /\ \A u \in Users : user[u].pc \in {"store", "resolved"} => IsPrefix(user[u].keys, table.keys)

(* Retried after any loss, extending adds what is missing and nothing     *)
(* twice, in instructions of at most MaxPerIx addresses                   *)
(* (alt_admin.go:140-206).                                                *)
ExtendAddsMissing ==
  table.state \in {"none", "active"} =>
    /\ \A i \in DOMAIN plan.chunks :
         LET chunk == plan.chunks[i] IN
         /\ Len(chunk) \in 1..MaxPerIx
         /\ IsInjective(chunk)
         /\ ToSet(chunk) \cap ToSet(table.keys) = {}
         /\ \A j \in DOMAIN plan.chunks : j # i => ToSet(chunk) \cap ToSet(plan.chunks[j]) = {}
    /\ IsInjective(table.keys)
    /\ ~plan.lost =>
         plan.wanted \subseteq ToSet(table.keys) \cup UNION {ToSet(c) : c \in ToSet(plan.chunks)}

Keys(u) == TransactionAccountKeys(user[u].message.static, user[u].loaded)

(* A transaction that lands runs with exactly the programs and accounts   *)
(* that the sender meant, as the tracker recovers them from the static    *)
(* and the loaded keys (cpi_events.go:37-47).                             *)
LandedAsMeant ==
  \A u \in Users : user[u].pc = "landed" =>
    \A i \in DOMAIN BatchInstructions :
      LET ix == user[u].message.instructions[i] IN
      /\ Keys(u)[ix.program] = BatchInstructions[i].program
      /\ \A j \in DOMAIN ix.accounts : Keys(u)[ix.accounts[j]] = BatchInstructions[i].accounts[j].key

(* From a landed batch the tracker takes exactly the bridge program's one *)
(* event, and finds the validators' payload for it (cpi_events.go:65-144). *)
TrackerReadsBatch ==
  \A u \in Users : user[u].pc = "landed" =>
    LET message == user[u].message
        events == CollectCPIEvents(Inner(message), Keys(u), {Batch.program})
    IN /\ events = <<[program |-> Batch.program, top |-> Len(message.instructions),
                      batch |-> Batch.payload.batch]>>
       /\ FindBatchPayload(message.instructions, Keys(u), events[1].top, events[1].batch)
            = Batch.payload
=============================================================================
