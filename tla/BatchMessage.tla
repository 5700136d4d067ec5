----------------------------- MODULE BatchMessage -----------------------------
(***************************************************************************)
(* From instructions to a transaction and back: how the sender lays out    *)
(* the validators' signatures and chooses the message format               *)
(* (sendtx/tx_sender.go), and how the tracker finds the events and the     *)
(* signed payload of a batch in a transaction it fetched                   *)
(* (tracker/payload_parser.go, tracker/cpi_events.go).                     *)
(*                                                                         *)
(* Instructions are counted from 1. The bytes of a signature instruction   *)
(* are abstracted to their layout: the offset table, the signers in the    *)
(* order of their entries and the place of the shared message.             *)
(***************************************************************************)
EXTENDS InstructionConfig, SkylineProgram, FiniteSets

CONSTANTS
  MaxReceivers,   \* MaxBridgeTransactionReceivers
  NoPayload       \* no payload found, or bytes that do not decode to one

Ed25519Program == WellKnown("ed25519")
ComputeBudget == WellKnown("compute_budget")

U16(n) == n % 65536

-----------------------------------------------------------------------------
(* buildBatchedEd25519Instruction *)

HeaderSize == 2
OffsetsSize == 14
PubKeyLength == 32
SigLength == 64
CurrentInstruction == 65535

(* Mutant: the message is looked for behind one signature less. *)
EntryShortMessage(i, n, size) ==
  LET base == HeaderSize + n * OffsetsSize
      pub == base + (i - 1) * (PubKeyLength + SigLength)
  IN [sig |-> U16(pub + PubKeyLength), pub |-> U16(pub),
      msg |-> U16(base + (n - 1) * (PubKeyLength + SigLength)), size |-> U16(size),
      ix |-> CurrentInstruction]

(* The offsets of signer i of n over a message of that size.              *)
Entry(i, n, size) ==
  LET base == HeaderSize + n * OffsetsSize
      pub == base + (i - 1) * (PubKeyLength + SigLength)
  IN [sig |-> U16(pub + PubKeyLength), pub |-> U16(pub),
      msg |-> U16(base + n * (PubKeyLength + SigLength)), size |-> U16(size),
      ix |-> CurrentInstruction]

(* `signers' is the order in which Go happens to iterate over the map.    *)
Ed25519Refused(signers, payload) ==
  Len(signers) = 0 \/ Len(signers) > 255 \/ payload.size = 0

BuildBatchedEd25519(signers, payload) ==
  LET n == Len(signers) IN
  [program  |-> Ed25519Program,
   accounts |-> << >>,
   data     |-> [num     |-> n,
                 entries |-> [i \in 1..n |-> Entry(i, n, payload.size)],
                 signers |-> signers,
                 at      |-> HeaderSize + n * (OffsetsSize + PubKeyLength + SigLength),
                 message |-> payload]]

-----------------------------------------------------------------------------
(* The message format and its compute budget. *)

DefaultUnitsPerInstruction == 200000
MaxUnits == 1400000
MaxReceiversUnits == 400000

SetComputeUnitLimit(units) ==
  [program |-> ComputeBudget, accounts |-> << >>, data |-> [units |-> units]]

DefaultComputeUnitLimit(count) ==
  IF count >= MaxUnits \div DefaultUnitsPerInstruction
  THEN MaxUnits ELSE DefaultUnitsPerInstruction * count

UsesV1Message(kind) == kind = "bridge_transaction"

(* Mutant: no request leaves the header's limit unset, which is zero. *)
InlineComputeBudgetUnset(instructions) ==
  LET budget == {i \in DOMAIN instructions : instructions[i].program = ComputeBudget}
  IN [instructions |-> At(instructions, DOMAIN instructions \ budget),
      units |-> IF budget # {} THEN instructions[Max(budget)].data.units ELSE 0]

(* The budget instructions move into the header of a v1 message; the last *)
(* one counts. Only limits occur here, prices are refused.                *)
InlineComputeBudget(instructions) ==
  LET budget == {i \in DOMAIN instructions : instructions[i].program = ComputeBudget}
      remaining == At(instructions, DOMAIN instructions \ budget)
  IN [instructions |-> remaining,
      units |-> IF budget # {} THEN instructions[Max(budget)].data.units
                ELSE DefaultComputeUnitLimit(Len(remaining))]

(* CreateTx, once the instructions are built. A legacy or v0 message      *)
(* states no units of its own.                                            *)
CreateTx(kind, instructions, withTables) ==
  LET v1 == InlineComputeBudget(instructions) IN
  IF withTables
  THEN [version |-> "v0", units |-> 0, instructions |-> instructions]
  ELSE IF UsesV1Message(kind)
  THEN [version |-> "v1", units |-> v1.units, instructions |-> v1.instructions]
  ELSE [version |-> "legacy", units |-> 0, instructions |-> instructions]

-----------------------------------------------------------------------------
(* The tracker's side. `keys' are the account keys of the transaction and *)
(* instructions name their program and accounts by position in it.        *)

(* The bytes at some place of a signature instruction.                    *)
Message(data, at, size) ==
  IF at = data.at /\ size = data.message.size THEN data.message ELSE NoPayload

ExtractSolanaPayload(data, ixIndex) ==
  LET length == data.at + data.message.size
      Good(e) ==
        /\ e.ix \in {CurrentInstruction, ixIndex}
        /\ e.sig + SigLength <= length
        /\ e.pub + PubKeyLength <= length
        /\ e.msg + e.size <= length
      messages == {Message(data, e.msg, e.size) : e \in ToSet(data.entries)}
  IN IF data.num > 0 /\ (\A e \in ToSet(data.entries) : Good(e)) /\ Cardinality(messages) = 1
     THEN CHOOSE m \in messages : TRUE
     ELSE NoPayload

InstructionProgramEquals(instructions, keys, i, program) ==
  /\ i \in DOMAIN instructions
  /\ instructions[i].program \in DOMAIN keys
  /\ keys[instructions[i].program] = program

(* findBatchPayloadAtInstruction: the neighbour before the event's        *)
(* instruction, or else the one after it.                                 *)
FindBatchPayload(instructions, keys, top, batch) ==
  LET adjacent == {i \in {top - 1, top + 1} :
                     InstructionProgramEquals(instructions, keys, i, Ed25519Program)}
      payload == ExtractSolanaPayload(instructions[Min(adjacent)].data, Min(adjacent) - 1)
  IN IF /\ top \in DOMAIN instructions
        /\ adjacent # {}
        /\ payload # NoPayload
        /\ payload.batch = batch
     THEN payload ELSE NoPayload

(* Mutant: the loaded read-only keys come first. *)
TransactionAccountKeysSwapped(static, loaded) == static \o loaded.readonly \o loaded.writable

(* transactionAccountKeys: static, loaded writable, loaded read-only.     *)
TransactionAccountKeys(static, loaded) == static \o loaded.writable \o loaded.readonly

(* Mutant: any program's self-reported event is believed. *)
IsCPIEventOfAnyone(ix, keys, tracked) ==
  /\ ix.program \in DOMAIN keys
  /\ ix.tagged

IsCPIEvent(ix, keys, tracked) ==
  /\ ix.program \in DOMAIN keys
  /\ keys[ix.program] \in tracked
  /\ ix.tagged
  /\ ix.accounts # << >>
  /\ ix.accounts[1] \in DOMAIN keys
  /\ keys[ix.accounts[1]] = Pda("eventAuthority", keys[ix.program])

(* Inner instructions carry the top-level instruction they ran under.     *)
CollectCPIEvents(inner, keys, tracked) ==
  LET events == At(inner, {i \in DOMAIN inner : IsCPIEvent(inner[i], keys, tracked)})
  IN [i \in DOMAIN events |-> [program |-> keys[events[i].program], top |-> events[i].top,
                               batch |-> events[i].batch]]
=============================================================================
