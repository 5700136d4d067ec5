------------------------------- MODULE TxSender -------------------------------
(***************************************************************************)
(* The transaction sender (sendtx/tx_sender.go, sendtx/alt.go). Every      *)
(* builder first writes the keys it needs into the one instruction         *)
(* configuration of the sender, option by option, then reads them back by  *)
(* name into the positional account list of its instruction; two builders  *)
(* query the node in between. Nothing locks the configuration: calls of    *)
(* several goroutines interleave at every option.                          *)
(*                                                                         *)
(* An option and the final read of a builder are atomic here: a key torn   *)
(* by the data race on its bytes is left out.                              *)
(***************************************************************************)
EXTENDS TxBuilders

CONSTANTS
  Callers,      \* goroutines that share the sender
  Dtos,         \* the requests they make
  MaxCalls      \* bound: calls of CreateTx in a behaviour

(* Requests carry lists, a payload whose length fits its 16 bits, and a   *)
(* program of their own; a listing carries a map of token IDs.            *)
ASSUME DtosAssumption ==
  \A d \in Dtos :
    /\ d.kind \in Kinds
    /\ {"program", "receivers"} \subseteq DOMAIN d
    /\ d.receivers \in Seq(ToSet(d.receivers))
    /\ d.signers \in Seq(ToSet(d.signers))
    /\ d.payload.size \in Nat /\ U16(d.payload.size) = d.payload.size
    /\ d.payload # NoPayload
    /\ d.program # ComputeBudget
    /\ d.kind = "alt_addresses" => DOMAIN d.mints \in SUBSET Nat /\ IsFiniteSet(DOMAIN d.mints)

VARIABLES
  config,    \* txSnd.instructionConfig
  call,      \* each goroutine's current or last call
  overlap,   \* history: the requests of the calls that ran beside it
  calls      \* how many calls were made

vars == <<config, call, overlap, calls>>

SenderInit ==
  /\ config = NewInstructionConfig
  /\ call = [s \in Callers |-> [pc |-> "idle"]]
  /\ overlap = [s \in Callers |-> {}]
  /\ calls = 0

-----------------------------------------------------------------------------
(* A call of CreateTx (or of BridgeTransactionALTAddresses). *)

Active(s) == call[s].pc \in {"options", "read", "list", "append"}

Begin(s, d) ==
  /\ ~Active(s)
  /\ calls < MaxCalls
  /\ calls' = calls + 1
  /\ call' = [call EXCEPT ![s] = [pc   |-> IF Refused(d) THEN "failed" ELSE "options",
                                  dto  |-> d,
                                  left |-> OptionsOf(d.kind)]]
  /\ overlap' = [o \in Callers |->
                   IF o = s THEN {call[a].dto : a \in {b \in Callers : Active(b)}}
                   ELSE IF Active(o) THEN overlap[o] \cup {d} ELSE overlap[o]]
  /\ UNCHANGED config

(* The next option of ApplyOptions. *)
ApplyOption(s) ==
  LET c == call[s] IN
  /\ c.pc = "options" /\ c.left # << >>
  /\ config' = Option(config, Head(c.left), c.dto)
  /\ call' = [call EXCEPT ![s].left = Tail(@)]
  /\ UNCHANGED <<overlap, calls>>

(* GetAllRegisteredTokens, which may fail. *)
QueryTokens(s, answered) ==
  LET c == call[s] IN
  /\ c.pc = "options" /\ c.left = << >>
  /\ Queries(c.dto.kind)
  /\ call' = [call EXCEPT ![s].pc = IF answered /\ ~RefusedLate(c.dto) THEN "read" ELSE "failed"]
  /\ UNCHANGED <<config, overlap, calls>>

Ready(s) ==
  \/ call[s].pc = "read"
  \/ call[s].pc = "options" /\ call[s].left = << >> /\ ~Queries(call[s].dto.kind)

Built(s, out) ==
  call' = [call EXCEPT ![s] = [pc |-> "built", dto |-> call[s].dto, out |-> out]]

BuildInstruction(s) ==
  LET d == call[s].dto IN
  /\ Ready(s)
  /\ d.kind \notin {"bridge_transaction", "alt_addresses"}
  /\ Built(s, CreateTx(d.kind, <<Instruction(config, d)>>, d.tables))
  /\ UNCHANGED <<config, overlap, calls>>

BuildBatch(s) ==
  LET d == call[s].dto IN
  /\ Ready(s)
  /\ d.kind = "bridge_transaction"
  /\ IF Ed25519Refused(d.signers, d.payload)
     THEN call' = [call EXCEPT ![s].pc = "failed"]
     ELSE \E order \in IterationOrders(d.signers) :
            Built(s, CreateTx(d.kind, BridgeTransaction(config, d, order), d.tables))
  /\ UNCHANGED <<config, overlap, calls>>

(* BridgeTransactionALTAddresses lists the stable keys; then, token by    *)
(* token, it applies the registry's option and appends the entry.         *)
BeginListing(s) ==
  LET d == call[s].dto IN
  /\ Ready(s)
  /\ d.kind = "alt_addresses"
  /\ call' = [call EXCEPT ![s] = [pc |-> "list", dto |-> d, left |-> << >>,
                                  next |-> 1, out |-> ALTFront(config)]]
  /\ UNCHANGED <<config, overlap, calls>>

Token(s) == ALTTokens(call[s].dto)[call[s].next]
MoreTokens(s) == call[s].next <= Len(ALTTokens(call[s].dto))

(* Mutant: the option is applied for the first token only. *)
ApplyRegistryOnce(s) ==
  /\ call[s].pc = "list" /\ MoreTokens(s)
  /\ config' = IF call[s].next = 1 THEN WithTokenRegistry(config, Token(s)) ELSE config
  /\ call' = [call EXCEPT ![s].pc = "append"]
  /\ UNCHANGED <<overlap, calls>>

ApplyRegistry(s) ==
  /\ call[s].pc = "list" /\ MoreTokens(s)
  /\ config' = WithTokenRegistry(config, Token(s))
  /\ call' = [call EXCEPT ![s].pc = "append"]
  /\ UNCHANGED <<overlap, calls>>

AppendEntry(s) ==
  LET c == call[s] IN
  /\ c.pc = "append"
  /\ call' = [call EXCEPT ![s] = [c EXCEPT !.pc = "list", !.next = c.next + 1,
                                          !.out = c.out \o ALTEntry(config, c.dto, Token(s))]]
  /\ UNCHANGED <<config, overlap, calls>>

EndListing(s) ==
  /\ call[s].pc = "list" /\ ~MoreTokens(s)
  /\ Built(s, call[s].out)
  /\ UNCHANGED <<config, overlap, calls>>

Next ==
  \E s \in Callers :
    \/ \E d \in Dtos : Begin(s, d)
    \/ ApplyOption(s)
    \/ \E answered \in BOOLEAN : QueryTokens(s, answered)
    \/ BuildInstruction(s)
    \/ BuildBatch(s)
    \/ BeginListing(s) \/ ApplyRegistry(s) \/ AppendEntry(s) \/ EndListing(s)

Spec == SenderInit /\ [][Next]_vars

-----------------------------------------------------------------------------
(* Properties. *)

BuiltTx(s) == call[s].pc = "built" /\ call[s].dto.kind # "alt_addresses"
BuiltBatch(s) == call[s].pc = "built" /\ call[s].dto.kind = "bridge_transaction"

(* The account that a role stands for, to a call with request d whose     *)
(* configuration was derived for the context x.                           *)
Wanted(role, d, x) ==
  LET mint == IF d.kind = "bridge_request" THEN MintOf(d.program, d.token) ELSE d.mint IN
  CASE role \in {"signer", "payer", "authority"} -> d.sender
    [] role = "validator_set"            -> Pda("validatorSet", x.program)
    [] role = "vault"                    -> Pda("vault", x.program)
    [] role = "fee_config"               -> Pda("feeConfig", x.program)
    [] role = "program_config"           -> Pda("programConfig", x.program)
    [] role = "program_data"             -> Pda("programData", x.program)
    [] role = "event_authority"          -> Pda("eventAuthority", x.program)
    [] role = "token_registry"           -> TokenPda("tokenRegistry", x.token, x.program)
    [] role = "token_id_guard"           -> TokenPda("tokenIDGuard", x.token, x.program)
    [] role = "metadata"                 -> <<"metadata", x.mint>>
    [] role = "program"                  -> x.program
    [] role = "mint"                     -> mint
    [] role = "signers_ata"              -> Ata(d.sender, mint)
    [] role = "vault_ata"                -> Ata(Pda("vault", x.program), mint)
    [] role = "receiver"                 -> d.receiver
    [] role = "receiver_ata"             -> Ata(d.receiver, mint)
    [] role = "treasury"                 -> Treasury
    [] role = "new_treasury"             -> d.newTreasury
    [] role = "token_program"            -> WellKnown("token")
    [] role = "metadata_program"         -> WellKnown("token_metadata")
    [] role = "system_program"           -> WellKnown("system")
    [] role = "associated_token_program" -> WellKnown("ata_program")
    [] role = "rent"                     -> WellKnown("rent")
    [] role = "instructions"             -> WellKnown("instructions_sysvar")

(* What a call may mix: a program, a token and a mint of its own or of    *)
(* calls that ran beside it, in any combination. On its own, only its own. *)
Tokens(d) == IF d.kind = "alt_addresses" THEN DOMAIN d.mints ELSE {d.token}

Mixed(s) ==
  LET near == overlap[s] \cup {call[s].dto} IN
  [program : {d.program : d \in near}, token : UNION {Tokens(d) : d \in near},
   mint : {d.mint : d \in near}]

(* Every account of every built instruction is the one its role in the    *)
(* program's interface asks for, derived for this call's own program and  *)
(* token: never left over from an earlier call on the same sender, and    *)
(* mixed up only with calls that ran beside it (tx_sender.go:412, :441).  *)
OwnAccounts ==
  \A s \in Callers : BuiltTx(s) =>
    \A ix \in ToSet(call[s].out.instructions) :
      \A i \in DOMAIN ix.accounts :
        (call[s].dto.kind = "bridge_transaction" => i <= Len(BridgeTransactionAccounts)) =>
          \E x \in Mixed(s) : ix.accounts[i].key = Wanted(ix.accounts[i].role, call[s].dto, x)

(* The accounts behind the fixed ones lie where the program, which walks  *)
(* the signed payload, looks for them: each mint once, the receivers,     *)
(* registries of tokens with those mints, and for every receiver the      *)
(* token account of its own token (tx_sender.go:504-506).                 *)
BatchLayout ==
  \A s \in Callers : (BuiltBatch(s) /\ overlap[s] = {}) =>
    LET d == call[s].dto
        ixs == call[s].out.instructions
        rest == SubSeq(ixs[Len(ixs)].accounts, Len(BridgeTransactionAccounts) + 1,
                       Len(ixs[Len(ixs)].accounts))
        wanted == {MintOf(d.program, r.token) : r \in ToSet(d.receivers)}
        nm == Cardinality(wanted)
        nr == Len(d.receivers)
        Key(i) == rest[i].key
    IN /\ Len(rest) = 3 * nm + 2 * nr
       /\ {Key(i) : i \in 1..nm} = wanted
       /\ \A i \in 1..nr :
            /\ Key(nm + i) = d.receivers[i].wallet
            /\ Key(2 * nm + nr + i) =
                 Ata(d.receivers[i].wallet, MintOf(d.program, d.receivers[i].token))
       /\ \A i \in 1..nm :
            /\ \E r \in ToSet(d.receivers) :
                 /\ MintOf(d.program, r.token) = Key(i)
                 /\ Key(nm + nr + i) = TokenPda("tokenRegistry", r.token, d.program)
            /\ Key(2 * nm + 2 * nr + i) = Ata(Pda("vault", d.program), Key(i))

(* The tracker, given the transaction, finds exactly the payload that the *)
(* validators signed next to the bridge instruction: whatever the number  *)
(* and order of signers, the message format and the compute budget        *)
(* instruction in front (cpi_events.go:106, payload_parser.go:49).        *)
PayloadFound ==
  \A s \in Callers : BuiltBatch(s) =>
    LET d == call[s].dto
        ixs == call[s].out.instructions
        keys == [i \in DOMAIN ixs |-> ixs[i].program]
        compiled == [i \in DOMAIN ixs |->
                       [program |-> i, data |-> IF i < Len(ixs) THEN ixs[i].data ELSE << >>]]
    IN FindBatchPayload(compiled, keys, Len(ixs), d.payload.batch) = d.payload

(* A batch is granted the same compute units in every message format, and *)
(* a v1 message holds no budget instruction, which it would ignore        *)
(* (tx_sender.go:124-128).                                                *)
Granted(tx) ==
  LET budget == {i \in DOMAIN tx.instructions : tx.instructions[i].program = ComputeBudget} IN
  IF tx.version = "v1" THEN tx.units
  ELSE IF budget # {} THEN tx.instructions[Min(budget)].data.units
  ELSE DefaultComputeUnitLimit(Len(tx.instructions))

BudgetKept ==
  \A s \in Callers : BuiltBatch(s) =>
    LET d == call[s].dto
        tx == call[s].out
    IN /\ Granted(tx) = IF Len(d.receivers) = MaxReceivers THEN MaxReceiversUnits
                        ELSE DefaultComputeUnitLimit(2)
       /\ tx.version = "v1" => \A ix \in ToSet(tx.instructions) : ix.program # ComputeBudget

(* The accounts of a batch of d.program to these receivers that a lookup  *)
(* table may hold: none of a sender, a receiver or a program, which stay  *)
(* static, and not the event authority, which stays so too.               *)
LookupKeys(d, receivers) ==
  LET c == ApplyOptions(NewInstructionConfig, BridgeTransactionOptions, d)
      accounts == BridgeInstruction(c, [d EXCEPT !.receivers = receivers]).accounts
  IN {accounts[i].key : i \in {j \in DOMAIN accounts :
        /\ "s" \notin accounts[j].flags
        /\ accounts[j].role \notin {"recipient", "recipient_ata", "program", "event_authority"}}}

(* The caller's map is what the chain has for these tokens. *)
FromChain(d) ==
  /\ d.program \in DOMAIN Registered
  /\ \A t \in DOMAIN d.mints : d.mints[t] = MintOf(d.program, t)

(* A listing for tokens as they are on chain proposes only keys that some *)
(* batch over these tokens looks up, and all that any such batch does,    *)
(* though the registries pass through one shared field (alt.go:13-28). It *)
(* repeats a key exactly when two token IDs have one mint: ALTAdmin, and  *)
(* not the listing, sorts that out (alt_test.go:105-128).                 *)
ALTAddressesUsed ==
  \A s \in Callers :
    LET d == call[s].dto
        out == call[s].out
        tokens == {t \in DOMAIN d.mints : d.mints[t] # NativeSolMint}
        Paying(t) == <<[wallet |-> Wallet("r"), token |-> t]>>
    IN (/\ call[s].pc = "built" /\ d.kind = "alt_addresses" /\ overlap[s] = {}
        /\ FromChain(d)) =>
       /\ ToSet(out) \subseteq LookupKeys(d, << >>) \cup UNION {LookupKeys(d, Paying(t)) : t \in tokens}
       /\ \A b \in Dtos :
            (/\ b.kind = "bridge_transaction" /\ b.program = d.program
             /\ \A r \in ToSet(b.receivers) : r.token \in tokens) =>
              LookupKeys(b, b.receivers) \subseteq ToSet(out)
       /\ IsInjective(out) <=> \A t, u \in tokens : d.mints[t] = d.mints[u] => t = u

(* "batchers can deterministically construct the same transaction payload *)
(* before producing signatures" (tx_sender.go:42-43): two calls with the  *)
(* same batch build the same transaction.                                 *)
SameBatchSameTx ==
  \A s, t \in Callers :
    (BuiltBatch(s) /\ BuiltBatch(t) /\ call[s].dto = call[t].dto) => call[s].out = call[t].out
=============================================================================
