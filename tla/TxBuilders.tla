------------------------------- MODULE TxBuilders ------------------------------
(***************************************************************************)
(* What the builders of the transaction sender compute                     *)
(* (sendtx/tx_sender.go, sendtx/alt.go): for each kind of request the      *)
(* checks it makes, the options it applies to the sender's configuration   *)
(* and the instructions it makes of what the configuration then holds.     *)
(***************************************************************************)
EXTENDS BatchMessage

CONSTANTS
  Registered,   \* the registries on chain: program -> token -> mint
  MinAmount, MinBridgingFee, MinOperationFee  \* ChainConfig

(* A registered mint is a mint account or native SOL; several tokens may  *)
(* have the same, since a registry is keyed by its token ID only.         *)
ASSUME RegistryAssumption ==
  \A program \in DOMAIN Registered : \A t \in DOMAIN Registered[program] :
    LET mint == Registered[program][t] IN mint = NativeSolMint \/ mint = MintKey(mint[2])

(* A token that is not registered has the zero key of a missing map entry. *)
MintOf(program, token) ==
  IF token \in DOMAIN Registered[program] THEN Registered[program][token] ELSE ZeroKey

Treasury == Wallet("treasury")

-----------------------------------------------------------------------------
(* What each builder asks for. *)

BridgingRequestOptions ==
  <<"program", "validatorSet", "vault", "tokenRegistry", "feeConfig", "eventAuthority">>
BridgeTransactionOptions == <<"program", "validatorSet", "vault", "eventAuthority">>
BridgeVSUOptions == <<"program", "validatorSet">>
(* Mutant: the vault is not derived anew. *)
HotWalletIncrementOptionsNoVault == <<"program", "tokenRegistry", "eventAuthority">>

HotWalletIncrementOptions == <<"program", "vault", "tokenRegistry", "eventAuthority">>
InitializeOptions ==
  <<"program", "programData", "validatorSet", "vault", "feeConfig", "programConfig">>
RegisterLockUnlockOptions == <<"program", "feeConfig", "tokenRegistry", "tokenIDGuard">>
RegisterMintBurnOptions ==
  <<"program", "feeConfig", "vault", "metadata", "tokenRegistry", "tokenIDGuard">>
UpdateFeeConfigOptions == <<"program", "feeConfig">>
UpdateProgramVersionOptions == <<"program", "programConfig">>
UpdateMinBridgingAmountOptions == <<"program", "feeConfig", "tokenRegistry">>
ALTAddressesOptions == <<"program", "validatorSet", "vault">>

Transfers == {"transfer", "spl_transfer", "create_instruction"}

Kinds ==
  {"bridge_request", "bridge_transaction", "bridge_vsu", "hot_wallet_increment",
   "bridge_initialize", "register_tokens_lock_unlock", "register_tokens_mint_burn",
   "update_fee_config", "update_program_version", "update_min_bridging_amount",
   "alt_addresses"} \cup Transfers

OptionsOf(kind) ==
  CASE kind = "bridge_request"               -> BridgingRequestOptions
    [] kind = "bridge_transaction"           -> BridgeTransactionOptions
    [] kind = "bridge_vsu"                   -> BridgeVSUOptions
    [] kind = "hot_wallet_increment"         -> HotWalletIncrementOptions
    [] kind = "bridge_initialize"            -> InitializeOptions
    [] kind = "register_tokens_lock_unlock"  -> RegisterLockUnlockOptions
    [] kind = "register_tokens_mint_burn"    -> RegisterMintBurnOptions
    [] kind = "update_fee_config"            -> UpdateFeeConfigOptions
    [] kind = "update_program_version"       -> UpdateProgramVersionOptions
    [] kind = "update_min_bridging_amount"   -> UpdateMinBridgingAmountOptions
    [] kind = "alt_addresses"                -> ALTAddressesOptions
    [] kind \in Transfers                    -> << >>

(* The builders that read the registered tokens after their options.      *)
Queries(kind) == kind \in {"bridge_request", "bridge_transaction"}

-----------------------------------------------------------------------------
(* The instructions, from what the configuration holds when they are built. *)

BridgingRequest(c, d) ==
  LET mint == MintOf(d.program, d.token) IN
  NewInstruction(d.program, BridgeRequestAccounts,
    <<d.sender, c["validatorSet"], Ata(d.sender, mint), c["vault"], Ata(c["vault"], mint), mint,
      c["tokenRegistry"], WellKnown("token"), WellKnown("system"), WellKnown("ata_program"),
      c["feeConfig"], Treasury, c["eventAuthority"], d.program>>)

BridgeVSU(c, d) ==
  NewInstruction(d.program, BridgeVsuAccounts,
    <<d.sender, c["validatorSet"], WellKnown("system")>>)

HotWalletIncrement(c, d) ==
  NewInstruction(d.program, HotWalletIncrementAccounts,
    <<d.sender, Ata(d.sender, d.mint), c["vault"], Ata(c["vault"], d.mint), d.mint,
      WellKnown("token"), WellKnown("system"), WellKnown("ata_program"),
      c["eventAuthority"], d.program>>)

Initialize(c, d) ==
  NewInstruction(d.program, InitializeAccounts,
    <<d.sender, c["validatorSet"], c["vault"], c["feeConfig"], c["programConfig"], Treasury,
      c["program"], c["programData"], WellKnown("system")>>)

RegisterTokenLockUnlock(c, d) ==
  NewInstruction(d.program, RegisterLockUnlockTokenAccounts,
    <<d.sender, c["feeConfig"], d.mint, c["tokenRegistry"], c["tokenIDGuard"],
      WellKnown("system")>>)

RegisterTokenMintBurn(c, d) ==
  NewInstruction(d.program, RegisterMintBurnTokenAccounts,
    <<d.sender, c["feeConfig"], c["vault"], d.mint, c["metadata"], c["tokenRegistry"],
      c["tokenIDGuard"], WellKnown("token"), WellKnown("token_metadata"), WellKnown("system"),
      WellKnown("rent")>>)

(* The new treasury is the zero key when the treasury stays. *)
UpdateFeeConfig(c, d) ==
  NewInstruction(d.program, UpdateFeeConfigAccounts, <<d.sender, c["feeConfig"], d.newTreasury>>)

UpdateProgramVersion(c, d) ==
  NewInstruction(d.program, UpdateProgramVersionAccounts, <<d.sender, c["programConfig"]>>)

UpdateMinBridgingAmount(c, d) ==
  NewInstruction(d.program, UpdateMinBridgingAmountAccounts,
    <<d.sender, c["feeConfig"], c["tokenRegistry"]>>)

(* Transfers touch no configuration; their constructors are solana-go's.  *)
SOLTransfer(d) ==
  NewInstruction(WellKnown("system"), << <<"signer", {"w", "s"}>>, <<"receiver", {"w"}>> >>,
    <<d.sender, d.receiver>>)

SPLTransfer(d) ==
  NewInstruction(WellKnown("token"),
    << <<"signers_ata", {"w"}>>, <<"receiver_ata", {"w"}>>, <<"signer", {"s"}>> >>,
    <<Ata(d.sender, d.mint), Ata(d.receiver, d.mint), d.sender>>)

CreateAta(d) ==
  NewInstruction(WellKnown("ata_program"),
    << <<"signer", {"w", "s"}>>, <<"receiver_ata", {"w"}>>, <<"receiver", {}>>, <<"mint", {}>> >>,
    <<d.sender, Ata(d.receiver, d.mint), d.receiver, d.mint>>)

-----------------------------------------------------------------------------
(* bridge_transaction. *)

(* Mutant: a mint is listed again for every receiver. *)
DeriveMintsPerReceiver(program, receivers) ==
  [mints |-> [i \in DOMAIN receivers |-> MintOf(program, receivers[i].token)],
   tokens |-> [i \in DOMAIN receivers |-> receivers[i].token],
   index |-> [i \in DOMAIN receivers |-> i]]

(* deriveBridgeMintsAndTransfers: mints in first-seen order, the token    *)
(* that brought each of them in, and every receiver's index.              *)
DeriveMints(program, receivers) ==
  LET tokens == [i \in DOMAIN receivers |-> receivers[i].token]
      all == [i \in DOMAIN receivers |-> MintOf(program, tokens[i])]
      mints == At(all, FirstPositions(all))
  IN [mints  |-> mints,
      tokens |-> At(tokens, FirstPositions(all)),
      index  |-> [i \in DOMAIN receivers |-> PositionIn(mints, all[i])]]

Remaining(key, role, flags) == [key |-> key, role |-> role, flags |-> flags]

(* bridgeTransactionRemainingAccounts *)
RemainingAccounts(c, d) ==
  LET m == DeriveMints(d.program, d.receivers)
      Mints(Key(_), role, flags) ==
        [i \in DOMAIN m.mints |-> Remaining(Key(i), role, flags)]
      Receivers(Key(_), role, flags) ==
        [i \in DOMAIN d.receivers |-> Remaining(Key(i), role, flags)]
  IN Mints(LAMBDA i : m.mints[i], "mint", {"w"})
     \o Receivers(LAMBDA i : d.receivers[i].wallet, "recipient", {})
     \o Mints(LAMBDA i : TokenPda("tokenRegistry", m.tokens[i], d.program), "registry", {})
     \o Receivers(LAMBDA i : Ata(d.receivers[i].wallet, m.mints[m.index[i]]), "recipient_ata", {"w"})
     \o Mints(LAMBDA i : Ata(c["vault"], m.mints[i]), "vault_ata", {"w"})

BridgeInstruction(c, d) ==
  LET fixed == NewInstruction(d.program, BridgeTransactionAccounts,
                 <<d.sender, c["validatorSet"], c["vault"], WellKnown("token"),
                   WellKnown("system"), WellKnown("ata_program"),
                   WellKnown("instructions_sysvar"), c["eventAuthority"], d.program>>)
  IN [fixed EXCEPT !.accounts = @ \o RemainingAccounts(c, d)]

BridgeTransaction(c, d, signers) ==
  LET pair == <<BuildBatchedEd25519(signers, d.payload), BridgeInstruction(c, d)>> IN
  IF Len(d.receivers) = MaxReceivers
  THEN <<SetComputeUnitLimit(MaxReceiversUnits)>> \o pair
  ELSE pair

(* The orders in which the map of signature pairs may be iterated: two    *)
(* stand for all.                                                         *)
IterationOrders(signers) == {signers, Reverse(signers)}

-----------------------------------------------------------------------------
(* BridgeTransactionALTAddresses: the stable keys, then three for each    *)
(* token of the caller's map, d.mints, from token IDs to mints.           *)

ALTFront(c) ==
  <<c["validatorSet"], c["vault"], WellKnown("token"), WellKnown("system"),
    WellKnown("ata_program"), WellKnown("instructions_sysvar")>>

(* The tokens in the order of their IDs, those of native SOL skipped. *)
ALTTokens(d) == Ascending({t \in DOMAIN d.mints : d.mints[t] # NativeSolMint})

(* The registry goes through the configuration's field. *)
WithTokenRegistry(c, token) == Option(c, "tokenRegistry", [token |-> token])

ALTEntry(c, d, token) ==
  <<d.mints[token], c["tokenRegistry"], Ata(c["vault"], d.mints[token])>>

(* What a call that nothing interleaves with lists, entry behind entry. *)
ALTEntries(c, d) ==
  LET tokens == ALTTokens(d)
      Of(t) == ALTEntry(WithTokenRegistry(c, t), d, t)
  IN [i \in 1..(3 * Len(tokens)) |-> Of(tokens[((i - 1) \div 3) + 1])[((i - 1) % 3) + 1]]

ALTAddresses(c, d) == ALTFront(c) \o ALTEntries(c, d)

-----------------------------------------------------------------------------
(* The checks. *)

OnCurve(key) == key[1] = "wallet"

CheckFees(d) == d.bridgingFee >= MinBridgingFee /\ d.operationFee >= MinOperationFee

(* The builder's checks before it touches the configuration. *)
Refused(d) ==
  \/ d.kind \notin Transfers /\ d.program = ZeroKey
  \/ d.kind = "bridge_request"
       /\ \/ ~CheckFees(d)
          \/ \E i \in DOMAIN d.amounts : d.amounts[i] < MinAmount
          \/ ~OnCurve(d.sender)
          \/ Len(d.amounts) # 1
  \/ d.kind = "bridge_transaction" /\ ~OnCurve(d.sender)
  \/ d.kind = "hot_wallet_increment" /\ d.amounts[1] = 0
  \/ d.kind \in {"register_tokens_lock_unlock", "register_tokens_mint_burn"}
       /\ ~ValidPublicKey(d.mint)

(* Its checks after the registered tokens are known. *)
RefusedLate(d) ==
  \/ d.kind = "bridge_request" /\ ~ValidPublicKey(MintOf(d.program, d.token))
  \/ d.kind = "bridge_transaction" /\ \E r \in ToSet(d.receivers) : ~OnCurve(r.wallet)

(* buildInstructions, but for batches. *)
Instruction(c, d) ==
  CASE d.kind = "bridge_request"              -> BridgingRequest(c, d)
    [] d.kind = "bridge_vsu"                  -> BridgeVSU(c, d)
    [] d.kind = "hot_wallet_increment"        -> HotWalletIncrement(c, d)
    [] d.kind = "bridge_initialize"           -> Initialize(c, d)
    [] d.kind = "register_tokens_lock_unlock" -> RegisterTokenLockUnlock(c, d)
    [] d.kind = "register_tokens_mint_burn"   -> RegisterTokenMintBurn(c, d)
    [] d.kind = "update_fee_config"           -> UpdateFeeConfig(c, d)
    [] d.kind = "update_program_version"      -> UpdateProgramVersion(c, d)
    [] d.kind = "update_min_bridging_amount"  -> UpdateMinBridgingAmount(c, d)
    [] d.kind = "transfer"                    -> SOLTransfer(d)
    [] d.kind = "spl_transfer"                -> SPLTransfer(d)
    [] d.kind = "create_instruction"          -> CreateAta(d)
=============================================================================
