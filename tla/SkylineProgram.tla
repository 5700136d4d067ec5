---------------------------- MODULE SkylineProgram ----------------------------
(***************************************************************************)
(* The account lists of the bridge program's instructions                  *)
(* (sendtx/skyline_program/instructions.go). Each constructor takes its    *)
(* accounts by position and appends them in the order of the program's     *)
(* interface: an entry is the account's role and its flags, "w" writable   *)
(* and "s" signer.                                                         *)
(***************************************************************************)
EXTENDS Integers, Sequences

BridgeRequestAccounts ==
  << <<"signer", {"w", "s"}>>, <<"validator_set", {"w"}>>, <<"signers_ata", {"w"}>>,
     <<"vault", {"w"}>>, <<"vault_ata", {"w"}>>, <<"mint", {"w"}>>, <<"token_registry", {}>>,
     <<"token_program", {}>>, <<"system_program", {}>>, <<"associated_token_program", {}>>,
     <<"fee_config", {}>>, <<"treasury", {"w"}>>, <<"event_authority", {}>>, <<"program", {}>> >>

BridgeTransactionAccounts ==
  << <<"payer", {"w", "s"}>>, <<"validator_set", {"w"}>>, <<"vault", {"w"}>>,
     <<"token_program", {}>>, <<"system_program", {}>>, <<"associated_token_program", {}>>,
     <<"instructions", {}>>, <<"event_authority", {}>>, <<"program", {}>> >>

BridgeVsuAccounts ==
  << <<"payer", {"w", "s"}>>, <<"validator_set", {"w"}>>, <<"system_program", {}>> >>

HotWalletIncrementAccounts ==
  << <<"signer", {"w", "s"}>>, <<"signers_ata", {"w"}>>, <<"vault", {"w"}>>,
     <<"vault_ata", {"w"}>>, <<"mint", {}>>, <<"token_program", {}>>, <<"system_program", {}>>,
     <<"associated_token_program", {}>>, <<"event_authority", {}>>, <<"program", {}>> >>

InitializeAccounts ==
  << <<"signer", {"w", "s"}>>, <<"validator_set", {"w"}>>, <<"vault", {"w"}>>,
     <<"fee_config", {"w"}>>, <<"program_config", {"w"}>>, <<"treasury", {}>>, <<"program", {}>>,
     <<"program_data", {}>>, <<"system_program", {}>> >>

RegisterLockUnlockTokenAccounts ==
  << <<"authority", {"w", "s"}>>, <<"fee_config", {}>>, <<"mint", {}>>,
     <<"token_registry", {"w"}>>, <<"token_id_guard", {"w"}>>, <<"system_program", {}>> >>

RegisterMintBurnTokenAccounts ==
  << <<"authority", {"w", "s"}>>, <<"fee_config", {}>>, <<"vault", {}>>, <<"mint", {"w", "s"}>>,
     <<"metadata", {"w"}>>, <<"token_registry", {"w"}>>, <<"token_id_guard", {"w"}>>,
     <<"token_program", {}>>, <<"metadata_program", {}>>, <<"system_program", {}>>,
     <<"rent", {}>> >>

UpdateFeeConfigAccounts ==
  << <<"authority", {"s"}>>, <<"fee_config", {"w"}>>, <<"new_treasury", {}>> >>

UpdateMinBridgingAmountAccounts ==
  << <<"authority", {"s"}>>, <<"fee_config", {}>>, <<"token_registry", {"w"}>> >>

UpdateProgramVersionAccounts ==
  << <<"authority", {"s"}>>, <<"program_config", {"w"}>> >>

(* A constructor called with these keys, in its parameters' order. *)
NewInstruction(program, accounts, keys) ==
  [program  |-> program,
   accounts |-> [i \in DOMAIN accounts |->
                   [key |-> keys[i], role |-> accounts[i][1], flags |-> accounts[i][2]]]]
=============================================================================
