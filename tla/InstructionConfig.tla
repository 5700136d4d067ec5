-------------------------- MODULE InstructionConfig --------------------------
(***************************************************************************)
(* The account keys that the sender derives, and the configuration record  *)
(* it derives them into (sendtx/instruction.go, wallet/address.go).        *)
(*                                                                         *)
(* A key is a tuple that names how it came about: derived keys of          *)
(* different seeds, programs, tokens or owners are different.              *)
(***************************************************************************)
EXTENDS Integers, Sequences, SequencesExt, Subsequences

Wallet(name) == <<"wallet", name>>
ProgramKey(name) == <<"program", name>>
MintKey(name) == <<"mint", name>>
WellKnown(name) == <<"known", name>>

(* The all-zero key is also the System Program's, which stands for native *)
(* SOL where a mint is asked for (skyline_program.NATIVE_SOL_MINT).       *)
ZeroKey == WellKnown("system")
NativeSolMint == WellKnown("system")

Pda(seed, program) == <<"pda", seed, program>>
TokenPda(seed, token, program) == <<"pda", seed, token, program>>

(* wallet.FindAssociatedTokenAddress *)
Ata(owner, mint) == <<"ata", owner, mint>>

(* wallet.ValidatePublicKey accepts every key but the zero one. *)
ValidPublicKey(key) == key # ZeroKey

(* The fields that options set. The well-known program keys, set once by  *)
(* NewInstructionConfig, are WellKnown(...) where they are used.          *)
ConfigFields ==
  {"program", "programData", "validatorSet", "vault", "feeConfig", "programConfig",
   "tokenRegistry", "tokenIDGuard", "metadata", "eventAuthority"}

NewInstructionConfig == [f \in ConfigFields |-> ZeroKey]

(* One option: WithProgramID stores its argument, the others derive their *)
(* key from the program that the configuration holds at that moment.      *)
Option(c, field, dto) ==
  [c EXCEPT ![field] =
     CASE field = "program"       -> dto.program
       [] field \in {"tokenRegistry", "tokenIDGuard"}
                                  -> TokenPda(field, dto.token, c["program"])
       [] field = "metadata"      -> <<"metadata", dto.mint>>
       [] OTHER                   -> Pda(field, c["program"])]

(* ApplyOptions of a call that nothing interleaves with. *)
ApplyOptions(c, fields, dto) ==
  LET applied[i \in 0..Len(fields)] ==
        IF i = 0 THEN c ELSE Option(applied[i - 1], fields[i], dto)
  IN applied[Len(fields)]
=============================================================================
