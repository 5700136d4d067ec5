------------------------------ MODULE MCTxSender ------------------------------
(* Two goroutines on one sender; requests of every kind for two programs,  *)
(* registered tokens, two of them with one mint and one native, and a      *)
(* token that is not registered.                                           *)
EXTENDS TxSender, TLC

CONSTANTS p, q, noPayload, first, second

MCPrograms == {ProgramKey(p), ProgramKey(q)}
MCRegistered ==
  [x \in MCPrograms |-> (1 :> MintKey("m1")) @@ (2 :> MintKey("m2"))
                        @@ (4 :> NativeSolMint) @@ (5 :> MintKey("m1"))]

Dto(kind, program, token) ==
  [kind |-> kind, program |-> program, token |-> token, mint |-> MintOf(program, token),
   sender |-> Wallet("sender"), receiver |-> Wallet("to"), newTreasury |-> Wallet("new"),
   amounts |-> <<10>>, bridgingFee |-> 5, operationFee |-> 3,
   receivers |-> << >>, signers |-> << >>, payload |-> [size |-> 0, batch |-> 0],
   tables |-> FALSE, mints |-> << >>]

Listing(program, tokens) ==
  [Dto("alt_addresses", program, 1) EXCEPT !.mints = [t \in tokens |-> MintOf(program, t)]]

Batch(program, tokens, signers, tables) ==
  [Dto("bridge_transaction", program, 1) EXCEPT
     !.receivers = [i \in DOMAIN tokens |->
                      [wallet |-> Wallet(<<"r1", "r2", "r3">>[i]), token |-> tokens[i]]],
     !.signers = signers, !.payload = [size |-> 200, batch |-> 7], !.tables = tables]

SeqTo(n) == [i \in 1..n |-> i]

Sharing ==
  {"hot_wallet_increment", "bridge_initialize", "register_tokens_lock_unlock",
   "register_tokens_mint_burn", "update_fee_config", "update_program_version",
   "update_min_bridging_amount", "bridge_vsu"}

Good(x) ==
  {Dto(k, x, 1) : k \in Sharing}
  \cup {Dto("bridge_request", x, t) : t \in {1, 2}}
  \cup {Batch(x, <<2, 1, 2>>, SeqTo(2), FALSE), Listing(x, {1, 2, 4, 5})}

(* What is asked of one program only: other batches, transfers, and       *)
(* requests that are refused early or late.                               *)
Special ==
  LET x == ProgramKey(p)
      Request == Dto("bridge_request", x, 1)
  IN {Dto(k, x, 1) : k \in Transfers}
     \cup {Dto("register_tokens_mint_burn", x, 2), Dto("hot_wallet_increment", x, 4),
           [Dto("update_fee_config", x, 1) EXCEPT !.newTreasury = ZeroKey],
           Listing(x, {2, 4}),
           Batch(x, <<1>>, SeqTo(255), TRUE), Batch(x, <<5, 2, 1>>, SeqTo(1), TRUE),
           Batch(x, <<4, 3>>, SeqTo(1), FALSE)}
     \cup {Batch(x, <<1>>, << >>, TRUE),
           [Batch(x, <<1>>, SeqTo(1), TRUE) EXCEPT !.receivers[1].wallet = Pda("vault", x)],
           [Dto("bridge_vsu", x, 1) EXCEPT !.program = ZeroKey],
           [Dto("hot_wallet_increment", x, 1) EXCEPT !.amounts = <<0>>],
           Dto("register_tokens_lock_unlock", x, 3),
           Dto("bridge_request", x, 3),
           [Request EXCEPT !.bridgingFee = 4],
           [Request EXCEPT !.amounts = <<10, 10>>],
           [Request EXCEPT !.sender = Pda("vault", x)]}

MCDtos == Good(ProgramKey(p)) \cup Good(ProgramKey(q)) \cup Special

OneBatch == {Batch(ProgramKey(p), <<1>>, SeqTo(2), FALSE)}

Symmetry == Permutations({first, second})
=============================================================================
