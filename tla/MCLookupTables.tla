---------------------------- MODULE MCLookupTables ----------------------------
EXTENDS LookupTables, TLC
CONSTANTS first, second, noPayload, noEntry

MCProgram == ProgramKey("P")

(* Tokens 1 and 3 have one mint. *)
MCRegistered ==
  MCProgram :> ((1 :> MintKey("m1")) @@ (2 :> MintKey("m2")) @@ (3 :> MintKey("m1")))

Dto ==
  [program |-> MCProgram, token |-> 1, mint |-> MintKey("m1"), sender |-> Wallet("sender"),
   mints |-> << >>, receivers |-> << >>, signers |-> << >>, payload |-> [size |-> 0, batch |-> 0]]

MCBatch ==
  [Dto EXCEPT !.receivers = <<[wallet |-> Wallet("r1"), token |-> 2],
                              [wallet |-> Wallet("r2"), token |-> 1],
                              [wallet |-> Wallet("r1"), token |-> 1]>>,
              !.signers = <<1, 2>>, !.payload = [size |-> 150, batch |-> 7]]

Listing(tokens) == [Dto EXCEPT !.mints = [t \in tokens |-> MintOf(MCProgram, t)]]

MCAltRequests == {Listing({1}), Listing({1, 2, 3})}

Symmetry == Permutations(Users)
=============================================================================
