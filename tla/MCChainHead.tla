----------------------------- MODULE MCChainHead -----------------------------
(***************************************************************************)
(* Small chains for TLC.                                                   *)
(***************************************************************************)
EXTENDS ChainHead

(* Every way to fill or skip the slots.                                    *)
AllChains == SUBSET (1..MaxSlot)
=============================================================================
