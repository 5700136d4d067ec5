----------------------------- MODULE MCBoltStore -----------------------------
(***************************************************************************)
(* Small stores for TLC.                                                   *)
(***************************************************************************)
EXTENDS BoltStore

MCHeights == [s \in Slots |-> s + 10]
=============================================================================
