----------------------------- MODULE MCTxPolling -----------------------------
(***************************************************************************)
(* Small chains for TLC: every distribution of NumTxs transactions over    *)
(* the slots, with every choice of a kind for each of them.                *)
(***************************************************************************)
EXTENDS TxPolling

CONSTANT Kinds \* what a transaction does: <<status, events emitted>>

(* A reverted transaction still shows the events it emitted.               *)
OneEvent == {<<"ok", 0>>, <<"ok", 1>>}
TwoEvents == {<<"ok", 0>>, <<"ok", 2>>, <<"reverted", 1>>}

(* Heights count blocks from an earlier start than the model's slots.      *)
MCHeight == [s \in 0..MaxSlot |-> s + 10]

MCLedgers ==
  {l \in [Tx -> [slot : 1..MaxSlot, programs : {TrackedPrograms},
                 status : {k[1] : k \in Kinds}, emits : {k[2] : k \in Kinds}]] :
     /\ \A t \in Tx : <<l[t].status, l[t].emits>> \in Kinds
     /\ \A t, u \in Tx : t < u => l[t].slot <= l[u].slot}

(* Chains whose transactions each belong to one program or to several.     *)
MCMixedLedgers ==
  {l \in [Tx -> [slot : 1..MaxSlot, programs : (SUBSET TrackedPrograms) \ {{}},
                 status : {k[1] : k \in Kinds}, emits : {k[2] : k \in Kinds}]] :
     /\ \A t \in Tx : <<l[t].status, l[t].emits>> \in Kinds
     /\ \A t, u \in Tx : t < u => l[t].slot <= l[u].slot}
=============================================================================
