----------------------------- MODULE MCTxBucket ------------------------------
(***************************************************************************)
(* Small transaction buckets for TLC.                                      *)
(***************************************************************************)
EXTENDS TxBucket

CONSTANTS a, b \* signatures

(* Batches of one, of two in both orders, and with zero signatures.        *)
MCBatches ==
  LET x == [sig |-> a, slot |-> 1]
      y == [sig |-> b, slot |-> 2]
  IN {<<x>>, <<x, y>>, <<y, x>>, <<NoTx, y>>, <<NoTx>>}

(* An empty queue, or two signatures an older version queued.              *)
MCLegacyQueues == {<<>>, <<b, a>>}
=============================================================================
