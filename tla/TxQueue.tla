------------------------------- MODULE TxQueue -------------------------------
(***************************************************************************)
(* What the StorageHandler interface promises about transactions: a FIFO   *)
(* queue of transactions awaiting processing and two markers.              *)
(***************************************************************************)
EXTENDS Sequences

CONSTANTS
  TxPoint, \* transactions with their slots, the zero one included
  Pushes   \* the batches that may be pushed: sequences of TxPoints

VARIABLES
  queue,         \* front (oldest) first
  lastProcessed, \* transaction last processed or skipped
  lastQueried    \* point new queries resume from

Init ==
  /\ queue \in Seq(TxPoint)
  /\ lastProcessed \in TxPoint
  /\ lastQueried \in TxPoint

Push ==
  /\ \E batch \in Pushes : queue' = queue \o batch
  /\ UNCHANGED <<lastProcessed, lastQueried>>

(* The front leaves the queue and becomes the last processed one, in one   *)
(* step.                                                                   *)
Finalize ==
  /\ queue # <<>>
  /\ queue' = Tail(queue)
  /\ lastProcessed' = Head(queue)
  /\ UNCHANGED lastQueried

SetMarkers ==
  /\ lastProcessed' \in TxPoint
  /\ lastQueried' \in TxPoint
  /\ UNCHANGED queue

Next == Push \/ Finalize \/ SetMarkers

Spec == Init /\ [][Next]_<<queue, lastProcessed, lastQueried>>
=============================================================================
