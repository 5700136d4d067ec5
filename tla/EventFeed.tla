------------------------------ MODULE EventFeed ------------------------------
(***************************************************************************)
(* What the event tracker promises its subscriber: the events of the       *)
(* chain, each as <<transaction position, number within the transaction>>, *)
(* are received oldest first and without a gap.  A repeated delivery is a  *)
(* stuttering step.                                                        *)
(***************************************************************************)
EXTENDS Integers

VARIABLES
  published, \* events on the chain
  received   \* events the subscriber has been handed

Older(e, f) == e[1] < f[1] \/ (e[1] = f[1] /\ e[2] < f[2])

Init == received = {}

(* The chain only grows at its end.                                        *)
Publish ==
  /\ published \subseteq published'
  /\ \A e \in published' \ published, f \in published : Older(f, e)
  /\ UNCHANGED received

(* The oldest event not received yet is received.                          *)
Receive ==
  \E e \in published \ received :
    /\ \A f \in published : Older(f, e) => f \in received
    /\ received' = received \cup {e}
    /\ UNCHANGED published

Next == Publish \/ Receive

Spec == Init /\ [][Next]_<<published, received>>
=============================================================================
