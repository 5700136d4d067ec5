---------------------------- MODULE SignatureWait ----------------------------
(***************************************************************************)
(* Provider.WaitForSignature (wallet/txprovider.go) polls the status of a  *)
(* transaction through the shared RPC client of RpcLimits, next to the     *)
(* other goroutines of the process.                                        *)
(*                                                                         *)
(* The cluster moves on between any two steps: a transaction is processed, *)
(* possibly with an error, may be dropped with its fork, and is confirmed  *)
(* and finalized for good.                                                 *)
(***************************************************************************)
EXTENDS RpcLimits

CONSTANTS
  Waiter,       \* the goroutine that waits
  Commitments,  \* commitment levels asked for
  MaxWaits,     \* values of maxWaitTime, in ticks
  PollPause     \* the pause between polls, one second, in ticks

ASSUME WaitAssumption ==
  /\ Waiter \in Callers
  /\ Commitments \subseteq {"processed", "confirmed", "finalized"}
  /\ MaxWaits \subseteq Nat
  /\ PollPause \in Nat \ {0}

VARIABLES
  wait,        \* where WaitForSignature is, or how it ended
  commitment,  \* its commitment argument
  maxWait,     \* its maxWaitTime argument
  pause,       \* time since both timers of the select were armed
  txStatus,    \* what the cluster knows of the transaction
  txErr        \* did it fail?

waitVars == <<wait, commitment, maxWait, pause>>
txVars == <<txStatus, txErr>>
vars == <<rpcVars, waitVars, txVars>>

WaitInit ==
  /\ wait = "poll"
  /\ commitment \in Commitments
  /\ maxWait \in MaxWaits
  /\ pause = 0
  /\ txStatus = "unknown"
  /\ txErr = FALSE

-----------------------------------------------------------------------------
(* The cluster. *)

Process(err) ==
  /\ txStatus = "unknown"
  /\ txStatus' = "processed"
  /\ txErr' = err

Drop ==
  /\ txStatus = "processed"
  /\ txStatus' = "unknown"
  /\ txErr' = FALSE

Settle(from, to) ==
  /\ txStatus = from
  /\ txStatus' = to
  /\ UNCHANGED txErr

ClusterStep ==
  /\ \/ \E err \in BOOLEAN : Process(err)
     \/ Drop
     \/ Settle("processed", "confirmed")
     \/ Settle("confirmed", "finalized")
  /\ UNCHANGED <<rpcVars, waitVars>>

-----------------------------------------------------------------------------
(* The wait. *)

EndWait(how) ==
  /\ wait' = how
  /\ pause' = 0
  /\ UNCHANGED <<commitment, maxWait>>

(* Mutant: only the asked level ends the wait. *)
ReachedExactly(status) == status = commitment

(* Mutant: any known status ends the wait. *)
ReachedAny(status) == status # "unknown"

(* The level asked for, or the last one there is.                         *)
Reached(status) == status \in {"finalized", commitment}

(* The status that the node answered is judged: nothing known, or not yet *)
(* far enough, arms the two timers.                                       *)
Judge ==
  \/ txStatus # "unknown" /\ txErr /\ EndWait("failed")
  \/ txStatus # "unknown" /\ ~txErr /\ Reached(txStatus) /\ EndWait("nil")
  \/ txStatus = "unknown" /\ EndWait("pause")
  \/ ~txErr /\ txStatus # "unknown" /\ ~Reached(txStatus) /\ EndWait("pause")

(* GetSignatureStatuses is called.                                        *)
Poll ==
  /\ wait = "poll"
  /\ Request(Waiter, Statuses)
  /\ UNCHANGED <<waitVars, txVars>>

(* It returns: a status, or an error that ends the wait.                  *)
Polled ==
  /\ Answer(Waiter)
  /\ \/ ~cancelled[Waiter] /\ Judge
     \/ EndWait("error")
  /\ UNCHANGED txVars

PollGivenUp ==
  /\ GiveUp(Waiter)
  /\ EndWait("error")
  /\ UNCHANGED txVars

PollStep ==
  /\ \/ LockMethod(Waiter)
     \/ PassGate(Waiter)
     \/ PassLimiter(Waiter)
     \/ LockClient(Waiter)
     \/ Send(Waiter)
     \/ Refuse429(Waiter)
     \/ Cancel(Waiter)
  /\ UNCHANGED <<waitVars, txVars>>

(* The select: the shorter of the two timers wins, either of two equal    *)
(* ones, and a done context at any time.                                  *)
PollAgain ==
  /\ wait = "pause"
  /\ pause = PollPause /\ PollPause <= maxWait
  /\ EndWait("poll")
  /\ UNCHANGED <<rpcVars, txVars>>

TimeOut ==
  /\ wait = "pause"
  /\ pause = maxWait /\ maxWait <= PollPause
  /\ EndWait("timeout")
  /\ UNCHANGED <<rpcVars, txVars>>

WaitCancelled ==
  /\ wait = "pause"
  /\ EndWait("error")
  /\ UNCHANGED <<rpcVars, txVars>>

(* Time passes for everyone.                                              *)
WaitTick ==
  /\ Tick
  /\ pause' = IF wait = "pause" THEN Smaller(pause + 1, Smaller(PollPause, maxWait)) ELSE pause
  /\ UNCHANGED <<wait, commitment, maxWait, txVars>>

(* The other goroutines of the process.                                   *)
Others ==
  /\ \E c \in Callers \ {Waiter} :
       \/ \E m \in Methods : Request(c, m)
       \/ CallStep(c)
       \/ Cancel(c)
  /\ UNCHANGED <<waitVars, txVars>>

-----------------------------------------------------------------------------
Next ==
  \/ Poll \/ PollStep \/ Polled \/ PollGivenUp
  \/ PollAgain \/ TimeOut \/ WaitCancelled
  \/ WaitTick
  \/ Others
  \/ ClusterStep

Init == RpcInit /\ WaitInit

Spec == Init /\ [][Next]_vars

(* Every call under way goes on, the waiting goroutine polls when it may, *)
(* one of the two timers fires. Nobody cancels, drops or lands anything   *)
(* out of duty.                                                           *)
Fairness ==
  /\ \A c \in Callers : CallFairness(c)
  /\ WF_vars(Poll)
  /\ WF_vars(PollAgain \/ TimeOut)
  /\ WF_vars(WaitTick)

FairSpec == Spec /\ Fairness

-----------------------------------------------------------------------------
(* Properties. *)

WaitTypeOK ==
  /\ RpcTypeOK
  /\ wait \in {"poll", "pause", "nil", "failed", "timeout", "error"}
  /\ commitment \in Commitments
  /\ maxWait \in MaxWaits
  /\ pause \in Nat
  /\ txStatus \in {"unknown", "processed", "confirmed", "finalized"}
  /\ txErr \in BOOLEAN

Over == wait \notin {"poll", "pause"}

(* WaitForSignature returns nil only for a transaction that succeeded and *)
(* has the commitment asked for, whatever the cluster and the other       *)
(* goroutines did while it polled. A processed transaction may still be   *)
(* dropped, so that level promises nothing (txprovider.go:324).           *)
WaitSound ==
  (wait = "nil" /\ commitment # "processed") =>
    ~txErr /\ txStatus \in {"finalized", commitment}

(* A final transaction ends the wait, also when the level asked for was   *)
(* passed between two polls and while other methods are refused for ever  *)
(* ("preventing an infinite loop", txprovider.go:326).                    *)
WaitEnds == (txStatus = "finalized") ~> Over

(* The wait is over within the caller's maxWaitTime: at least, it ends    *)
(* ("timeout while waiting for transaction", txprovider.go:337).          *)
WaitTimesOut == <>Over
=============================================================================
