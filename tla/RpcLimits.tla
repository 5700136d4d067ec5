------------------------------ MODULE RpcLimits ------------------------------
(***************************************************************************)
(* The RPC client that the goroutines of a process share                   *)
(* (common/mutex_rpc_client.go over common/rate_limited_rpc_client.go).    *)
(*                                                                         *)
(* A call takes the mutex of its method, waits for the method's cooldown   *)
(* and for its limiter, then takes the client's mutex for the request      *)
(* itself. A 429 answer starts a cooldown of the method and the call goes  *)
(* round again, keeping the method's mutex.                                *)
(*                                                                         *)
(* Time is discrete and relative: `cooldown' is what remains of it, and    *)
(* `sent' holds the age of every request of the last Window ticks. A tick  *)
(* may fall between any two steps.                                         *)
(***************************************************************************)
EXTENDS Integers, Sequences, FiniteSets

CONSTANTS
  Callers,            \* goroutines that share the client
  Cancellable,        \* the ones whose context may be cancelled
  Methods,            \* JSON-RPC methods
  Statuses,           \* getSignatureStatuses, whose 429 keeps its Retry-After
  LimitCount,         \* requests per window and method (RPCMethodLimitsConfig)
  BurstShare,         \* a burst is this share of the quota (10)
  Window,             \* rpcMethodLimitWindow
  Headers,            \* Retry-After headers; 0 is a missing or unusable one
  DefaultRetryAfter,  \* defaultRetryAfter
  Storm,              \* methods the node may refuse for ever
  MaxRefusals,        \* bound: 429 answers to each of the other methods
  Audited,            \* methods whose requests `sent' keeps, for WindowQuota
  NoCaller,           \* the holder of a mutex that is free
  NoMethod            \* the method of a caller that is not calling

(* Below two requests per window the limiter's refill divides by zero (1) *)
(* or is unlimited (0).                                                   *)
ASSUME LimitsAssumption ==
  /\ NoCaller \notin Callers
  /\ Cancellable \subseteq Callers
  /\ NoMethod \notin Methods
  /\ Statuses \in Methods
  /\ Storm \subseteq Methods
  /\ Audited \subseteq Methods
  /\ LimitCount \in [Methods -> Nat \ {0, 1}]
  /\ BurstShare \in Nat \ {0, 1}
  /\ Window \in Nat \ {0}
  /\ DefaultRetryAfter \in Nat \ {0}
  /\ Headers \subseteq Nat
  /\ MaxRefusals \in Nat

VARIABLES
  pc,         \* where each caller is in withRPCLimits
  method,     \* the method of its call
  cancelled,  \* is the context of its call done?
  methodMu,   \* holder of each method's mutex
  clientMu,   \* holder of the client's mutex
  cooldown,   \* what remains of each method's cooldown
  level,      \* each limiter's tokens, in ticks of refill
  sent,       \* history: ages of an audited method's requests, newest first
  refused     \* 429 answers so far

locks == <<methodMu, clientMu>>
limits == <<cooldown, level, sent, refused>>
rpcVars == <<pc, method, cancelled, methodMu, clientMu, cooldown, level, sent, refused>>

Larger(a, b) == IF a >= b THEN a ELSE b
Smaller(a, b) == IF a <= b THEN a ELSE b

(* The limiter of a method: burst, and the time one token takes to refill. *)
Burst(m) == Larger(LimitCount[m] \div BurstShare, 1)

(* A token takes a whole number of ticks.                                 *)
ASSUME RefillAssumption ==
  \A m \in Methods : Window % (LimitCount[m] - Burst(m)) = 0

(* Mutant: the burst is granted on top of the quota. *)
IntervalFullQuota(m) == Window \div LimitCount[m]

Interval(m) == Window \div (LimitCount[m] - Burst(m))

Full(m) == Burst(m) * Interval(m)

(* parseRetryAfter, and what rateLimitRetryAfter makes of a 429 answer.   *)
ParseRetryAfter(header) == IF header > 0 THEN header ELSE DefaultRetryAfter

RetryAfter(m) ==
  IF m = Statuses THEN {ParseRetryAfter(h) : h \in Headers} ELSE {DefaultRetryAfter}

RpcInit ==
  /\ pc = [c \in Callers |-> "idle"]
  /\ method = [c \in Callers |-> NoMethod]
  /\ cancelled = [c \in Callers |-> FALSE]
  /\ methodMu = [m \in Methods |-> NoCaller]
  /\ clientMu = NoCaller
  /\ cooldown = [m \in Methods |-> 0]
  /\ level = [m \in Methods |-> Full(m)]
  /\ sent = [m \in Audited |-> << >>]
  /\ refused = [m \in Methods |-> 0]

-----------------------------------------------------------------------------
(* The steps of a call. *)

Step(c, from, to) ==
  /\ pc[c] = from
  /\ pc' = [pc EXCEPT ![c] = to]

(* GetBalance ... GetBlockHeight: each wrapper calls withRPCLimits.       *)
Request(c, m) ==
  /\ Step(c, "idle", "lock")
  /\ method' = [method EXCEPT ![c] = m]
  /\ UNCHANGED <<cancelled, locks, limits>>

(* The call ends: deferred unlock of the method, result to the caller.    *)
Return(c) ==
  /\ pc' = [pc EXCEPT ![c] = "idle"]
  /\ cancelled' = [cancelled EXCEPT ![c] = FALSE]
  /\ methodMu' = [methodMu EXCEPT ![method[c]] = NoCaller]
  /\ method' = [method EXCEPT ![c] = NoMethod]

(* Mutant: calls of one method are not serialised. *)
LockMethodShared(c) ==
  /\ Step(c, "lock", "gate")
  /\ methodMu' = [methodMu EXCEPT ![method[c]] = c]
  /\ UNCHANGED <<method, cancelled, clientMu, limits>>

(* methodComp.mu.Lock(), which does not look at the context.              *)
LockMethod(c) ==
  /\ Step(c, "lock", "gate")
  /\ methodMu[method[c]] = NoCaller
  /\ methodMu' = [methodMu EXCEPT ![method[c]] = c]
  /\ UNCHANGED <<method, cancelled, clientMu, limits>>

(* The cooldown of the method, if any, is over.                           *)
PassGate(c) ==
  /\ Step(c, "gate", "limiter")
  /\ cooldown[method[c]] = 0
  /\ UNCHANGED <<method, cancelled, locks, limits>>

(* Mutant: a call that finds no token goes into debt for it. *)
PassLimiterDebt(c) ==
  /\ Step(c, "limiter", "client")
  /\ ~cancelled[c]
  /\ level' = [level EXCEPT ![method[c]] = @ - Interval(method[c])]
  /\ UNCHANGED <<method, cancelled, locks, cooldown, sent, refused>>

(* methodComp.limiter.Wait grants a token.                                *)
PassLimiter(c) ==
  /\ Step(c, "limiter", "client")
  /\ ~cancelled[c]
  /\ level[method[c]] >= Interval(method[c])
  /\ level' = [level EXCEPT ![method[c]] = @ - Interval(method[c])]
  /\ UNCHANGED <<method, cancelled, locks, cooldown, sent, refused>>

(* The context is done while the call waits for the cooldown or a token.  *)
GiveUp(c) ==
  /\ \/ pc[c] = "gate" /\ cooldown[method[c]] > 0
     \/ pc[c] = "limiter"
  /\ cancelled[c]
  /\ Return(c)
  /\ UNCHANGED <<clientMu, limits>>

(* c.mu.Lock() *)
LockClient(c) ==
  /\ Step(c, "client", "take")
  /\ clientMu = NoCaller
  /\ clientMu' = c
  /\ UNCHANGED <<method, cancelled, methodMu, limits>>

(* The global rateLimiter.Take() has returned and the request goes out.   *)
Send(c) ==
  /\ Step(c, "take", "sent")
  /\ ~cancelled[c]
  /\ sent' = [m \in Audited |-> IF m = method[c] THEN <<0>> \o sent[m] ELSE sent[m]]
  /\ UNCHANGED <<method, cancelled, locks, cooldown, level, refused>>

(* A result, or an error other than 429. A call whose context is done     *)
(* fails, before or after the request went out.                           *)
Answer(c) ==
  /\ \/ pc[c] = "sent"
     \/ pc[c] = "take" /\ cancelled[c]
  /\ Return(c)
  /\ clientMu' = NoCaller
  /\ UNCHANGED limits

(* Mutant: the client's mutex is kept until the retry. *)
Refuse429KeepClient(c) ==
  LET m == method[c] IN
  /\ Step(c, "sent", "gate")
  /\ m \in Storm \/ refused[m] < MaxRefusals
  /\ refused' = [refused EXCEPT ![m] = Smaller(@ + 1, MaxRefusals)]
  /\ \E d \in RetryAfter(m) : cooldown' = [cooldown EXCEPT ![m] = d]
  /\ UNCHANGED <<method, cancelled, locks, level, sent>>

(* 429: the method cools down and the loop starts over.                   *)
Refuse429(c) ==
  LET m == method[c] IN
  /\ Step(c, "sent", "gate")
  /\ m \in Storm \/ refused[m] < MaxRefusals
  /\ refused' = [refused EXCEPT ![m] = Smaller(@ + 1, MaxRefusals)]
  /\ \E d \in RetryAfter(m) : cooldown' = [cooldown EXCEPT ![m] = d]
  /\ clientMu' = NoCaller
  /\ UNCHANGED <<method, cancelled, methodMu, level, sent>>

(* The caller's context is cancelled.                                     *)
Cancel(c) ==
  /\ c \in Cancellable
  /\ pc[c] # "idle"
  /\ ~cancelled[c]
  /\ cancelled' = [cancelled EXCEPT ![c] = TRUE]
  /\ UNCHANGED <<pc, method, locks, limits>>

(* Of ages in increasing order, the ones within the window.               *)
Recent(ages) ==
  SubSeq(ages, 1, CHOOSE n \in 0..Len(ages) :
                    \A i \in DOMAIN ages : i <= n <=> ages[i] < Window)

(* Time passes: cooldowns run off, limiters refill, requests age.         *)
Tick ==
  /\ cooldown' = [m \in Methods |-> Larger(cooldown[m] - 1, 0)]
  /\ level' = [m \in Methods |-> Smaller(level[m] + 1, Full(m))]
  /\ sent' = [m \in Audited |-> Recent([i \in DOMAIN sent[m] |-> sent[m][i] + 1])]
  /\ UNCHANGED <<pc, method, cancelled, locks, refused>>

-----------------------------------------------------------------------------
(* One step of a call under way. *)
CallStep(c) ==
  \/ LockMethod(c)
  \/ PassGate(c)
  \/ PassLimiter(c)
  \/ GiveUp(c)
  \/ LockClient(c)
  \/ Send(c)
  \/ Answer(c)
  \/ Refuse429(c)

RpcNext ==
  \/ Tick
  \/ \E c \in Callers :
       \/ \E m \in Methods : Request(c, m)
       \/ CallStep(c)
       \/ Cancel(c)

RpcSpec == RpcInit /\ [][RpcNext]_rpcVars

(* Go's mutexes hand over in order once a waiter starves, hence strong    *)
(* fairness of the two locks; nothing else can block a call but time.     *)
CallFairness(c) ==
  /\ WF_rpcVars(CallStep(c))
  /\ SF_rpcVars(LockMethod(c))
  /\ SF_rpcVars(LockClient(c))

-----------------------------------------------------------------------------
(* Properties. *)

RpcTypeOK ==
  /\ pc \in [Callers -> {"idle", "lock", "gate", "limiter", "client", "take", "sent"}]
  /\ method \in [Callers -> Methods \cup {NoMethod}]
  /\ cancelled \in [Callers -> BOOLEAN]
  /\ methodMu \in [Methods -> Callers \cup {NoCaller}]
  /\ clientMu \in Callers \cup {NoCaller}
  /\ cooldown \in [Methods -> Nat]
  /\ level \in [Methods -> Nat]
  /\ sent \in [Audited -> Seq(Nat)]
  /\ refused \in [Methods -> Nat]

(* No request of a method goes out while the method cools down, although  *)
(* the call that sends it looked at the cooldown before it waited for the *)
(* limiter and for the client's mutex (mutex_rpc_client.go:231).          *)
CooldownHonoured ==
  [][\A c \in Callers :
       (pc[c] = "take" /\ pc'[c] = "sent") => cooldown[method[c]] = 0]_rpcVars

(* A method never sends more than its quota within one window, however    *)
(* long calls are held up between the limiter and the client's mutex      *)
(* (newRPCMethodLimiter: burst + refill never exceeds the count).         *)
WindowQuota == \A m \in Audited : Len(sent[m]) <= LimitCount[m]

(* A method that is refused for ever holds up no call of another method   *)
(* (withRPCLimits: "without ever blocking other methods").                *)
OthersProceed ==
  \A c \in Callers :
    (pc[c] # "idle" /\ method[c] \notin Storm) ~> (pc[c] = "idle")
=============================================================================
