-------------------------- MODULE RpcLimits_proofs --------------------------
(***************************************************************************)
(* Proofs about the shared RPC client and the wait for a signature: types, *)
(* cooldowns and quotas are kept for any number of callers and methods,    *)
(* any limits and any answers of the node, and a wait that reports success *)
(* is right.                                                               *)
(*                                                                         *)
(* Everything about the client is proved of RpcSpec; the wait only takes   *)
(* steps of a client (WaitUsesClient).                                     *)
(***************************************************************************)
EXTENDS SignatureWait, WellFoundedInduction, TLAPS

-----------------------------------------------------------------------------
(* Arithmetic of the limiter.                                              *)

LEMMA DivSmaller ==
  ASSUME NEW n \in Nat, n >= 2, NEW b \in Nat, b >= 2
  PROVE  n \div b \in Nat /\ n \div b < n
<1>1. n \div b \in Int /\ n % b \in 0..(b - 1) /\ n = b * (n \div b) + (n % b)
  OBVIOUS
<1> DEFINE q == n \div b
<1> DEFINE r == n % b
<1>2. q \in Int /\ r \in 0..(b - 1) /\ n = b * q + r  BY <1>1
<1> HIDE DEF q, r
<1>3. q >= 0
  <2>1. SUFFICES ASSUME q <= -1 PROVE FALSE  BY <1>2
  <2>2. b * q <= b * (-1)  BY <1>2, <2>1
  <2> QED  BY <1>2, <2>2
<1>4. q < n
  <2>1. SUFFICES ASSUME q >= n PROVE FALSE  BY <1>2
  <2>2. b * q >= 2 * q  BY <1>2, <1>3
  <2> QED  BY <1>2, <2>1, <2>2
<1> QED  BY <1>2, <1>3, <1>4 DEF q

LEMMA DivExact ==
  ASSUME NEW w \in Nat \ {0}, NEW d \in Nat \ {0}, w % d = 0
  PROVE  w \div d \in Nat \ {0} /\ (w \div d) * d = w
<1>1. w \div d \in Int /\ w = d * (w \div d) + (w % d)
  OBVIOUS
<1> DEFINE q == w \div d
<1>2. q \in Int /\ w = d * q  BY <1>1
<1> HIDE DEF q
<1>3. q >= 1
  <2>1. SUFFICES ASSUME q <= 0 PROVE FALSE  BY <1>2
  <2>2. d * q <= d * 0  BY <1>2, <2>1
  <2> QED  BY <1>2, <2>2
<1> QED  BY <1>2, <1>3 DEF q

LEMMA TimesMonotone ==
  ASSUME NEW i \in Nat, NEW a \in Int, NEW b \in Int, a <= b
  PROVE  i * a \in Int /\ i * b \in Int /\ i * a <= i * b
<1>1. i * a \in Int /\ i * b \in Int /\ i * (b - a) = i * b - i * a  OBVIOUS
<1>2. i * (b - a) >= 0
  <2> DEFINE d == b - a
  <2>1. d \in Nat  OBVIOUS
  <2> HIDE DEF d
  <2>2. i * d >= 0  BY <2>1
  <2> QED  BY <2>2 DEF d
<1> DEFINE x == i * a
           y == i * b
           z == i * (b - a)
<1>3. x \in Int /\ y \in Int /\ z = y - x /\ z >= 0  BY <1>1, <1>2
<1> HIDE DEF x, y, z
<1>4. x <= y  BY <1>3
<1> QED  BY <1>3, <1>4 DEF x, y

(* Burst and refill of a method divide its quota over the window.          *)
LEMMA LimiterFacts ==
  ASSUME NEW m \in Methods
  PROVE  /\ LimitCount[m] \in Nat /\ Burst(m) \in Nat \ {0} /\ Burst(m) < LimitCount[m]
         /\ Interval(m) \in Nat \ {0} /\ Full(m) \in Nat
         /\ Interval(m) * (LimitCount[m] - Burst(m)) = Window
         /\ Interval(m) <= Full(m)
<1>1. LimitCount[m] \in Nat /\ LimitCount[m] >= 2 /\ BurstShare \in Nat /\ BurstShare >= 2
  BY LimitsAssumption
<1>2. Burst(m) \in Nat \ {0} /\ Burst(m) < LimitCount[m]
  BY <1>1, DivSmaller DEF Burst, Larger
<1>3. LimitCount[m] - Burst(m) \in Nat \ {0}  BY <1>1, <1>2
<1>4. Window \in Nat \ {0} /\ Window % (LimitCount[m] - Burst(m)) = 0
  BY LimitsAssumption, RefillAssumption
<1>5. Interval(m) \in Nat \ {0} /\ Interval(m) * (LimitCount[m] - Burst(m)) = Window
  BY <1>3, <1>4, DivExact DEF Interval
<1>6. Full(m) \in Nat /\ Interval(m) <= Full(m)
  BY <1>2, <1>5 DEF Full
<1> QED  BY <1>1, <1>2, <1>5, <1>6

(* Ages in increasing order, cut off at the window.                        *)
Increasing(ages) ==
  \A j, k \in DOMAIN ages : j <= k => ages[j] <= ages[k]

IsCut(ages, n) == \A i \in DOMAIN ages : i <= n <=> ages[i] < Window

LEMMA RecentFacts ==
  ASSUME NEW ages \in Seq(Nat), Increasing(ages)
  PROVE  /\ Recent(ages) \in Seq(Nat)
         /\ \A k \in DOMAIN Recent(ages) :
              /\ k \in DOMAIN ages
              /\ Recent(ages)[k] = ages[k]
              /\ ages[k] < Window
<1> DEFINE Old == {i \in DOMAIN ages : ~(ages[i] < Window)}
<1>1. Window \in Nat /\ Len(ages) \in Nat /\ DOMAIN ages = 1..Len(ages)
  BY LimitsAssumption
<1>2. \A i \in DOMAIN ages : ages[i] \in Nat
  BY <1>1
<1>3. \E n \in 0..Len(ages) : IsCut(ages, n)
  <2>1. CASE Old = {}
    <3>1. IsCut(ages, Len(ages))  BY <1>1, <2>1 DEF IsCut
    <3> QED  BY <1>1, <3>1
  <2>2. CASE Old # {}
    <3>1. Old \subseteq Nat  BY <1>1
    <3>2. PICK o \in Old : \A e \in Old : ~(<<e, o>> \in OpToRel(<, Nat))
      BY <2>2, <3>1, NatLessThanWellFounded, WFMin
    <3>3. \A e \in Old : ~(e < o)  BY <3>1, <3>2 DEF OpToRel
    <3>3a. o \in 1..Len(ages) /\ o \in DOMAIN ages /\ ~(ages[o] < Window)
      <4>1. o \in DOMAIN ages /\ ~(ages[o] < Window)  BY <3>2 DEF Old
      <4> QED  BY <1>1, <4>1
    <3>4. ASSUME NEW i \in DOMAIN ages PROVE i <= o - 1 <=> ages[i] < Window
      <4>1. CASE i <= o - 1
        <5>1. o \in Nat /\ i \in Nat /\ i < o  BY <1>1, <3>1, <4>1
        <5>2. i \notin Old  BY <3>3, <5>1
        <5> QED  BY <4>1, <5>2
      <4>2. CASE ~(i <= o - 1)
        <5>1. o <= i /\ o \in DOMAIN ages  BY <1>1, <3>3a, <4>2
        <5>2. ages[o] <= ages[i]  BY <5>1 DEF Increasing
        <5> QED  BY <1>1, <1>2, <3>3a, <4>2, <5>1, <5>2
      <4> QED  BY <4>1, <4>2
    <3>5. o - 1 \in 0..Len(ages)  BY <1>1, <3>3a
    <3>6. IsCut(ages, o - 1)  BY <3>4 DEF IsCut
    <3> QED  BY <3>5, <3>6
  <2> QED  BY <2>1, <2>2
<1> DEFINE n == CHOOSE k \in 0..Len(ages) : IsCut(ages, k)
<1>4. n \in 0..Len(ages) /\ IsCut(ages, n)  BY <1>3
<1>5. Recent(ages) = SubSeq(ages, 1, n)  BY DEF Recent, IsCut
<1> HIDE DEF n
<1>6. /\ SubSeq(ages, 1, n) \in Seq(Nat)
      /\ DOMAIN SubSeq(ages, 1, n) = 1..n
      /\ \A k \in 1..n : SubSeq(ages, 1, n)[k] = ages[k]
  BY <1>1, <1>2, <1>4
<1> QED  BY <1>1, <1>4, <1>5, <1>6 DEF IsCut

-----------------------------------------------------------------------------
(* The inductive invariant.                                                *)

Holding == {"gate", "limiter", "client", "take", "sent"}

(* The mutex of a method is held by the one call of it that is past the    *)
(* lock.                                                                   *)
MutexInv ==
  /\ \A c \in Callers : pc[c] # "idle" => method[c] \in Methods
  /\ \A c \in Callers : pc[c] \in Holding => methodMu[method[c]] = c
  /\ \A m \in Methods :
       methodMu[m] # NoCaller =>
         /\ pc[methodMu[m]] \in Holding
         /\ method[methodMu[m]] = m

(* Past the gate the method does not cool down.                            *)
CooldownInv ==
  \A c \in Callers :
    pc[c] \in {"limiter", "client", "take", "sent"} => cooldown[method[c]] = 0

(* A token that is taken and not used yet.                                 *)
Taken(m) ==
  IF methodMu[m] # NoCaller /\ pc[methodMu[m]] \in {"client", "take"} THEN 1 ELSE 0

(* Since the k-th last request went out, its limiter gave out the tokens   *)
(* of the k - 1 later ones, and one more if it is taken.                   *)
QuotaInv ==
  /\ \A m \in Methods : level[m] <= Full(m)
  /\ \A m \in Audited :
       /\ Increasing(sent[m])
       /\ \A k \in DOMAIN sent[m] :
            /\ sent[m][k] < Window
            /\ level[m] + Interval(m) * (k - 1 + Taken(m)) <= Full(m) + sent[m][k]

RpcInv == RpcTypeOK /\ MutexInv /\ CooldownInv /\ QuotaInv

(* What a tick makes of the ages of a method's requests.                   *)
LEMMA AgedFacts ==
  ASSUME RpcInv, NEW m \in Audited
  PROVE  LET aged == [i \in DOMAIN sent[m] |-> sent[m][i] + 1] IN
         /\ Recent(aged) \in Seq(Nat)
         /\ \A k \in DOMAIN Recent(aged) :
              /\ k \in DOMAIN sent[m]
              /\ Recent(aged)[k] = sent[m][k] + 1
              /\ Recent(aged)[k] < Window
<1> DEFINE aged == [i \in DOMAIN sent[m] |-> sent[m][i] + 1]
<1>1. sent[m] \in Seq(Nat) /\ Increasing(sent[m])
  BY DEF RpcInv, RpcTypeOK, QuotaInv
<1>2. /\ Len(sent[m]) \in Nat /\ DOMAIN sent[m] = 1..Len(sent[m])
      /\ \A i \in DOMAIN sent[m] : sent[m][i] \in Nat
  BY <1>1
<1>3. aged \in Seq(Nat) /\ DOMAIN aged = DOMAIN sent[m]
  BY <1>2
<1>4. Increasing(aged)  BY <1>1, <1>2 DEF Increasing
<1> HIDE DEF aged
<1>5. /\ Recent(aged) \in Seq(Nat)
      /\ \A k \in DOMAIN Recent(aged) :
           k \in DOMAIN aged /\ Recent(aged)[k] = aged[k] /\ aged[k] < Window
  BY <1>3, <1>4, RecentFacts
<1>6. \A k \in DOMAIN sent[m] : aged[k] = sent[m][k] + 1  BY DEF aged
<1> QED  BY <1>3, <1>5, <1>6 DEF aged

LEMMA InitInv == RpcInit => RpcInv
<1> SUFFICES ASSUME RpcInit PROVE RpcInv  OBVIOUS
<1>1. \A m \in Methods : Full(m) \in Nat  BY LimiterFacts
<1>2. << >> \in Seq(Nat) /\ DOMAIN << >> = {}  OBVIOUS
<1>3. RpcTypeOK  BY <1>1, <1>2 DEF RpcInit, RpcTypeOK
<1>4. MutexInv  BY DEF RpcInit, MutexInv, Holding
<1>5. CooldownInv  BY DEF RpcInit, CooldownInv
<1>6. QuotaInv
  <2>1. Audited \subseteq Methods  BY LimitsAssumption
  <2>2. \A m \in Methods : level[m] = Full(m)  BY DEF RpcInit
  <2>3. \A m \in Audited : DOMAIN sent[m] = {}  BY <1>2 DEF RpcInit
  <2> QED  BY <1>1, <2>1, <2>2, <2>3 DEF QuotaInv, Increasing
<1> QED  BY <1>3, <1>4, <1>5, <1>6 DEF RpcInv

-----------------------------------------------------------------------------
(* Every action keeps the types.                                           *)

LEMMA RetryNat ==
  ASSUME NEW m, NEW d \in RetryAfter(m)
  PROVE  d \in Nat
BY LimitsAssumption DEF RetryAfter, ParseRetryAfter

LEMMA TypeStep ==
  ASSUME RpcInv, RpcNext
  PROVE  RpcTypeOK'
<1> USE LimitsAssumption DEF RpcInv, RpcTypeOK, locks, limits
<1>1. CASE Tick
  <2>1. cooldown' \in [Methods -> Nat]
    BY <1>1 DEF Tick, Larger
  <2>2. level' \in [Methods -> Nat]
    <3>1. \A m \in Methods : Full(m) \in Nat  BY LimiterFacts
    <3> QED  BY <1>1, <3>1 DEF Tick, Smaller
  <2>3. sent' \in [Audited -> Seq(Nat)]
    <3>1. ASSUME NEW m \in Audited
          PROVE  Recent([i \in DOMAIN sent[m] |-> sent[m][i] + 1]) \in Seq(Nat)
      BY <3>1, AgedFacts
    <3> QED  BY <1>1, <3>1 DEF Tick
  <2> QED  BY <1>1, <2>1, <2>2, <2>3 DEF Tick
<1>2. ASSUME NEW c \in Callers, NEW m \in Methods, Request(c, m) PROVE RpcTypeOK'
  BY <1>2 DEF Request, Step
<1>3. ASSUME NEW c \in Callers, Cancel(c) PROVE RpcTypeOK'
  BY <1>3 DEF Cancel
<1>4. ASSUME NEW c \in Callers, CallStep(c) PROVE RpcTypeOK'
  <2>1. CASE LockMethod(c)  BY <2>1 DEF LockMethod, Step
  <2>2. CASE PassGate(c)  BY <2>2 DEF PassGate, Step
  <2>3. CASE PassLimiter(c)
    <3>1. method[c] \in Methods  BY <2>3 DEF PassLimiter, Step, MutexInv
    <3>2. Interval(method[c]) \in Nat  BY <3>1, LimiterFacts
    <3>3. level' \in [Methods -> Nat]  BY <2>3, <3>1, <3>2 DEF PassLimiter
    <3> QED  BY <2>3, <3>3 DEF PassLimiter, Step
  <2>4. CASE GiveUp(c)  BY <2>4 DEF GiveUp, Return
  <2>5. CASE LockClient(c)  BY <2>5 DEF LockClient, Step
  <2>6. CASE Send(c)
    <3>1. \A m \in Audited : <<0>> \o sent[m] \in Seq(Nat)  OBVIOUS
    <3>2. sent' \in [Audited -> Seq(Nat)]  BY <2>6, <3>1 DEF Send
    <3> QED  BY <2>6, <3>2 DEF Send, Step
  <2>7. CASE Answer(c)  BY <2>7 DEF Answer, Return
  <2>8. CASE Refuse429(c)
    <3>1. PICK d \in RetryAfter(method[c]) : cooldown' = [cooldown EXCEPT ![method[c]] = d]
      BY <2>8 DEF Refuse429
    <3>2. cooldown' \in [Methods -> Nat]  BY <3>1, RetryNat
    <3>3. method[c] \in Methods  BY <2>8 DEF Refuse429, Step, MutexInv
    <3>4. refused' = [refused EXCEPT ![method[c]] = Smaller(refused[method[c]] + 1, MaxRefusals)]
      BY <2>8 DEF Refuse429
    <3>5. refused' \in [Methods -> Nat]  BY <3>3, <3>4 DEF Smaller
    <3> QED  BY <2>8, <3>2, <3>5 DEF Refuse429, Step
  <2> QED  BY <1>4, <2>1, <2>2, <2>3, <2>4, <2>5, <2>6, <2>7, <2>8 DEF CallStep
<1> QED  BY <1>1, <1>2, <1>3, <1>4 DEF RpcNext

-----------------------------------------------------------------------------
(* Every action keeps the mutexes and the cooldown.                        *)

LEMMA MutexStep ==
  ASSUME RpcInv, RpcNext
  PROVE  MutexInv'
<1> USE LimitsAssumption DEF RpcInv, RpcTypeOK, MutexInv, Holding, locks, limits
<1>1. CASE Tick  BY <1>1 DEF Tick
<1>2. ASSUME NEW c \in Callers, NEW m \in Methods, Request(c, m) PROVE MutexInv'
  BY <1>2 DEF Request, Step
<1>3. ASSUME NEW c \in Callers, Cancel(c) PROVE MutexInv'
  BY <1>3 DEF Cancel
<1>4. ASSUME NEW c \in Callers, CallStep(c) PROVE MutexInv'
  <2>1. CASE LockMethod(c)  BY <2>1 DEF LockMethod, Step
  <2>2. CASE PassGate(c)  BY <2>2 DEF PassGate, Step
  <2>3. CASE PassLimiter(c)  BY <2>3 DEF PassLimiter, Step
  <2>4. CASE GiveUp(c)  BY <2>4 DEF GiveUp, Return
  <2>5. CASE LockClient(c)  BY <2>5 DEF LockClient, Step
  <2>6. CASE Send(c)  BY <2>6 DEF Send, Step
  <2>7. CASE Answer(c)  BY <2>7 DEF Answer, Return
  <2>8. CASE Refuse429(c)  BY <2>8 DEF Refuse429, Step
  <2> QED  BY <1>4, <2>1, <2>2, <2>3, <2>4, <2>5, <2>6, <2>7, <2>8 DEF CallStep
<1> QED  BY <1>1, <1>2, <1>3, <1>4 DEF RpcNext

LEMMA CooldownStep ==
  ASSUME RpcInv, RpcNext
  PROVE  CooldownInv'
<1> USE LimitsAssumption DEF RpcInv, RpcTypeOK, MutexInv, CooldownInv, Holding, locks, limits
<1>1. CASE Tick  BY <1>1 DEF Tick, Larger
<1>2. ASSUME NEW c \in Callers, NEW m \in Methods, Request(c, m) PROVE CooldownInv'
  BY <1>2 DEF Request, Step
<1>3. ASSUME NEW c \in Callers, Cancel(c) PROVE CooldownInv'
  BY <1>3 DEF Cancel
<1>4. ASSUME NEW c \in Callers, CallStep(c) PROVE CooldownInv'
  <2>1. CASE LockMethod(c)  BY <2>1 DEF LockMethod, Step
  <2>2. CASE PassGate(c)  BY <2>2 DEF PassGate, Step
  <2>3. CASE PassLimiter(c)  BY <2>3 DEF PassLimiter, Step
  <2>4. CASE GiveUp(c)  BY <2>4 DEF GiveUp, Return
  <2>5. CASE LockClient(c)  BY <2>5 DEF LockClient, Step
  <2>6. CASE Send(c)  BY <2>6 DEF Send, Step
  <2>7. CASE Answer(c)  BY <2>7 DEF Answer, Return
  <2>8. CASE Refuse429(c)
    (* No other call of the method is past the gate.                       *)
    BY <2>8 DEF Refuse429, Step
  <2> QED  BY <1>4, <2>1, <2>2, <2>3, <2>4, <2>5, <2>6, <2>7, <2>8 DEF CallStep
<1> QED  BY <1>1, <1>2, <1>3, <1>4 DEF RpcNext

-----------------------------------------------------------------------------
(* Every action keeps the quota.                                           *)

(* What the invariant says of one method, for its level, the token that is *)
(* taken and the ages of its requests.                                     *)
Quota(m, lvl, taken, ages) ==
  /\ Increasing(ages)
  /\ \A k \in DOMAIN ages :
       /\ ages[k] < Window
       /\ lvl + Interval(m) * (k - 1 + taken) <= Full(m) + ages[k]

LEMMA QuotaByMethod ==
  QuotaInv <=> /\ \A m \in Methods : level[m] <= Full(m)
               /\ \A m \in Audited : Quota(m, level[m], Taken(m), sent[m])
BY DEF QuotaInv, Quota

(* Fewer tokens and less time leave the quota in place.                    *)
LEMMA QuotaLess ==
  ASSUME NEW m \in Methods, NEW l \in Nat, NEW t \in Nat, NEW u \in Nat, u <= t,
         NEW ages \in Seq(Nat), Quota(m, l, t, ages)
  PROVE  Quota(m, l, u, ages)
<1>1. ASSUME NEW k \in DOMAIN ages
      PROVE  l + Interval(m) * (k - 1 + u) <= Full(m) + ages[k]
  <2>1. k \in Nat /\ k >= 1 /\ ages[k] \in Nat  OBVIOUS
  <2>2. Interval(m) \in Nat /\ Full(m) \in Nat  BY LimiterFacts
  <2>2a. k - 1 + u \in Int /\ k - 1 + t \in Int /\ k - 1 + u <= k - 1 + t  BY <2>1
  <2>3. /\ Interval(m) * (k - 1 + u) \in Int /\ Interval(m) * (k - 1 + t) \in Int
        /\ Interval(m) * (k - 1 + u) <= Interval(m) * (k - 1 + t)
    BY <2>2, <2>2a, TimesMonotone
  <2>4. l + Interval(m) * (k - 1 + t) <= Full(m) + ages[k]  BY DEF Quota
  <2> QED  BY <2>1, <2>2, <2>3, <2>4
<1> QED  BY <1>1 DEF Quota

(* A token moves from the limiter to the call.                             *)
LEMMA QuotaTake ==
  ASSUME NEW m \in Methods, NEW l \in Nat, l >= Interval(m),
         NEW ages \in Seq(Nat), Quota(m, l, 0, ages)
  PROVE  Quota(m, l - Interval(m), 1, ages)
<1>1. ASSUME NEW k \in DOMAIN ages
      PROVE  (l - Interval(m)) + Interval(m) * (k - 1 + 1) <= Full(m) + ages[k]
  <2>1. k \in Nat /\ k >= 1 /\ ages[k] \in Nat  OBVIOUS
  <2>2. Interval(m) \in Nat /\ Full(m) \in Nat  BY LimiterFacts
  <2>3. Interval(m) * (k - 1 + 1) = Interval(m) * (k - 1 + 0) + Interval(m)  BY <2>1, <2>2
  <2>4. l + Interval(m) * (k - 1 + 0) <= Full(m) + ages[k]  BY DEF Quota
  <2> QED  BY <2>1, <2>2, <2>3, <2>4
<1> QED  BY <1>1 DEF Quota

(* The call uses it.                                                       *)
LEMMA QuotaSend ==
  ASSUME NEW m \in Methods, NEW l \in Nat, l <= Full(m),
         NEW ages \in Seq(Nat), Quota(m, l, 1, ages)
  PROVE  Quota(m, l, 0, <<0>> \o ages)
<1> DEFINE new == <<0>> \o ages
<1>1. Len(ages) \in Nat /\ DOMAIN ages = 1..Len(ages) /\ \A i \in DOMAIN ages : ages[i] \in Nat
  OBVIOUS
<1>2. /\ DOMAIN new = 1..(Len(ages) + 1) /\ new[1] = 0
      /\ \A k \in 2..(Len(ages) + 1) : k - 1 \in DOMAIN ages /\ new[k] = ages[k - 1]
  BY <1>1
<1>3. Interval(m) \in Nat /\ Full(m) \in Nat /\ Window \in Nat \ {0}
  BY LimiterFacts, LimitsAssumption
<1> HIDE DEF new
<1>4. ASSUME NEW k \in DOMAIN new
      PROVE  /\ new[k] \in Nat /\ new[k] < Window
             /\ l + Interval(m) * (k - 1 + 0) <= Full(m) + new[k]
  <2>1. CASE k = 1
    <3>1. Interval(m) * (k - 1 + 0) = 0  BY <1>3, <2>1
    <3> QED  BY <1>2, <1>3, <2>1, <3>1
  <2>2. CASE k # 1
    <3>1. k \in 2..(Len(ages) + 1)  BY <1>1, <1>2, <2>2
    <3>2. k - 1 \in DOMAIN ages /\ new[k] = ages[k - 1]  BY <1>2, <3>1
    <3>3. ages[k - 1] < Window /\ l + Interval(m) * (k - 1 - 1 + 1) <= Full(m) + ages[k - 1]
      BY <3>2 DEF Quota
    <3>4. k - 1 - 1 + 1 = k - 1 + 0  BY <3>1
    <3> QED  BY <1>1, <3>2, <3>3, <3>4
  <2> QED  BY <2>1, <2>2
<1>5. ASSUME NEW j \in DOMAIN new, NEW k \in DOMAIN new, j <= k
      PROVE  new[j] <= new[k]
  <2>1. CASE j = 1  BY <1>2, <1>4, <2>1
  <2>2. CASE j # 1
    <3>1. j \in 2..(Len(ages) + 1) /\ k \in 2..(Len(ages) + 1)  BY <1>1, <1>2, <1>5, <2>2
    <3>2. j - 1 \in DOMAIN ages /\ k - 1 \in DOMAIN ages /\ j - 1 <= k - 1
      BY <1>2, <1>5, <3>1
    <3>3. ages[j - 1] <= ages[k - 1]  BY <3>2 DEF Quota, Increasing
    <3> QED  BY <1>2, <3>1, <3>3
  <2> QED  BY <2>1, <2>2
<1> QED  BY <1>4, <1>5 DEF Quota, Increasing, new

(* Time passes.                                                            *)
LEMMA QuotaTick ==
  ASSUME RpcInv, NEW m \in Audited
  PROVE  Quota(m, Smaller(level[m] + 1, Full(m)), Taken(m),
               Recent([i \in DOMAIN sent[m] |-> sent[m][i] + 1]))
<1> DEFINE new == Recent([i \in DOMAIN sent[m] |-> sent[m][i] + 1])
           lvl == Smaller(level[m] + 1, Full(m))
<1>1. /\ new \in Seq(Nat)
      /\ \A k \in DOMAIN new : /\ k \in DOMAIN sent[m]
                               /\ new[k] = sent[m][k] + 1
                               /\ new[k] < Window
  BY AgedFacts
<1>2. m \in Methods /\ level[m] \in Nat /\ sent[m] \in Seq(Nat)
  BY LimitsAssumption DEF RpcInv, RpcTypeOK
<1>2a. DOMAIN sent[m] \subseteq Nat /\ \A i \in DOMAIN sent[m] : sent[m][i] \in Nat
  BY <1>2
<1>3. Interval(m) \in Nat /\ Full(m) \in Nat  BY <1>2, LimiterFacts
<1>4. Taken(m) \in {0, 1}  BY DEF Taken
<1>5. lvl \in Nat /\ lvl <= level[m] + 1  BY <1>2, <1>3 DEF Smaller
<1>6. Quota(m, level[m], Taken(m), sent[m])  BY QuotaByMethod DEF RpcInv
<1> HIDE DEF new, lvl
<1>7. ASSUME NEW k \in DOMAIN new
      PROVE  lvl + Interval(m) * (k - 1 + Taken(m)) <= Full(m) + new[k]
  <2>1. level[m] + Interval(m) * (k - 1 + Taken(m)) <= Full(m) + sent[m][k]
    BY <1>1, <1>6 DEF Quota
  <2>2. k \in Nat /\ sent[m][k] \in Nat /\ new[k] = sent[m][k] + 1  BY <1>1, <1>2a
  <2>3. Interval(m) * (k - 1 + Taken(m)) \in Int  BY <1>3, <1>4, <2>2
  <2> DEFINE x == Interval(m) * (k - 1 + Taken(m))
  <2>4. x \in Int /\ level[m] + x <= Full(m) + sent[m][k]  BY <2>1, <2>3
  <2> HIDE DEF x
  <2>5. ASSUME NEW l \in Nat, NEW y \in Int, NEW f \in Nat, NEW a \in Nat, NEW v \in Nat,
               l + y <= f + a, v <= l + 1
        PROVE  v + y <= f + (a + 1)
    BY <2>5
  <2>6. lvl + x <= Full(m) + (sent[m][k] + 1)  BY <1>2, <1>3, <1>5, <2>2, <2>4, <2>5
  <2> QED  BY <2>2, <2>6 DEF x
<1>8. Increasing(new)
  <2>1. ASSUME NEW j \in DOMAIN new, NEW k \in DOMAIN new, j <= k PROVE new[j] <= new[k]
    <3>1. sent[m][j] <= sent[m][k]  BY <1>1, <1>6, <2>1 DEF Quota, Increasing
    <3>2. sent[m][j] \in Nat /\ sent[m][k] \in Nat  BY <1>1, <1>2a
    <3> QED  BY <1>1, <3>1, <3>2
  <2> QED  BY <2>1 DEF Increasing
<1>9. \A k \in DOMAIN new : new[k] < Window  BY <1>1
<1> QED  BY <1>7, <1>8, <1>9 DEF Quota, new, lvl

(* A step that leaves a method's level and requests alone, takes no token  *)
(* of it, and may give one up.                                             *)
LEMMA QuotaKept ==
  ASSUME RpcInv, NEW m \in Audited,
         level'[m] = level[m], sent'[m] = sent[m], Taken(m)' <= Taken(m)
  PROVE  Quota(m, level[m], Taken(m), sent[m])'
<1>1. m \in Methods /\ level[m] \in Nat /\ sent[m] \in Seq(Nat)
  BY LimitsAssumption DEF RpcInv, RpcTypeOK
<1>2. Taken(m) \in Nat /\ Taken(m)' \in Nat  BY DEF Taken
<1>3. Quota(m, level[m], Taken(m), sent[m])  BY QuotaByMethod DEF RpcInv
<1>4. Quota(m, level[m], Taken(m)', sent[m])  BY <1>1, <1>2, <1>3, QuotaLess
<1>5. Quota(m, level'[m], Taken(m)', sent'[m])  BY <1>4
<1> QED  BY <1>5 DEF Quota, Interval, Full

LEMMA QuotaStep ==
  ASSUME RpcInv, RpcNext
  PROVE  QuotaInv'
<1> USE LimitsAssumption DEF RpcInv, RpcTypeOK, MutexInv, Holding, locks, limits
<1> DEFINE Below == \A m \in Methods : level'[m] <= Full(m)
           Kept == \A m \in Audited : Quota(m, level[m], Taken(m), sent[m])'
<1>0. ASSUME Below, Kept PROVE QuotaInv'
  BY <1>0 DEF QuotaInv, Quota, Full, Interval
<1> HIDE DEF Kept, Below
<1>0a. (\A m \in Methods : level[m] <= Full(m)) /\ (level' = level => Below)
  BY DEF QuotaInv, Below
<1>0b. ASSUME level' = level, sent' = sent, \A m \in Audited : Taken(m)' <= Taken(m)
      PROVE  QuotaInv'
  <2>1. Kept  BY <1>0b, QuotaKept DEF Kept
  <2> QED  BY <1>0, <1>0a, <1>0b, <2>1
<1>1. CASE Tick
  <2>1. Below
    <3>1. \A m \in Methods : Full(m) \in Nat  BY LimiterFacts
    <3> QED  BY <1>1, <3>1 DEF Tick, Smaller, Below
  <2>2. Kept
    <3>1. SUFFICES ASSUME NEW m \in Audited
                   PROVE  Quota(m, level[m], Taken(m), sent[m])'
      BY DEF Kept
    <3>2. /\ level'[m] = Smaller(level[m] + 1, Full(m))
          /\ sent'[m] = Recent([i \in DOMAIN sent[m] |-> sent[m][i] + 1])
          /\ Taken(m)' = Taken(m)
      BY <1>1 DEF Tick, Taken
    <3>3. Quota(m, level'[m], Taken(m)', sent'[m])  BY <3>2, QuotaTick
    <3> QED  BY <3>3 DEF Quota, Interval, Full
  <2> QED  BY <1>0, <2>1, <2>2
<1>2. ASSUME NEW c \in Callers, NEW m \in Methods, Request(c, m) PROVE QuotaInv'
  <2>1. level' = level /\ sent' = sent  BY <1>2 DEF Request
  <2>2. \A n \in Audited : Taken(n)' <= Taken(n)  BY <1>2 DEF Request, Step, Taken
  <2> QED  BY <1>0b, <2>1, <2>2
<1>3. ASSUME NEW c \in Callers, Cancel(c) PROVE QuotaInv'
  <2>1. level' = level /\ sent' = sent  BY <1>3 DEF Cancel
  <2>2. \A n \in Audited : Taken(n)' <= Taken(n)  BY <1>3 DEF Cancel, Taken
  <2> QED  BY <1>0b, <2>1, <2>2
<1>4. ASSUME NEW c \in Callers, CallStep(c) PROVE QuotaInv'
  <2>1. CASE LockMethod(c)
    <3>1. level' = level /\ sent' = sent  BY <2>1 DEF LockMethod
    <3>2. \A n \in Audited : Taken(n)' <= Taken(n)  BY <2>1 DEF LockMethod, Step, Taken
    <3> QED  BY <1>0b, <3>1, <3>2
  <2>2. CASE PassGate(c)
    <3>1. level' = level /\ sent' = sent  BY <2>2 DEF PassGate
    <3>2. \A n \in Audited : Taken(n)' <= Taken(n)  BY <2>2 DEF PassGate, Step, Taken
    <3> QED  BY <1>0b, <3>1, <3>2
  <2>3. CASE PassLimiter(c)
    <3> DEFINE a == method[c]
    <3>1. a \in Methods /\ methodMu[a] = c /\ pc[c] = "limiter" /\ pc'[c] = "client"
      BY <2>3 DEF PassLimiter, Step
    <3>2. /\ level[a] >= Interval(a) /\ level' = [level EXCEPT ![a] = @ - Interval(a)]
          /\ sent' = sent /\ methodMu' = methodMu
          /\ \A d \in Callers \ {c} : pc'[d] = pc[d]
      BY <2>3 DEF PassLimiter, Step
    <3>3. Interval(a) \in Nat /\ level[a] \in Nat /\ level'[a] = level[a] - Interval(a)
      BY <3>1, <3>2, LimiterFacts
    <3>4. Below
      <4>1. \A m \in Methods : level'[m] <= level[m] /\ level'[m] \in Int
        BY <3>1, <3>2, <3>3
      <4>2. \A m \in Methods : Full(m) \in Nat  BY LimiterFacts
      <4> QED  BY <1>0a, <4>1, <4>2 DEF Below
    <3>5. Kept
      <4>1. SUFFICES ASSUME NEW m \in Audited
                     PROVE  Quota(m, level[m], Taken(m), sent[m])'
        BY DEF Kept
      <4>2. CASE m = a
        <5>1. Taken(m) = 0 /\ Taken(m)' = 1  BY <3>1, <3>2, <4>2 DEF Taken
        <5>2. Quota(m, level[m], 0, sent[m])  BY <5>1, QuotaByMethod
        <5>3. sent[m] \in Seq(Nat)  OBVIOUS
        <5>4. Quota(m, level[m] - Interval(m), 1, sent[m])
          BY <3>1, <3>2, <3>3, <4>2, <5>2, <5>3, QuotaTake
        <5>5. Quota(m, level'[m], Taken(m)', sent'[m])  BY <3>2, <3>3, <4>2, <5>1, <5>4
        <5> QED  BY <5>5 DEF Quota, Interval, Full
      <4>3. CASE m # a
        <5>1. level'[m] = level[m] /\ sent'[m] = sent[m]  BY <3>2, <4>3
        <5>2. methodMu[m] # c  BY <3>1, <4>3
        <5>3. Taken(m)' <= Taken(m)  BY <3>2, <5>2 DEF Taken
        <5> QED  BY <5>1, <5>3, QuotaKept
      <4> QED  BY <4>2, <4>3
    <3> QED  BY <1>0, <3>4, <3>5
  <2>4. CASE GiveUp(c)
    <3>1. level' = level /\ sent' = sent  BY <2>4 DEF GiveUp
    <3>2. \A n \in Audited : Taken(n)' <= Taken(n)  BY <2>4 DEF GiveUp, Return, Taken
    <3> QED  BY <1>0b, <3>1, <3>2
  <2>5. CASE LockClient(c)
    <3>1. level' = level /\ sent' = sent  BY <2>5 DEF LockClient
    <3>2. \A n \in Audited : Taken(n)' <= Taken(n)  BY <2>5 DEF LockClient, Step, Taken
    <3> QED  BY <1>0b, <3>1, <3>2
  <2>6. CASE Send(c)
    <3> DEFINE a == method[c]
    <3>1. a \in Methods /\ methodMu[a] = c /\ pc[c] = "take" /\ pc'[c] = "sent"
      BY <2>6 DEF Send, Step
    <3>2. /\ level' = level /\ methodMu' = methodMu
          /\ \A d \in Callers \ {c} : pc'[d] = pc[d]
          /\ \A m \in Audited : sent'[m] = IF m = a THEN <<0>> \o sent[m] ELSE sent[m]
      BY <2>6 DEF Send, Step
    <3>3. Below  BY <1>0a, <3>2
    <3>4. Kept
      <4>1. SUFFICES ASSUME NEW m \in Audited
                     PROVE  Quota(m, level[m], Taken(m), sent[m])'
        BY DEF Kept
      <4>2. CASE m = a
        <5>1. Taken(m) = 1 /\ Taken(m)' = 0  BY <3>1, <3>2, <4>2 DEF Taken
        <5>2. Quota(m, level[m], 1, sent[m])  BY <5>1, QuotaByMethod
        <5>3. sent[m] \in Seq(Nat) /\ level[m] \in Nat /\ level[m] <= Full(m)  BY <1>0a
        <5>4. Quota(m, level[m], 0, <<0>> \o sent[m])  BY <5>2, <5>3, QuotaSend
        <5>5. Quota(m, level'[m], Taken(m)', sent'[m])  BY <3>2, <4>2, <5>1, <5>4
        <5> QED  BY <5>5 DEF Quota, Interval, Full
      <4>3. CASE m # a
        <5>1. level'[m] = level[m] /\ sent'[m] = sent[m]  BY <3>2, <4>3
        <5>2. methodMu[m] # c  BY <3>1, <4>3
        <5>3. Taken(m)' <= Taken(m)  BY <3>2, <5>2 DEF Taken
        <5> QED  BY <5>1, <5>3, QuotaKept
      <4> QED  BY <4>2, <4>3
    <3> QED  BY <1>0, <3>3, <3>4
  <2>7. CASE Answer(c)
    <3>1. level' = level /\ sent' = sent  BY <2>7 DEF Answer
    <3>2. \A n \in Audited : Taken(n)' <= Taken(n)  BY <2>7 DEF Answer, Return, Taken
    <3> QED  BY <1>0b, <3>1, <3>2
  <2>8. CASE Refuse429(c)
    <3>1. level' = level /\ sent' = sent  BY <2>8 DEF Refuse429
    <3>2. \A n \in Audited : Taken(n)' <= Taken(n)  BY <2>8 DEF Refuse429, Step, Taken
    <3> QED  BY <1>0b, <3>1, <3>2
  <2> QED  BY <1>4, <2>1, <2>2, <2>3, <2>4, <2>5, <2>6, <2>7, <2>8 DEF CallStep
<1> QED  BY <1>1, <1>2, <1>3, <1>4 DEF RpcNext

LEMMA InvStep ==
  ASSUME RpcInv, [RpcNext]_rpcVars
  PROVE  RpcInv'
<1>1. CASE RpcNext  BY <1>1, TypeStep, MutexStep, CooldownStep, QuotaStep DEF RpcInv
<1>2. CASE UNCHANGED rpcVars
  <2> USE <1>2 DEF RpcInv, rpcVars
  <2>1. RpcTypeOK'  BY DEF RpcTypeOK
  <2>2. MutexInv'  BY DEF MutexInv, Holding
  <2>3. CooldownInv'  BY DEF CooldownInv
  <2>4. QuotaInv'  BY DEF QuotaInv, Increasing, Taken, Full, Interval
  <2> QED  BY <2>1, <2>2, <2>3, <2>4
<1> QED  BY <1>1, <1>2

-----------------------------------------------------------------------------
(* What the invariant says to the callers.                                 *)

(* One request too many would need a token the limiter cannot have given   *)
(* out.                                                                    *)
LEMMA QuotaHolds == RpcInv => WindowQuota
<1> SUFFICES ASSUME RpcInv, NEW m \in Audited PROVE Len(sent[m]) <= LimitCount[m]
  BY DEF WindowQuota
<1>1. m \in Methods /\ level[m] \in Nat /\ sent[m] \in Seq(Nat) /\ Window \in Nat
  BY LimitsAssumption DEF RpcInv, RpcTypeOK
<1>2. /\ LimitCount[m] \in Nat /\ Burst(m) \in Nat
      /\ Interval(m) \in Nat /\ Interval(m) * (LimitCount[m] - Burst(m)) = Window
  BY <1>1, LimiterFacts
<1>3. SUFFICES ASSUME Len(sent[m]) > LimitCount[m] PROVE FALSE
  BY <1>1, <1>2
<1> DEFINE k == LimitCount[m] + 1
<1>4. k \in DOMAIN sent[m] /\ sent[m][k] \in Nat
  <2>1. /\ Len(sent[m]) \in Nat /\ DOMAIN sent[m] = 1..Len(sent[m])
        /\ \A i \in DOMAIN sent[m] : sent[m][i] \in Nat
    BY <1>1
  <2>2. k \in 1..Len(sent[m])  BY <1>2, <1>3, <2>1
  <2> QED  BY <2>1, <2>2
<1>5. Quota(m, level[m], Taken(m), sent[m])  BY QuotaByMethod DEF RpcInv
<1>6. Quota(m, level[m], 0, sent[m])
  <2>1. Taken(m) \in Nat /\ 0 <= Taken(m)  BY DEF Taken
  <2> QED  BY <1>1, <1>5, <2>1, QuotaLess
<1>7. /\ level[m] + Interval(m) * (k - 1 + 0) <= Full(m) + sent[m][k]
      /\ sent[m][k] < Window
  BY <1>4, <1>6 DEF Quota
<1>8. Interval(m) * (k - 1 + 0) = Window + Full(m)
  <2> DEFINE i == Interval(m)
             n == LimitCount[m]
             b == Burst(m)
  <2>1. i \in Nat /\ n \in Nat /\ b \in Nat /\ i * (n - b) = Window  BY <1>2
  <2>2. k - 1 + 0 = n /\ Full(m) = b * i  BY <1>2 DEF Full
  <2> HIDE DEF i, n, b, k
  <2>3. i * n = i * (n - b) + b * i  BY <2>1
  <2> QED  BY <2>1, <2>2, <2>3 DEF i, n, b
<1>9. Full(m) \in Nat  BY <1>1, LimiterFacts
<1> HIDE DEF k
<1> QED  BY <1>1, <1>4, <1>7, <1>8, <1>9

(* A step of the wait is a step of the client, or leaves it alone.         *)
LEMMA WaitUsesClient ==
  ASSUME [Next]_vars
  PROVE  [RpcNext]_rpcVars
<1> USE WaitAssumption, LimitsAssumption
<1>1. CASE Poll  BY <1>1 DEF Poll, RpcNext
<1>2. CASE PollStep  BY <1>2 DEF PollStep, RpcNext, CallStep
<1>3. CASE Polled  BY <1>3 DEF Polled, RpcNext, CallStep
<1>4. CASE PollGivenUp  BY <1>4 DEF PollGivenUp, RpcNext, CallStep
<1>5. CASE PollAgain \/ TimeOut \/ WaitCancelled  BY <1>5 DEF PollAgain, TimeOut, WaitCancelled
<1>6. CASE WaitTick  BY <1>6 DEF WaitTick, RpcNext
<1>7. CASE Others  BY <1>7 DEF Others, RpcNext
<1>8. CASE ClusterStep  BY <1>8 DEF ClusterStep
<1>9. CASE UNCHANGED vars  BY <1>9 DEF vars
<1> QED  BY <1>1, <1>2, <1>3, <1>4, <1>5, <1>6, <1>7, <1>8, <1>9 DEF Next

LEMMA ClientInv == Spec => []RpcInv
<1>1. Init => RpcInv  BY InitInv DEF Init
<1>2. RpcInv /\ [Next]_vars => RpcInv'  BY InvStep, WaitUsesClient
<1> QED  BY <1>1, <1>2, PTL DEF Spec

(* The types of the wait itself.                                           *)
OwnTypeOK ==
  /\ wait \in {"poll", "pause", "nil", "failed", "timeout", "error"}
  /\ commitment \in Commitments
  /\ maxWait \in MaxWaits
  /\ pause \in Nat
  /\ txStatus \in {"unknown", "processed", "confirmed", "finalized"}
  /\ txErr \in BOOLEAN

LEMMA OwnTypeInit == WaitInit => OwnTypeOK
<1> SUFFICES ASSUME WaitInit PROVE OwnTypeOK  OBVIOUS
<1>1. txErr \in BOOLEAN  BY Zenon DEF WaitInit
<1>2. pause \in Nat  BY DEF WaitInit
<1> QED  BY <1>1, <1>2, Zenon DEF WaitInit, OwnTypeOK

LEMMA OwnTypeStep ==
  ASSUME OwnTypeOK, [Next]_vars
  PROVE  OwnTypeOK'
<1> USE WaitAssumption DEF OwnTypeOK, waitVars, txVars, EndWait
<1>1. CASE Poll  BY <1>1 DEF Poll
<1>2. CASE PollStep  BY <1>2 DEF PollStep
<1>3. CASE Polled  BY <1>3 DEF Polled, Judge
<1>4. CASE PollGivenUp  BY <1>4 DEF PollGivenUp
<1>5. CASE PollAgain \/ TimeOut \/ WaitCancelled  BY <1>5 DEF PollAgain, TimeOut, WaitCancelled
<1>6. CASE WaitTick  BY <1>6 DEF WaitTick, Smaller
<1>7. CASE Others  BY <1>7 DEF Others
<1>8. CASE ClusterStep  BY <1>8 DEF ClusterStep, Process, Drop, Settle
<1>9. CASE UNCHANGED vars  BY <1>9 DEF vars
<1> QED  BY <1>1, <1>2, <1>3, <1>4, <1>5, <1>6, <1>7, <1>8, <1>9 DEF Next

LEMMA SoundStep ==
  ASSUME OwnTypeOK, WaitSound, [Next]_vars
  PROVE  WaitSound'
<1> USE WaitAssumption DEF OwnTypeOK, WaitSound, waitVars, txVars, EndWait
<1>1. CASE Poll  BY <1>1 DEF Poll
<1>2. CASE PollStep  BY <1>2 DEF PollStep
<1>3. CASE Polled  BY <1>3 DEF Polled, Judge, Reached
<1>4. CASE PollGivenUp  BY <1>4 DEF PollGivenUp
<1>5. CASE PollAgain \/ TimeOut \/ WaitCancelled  BY <1>5 DEF PollAgain, TimeOut, WaitCancelled
<1>6. CASE WaitTick  BY <1>6 DEF WaitTick
<1>7. CASE Others  BY <1>7 DEF Others
<1>8. CASE ClusterStep  BY <1>8 DEF ClusterStep, Process, Drop, Settle
<1>9. CASE UNCHANGED vars  BY <1>9 DEF vars
<1> QED  BY <1>1, <1>2, <1>3, <1>4, <1>5, <1>6, <1>7, <1>8, <1>9 DEF Next

-----------------------------------------------------------------------------
(* Type correctness of the client and the wait (withRPCLimits,             *)
(* WaitForSignature).                                                      *)
THEOREM WaitTypeCorrect == Spec => []WaitTypeOK
<1>1. Init => OwnTypeOK  BY OwnTypeInit DEF Init
<1>2. OwnTypeOK /\ [Next]_vars => OwnTypeOK'  BY OwnTypeStep
<1>3. RpcInv /\ OwnTypeOK => WaitTypeOK  BY DEF RpcInv, OwnTypeOK, WaitTypeOK
<1> QED  BY <1>1, <1>2, <1>3, ClientInv, PTL DEF Spec

(* A method never sends more than its quota within any window, for any     *)
(* number of callers, any quotas and any delay between a token and its     *)
(* request (newRPCMethodLimiter, withRPCLimits).                           *)
THEOREM QuotaNeverExceeded == Spec => []WindowQuota
BY ClientInv, QuotaHolds, PTL

(* No request of a method goes out while it cools down (withRPCLimits).    *)
THEOREM CooldownKept == Spec => CooldownHonoured
<1>1. ASSUME RpcInv, [Next]_vars
      PROVE  [\A c \in Callers :
                (pc[c] = "take" /\ pc'[c] = "sent") => cooldown[method[c]] = 0]_rpcVars
  BY <1>1 DEF RpcInv, CooldownInv
<1> QED  BY <1>1, ClientInv, PTL DEF Spec, CooldownHonoured

(* A wait that reports success is right: the transaction succeeded and has *)
(* the commitment asked for (WaitForSignature).                            *)
THEOREM SuccessIsReal == Spec => []WaitSound
<1>1. Init => OwnTypeOK /\ WaitSound
  BY OwnTypeInit, Zenon DEF Init, WaitInit, WaitSound
<1>2. OwnTypeOK /\ WaitSound /\ [Next]_vars => (OwnTypeOK /\ WaitSound)'
  BY OwnTypeStep, SoundStep
<1> QED  BY <1>1, <1>2, PTL DEF Spec
=============================================================================
