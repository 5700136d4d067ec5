-------------------------- MODULE ChainHead_proofs --------------------------
(***************************************************************************)
(* Proofs about the chain head refresher, for every chain, configuration   *)
(* and number of faults: its types, that a forced advance does not         *)
(* overshoot the chain, that the recorded head never goes back, that the   *)
(* selection of slots is exact, and which steps alone can leave a block on *)
(* a boundary behind.                                                      *)
(***************************************************************************)
EXTENDS ChainHead, FiniteSetTheorems, TLAPS

(* A refresh works upwards from the head over slots the chain has reached. *)
WorkInv ==
  /\ \A s \in pending : chainHeadSlot <= s /\ s <= tip
  /\ pc = "unstick" => \A s \in window : chainHeadSlot <= s /\ s <= tip
  /\ pc # "blocks" => pending = {} /\ bp = 0

(* What is or will be recorded is not ahead of the head in memory.         *)
PointInv ==
  /\ point <= chainHeadSlot /\ point <= tip
  /\ bp > 0 => bp = chainHeadSlot /\ bp <= tip

HeadInv == TypeOK /\ HeadWithinChain /\ WorkInv /\ PointInv

(* A set of slots of the chain is finite and has a least and a greatest    *)
(* member unless it is empty.                                              *)
LEMMA SlotSets ==
  ASSUME NEW W \in SUBSET (1..MaxSlot)
  PROVE  /\ IsFiniteSet(W) /\ Cardinality(W) \in Nat
         /\ W # {} => /\ Min(W) \in W /\ \A s \in W : Min(W) <= s
                      /\ Max(W) \in W /\ \A s \in W : s <= Max(W)
         /\ Cardinality(W) > 1 => W # {}
<1>1. MaxSlot \in Nat  BY BoundsAssumption
<1>2. IsFiniteSet(W) /\ Cardinality(W) \in Nat
  <2>1. IsFiniteSet(1..MaxSlot)  BY <1>1, FS_Interval
  <2>2. IsFiniteSet(W)  BY <2>1, FS_Subset
  <2> QED  BY <2>2, FS_CardinalityType
<1>3. ASSUME W # {} PROVE \E x \in W : \A y \in W : x <= y
  <2>1. W \in SUBSET Nat  BY <1>1
  <2>2. PICK x \in W : \A y \in W : ~(<<y, x>> \in OpToRel(<, Nat))
    BY <1>3, <2>1, NatLessThanWellFounded, WFMin
  <2>3. \A y \in W : ~(y < x)  BY <2>1, <2>2 DEF OpToRel
  <2> QED  BY <2>1, <2>3
<1>4. ASSUME W # {} PROVE \E x \in W : \A y \in W : x >= y
  <2> DEFINE D == {n \in Nat : MaxSlot - n \in W}
  <2>1. D # {}
    <3>1. PICK t \in W : TRUE  BY <1>4
    <3>2. MaxSlot - t \in Nat /\ MaxSlot - (MaxSlot - t) = t  BY <1>1
    <3> QED  BY <3>1, <3>2
  <2>2. PICK x \in D : \A y \in D : ~(<<y, x>> \in OpToRel(<, Nat))
    BY <2>1, NatLessThanWellFounded, WFMin
  <2>3. \A y \in D : ~(y < x)  BY <2>2 DEF OpToRel
  <2>4. ASSUME NEW y \in W PROVE MaxSlot - x >= y
    <3>1. MaxSlot - y \in Nat /\ MaxSlot - (MaxSlot - y) = y  BY <1>1
    <3>2. ~(MaxSlot - y < x)  BY <2>3, <3>1
    <3>3. y \in Nat /\ x \in Nat  BY <1>1
    <3> QED  BY <1>1, <3>2, <3>3
  <2>5. MaxSlot - x \in W  OBVIOUS
  <2> QED  BY <2>4, <2>5
<1>5. ASSUME W # {} PROVE Min(W) \in W /\ \A s \in W : Min(W) <= s
  BY <1>3, <1>5 DEF Min
<1>6. ASSUME W # {} PROVE Max(W) \in W /\ \A s \in W : s <= Max(W)
  <2>1. Max(W) \in W /\ \A s \in W : Max(W) >= s  BY <1>4, <1>6 DEF Max
  <2> QED  BY <1>1, <2>1
<1>7. ASSUME W = {} PROVE ~(Cardinality(W) > 1)
  <2>1. Cardinality(W) = 0  BY <1>7, FS_EmptySet
  <2> QED  BY <2>1
<1> QED  BY <1>2, <1>5, <1>6, <1>7

LEMMA HeadInit == Init => HeadInv
<1> SUFFICES ASSUME Init PROVE HeadInv
  OBVIOUS
<1>1. MaxSlot \in Nat /\ MaxFaults \in Nat /\ StartFromSlot \in Nat
  BY BoundsAssumption, ConfigAssumption
<1>2. latest \in WindowState  BY <1>1 DEF Init, WindowState
<1>3. TypeOK  BY <1>1, <1>2 DEF Init, TypeOK
<1>4. HeadWithinChain /\ WorkInv /\ PointInv
  BY <1>1 DEF Init, HeadWithinChain, WorkInv, PointInv
<1> QED  BY <1>3, <1>4 DEF HeadInv

LEMMA HeadNext == HeadInv /\ [Next]_vars => HeadInv' /\ point' >= point
<1> SUFFICES ASSUME HeadInv, [Next]_vars PROVE HeadInv' /\ point' >= point
  OBVIOUS
<1>1. /\ MaxSlot \in Nat /\ MaxFaults \in Nat /\ StartFromSlot \in Nat
      /\ Target \in Nat /\ Backoff \in Nat /\ Backoff < Target /\ Offset \in Nat
  BY BoundsAssumption, ConfigAssumption DEF Backoff
<1>2. /\ blocks \in SUBSET (1..MaxSlot) /\ window \in SUBSET (1..MaxSlot)
      /\ pending \in SUBSET (1..MaxSlot) /\ tip \in Nat /\ tip <= MaxSlot
      /\ point \in Nat /\ bp \in Nat /\ chainHeadSlot \in Nat
  BY <1>1, BoundsAssumption DEF HeadInv, TypeOK
<1>3. SlotsWithBlocks \in SUBSET blocks /\ SlotsWithBlocks \in SUBSET (1..MaxSlot)
  BY <1>2 DEF SlotsWithBlocks
<1>4. \A s \in SlotsWithBlocks : chainHeadSlot <= s /\ s <= tip
  BY DEF SlotsWithBlocks
<1>5. point >= point  BY <1>2
<1> USE DEF HeadInv, TypeOK, HeadWithinChain, WorkInv, PointInv
<1>6. CASE NewSlot
  <2>1. \A s \in 1..MaxSlot : s <= tip => s <= tip + 1  BY <1>1, <1>2
  <2> QED  BY <1>1, <1>2, <1>5, <1>6, <2>1 DEF NewSlot, refresh
<1>7. CASE GetBlocks
  <2>1. SlotsToQuery(SlotsWithBlocks) \in SUBSET SlotsWithBlocks
    BY DEF SlotsToQuery
  <2>2. Seen \in WindowState
    BY <1>2, <1>3, SlotSets DEF Seen, WindowState
  <2>3. /\ latest' = Seen /\ window' = SlotsWithBlocks
        /\ pending' = SlotsToQuery(SlotsWithBlocks)
        /\ pc' = (IF SlotsWithBlocks = {} THEN "refresh" ELSE "blocks")
        /\ pc = "refresh"
        /\ UNCHANGED <<blocks, tip, stored, point, chainHeadSlot, bp, faults>>
    BY <1>7 DEF GetBlocks, chain
  <2>4. pc' # "blocks" => pending' = {}  BY <2>1, <2>3
  <2>5. bp = 0 /\ bp' = 0  BY <2>3
  <2>6. \A s \in pending' : chainHeadSlot' <= s /\ s <= tip'
    BY <1>4, <2>1, <2>3
  <2>7. TypeOK'  BY <1>3, <2>1, <2>2, <2>3
  <2>8. WorkInv'  BY <2>3, <2>4, <2>5, <2>6
  <2>9. HeadWithinChain' /\ PointInv' /\ point' >= point  BY <1>5, <2>3, <2>5
  <2> QED  BY <2>7, <2>8, <2>9
<1>8. CASE GetSameBlocks
  BY <1>1, <1>2, <1>3, <1>4, <1>5, <1>8 DEF GetSameBlocks, chain
<1>9. CASE SkipHead
  BY <1>1, <1>2, <1>5, <1>9 DEF SkipHead, chain
<1>10. CASE StoreBlock
  <2>1. Min(pending) \in pending /\ \A s \in pending : Min(pending) <= s
    BY <1>2, <1>10, SlotSets DEF StoreBlock
  <2> DEFINE s0 == Min(pending)
  <2>2. /\ stored' = stored \cup {s0} /\ chainHeadSlot' = s0 /\ bp' = s0
        /\ pending' = pending \ {s0} /\ pc = "blocks"
        /\ UNCHANGED <<blocks, tip, point, latest, pc, window, faults>>
    BY <1>10 DEF StoreBlock, chain
  <2>3. /\ s0 \in pending /\ \A s \in pending : s0 <= s
        /\ s0 \in 1..MaxSlot /\ chainHeadSlot <= s0 /\ s0 <= tip
    BY <1>2, <2>1
  <2> HIDE DEF s0
  <2>4. TypeOK'
    <3>1. s0 \in Nat /\ s0 \in 0..MaxSlot  BY <1>1, <2>3
    <3>2. s0 \in blocks /\ pending' \subseteq window'  BY <2>2, <2>3
    <3> QED  BY <2>2, <3>1, <3>2
  <2>5. WorkInv'  BY <1>2, <2>2, <2>3
  <2>6. HeadWithinChain' /\ PointInv' /\ point' >= point
    BY <1>1, <1>2, <1>5, <2>2, <2>3
  <2> QED  BY <2>4, <2>5, <2>6
<1>11. CASE StoreLatestBlockPoint
  BY <1>1, <1>2, <1>5, <1>11 DEF StoreLatestBlockPoint, Return, chain
<1>12. CASE ResumeAtLast
  <2>1. Max(window) \in window
    BY <1>2, <1>12, SlotSets DEF ResumeAtLast
  <2>2. /\ Max(window) \in Nat /\ chainHeadSlot <= Max(window)
        /\ Max(window) <= tip
    <3>1. \A s \in window : chainHeadSlot <= s /\ s <= tip
      BY <1>12 DEF ResumeAtLast
    <3>2. \A s \in window : s \in Nat  BY <1>1, <1>2
    <3> HIDE DEF HeadInv, TypeOK, WorkInv
    <3> QED  BY <2>1, <3>1, <3>2
  <2>3. latest' \in WindowState
    BY <1>12, <2>2 DEF ResumeAtLast, ForceAdvance, WindowState
  <2> QED  BY <1>1, <1>2, <1>5, <1>12, <2>2, <2>3
             DEF ResumeAtLast, ForceAdvance, Return, chain
<1>13. CASE StepOverGap
  <2> DEFINE slot == chainHeadSlot + Target - Backoff
  <2>1. slot \in Nat /\ chainHeadSlot <= slot  BY <1>1, <1>2
  <2>2. ForceAdvance(IF slot > tip THEN chainHeadSlot ELSE slot)
    BY <1>13 DEF StepOverGap
  <2>3. /\ chainHeadSlot' = (IF slot > tip THEN chainHeadSlot ELSE slot)
        /\ latest' = [slot |-> chainHeadSlot', len |-> 0]
    BY <2>2 DEF ForceAdvance
  <2>4. chainHeadSlot' \in Nat /\ chainHeadSlot <= chainHeadSlot'
        /\ (chainHeadSlot' = chainHeadSlot \/ chainHeadSlot' <= tip)
    BY <1>2, <2>1, <2>3
  <2>5. latest' \in WindowState  BY <2>3, <2>4 DEF WindowState
  <2> HIDE DEF slot
  <2> QED  BY <1>1, <1>2, <1>5, <2>2, <2>4, <2>5
             DEF ForceAdvance, Return, chain
<1>14. CASE FetchFails
  BY <1>1, <1>2, <1>5, <1>14 DEF FetchFails, Fault, Return, chain
<1>15. CASE PointFails
  BY <1>1, <1>2, <1>5, <1>15 DEF PointFails, Fault, Return, chain
<1>16. CASE SlotFails
  BY <1>1, <1>2, <1>5, <1>16 DEF SlotFails, Fault, Return, chain
<1>17. CASE Restart
  <2>1. latest' \in WindowState  BY <1>1, <1>17 DEF Restart, Start, WindowState
  <2> QED  BY <1>1, <1>2, <1>5, <1>17, <2>1
             DEF Restart, Start, Fault, Return, chain
<1>18. CASE UNCHANGED vars
  BY <1>5, <1>18 DEF vars, chain, refresh
<1> QED
  BY <1>6, <1>7, <1>8, <1>9, <1>10, <1>11, <1>12, <1>13, <1>14, <1>15, <1>16,
     <1>17, <1>18 DEF Next, Refresh, Failure

(* Every variable keeps its type; in particular only slots that have a     *)
(* block are stored.                                                       *)
THEOREM HeadTypeCorrect == Spec => []TypeOK
<1>1. HeadInv => TypeOK  BY DEF HeadInv
<1> QED  BY HeadInit, HeadNext, <1>1, PTL DEF Spec

(* The forced advance over a stretch without blocks never overshoots the   *)
(* chain, whatever the configuration, the chain and the faults.            *)
THEOREM NoOvershoot == Spec => []HeadWithinChain
<1>1. HeadInv => HeadWithinChain  BY DEF HeadInv
<1> QED  BY HeadInit, HeadNext, <1>1, PTL DEF Spec

(* The recorded chain head never goes back, whatever the configuration,    *)
(* the chain and the faults.                                               *)
THEOREM PointNeverGoesBack == Spec => PointAdvances
<1>1. HeadInv /\ [Next]_vars => [point' >= point]_vars  BY HeadNext
<1> QED  BY HeadInit, HeadNext, <1>1, PTL DEF Spec, PointAdvances

(* GetBlockhashBySlot never changes its answer for a slot at or below the  *)
(* recorded head, whatever the configuration, the chain and the faults.    *)
THEOREM AnswersNeverChange == Spec => AnswersStable
<1> DEFINE Stable == \A m \in 1..point : UpTo(m, stored') = UpTo(m, stored)
<1>1. HeadInv /\ [Next]_vars => [Stable]_vars
  <2> SUFFICES ASSUME HeadInv, Next PROVE Stable
    BY DEF HeadInv
  <2>1. CASE StoreBlock
    <3>1. pending \in SUBSET (1..MaxSlot) /\ point \in Nat /\ chainHeadSlot \in Nat
          /\ point <= chainHeadSlot
      BY BoundsAssumption DEF HeadInv, TypeOK, PointInv
    <3>2. Min(pending) \in pending  BY <2>1, <3>1, SlotSets DEF StoreBlock
    <3>3. /\ stored' = stored \cup {Min(pending)}
          /\ Min(pending) # chainHeadSlot
      BY <2>1 DEF StoreBlock
    <3>4. \A s \in pending : s \in Nat /\ chainHeadSlot <= s
      <4>1. \A s \in pending : s \in Nat  BY <3>1, BoundsAssumption
      <4>2. \A s \in pending : chainHeadSlot <= s  BY DEF HeadInv, WorkInv
      <4> QED  BY ONLY <4>1, <4>2
    <3>5. Min(pending) \in Nat /\ point < Min(pending)
      <4>1. Min(pending) \in Nat /\ chainHeadSlot <= Min(pending)
        BY <3>2, <3>4
      <4> QED  BY ONLY <3>1, <3>3, <4>1
    <3>6. ASSUME NEW m \in 1..point PROVE ~(Min(pending) <= m)
      BY <3>1, <3>5
    <3> QED  BY <3>3, <3>6 DEF UpTo
  <2>2. CASE UNCHANGED stored  BY <2>2 DEF UpTo
  <2>3. StoreBlock \/ UNCHANGED stored
    BY DEF Next, Refresh, Failure, NewSlot, GetBlocks, GetSameBlocks, SkipHead,
       StoreLatestBlockPoint, ResumeAtLast, StepOverGap, ForceAdvance,
       FetchFails, PointFails, SlotFails, Restart
  <2> QED  BY <2>1, <2>2, <2>3
<1> QED  BY HeadInit, HeadNext, <1>1, PTL DEF Spec, AnswersStable

-----------------------------------------------------------------------------
(* The selection of getSlotsToQueryBlocks.                                 *)

(* Division with remainder, for any positive divisor.                      *)
LEMMA DivMod ==
  ASSUME NEW a \in Nat, NEW n \in Nat \ {0}
  PROVE  /\ a \div n \in Nat /\ a % n \in Nat
         /\ a % n < n
         /\ a = n * (a \div n) + (a % n)
OBVIOUS

(* A multiple of n at or above a has a quotient at least as large; above   *)
(* a, or when a is no multiple, a larger one.                              *)
LEMMA QuotientBelow ==
  ASSUME NEW a \in Nat, NEW k \in Nat, NEW q \in Nat, NEW r \in Nat,
         NEW n \in Nat \ {0}, a = n * q + r, r < n
  PROVE  /\ a < n * k => q < k
         /\ n * k <= a => k <= q
<1>1. ASSUME a < n * k PROVE q < k
  <2>1. ASSUME k <= q PROVE FALSE
    <3>1. n * k <= n * q  BY <2>1
    <3> QED  BY <1>1, <3>1
  <2> QED  BY <2>1
<1>2. ASSUME n * k <= a PROVE k <= q
  <2>1. ASSUME q + 1 <= k PROVE FALSE
    <3>1. n * (q + 1) <= n * k  BY <2>1
    <3>2. n * (q + 1) = n * q + n  OBVIOUS
    <3> QED  BY <1>2, <3>1, <3>2
  <2> QED  BY <2>1
<1> QED  BY <1>1, <1>2

(* Whatever the window: every slot asked for is what some boundary         *)
(* resolves to.                                                            *)
LEMMA AskedIsBoundary ==
  ASSUME NEW W \in SUBSET (1..MaxSlot), NEW s \in SlotsToQuery(W)
  PROVE  \E m \in 1..MaxSlot : /\ m % Threshold = 0
                               /\ s \in UpTo(m, W)
                               /\ s = Max(UpTo(m, W))
<1>1. /\ MaxSlot \in Nat /\ Threshold \in Nat \ {0}
      /\ s \in W /\ s \in Nat /\ s \in 1..MaxSlot
  BY BoundsAssumption, ConfigAssumption DEF SlotsToQuery
(* The greatest slot up to m is s when none lies between.                  *)
<1>2. ASSUME NEW m \in 1..MaxSlot, m % Threshold = 0, s <= m,
             \A v \in W : ~(s < v /\ v <= m)
      PROVE  \E x \in 1..MaxSlot : /\ x % Threshold = 0
                                   /\ s \in UpTo(x, W)
                                   /\ s = Max(UpTo(x, W))
  <2> DEFINE U == UpTo(m, W)
  <2>1. s \in U /\ U \in SUBSET (1..MaxSlot)  BY <1>1, <1>2 DEF UpTo
  <2>2. Max(U) \in U /\ s <= Max(U)  BY <2>1, SlotSets
  <2>3. Max(U) \in W /\ Max(U) <= m  BY <2>2 DEF UpTo
  <2>4. ~(s < Max(U))  BY <1>2, <2>3
  <2>5. Max(U) \in Nat
    <3>1. \A x \in W : x \in Nat  BY <1>1
    <3> QED  BY <2>3, <3>1
  <2>6. s = Max(U)  BY <1>1, <2>2, <2>4, <2>5
  <2> QED  BY <1>2, <2>1, <2>6
<1>3. CASE s % Threshold = 0
  <2>1. \A v \in W : ~(s < v /\ v <= s)  BY <1>1
  <2>2. s <= s  BY <1>1
  <2> QED  BY <1>1, <1>2, <1>3, <2>1, <2>2
<1>4. CASE s % Threshold # 0
  <2>1. PICK u \in W : /\ s < u
                       /\ \A v \in W : ~(s < v /\ v < u)
                       /\ u \div Threshold # s \div Threshold
                       /\ u % Threshold # 0
    BY <1>4 DEF SlotsToQuery
  <2> DEFINE n == Threshold
             q == s \div n
             r == s % n
             k == u \div n
             e == u % n
             m == n * k
  <2>2. u \in Nat /\ u <= MaxSlot  BY <1>1
  <2>3. /\ q \in Nat /\ r \in Nat /\ r < n /\ s = n * q + r
        /\ k \in Nat /\ e \in Nat /\ e < n /\ u = n * k + e
        /\ e # 0 /\ k # q /\ n \in Nat \ {0}
    BY <1>1, <2>1, <2>2, DivMod
  <2> HIDE DEF q, r, k, e, n
  <2>4. m \in Nat /\ m < u /\ m % n = 0
    <3>1. m \in Nat /\ m < u  BY <2>2, <2>3
    <3>2. m % n = 0
      <4> DEFINE a == m \div n
                 b == m % n
      <4>1. a \in Nat /\ b \in Nat /\ b < n /\ m = n * a + b
        BY <2>3, <3>1, DivMod
      <4> HIDE DEF a, b, m
      <4>2. k <= a /\ ~(k < a)
        <5>1. k <= a
          <6>1. n * k <= m  BY <3>1 DEF m
          <6> QED  BY <2>3, <3>1, <4>1, <6>1, QuotientBelow
        <5>2. ~(k < a)
          <6>1. n * a <= m  BY <2>3, <3>1, <4>1
          <6>2. m = n * k + 0 /\ 0 \in Nat /\ 0 < n  BY <2>3, <3>1 DEF m
          <6>3. a <= k  BY <2>3, <3>1, <4>1, <6>1, <6>2, QuotientBelow
          <6> QED  BY <2>3, <4>1, <6>3
        <5> QED  BY <5>1, <5>2
      <4>3. k = a  BY <2>3, <4>1, <4>2
      <4>4. m = n * a  BY <4>3 DEF m
      <4>5. b = 0
        <5>1. n * a \in Nat  BY <2>3, <4>1
        <5> QED  BY <4>1, <4>4, <5>1
      <4> QED  BY <4>5 DEF b
    <3> QED  BY <3>1, <3>2
  <2>5. s < m
    <3>1. ASSUME m <= s PROVE FALSE
      <4>1. k <= q  BY <1>1, <2>3, <3>1, QuotientBelow
      <4>2. n * q <= s /\ n * q \in Nat  BY <1>1, <2>3
      <4>3. n * q <= u  BY <1>1, <2>1, <2>2, <4>2
      <4>4. q <= k  BY <2>2, <2>3, <4>3, QuotientBelow
      <4> QED  BY <2>3, <4>1, <4>4
    <3> HIDE DEF m
    <3> QED  BY <1>1, <2>4, <3>1
  <2> HIDE DEF m
  <2>6. m \in 1..MaxSlot /\ s <= m  BY <1>1, <2>2, <2>4, <2>5
  <2>7. ASSUME NEW v \in W, s < v, v <= m PROVE FALSE
    <3>1. v \in Nat /\ v < u  BY <1>1, <2>2, <2>4, <2>7
    <3> QED  BY <2>1, <2>7, <3>1
  <2>8. m % Threshold = 0  BY <2>4 DEF n
  <2> QED  BY <1>2, <2>6, <2>7, <2>8
<1> QED  BY <1>3, <1>4

(* The last slot up to a boundary is asked for, unless the next block is   *)
(* itself on a boundary.                                                   *)
LEMMA BoundaryIsAsked ==
  ASSUME NEW W \in SUBSET (1..MaxSlot), NEW m \in 1..MaxSlot,
         NEW A, A = {s \in W : m < s},
         m % Threshold = 0, UpTo(m, W) # {}, A # {}, Min(A) % Threshold # 0
  PROVE  Max(UpTo(m, W)) \in SlotsToQuery(W)
<1> DEFINE s == Max(UpTo(m, W))
           u == Min(A)
<1>1. MaxSlot \in Nat /\ Threshold \in Nat \ {0} /\ m \in Nat
  BY BoundsAssumption, ConfigAssumption
<1>2. s \in W /\ s <= m /\ s \in Nat /\ \A v \in W : v <= m => v <= s
  <2>1. UpTo(m, W) \in SUBSET (1..MaxSlot)  BY DEF UpTo
  <2>2. s \in UpTo(m, W) /\ \A v \in UpTo(m, W) : v <= s  BY <2>1, SlotSets
  <2> HIDE DEF s
  <2> QED  BY <1>1, <2>2 DEF UpTo
<1>3. u \in W /\ m < u /\ u \in Nat /\ \A v \in W : m < v => u <= v
  <2>1. A \in SUBSET (1..MaxSlot)  OBVIOUS
  <2>2. u \in A /\ \A v \in A : u <= v  BY <2>1, SlotSets
  <2> HIDE DEF u
  <2> QED  BY <1>1, <2>2
<1>4. u % Threshold # 0  OBVIOUS
<1> HIDE DEF s, u
<1>5. s < u  BY <1>1, <1>2, <1>3
<1>6. ASSUME NEW v \in W, s < v, v < u PROVE FALSE
  <2>1. v \in Nat  BY <1>1
  <2>2. CASE v <= m  BY <1>2, <1>6, <2>1, <2>2
  <2>3. CASE ~(v <= m)  BY <1>1, <1>3, <1>6, <2>1, <2>3
  <2> QED  BY <2>2, <2>3
<1>7. CASE s % Threshold = 0  BY <1>2, <1>7 DEF SlotsToQuery, s
<1>8. CASE s % Threshold # 0
  <2> DEFINE n == Threshold
             q == s \div n
             r == s % n
             k == u \div n
             e == u % n
             j == m \div n
  <2>1. /\ q \in Nat /\ r \in Nat /\ r < n /\ s = n * q + r /\ r # 0
        /\ k \in Nat /\ e \in Nat /\ e < n /\ u = n * k + e
        /\ j \in Nat /\ m = n * j + (m % n) /\ m % n = 0 /\ n \in Nat \ {0}
    BY <1>1, <1>2, <1>3, <1>8, DivMod
  <2> HIDE DEF q, r, k, e, j, n
  <2>2. m = n * j /\ n * j \in Nat
    <3>1. n * j \in Nat  BY <2>1
    <3> QED  BY <2>1, <3>1
  <2>3. s # m
    <3>1. s % n # m % n  BY <2>1 DEF r
    <3> QED  BY <3>1
  <2>4. s < n * j  BY <1>1, <1>2, <2>2, <2>3
  <2>5. q < j  BY <1>2, <2>1, <2>4, QuotientBelow
  <2>6. n * j <= u  BY <1>1, <1>3, <2>2
  <2>7. j <= k  BY <1>3, <2>1, <2>6, QuotientBelow
  <2>8. k # q  BY <2>1, <2>5, <2>7
  <2>9. u \div Threshold # s \div Threshold  BY <2>8 DEF k, q, n
  <2> QED  BY <1>2, <1>3, <1>4, <1>5, <1>6, <2>9 DEF SlotsToQuery, s
<1> QED  BY <1>7, <1>8 DEF s

(* For every window and every rounding threshold, getSlotsToQueryBlocks    *)
(* asks only for blocks some boundary resolves to, and for all of those    *)
(* whose next block is not on a boundary itself.                           *)
THEOREM SelectionCorrect == Spec => []SelectionExact
<1>1. HeadInv => SelectionExact
  <2> SUFFICES ASSUME HeadInv PROVE SelectionExact
    OBVIOUS
  <2>1. window \in SUBSET (1..MaxSlot)
    BY BoundsAssumption DEF HeadInv, TypeOK
  <2>2. \A s \in SlotsToQuery(window) :
          \E m \in 1..MaxSlot : /\ m % Threshold = 0
                                /\ s \in UpTo(m, window)
                                /\ s = Max(UpTo(m, window))
    BY <2>1, AskedIsBoundary
  <2>3. \A m \in 1..MaxSlot :
          LET after == {s \in window : m < s} IN
          /\ m % Threshold = 0
          /\ UpTo(m, window) # {}
          /\ after # {}
          /\ Min(after) % Threshold # 0
          => Max(UpTo(m, window)) \in SlotsToQuery(window)
    BY <2>1, BoundaryIsAsked
  <2> QED  BY <2>2, <2>3 DEF SelectionExact
<1> QED  BY HeadInit, HeadNext, <1>1, PTL DEF Spec

-----------------------------------------------------------------------------
(* The blocks on boundaries.  Two steps can leave one behind: a block that *)
(* cannot be fetched, and a forced advance over a block that getBlocks did *)
(* not return and that appeared before getSlot.  Nothing else does.        *)

Boundary(s) == s % Threshold = 0 /\ StartFromSlot < s

LeavesBehind ==
  \/ FetchFails
  \/ /\ StepOverGap
     /\ \E s \in blocks \ (window \cup stored) :
          Boundary(s) /\ chainHeadSlot < s /\ s <= chainHeadSlot'

(* What getBlocks returned, or would have returned, at an earlier tip.     *)
WindowAt(t) ==
  {s \in blocks : chainHeadSlot <= s /\ s <= chainHeadSlot + Offset /\ s <= t}

(* Up to the head in memory, the boundary blocks are stored.               *)
CoveredInv == \A s \in blocks : Boundary(s) /\ s <= chainHeadSlot => s \in stored

(* The window has no hole above the head, and what it holds of boundary    *)
(* blocks above the head is still to be stored, or was when it comes again.*)
WindowInv ==
  /\ pc # "refresh" =>
       \A s \in blocks : \A v \in window :
         chainHeadSlot <= s /\ s <= v => s \in window
  /\ pc = "blocks" =>
       \A s \in window : Boundary(s) /\ chainHeadSlot < s => s \in pending
  /\ pc = "unstick" =>
       \A s \in window : Boundary(s) /\ chainHeadSlot < s => s \in stored

(* The window seen last, while the head is still where it was: it is a     *)
(* window of an earlier tip, and no boundary block of it is missing once   *)
(* the refresh has ended.                                                  *)
LatestInv ==
  /\ latest.slot <= chainHeadSlot
  /\ latest.slot = chainHeadSlot =>
       \E t \in 0..tip :
         /\ latest.len = Cardinality(WindowAt(t))
         /\ pc = "blocks" => window = WindowAt(t)
         /\ pc # "blocks" =>
              \A s \in WindowAt(t) : Boundary(s) /\ chainHeadSlot < s => s \in stored

KeptInv == HeadInv /\ CoveredInv /\ WindowInv /\ LatestInv

(* A head just forced to a slot has seen nothing there.                    *)
FreshHead ==
  /\ blocks \in SUBSET (1..MaxSlot) /\ tip \in Nat /\ chainHeadSlot \in Nat
  /\ latest.slot = chainHeadSlot /\ latest.len = 0 /\ pc # "blocks"

LEMMA FreshLatest == FreshHead => LatestInv
<1> SUFFICES ASSUME FreshHead PROVE LatestInv
  OBVIOUS
<1> USE DEF FreshHead
<1>1. WindowAt(0) = {}
  <2>1. \A s \in blocks : ~(s <= 0)  BY BoundsAssumption
  <2> QED  BY <2>1 DEF WindowAt
<1>2. Cardinality(WindowAt(0)) = 0  BY <1>1, FS_EmptySet
<1>3. 0 \in 0..tip /\ chainHeadSlot <= chainHeadSlot  OBVIOUS
<1> QED  BY <1>1, <1>2, <1>3 DEF LatestInv

LEMMA KeptInit == Init => KeptInv
<1> SUFFICES ASSUME Init PROVE KeptInv
  OBVIOUS
<1>1. HeadInv  BY HeadInit
<1>2. blocks \in SUBSET (1..MaxSlot) /\ tip \in Nat /\ StartFromSlot \in Nat
  BY BoundsAssumption, ConfigAssumption DEF Init
<1>3. CoveredInv
  <2>1. \A s \in blocks : s \in Nat  BY <1>2, BoundsAssumption
  <2> QED  BY <1>2, <2>1 DEF Init, CoveredInv, Boundary
<1>4. WindowInv  BY DEF Init, WindowInv
<1>5. LatestInv
  <2>1. chainHeadSlot \in Nat /\ latest.slot = chainHeadSlot /\ latest.len = 0
        /\ pc # "blocks"
    BY <1>2 DEF Init
  <2> QED  BY <1>2, <2>1, FreshLatest DEF FreshHead
<1> QED  BY <1>1, <1>3, <1>4, <1>5 DEF KeptInv

(* The same window as last time is the same set: windows only grow.        *)
LEMMA SameWindow ==
  ASSUME HeadInv, NEW t \in 0..tip,
         Cardinality(WindowAt(t)) = Cardinality(SlotsWithBlocks)
  PROVE  WindowAt(t) = SlotsWithBlocks
<1>1. blocks \in SUBSET (1..MaxSlot) /\ tip \in Nat /\ MaxSlot \in Nat
  BY BoundsAssumption DEF HeadInv, TypeOK
<1>2. SlotsWithBlocks \in SUBSET (1..MaxSlot)  BY <1>1 DEF SlotsWithBlocks
<1>3. WindowAt(t) \in SUBSET SlotsWithBlocks
  <2>1. \A s \in blocks : s <= t => s <= tip  BY <1>1
  <2> QED  BY <2>1 DEF WindowAt, SlotsWithBlocks
<1>4. IsFiniteSet(SlotsWithBlocks)  BY <1>2, SlotSets
<1> QED  BY <1>3, <1>4, FS_Subset

LEMMA KeptNext ==
  KeptInv /\ [Next]_vars /\ [~LeavesBehind]_vars => KeptInv'
<1> SUFFICES ASSUME KeptInv, [Next]_vars, [~LeavesBehind]_vars PROVE KeptInv'
  OBVIOUS
<1>1. HeadInv' /\ HeadInv /\ CoveredInv /\ WindowInv /\ LatestInv
  BY HeadNext DEF KeptInv
<1>2. SUFFICES CoveredInv' /\ WindowInv' /\ LatestInv'  BY <1>1 DEF KeptInv
<1>3. /\ blocks \in SUBSET (1..MaxSlot) /\ window \in SUBSET blocks
      /\ pending \in SUBSET window /\ tip \in Nat /\ chainHeadSlot \in Nat
      /\ MaxSlot \in Nat /\ Offset \in Nat /\ StartFromSlot \in Nat
      /\ \A s \in blocks : s \in Nat
      /\ latest.slot \in Nat
  <2>1. /\ blocks \in SUBSET (1..MaxSlot) /\ window \in SUBSET blocks
        /\ pending \in SUBSET window /\ tip \in Nat /\ chainHeadSlot \in Nat
        /\ MaxSlot \in Nat /\ Offset \in Nat /\ StartFromSlot \in Nat
        /\ latest \in WindowState
    BY <1>1, BoundsAssumption, ConfigAssumption DEF HeadInv, TypeOK
  <2> QED  BY <2>1 DEF WindowState
<1>4. CASE NewSlot
  <2>1. /\ tip' = tip + 1
        /\ UNCHANGED <<blocks, stored, chainHeadSlot, latest, pc, window, pending>>
    BY <1>4 DEF NewSlot, refresh
  <2>2. \A t \in 0..tip : t \in 0..tip'  BY <1>3, <2>1
  <2>3. \A t : WindowAt(t)' = WindowAt(t)
    BY <2>1 DEF WindowAt
  <2>4. CoveredInv' /\ WindowInv'  BY <1>1, <2>1 DEF CoveredInv, WindowInv
  <2>5. LatestInv'  BY <1>1, <2>1, <2>2, <2>3 DEF LatestInv
  <2> QED  BY <2>4, <2>5
<1>5. CASE GetBlocks
  <2> DEFINE W == SlotsWithBlocks
  <2>1. /\ latest' = Seen /\ window' = W /\ pending' = SlotsToQuery(W)
        /\ pc' = (IF W = {} THEN "refresh" ELSE "blocks")
        /\ UNCHANGED <<blocks, tip, stored, chainHeadSlot>>
    BY <1>5 DEF GetBlocks, chain
  <2>2. W = WindowAt(tip)' /\ W = WindowAt(tip)
    BY <2>1 DEF SlotsWithBlocks, WindowAt
  <2>3. latest'.slot = chainHeadSlot /\ latest'.len = Cardinality(W)
    BY <2>1 DEF Seen
  <2>4. \A s \in W : Boundary(s) => s \in SlotsToQuery(W)
    BY DEF SlotsToQuery, Boundary
  <2>5. ASSUME NEW s \in blocks, NEW v \in W, chainHeadSlot <= s, s <= v
        PROVE  s \in W
    <3>1. v \in Nat /\ s \in Nat /\ v <= chainHeadSlot + Offset /\ v <= tip
      BY <1>3, <2>5 DEF SlotsWithBlocks
    <3>2. s <= chainHeadSlot + Offset /\ s <= tip  BY <1>3, <2>5, <3>1
    <3> QED  BY <2>5, <3>2 DEF SlotsWithBlocks
  <2> HIDE DEF W
  <2>6. WindowInv'  BY <2>1, <2>4, <2>5 DEF WindowInv
  <2>7. LatestInv'
    <3>1. tip \in 0..tip /\ chainHeadSlot <= chainHeadSlot  BY <1>3
    <3>2. pc' # "blocks" => W = {}  BY <2>1
    <3>3. tip' = tip /\ chainHeadSlot' = chainHeadSlot /\ stored' = stored
          /\ window' = W
      BY <2>1
    <3>4. WindowAt(tip)' = W  BY <2>2
    <3>5. \E t \in 0..tip' : /\ latest'.len = Cardinality(WindowAt(t)')
                             /\ pc' = "blocks" => window' = WindowAt(t)'
                             /\ pc' # "blocks" => WindowAt(t)' = {}
      <4>1. WindowAt(tip)' = {s \in blocks' : chainHeadSlot' <= s
                               /\ s <= chainHeadSlot' + Offset /\ s <= tip'}
        BY DEF WindowAt
      <4>2. \A t : WindowAt(t)' = {s \in blocks' : chainHeadSlot' <= s
                               /\ s <= chainHeadSlot' + Offset /\ s <= t}
        BY DEF WindowAt
      <4>3. W = {s \in blocks' : chainHeadSlot' <= s
                               /\ s <= chainHeadSlot' + Offset /\ s <= tip}
        BY <2>2, <3>3, <4>1
      <4>4. tip \in 0..tip'  BY <3>1, <3>3
      <4> QED  BY <2>3, <3>2, <3>3, <4>2, <4>3, <4>4
    <3> QED  BY <2>3, <3>1, <3>3, <3>5 DEF LatestInv
  <2>8. CoveredInv'  BY <1>1, <2>1 DEF CoveredInv
  <2> QED  BY <2>6, <2>7, <2>8
<1>6. CASE GetSameBlocks
  <2>1. /\ Seen = latest /\ window' = SlotsWithBlocks /\ pc' = "unstick"
        /\ pc = "refresh"
        /\ UNCHANGED <<blocks, tip, stored, chainHeadSlot, latest>>
    BY <1>6 DEF GetSameBlocks, chain
  <2>2. latest.slot = chainHeadSlot /\ latest.len = Cardinality(SlotsWithBlocks)
    BY <2>1 DEF Seen
  <2>3. PICK t \in 0..tip :
          /\ latest.len = Cardinality(WindowAt(t))
          /\ \A s \in WindowAt(t) : Boundary(s) /\ chainHeadSlot < s => s \in stored
    BY <1>1, <2>1, <2>2 DEF LatestInv
  <2>4. WindowAt(t) = SlotsWithBlocks  BY <1>1, <2>2, <2>3, SameWindow
  <2>5. ASSUME NEW s \in blocks, NEW v \in SlotsWithBlocks,
               chainHeadSlot <= s, s <= v
        PROVE  s \in SlotsWithBlocks
    <3>1. v \in Nat /\ s \in Nat /\ v <= chainHeadSlot + Offset /\ v <= tip
      BY <1>3, <2>5 DEF SlotsWithBlocks
    <3>2. s <= chainHeadSlot + Offset /\ s <= tip  BY <1>3, <2>5, <3>1
    <3> QED  BY <2>5, <3>2 DEF SlotsWithBlocks
  <2>6. WindowInv'  BY <2>1, <2>3, <2>4, <2>5 DEF WindowInv
  <2>7. LatestInv'
    <3>1. \A x : WindowAt(x)' = WindowAt(x)  BY <2>1 DEF WindowAt
    <3> QED  BY <1>1, <2>1, <2>3, <3>1 DEF LatestInv
  <2>8. CoveredInv'  BY <1>1, <2>1 DEF CoveredInv
  <2> QED  BY <2>6, <2>7, <2>8
<1>7. CASE SkipHead
  <2>1. /\ pc = "blocks" /\ pc' = pc /\ pending' = pending \ {chainHeadSlot}
        /\ UNCHANGED <<blocks, tip, stored, chainHeadSlot, latest, window>>
    BY <1>7 DEF SkipHead, chain
  <2>2. WindowInv'
    <3>1. \A s \in blocks : chainHeadSlot < s => s # chainHeadSlot  BY <1>3
    <3> QED  BY <1>1, <1>3, <2>1, <3>1 DEF WindowInv
  <2>3. LatestInv'
    <3>1. \A x : WindowAt(x)' = WindowAt(x)  BY <2>1 DEF WindowAt
    <3> QED  BY <1>1, <2>1, <3>1 DEF LatestInv
  <2>4. CoveredInv'  BY <1>1, <2>1 DEF CoveredInv
  <2> QED  BY <2>2, <2>3, <2>4
<1>8. CASE StoreBlock
  <2> DEFINE s0 == Min(pending)
  <2>1. /\ pc = "blocks" /\ pc' = pc /\ s0 # chainHeadSlot
        /\ stored' = stored \cup {s0} /\ chainHeadSlot' = s0
        /\ pending' = pending \ {s0}
        /\ UNCHANGED <<blocks, tip, latest, window>>
    BY <1>8 DEF StoreBlock, chain
  <2>2. s0 \in pending /\ \A s \in pending : s0 <= s
    BY <1>3, <1>8, SlotSets DEF StoreBlock
  <2> HIDE DEF s0
  <2>3. s0 \in window /\ s0 \in blocks /\ s0 \in Nat /\ chainHeadSlot < s0
    <3>1. s0 \in window /\ s0 \in blocks /\ s0 \in Nat  BY <1>3, <2>2
    <3>2. chainHeadSlot <= s0  BY <1>1, <2>2 DEF HeadInv, WorkInv
    <3> QED  BY <1>3, <2>1, <3>1, <3>2
  <2>4. ASSUME NEW s \in blocks, Boundary(s), chainHeadSlot < s, s <= s0
        PROVE  s = s0
    <3>1. s \in Nat /\ chainHeadSlot <= s  BY <1>3, <2>4
    <3>2. s \in window  BY <1>1, <2>1, <2>3, <2>4, <3>1 DEF WindowInv
    <3>3. s \in pending  BY <1>1, <2>1, <2>4, <3>2 DEF WindowInv
    <3>4. s0 <= s  BY <2>2, <3>3
    <3> QED  BY <2>3, <2>4, <3>1, <3>4
  <2>5. CoveredInv'
    <3>1. ASSUME NEW s \in blocks, Boundary(s), s <= s0
          PROVE  s \in stored \cup {s0}
      <4>1. CASE s <= chainHeadSlot  BY <1>1, <3>1, <4>1 DEF CoveredInv
      <4>2. CASE ~(s <= chainHeadSlot)
        <5>1. chainHeadSlot < s  BY <1>3, <4>2
        <5> QED  BY <2>4, <3>1, <5>1
      <4> QED  BY <4>1, <4>2
    <3> QED  BY <2>1, <3>1 DEF CoveredInv
  <2>6. WindowInv'
    <3>1. ASSUME NEW s \in blocks, NEW v \in window, s0 <= s, s <= v
          PROVE  s \in window
      <4>1. chainHeadSlot <= s  BY <1>3, <2>3, <3>1
      <4> QED  BY <1>1, <2>1, <3>1, <4>1 DEF WindowInv
    <3>2. ASSUME NEW s \in window, Boundary(s), s0 < s
          PROVE  s \in pending \ {s0}
      <4>1. s \in Nat /\ chainHeadSlot < s /\ s # s0  BY <1>3, <2>3, <3>2
      <4> QED  BY <1>1, <2>1, <3>2, <4>1 DEF WindowInv
    <3> QED  BY <2>1, <3>1, <3>2 DEF WindowInv
  <2>7. LatestInv'
    <3>1. latest.slot <= chainHeadSlot  BY <1>1 DEF LatestInv
    <3>2. latest.slot < s0  BY <1>3, <2>3, <3>1
    <3>3. latest'.slot <= chainHeadSlot' /\ latest'.slot # chainHeadSlot'
      BY <1>3, <2>1, <2>3, <3>2
    <3> QED  BY <3>3 DEF LatestInv
  <2> QED  BY <2>5, <2>6, <2>7
<1>9. CASE StoreLatestBlockPoint \/ PointFails
  <2>1. /\ pc = "blocks" /\ pc' = "refresh" /\ pending = {}
        /\ UNCHANGED <<blocks, tip, stored, chainHeadSlot, latest>>
    BY <1>9 DEF StoreLatestBlockPoint, PointFails, Return, chain
  <2>2. CoveredInv' /\ WindowInv'  BY <1>1, <2>1 DEF CoveredInv, WindowInv
  <2>3. LatestInv'
    <3>1. \A x : WindowAt(x)' = WindowAt(x)  BY <2>1 DEF WindowAt
    <3>2. \A s \in window : ~(Boundary(s) /\ chainHeadSlot < s)
      BY <1>1, <2>1 DEF WindowInv
    <3> QED  BY <1>1, <2>1, <3>1, <3>2 DEF LatestInv
  <2> QED  BY <2>2, <2>3
<1>10. CASE SlotFails
  <2>1. /\ pc = "unstick" /\ pc' = "refresh"
        /\ UNCHANGED <<blocks, tip, stored, chainHeadSlot, latest>>
    BY <1>10 DEF SlotFails, Return, chain
  <2>2. CoveredInv' /\ WindowInv'  BY <1>1, <2>1 DEF CoveredInv, WindowInv
  <2>3. LatestInv'
    <3>1. \A x : WindowAt(x)' = WindowAt(x)  BY <2>1 DEF WindowAt
    <3> QED  BY <1>1, <2>1, <3>1 DEF LatestInv
  <2> QED  BY <2>2, <2>3
(* A head that is forced somewhere with the boundary blocks on its way     *)
(* stored has seen nothing there yet.                                      *)
<1>11. ASSUME NEW slot, ForceAdvance(slot), chainHeadSlot <= slot, slot \in Nat,
              \A s \in blocks :
                Boundary(s) /\ chainHeadSlot < s /\ s <= slot => s \in stored
       PROVE  CoveredInv' /\ WindowInv' /\ LatestInv'
  <2>1. /\ chainHeadSlot' = slot /\ latest' = [slot |-> slot, len |-> 0]
        /\ pc' = "refresh" /\ UNCHANGED <<blocks, tip, stored>>
    BY <1>11 DEF ForceAdvance, Return, chain
  <2>2. CoveredInv'
    <3>1. ASSUME NEW s \in blocks, Boundary(s), s <= slot PROVE s \in stored
      <4>1. CASE s <= chainHeadSlot  BY <1>1, <3>1, <4>1 DEF CoveredInv
      <4>2. CASE ~(s <= chainHeadSlot)
        <5>1. chainHeadSlot < s  BY <1>3, <4>2
        <5> QED  BY <1>11, <3>1, <5>1
      <4> QED  BY <4>1, <4>2
    <3> QED  BY <2>1, <3>1 DEF CoveredInv
  <2>3. WindowInv'  BY <2>1 DEF WindowInv
  <2>4. LatestInv'
    <3>1. /\ blocks' \in SUBSET (1..MaxSlot) /\ tip' \in Nat
          /\ chainHeadSlot' \in Nat /\ latest'.slot = chainHeadSlot'
          /\ latest'.len = 0 /\ pc' # "blocks"
      BY <1>3, <1>11, <2>1
    <3>2. FreshHead' => LatestInv'  BY FreshLatest, PTL
    <3> QED  BY <3>1, <3>2 DEF FreshHead
  <2> QED  BY <2>2, <2>3, <2>4
<1>12. CASE ResumeAtLast
  <2>1. /\ pc = "unstick" /\ ForceAdvance(Max(window)) /\ Cardinality(window) > 1
    BY <1>12 DEF ResumeAtLast
  <2> DEFINE m == Max(window)
  <2>2. m \in window  BY <1>3, <2>1, SlotSets
  <2> HIDE DEF m
  <2>3. m \in Nat /\ chainHeadSlot <= m
    BY <1>1, <1>3, <2>1, <2>2 DEF HeadInv, WorkInv
  <2>4. ASSUME NEW s \in blocks, Boundary(s), chainHeadSlot < s, s <= m
        PROVE  s \in stored
    <3>1. chainHeadSlot <= s  BY <1>3, <2>4
    <3>2. s \in window  BY <1>1, <2>1, <2>2, <2>4, <3>1 DEF WindowInv
    <3> QED  BY <1>1, <2>1, <2>4, <3>2 DEF WindowInv
  <2>5. ForceAdvance(m)  BY <2>1 DEF m
  <2> QED  BY <1>11, <2>3, <2>4, <2>5
<1>13. CASE StepOverGap
  <2> DEFINE over == chainHeadSlot + Target - Backoff
             slot == IF over > tip THEN chainHeadSlot ELSE over
  <2>1. ForceAdvance(slot)  BY <1>13 DEF StepOverGap
  <2>2. slot \in Nat /\ chainHeadSlot <= slot
    <3>1. over \in Nat /\ chainHeadSlot <= over
      BY <1>3, ConfigAssumption DEF Backoff
    <3> HIDE DEF over
    <3> QED  BY <1>3, <3>1
  <2> HIDE DEF slot
  <2>3. chainHeadSlot' = slot  BY <2>1 DEF ForceAdvance
  <2>4. ASSUME NEW s \in blocks, Boundary(s), chainHeadSlot < s, s <= slot
        PROVE  s \in stored
    <3>1. chainHeadSlot' # chainHeadSlot
      <4>1. s \in Nat  BY <1>3
      <4> QED  BY <1>3, <2>2, <2>3, <2>4, <4>1
    <3>2. ~LeavesBehind
      <4>1. ~UNCHANGED vars  BY <3>1 DEF vars
      <4> QED  BY <4>1
    <3>3. CASE s \in window
      BY <1>1, <1>13, <2>4, <3>3 DEF WindowInv, StepOverGap
    <3>4. CASE s \notin window
      BY <1>13, <2>3, <2>4, <3>2, <3>4 DEF LeavesBehind
    <3> QED  BY <3>3, <3>4
  <2> QED  BY <1>11, <2>1, <2>2, <2>4
<1>14. CASE FetchFails
  <2>1. ~UNCHANGED vars
    <3>1. pc # pc'  BY <1>14 DEF FetchFails, Return
    <3> QED  BY <3>1 DEF vars, refresh
  <2> QED  BY <1>14, <2>1 DEF LeavesBehind
<1>15. CASE Restart
  <2> DEFINE head == IF point > StartFromSlot THEN point ELSE StartFromSlot
  <2>1. /\ chainHeadSlot' = head /\ latest' = [slot |-> StartFromSlot, len |-> 0]
        /\ pc' = "refresh" /\ UNCHANGED <<blocks, tip, stored>>
    BY <1>15 DEF Restart, Start, Return, chain
  <2>2. point \in Nat /\ point <= chainHeadSlot
    BY <1>1, BoundsAssumption DEF HeadInv, TypeOK, PointInv
  <2>3. head \in Nat /\ StartFromSlot <= head  BY <1>3, <2>2
  <2>4. CoveredInv'
    <3>1. ASSUME NEW s \in blocks, Boundary(s), s <= head PROVE s \in stored
      <4>1. s \in Nat /\ StartFromSlot < s  BY <1>3, <3>1 DEF Boundary
      <4>2. s <= chainHeadSlot  BY <1>3, <2>2, <3>1, <4>1
      <4> QED  BY <1>1, <3>1, <4>2 DEF CoveredInv
    <3> HIDE DEF head
    <3> QED  BY <2>1, <3>1 DEF CoveredInv
  <2> HIDE DEF head
  <2>5. WindowInv'  BY <2>1 DEF WindowInv
  <2>6. LatestInv'
    <3>1. CASE head = StartFromSlot
      <4>1. /\ blocks' \in SUBSET (1..MaxSlot) /\ tip' \in Nat
            /\ chainHeadSlot' \in Nat /\ latest'.slot = chainHeadSlot'
            /\ latest'.len = 0 /\ pc' # "blocks"
        BY <1>3, <2>1, <2>3, <3>1
      <4>2. FreshHead' => LatestInv'  BY FreshLatest, PTL
      <4> QED  BY <4>1, <4>2 DEF FreshHead
    <3>2. CASE head # StartFromSlot
      <4>1. latest'.slot <= chainHeadSlot' /\ latest'.slot # chainHeadSlot'
        BY <2>1, <2>3, <3>2
      <4> QED  BY <4>1 DEF LatestInv
    <3> QED  BY <3>1, <3>2
  <2> QED  BY <2>4, <2>5, <2>6
<1>16. CASE UNCHANGED vars
  <2>1. UNCHANGED <<blocks, tip, stored, chainHeadSlot, latest, pc, window,
                    pending>>
    BY <1>16 DEF vars, chain, refresh
  <2>2. \A x : WindowAt(x)' = WindowAt(x)  BY <2>1 DEF WindowAt
  <2> QED  BY <1>1, <2>1, <2>2 DEF CoveredInv, WindowInv, LatestInv
<1> QED
  BY <1>4, <1>5, <1>6, <1>7, <1>8, <1>9, <1>10, <1>12, <1>13, <1>14, <1>15,
     <1>16 DEF Next, Refresh, Failure

(* Every block on a rounding boundary after the start slot and up to the   *)
(* recorded head is in the store, in every behaviour of refreshChainHead   *)
(* in which no block fetch fails for good and no forced advance passes     *)
(* over one that appeared after getBlocks: crashes, failed head records,   *)
(* failed getSlot calls and forced advances over the blocks that getBlocks *)
(* returned leave none behind.                                             *)
THEOREM BoundaryBlocksKept ==
  Spec /\ [][~LeavesBehind]_vars => []BoundaryBlocksStored
<1>1. KeptInv => BoundaryBlocksStored
  <2> SUFFICES ASSUME KeptInv PROVE BoundaryBlocksStored
    OBVIOUS
  <2>1. /\ \A s \in blocks : s \in Nat
        /\ point \in Nat /\ chainHeadSlot \in Nat /\ point <= chainHeadSlot
    BY BoundsAssumption DEF KeptInv, HeadInv, TypeOK, PointInv
  <2>2. \A s \in blocks : s <= point => s <= chainHeadSlot  BY <2>1
  <2> QED  BY <2>2 DEF KeptInv, CoveredInv, Boundary, BoundaryBlocksStored
<1> QED  BY KeptInit, KeptNext, <1>1, PTL DEF Spec
=============================================================================
