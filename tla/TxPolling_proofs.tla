-------------------------- MODULE TxPolling_proofs --------------------------
(***************************************************************************)
(* Proofs about the transaction polling loop, for every chain and every    *)
(* value of the constants: its types, that no owed event is lost, that the *)
(* queue holds nothing twice, and what the loop promises about order, its  *)
(* cursor, its markers and the finalized block number.                     *)
(***************************************************************************)
EXTENDS TxPolling, FiniteSetTheorems, TLAPS

-----------------------------------------------------------------------------
(* Sequences.                                                              *)

(* The members of a concatenation are those of its two parts.              *)
LEMMA RangeConcat ==
  ASSUME NEW S, NEW s \in Seq(S), NEW r \in Seq(S)
  PROVE  Range(s \o r) = Range(s) \cup Range(r)
<1>1. ASSUME NEW x \in Range(s) PROVE x \in Range(s \o r)
  <2>1. PICK i \in 1..Len(s) : x = s[i]  BY <1>1 DEF Range
  <2>2. i \in 1..Len(s \o r) /\ (s \o r)[i] = x  BY <2>1
  <2> QED  BY <2>2 DEF Range
<1>2. ASSUME NEW x \in Range(r) PROVE x \in Range(s \o r)
  <2>1. PICK i \in 1..Len(r) : x = r[i]  BY <1>2 DEF Range
  <2>2. Len(s) + i \in 1..Len(s \o r) /\ (s \o r)[Len(s) + i] = x  BY <2>1
  <2> QED  BY <2>2 DEF Range
<1>3. ASSUME NEW x \in Range(s \o r) PROVE x \in Range(s) \cup Range(r)
  <2>1. PICK i \in 1..Len(s \o r) : x = (s \o r)[i]  BY <1>3 DEF Range
  <2>2. CASE i <= Len(s)
    <3>1. i \in 1..Len(s) /\ x = s[i]  BY <2>1, <2>2
    <3> QED  BY <3>1 DEF Range
  <2>3. CASE i > Len(s)
    <3>1. i - Len(s) \in 1..Len(r) /\ x = r[i - Len(s)]  BY <2>1, <2>3
    <3> QED  BY <3>1 DEF Range
  <2> QED  BY <2>2, <2>3
<1> QED  BY <1>1, <1>2, <1>3

(* Appending adds one member.                                              *)
LEMMA RangeAppend ==
  ASSUME NEW S, NEW s \in Seq(S), NEW x \in S
  PROVE  Range(Append(s, x)) = Range(s) \cup {x}
<1>1. ASSUME NEW y \in Range(s) PROVE y \in Range(Append(s, x))
  <2>1. PICK i \in 1..Len(s) : y = s[i]  BY <1>1 DEF Range
  <2>2. i \in 1..Len(Append(s, x)) /\ Append(s, x)[i] = y  BY <2>1
  <2> QED  BY <2>2 DEF Range
<1>2. x \in Range(Append(s, x))
  <2>1. Len(s) + 1 \in 1..Len(Append(s, x)) /\ Append(s, x)[Len(s) + 1] = x
    OBVIOUS
  <2> QED  BY <2>1 DEF Range
<1>3. ASSUME NEW y \in Range(Append(s, x)) PROVE y \in Range(s) \cup {x}
  <2>1. PICK i \in 1..Len(s) + 1 : y = Append(s, x)[i]  BY <1>3 DEF Range
  <2>2. CASE i = Len(s) + 1  BY <2>1, <2>2
  <2>3. CASE i # Len(s) + 1
    <3>1. i \in 1..Len(s) /\ y = s[i]  BY <2>1, <2>3
    <3> QED  BY <3>1 DEF Range
  <2> QED  BY <2>2, <2>3
<1> QED  BY <1>1, <1>2, <1>3

(* Taking the front off a queue removes at most that member.               *)
LEMMA RangeTail ==
  ASSUME NEW S, NEW s \in Seq(S), s # <<>>
  PROVE  /\ Head(s) \in S
         /\ Head(s) \in Range(s)
         /\ Tail(s) \in Seq(S)
         /\ Range(s) = Range(Tail(s)) \cup {Head(s)}
<1>1. Len(s) \in Nat /\ Len(s) > 0 /\ Head(s) = s[1] /\ 1 \in 1..Len(s)
  OBVIOUS
<1>2. Head(s) \in S /\ Tail(s) \in Seq(S)  OBVIOUS
<1>3. Head(s) \in Range(s)  BY <1>1 DEF Range
<1>4. ASSUME NEW y \in Range(s) PROVE y \in Range(Tail(s)) \cup {Head(s)}
  <2>1. PICK i \in 1..Len(s) : y = s[i]  BY <1>4 DEF Range
  <2>2. CASE i = 1  BY <1>1, <2>1, <2>2
  <2>3. CASE i # 1
    <3>1. i - 1 \in 1..Len(Tail(s)) /\ y = Tail(s)[i - 1]
      BY <1>1, <2>1, <2>3
    <3>2. DOMAIN Tail(s) = 1..Len(Tail(s))  BY <1>2
    <3>3. y \in Range(Tail(s))  BY <3>1, <3>2 DEF Range
    <3> QED  BY <3>3
  <2> QED  BY <2>2, <2>3
<1>5. ASSUME NEW y \in Range(Tail(s)) PROVE y \in Range(s)
  <2>1. PICK i \in 1..Len(Tail(s)) : y = Tail(s)[i]  BY <1>5, <1>2 DEF Range
  <2>2. i + 1 \in 1..Len(s) /\ y = s[i + 1]  BY <1>1, <2>1
  <2> QED  BY <2>2 DEF Range
<1> QED  BY <1>2, <1>3, <1>4, <1>5

-----------------------------------------------------------------------------
(* Sets of positions.                                                      *)

(* A non-empty set of positions has a least and a greatest member.         *)
LEMMA MinMaxTx ==
  ASSUME NEW S \in SUBSET Tx, S # {}
  PROVE  /\ Max(S) \in S /\ \A t \in S : t <= Max(S)
         /\ Min(S) \in S /\ \A t \in S : Min(S) <= t
<1>1. NumTxs \in Nat  BY BoundsAssumption
<1>2. \E x \in S : \A y \in S : x <= y
  <2>1. S \in SUBSET Nat  BY <1>1 DEF Tx
  <2>2. PICK x \in S : \A y \in S : ~(<<y, x>> \in OpToRel(<, Nat))
    BY <2>1, NatLessThanWellFounded, WFMin
  <2>3. \A y \in S : ~(y < x)  BY <2>1, <2>2 DEF OpToRel
  <2> QED  BY <2>1, <2>3
<1>3. \E x \in S : \A y \in S : x >= y
  <2> DEFINE D == {n \in Nat : NumTxs - n \in S}
  <2>1. S \in SUBSET (1..NumTxs)  BY DEF Tx
  <2>2. D # {}
    <3>1. PICK t \in S : TRUE  OBVIOUS
    <3>2. NumTxs - t \in Nat /\ NumTxs - (NumTxs - t) = t  BY <1>1, <2>1
    <3> QED  BY <3>1, <3>2
  <2>3. PICK x \in D : \A y \in D : ~(<<y, x>> \in OpToRel(<, Nat))
    BY <2>2, NatLessThanWellFounded, WFMin
  <2>4. \A y \in D : ~(y < x)  BY <2>3 DEF OpToRel
  <2>5. NumTxs - x \in S  OBVIOUS
  <2>6. ASSUME NEW y \in S PROVE NumTxs - x >= y
    <3>1. NumTxs - y \in Nat /\ NumTxs - (NumTxs - y) = y  BY <1>1, <2>1
    <3>2. NumTxs - y \in D  BY <3>1
    <3>3. ~(NumTxs - y < x)  BY <2>4, <3>2
    <3>4. y \in Nat /\ x \in Nat  BY <1>1, <2>1
    <3> QED  BY <1>1, <3>3, <3>4
  <2> QED  BY <2>5, <2>6
<1>4. \A t \in S : t <= Max(S)
  <2>1. Max(S) \in S /\ \A y \in S : Max(S) >= y  BY <1>3 DEF Max
  <2> QED  BY <2>1, <1>1 DEF Tx
<1> QED  BY <1>2, <1>3, <1>4 DEF Max, Min

(* Sets of positions are finite.                                           *)
LEMMA FiniteTx ==
  ASSUME NEW S \in SUBSET Tx
  PROVE  IsFiniteSet(S) /\ Cardinality(S) \in Nat
<1>1. IsFiniteSet(Tx)  BY BoundsAssumption, FS_Interval DEF Tx
<1>2. IsFiniteSet(S)  BY <1>1, FS_Subset
<1> QED  BY <1>2, FS_CardinalityType

(* A page is closed upwards within what is listed.                         *)
LEMMA NewestUpward ==
  ASSUME NEW S \in SUBSET Tx, NEW n \in Nat,
         NEW t \in Newest(n, S), NEW u \in S, t <= u
  PROVE  u \in Newest(n, S)
<1> DEFINE Above(x) == {v \in S : v > x}
<1>1. S \subseteq Nat  BY BoundsAssumption DEF Tx
<1>2. t \in S /\ Cardinality(Above(t)) < n  BY DEF Newest
<1>3. Above(u) \in SUBSET Above(t)
  <2>1. t \in Nat /\ u \in Nat  BY <1>1, <1>2
  <2>2. ASSUME NEW v \in S, v > u PROVE v > t  BY <1>1, <2>1, <2>2
  <2> QED  BY <2>2
<1>4. Above(t) \in SUBSET Tx /\ Above(u) \in SUBSET Tx  OBVIOUS
<1>5. /\ IsFiniteSet(Above(t))
      /\ Cardinality(Above(t)) \in Nat
      /\ Cardinality(Above(u)) \in Nat
  BY <1>4, FiniteTx
<1>6. Cardinality(Above(u)) <= Cardinality(Above(t))  BY <1>3, <1>5, FS_Subset
<1>7. Cardinality(Above(u)) < n  BY <1>2, <1>5, <1>6
<1> QED  BY <1>7 DEF Newest

(* A page holds at most n signatures, and fewer only if it holds all.      *)
LEMMA NewestSize ==
  ASSUME NEW S \in SUBSET Tx, NEW n \in Nat
  PROVE  /\ Newest(n, S) \in SUBSET S
         /\ Cardinality(Newest(n, S)) \in Nat
         /\ Cardinality(Newest(n, S)) <= n
         /\ Cardinality(Newest(n, S)) < n => Newest(n, S) = S
<1> DEFINE N == Newest(n, S)
           Above(x) == {v \in S : v > x}
<1>1. S \subseteq Nat  BY BoundsAssumption DEF Tx
<1>2. N \in SUBSET S /\ N \in SUBSET Tx  BY DEF Newest
<1>3. Cardinality(N) \in Nat /\ IsFiniteSet(N)  BY <1>2, FiniteTx
<1>4. \A x : Above(x) \in SUBSET Tx  OBVIOUS
<1>5. \A x : IsFiniteSet(Above(x)) /\ Cardinality(Above(x)) \in Nat
  BY <1>4, FiniteTx
<1>6. Cardinality(N) <= n
  <2>1. CASE N = {}
    <3>1. Cardinality(N) = 0  BY <2>1, FS_EmptySet
    <3> QED  BY <3>1
  <2>2. CASE N # {}
    <3> DEFINE m == Min(N)
    <3>1. m \in N /\ \A t \in N : m <= t  BY <1>2, <2>2, MinMaxTx
    <3>2. m \in S /\ Cardinality(Above(m)) < n  BY <3>1 DEF Newest
    <3>3. N \subseteq Above(m) \cup {m}
      <4>1. ASSUME NEW x \in N PROVE x \in Above(m) \cup {m}
        <5>1. x \in Nat /\ m \in Nat /\ m <= x /\ x \in S
          BY <1>1, <1>2, <3>1
        <5> QED  BY <5>1
      <4> QED  BY <4>1
    <3>4. m \notin Above(m)
      <4>1. m \in Nat  BY <1>1, <3>2
      <4>2. ~(m > m)  BY <4>1
      <4> QED  BY <4>2
    <3>5. /\ IsFiniteSet(Above(m) \cup {m})
          /\ Cardinality(Above(m) \cup {m}) = Cardinality(Above(m)) + 1
      BY <1>5, <3>4, FS_AddElement
    <3>6. Cardinality(N) <= Cardinality(Above(m)) + 1
      BY <3>3, <3>5, FS_Subset
    <3> HIDE DEF m, N
    <3> QED  BY <1>3, <1>5, <3>2, <3>6
  <2> QED  BY <2>1, <2>2
<1>7. ASSUME N # S PROVE ~(Cardinality(N) < n)
  <2> DEFINE R == S \ N
             m == Max(R)
  <2>1. R # {} /\ R \in SUBSET Tx  BY <1>2, <1>7
  <2>2. m \in R /\ \A t \in R : t <= m  BY <2>1, MinMaxTx
  <2>3. m \in S /\ ~(Cardinality(Above(m)) < n)  BY <2>2 DEF Newest
  <2>4. Above(m) \in SUBSET N
    <3>1. ASSUME NEW x \in S, x > m PROVE x \in N
      <4>1. x \in Nat /\ m \in Nat  BY <1>1, <2>3
      <4>2. ~(x <= m)  BY <3>1, <4>1
      <4> QED  BY <2>2, <3>1, <4>2
    <3> QED  BY <3>1
  <2>5. Cardinality(Above(m)) <= Cardinality(N)  BY <1>3, <2>4, FS_Subset
  <2> HIDE DEF m, N
  <2> QED  BY <1>3, <1>5, <2>3, <2>5
<1> QED  BY <1>2, <1>3, <1>6, <1>7

(* No member is repeated.                                                  *)
Distinct(s) == \A i, j \in DOMAIN s : i # j => s[i] # s[j]

(* The member of S pushed as i-th has i members at or below it, and every  *)
(* member has its own such number.                                         *)
LEMMA OldestFirstRank ==
  ASSUME NEW S \in SUBSET Tx
  PROVE  /\ Cardinality(S) \in Nat
         /\ OldestFirst(S) \in [1..Cardinality(S) -> S]
         /\ \A i \in 1..Cardinality(S) :
              Cardinality({v \in S : v <= OldestFirst(S)[i]}) = i
         /\ \A x \in S : Cardinality({v \in S : v <= x}) \in 1..Cardinality(S)
         /\ \A x, y \in S :
              x < y => Cardinality({v \in S : v <= x}) < Cardinality({v \in S : v <= y})
<1> DEFINE Upto(x) == {v \in S : v <= x}
           rank == [x \in S |-> Cardinality(Upto(x))]
           I == 1..Cardinality(S)
<1>1. S \subseteq Nat  BY BoundsAssumption DEF Tx
<1>2. IsFiniteSet(S) /\ Cardinality(S) \in Nat  BY FiniteTx
<1>3. \A x : /\ Upto(x) \in SUBSET S
             /\ IsFiniteSet(Upto(x))
             /\ Cardinality(Upto(x)) \in Nat
  <2>1. \A x : Upto(x) \in SUBSET S /\ Upto(x) \in SUBSET Tx  OBVIOUS
  <2> QED  BY <2>1, FiniteTx
<1>4. ASSUME NEW x \in S PROVE Cardinality(Upto(x)) \in I
  <2>1. x \in Upto(x)  BY <1>1
  <2>2. Cardinality(Upto(x)) # 0  BY <1>3, <2>1, FS_EmptySet
  <2>3. Cardinality(Upto(x)) <= Cardinality(S)  BY <1>2, <1>3, FS_Subset
  <2> QED  BY <1>2, <1>3, <2>2, <2>3
<1>5. ASSUME NEW a \in S, NEW b \in S, a < b
      PROVE  Cardinality(Upto(a)) < Cardinality(Upto(b))
  <2>1. Upto(a) \in SUBSET Upto(b) /\ b \in Upto(b) /\ b \notin Upto(a)
    <3>1. a \in Nat /\ b \in Nat  BY <1>1
    <3>2. b <= b /\ ~(b <= a)  BY <1>5, <3>1
    <3>3. ASSUME NEW v \in S, v <= a PROVE v <= b  BY <1>1, <1>5, <3>1, <3>3
    <3> QED  BY <3>2, <3>3
  <2>2. Upto(b) # Upto(a)  BY <2>1
  <2>3. /\ Cardinality(Upto(a)) <= Cardinality(Upto(b))
        /\ Cardinality(Upto(a)) # Cardinality(Upto(b))
    BY <1>3, <2>1, <2>2, FS_Subset
  <2> QED  BY <1>3, <2>3
<1>6. rank \in Injection(S, I)
  <2>1. rank \in [S -> I]  BY <1>4
  <2>2. ASSUME NEW x \in S, NEW y \in S, rank[x] = rank[y] PROVE x = y
    <3>1. Cardinality(Upto(x)) = Cardinality(Upto(y))  BY <2>2
    <3>2. x \in Nat /\ y \in Nat  BY <1>1
    <3>3. Cardinality(Upto(x)) \in Nat /\ Cardinality(Upto(y)) \in Nat
      BY <1>3
    <3>4. ~(x < y)  BY <1>5, <3>1, <3>3
    <3>5. ~(y < x)  BY <1>5, <3>1, <3>3
    <3> QED  BY <3>2, <3>4, <3>5
  <2> HIDE DEF rank, I
  <2> QED  BY <2>1, <2>2 DEF Injection, IsInjective
<1>7. IsFiniteSet(I) /\ Cardinality(I) = Cardinality(S)
  BY <1>2, FS_Interval
<1>8. rank \in Surjection(S, I)  BY <1>6, <1>7, FS_Injection
<1>9. ASSUME NEW i \in I PROVE \E x \in S : Cardinality(Upto(x)) = i
  <2>1. \E x \in S : rank[x] = i
    <3> HIDE DEF rank, I
    <3> QED  BY <1>8 DEF Surjection
  <2> QED  BY <2>1
<1>10. \A i \in I : /\ OldestFirst(S)[i] \in S
                   /\ Cardinality(Upto(OldestFirst(S)[i])) = i
  BY <1>9 DEF OldestFirst
<1>11. OldestFirst(S) \in [I -> S]  BY <1>10 DEF OldestFirst
<1> QED  BY <1>2, <1>4, <1>5, <1>10, <1>11

(* Pushing a set oldest first pushes exactly its members, each once.       *)
LEMMA OldestFirstRange ==
  ASSUME NEW S \in SUBSET Tx
  PROVE  /\ OldestFirst(S) \in Seq(S)
         /\ Range(OldestFirst(S)) = S
         /\ Distinct(OldestFirst(S))
<1> DEFINE Upto(x) == {v \in S : v <= x}
           I == 1..Cardinality(S)
           q == OldestFirst(S)
<1>1. /\ Cardinality(S) \in Nat
      /\ q \in [I -> S]
      /\ \A i \in I : Cardinality(Upto(q[i])) = i
      /\ \A x \in S : Cardinality(Upto(x)) \in I
      /\ \A x, y \in S : x < y => Cardinality(Upto(x)) < Cardinality(Upto(y))
  BY OldestFirstRank
<1>2. S \subseteq Nat  BY BoundsAssumption DEF Tx
<1> HIDE DEF q, Upto
<1>3. q \in Seq(S)  BY <1>1
<1>4. ASSUME NEW x \in S PROVE x \in Range(q)
  <2> DEFINE i == Cardinality(Upto(x))
  <2>1. i \in I /\ i \in Nat  BY <1>1
  <2>2. q[i] \in S /\ Cardinality(Upto(q[i])) = i  BY <1>1, <2>1
  <2>3. ~(q[i] < x) /\ ~(x < q[i])
    <3> HIDE DEF I
    <3>1. ~(i < i)  BY <2>1
    <3> QED  BY <1>1, <2>2, <3>1
  <2> HIDE DEF i
  <2>4. q[i] \in Nat /\ x \in Nat  BY <1>2, <2>2
  <2>5. q[i] = x  BY <2>3, <2>4
  <2> QED  BY <1>1, <2>1, <2>5 DEF Range
<1>5. Range(q) \subseteq S  BY <1>1 DEF Range
<1>6. Distinct(q)
  <2>1. DOMAIN q = I  BY <1>1
  <2> HIDE DEF I
  <2>2. ASSUME NEW i \in I, NEW j \in I, q[i] = q[j] PROVE i = j
    <3>1. Cardinality(Upto(q[i])) = i /\ Cardinality(Upto(q[j])) = j  BY <1>1
    <3> QED  BY <2>2, <3>1
  <2> QED  BY <2>1, <2>2 DEF Distinct
<1> QED  BY <1>3, <1>4, <1>5, <1>6 DEF q

-----------------------------------------------------------------------------
(* Type correctness.                                                       *)

(* A transaction being processed is at the front of the queue; without     *)
(* this the event identifiers would not be typed.                          *)
Busy == pc \in {"block", "deliver", "record", "finish"} => queue # <<>>

TypeInv == TypeOK /\ Busy

(* The bounds and constants in the form the proofs use them.               *)
LEMMA ConstantTypes ==
  /\ NumTxs \in Nat /\ MaxSlot \in Nat /\ MaxFaults \in Nat
  /\ TxOrNone = Tx \cup {NoTx}
  /\ Tx \subseteq Nat
  /\ \A l \in Ledgers, t \in Tx :
       /\ l[t].slot \in 1..MaxSlot
       /\ l[t].status \in Status
       /\ l[t].emits \in Nat
  /\ \A s \in 0..MaxSlot : Height[s] \in Nat
<1>1. NumTxs \in Nat /\ MaxSlot \in Nat /\ MaxFaults \in Nat
  BY BoundsAssumption
<1>2. TxOrNone = Tx \cup {NoTx}  BY <1>1 DEF TxOrNone, Tx, NoTx
<1>3. Tx \subseteq Nat  BY <1>1 DEF Tx
<1>4. \A l \in Ledgers, t \in Tx : l[t] \in TxRecord  BY LedgerAssumption
<1> QED  BY <1>1, <1>2, <1>3, <1>4, HeightAssumption DEF TxRecord

LEMMA TypeInit == Init => TypeInv
<1> SUFFICES ASSUME Init PROVE TypeInv
  OBVIOUS
<1>1. queue \in Seq(Tx) /\ stored \in Seq(EventId) /\ delivered \in Seq(EventId)
  BY DEF Init
<1>2. /\ lastProcessed \in TxOrNone /\ lastQueried \in TxOrNone
      /\ cursor \in TxOrNone /\ newest \in TxOrNone
      /\ next \in Nat /\ height \in Nat /\ finalizedNumber \in Nat
      /\ faults \in 0..MaxFaults
  BY ConstantTypes DEF Init
<1>3. /\ ledger \in Ledgers /\ tip \in 0..MaxSlot /\ finalized \in 0..tip
      /\ todo \subseteq TrackedPrograms /\ program \in TrackedPrograms
      /\ sigs \subseteq Tx /\ lost \in BOOLEAN
      /\ pc \in PcValues
  BY DEF Init, PcValues
<1>4. Busy  BY DEF Init, Busy
<1> QED  BY <1>1, <1>2, <1>3, <1>4 DEF TypeInv, TypeOK

(* What a listing returns is a set of positions.                           *)
LEMMA ListedTx ==
  ASSUME NEW p, NEW until, NEW before
  PROVE  Listed(p, until, before) \in SUBSET Tx
BY DEF Listed

LEMMA TypeNext == TypeInv /\ [Next]_vars => TypeInv'
<1> SUFFICES ASSUME TypeInv, [Next]_vars PROVE TypeInv'
  OBVIOUS
<1> USE DEF TypeInv, TypeOK, Busy, PcValues
<1>1. CASE NewBlock
  BY <1>1, ConstantTypes DEF NewBlock, txState, listing
<1>2. CASE FinalizeBlock
  BY <1>2, ConstantTypes DEF FinalizeBlock, txState, listing
<1>3. CASE StartProcessing
  BY <1>3 DEF StartProcessing, chain, txState, listing
<1>4. CASE StartQuerying
  BY <1>4 DEF StartQuerying, chain, txState
<1>5. CASE QueryHeight
  <2>1. height' \in Nat
    <3>1. finalized \in 0..MaxSlot  BY ConstantTypes
    <3> QED  BY <1>5, <3>1, ConstantTypes DEF QueryHeight
  <2> QED  BY <1>5, <2>1 DEF QueryHeight, chain, txState
<1>6. CASE QuerySignatures
  <2>1. sigs' \subseteq Tx
    <3>1. sigs' \subseteq Listed(program, cursor, NumTxs + 1)
      BY <1>6 DEF QuerySignatures, Newest
    <3> QED  BY <3>1, ListedTx
  <2> QED  BY <1>6, <2>1 DEF QuerySignatures, chain, txState
<1>7. CASE QueryPage
  <2>1. sigs' \subseteq Tx
    BY <1>7 DEF QueryPage, Newest, Listed
  <2> QED  BY <1>7, <2>1 DEF QueryPage, chain, txState
<1>8. CASE NothingNew
  BY <1>8, ConstantTypes DEF NothingNew, NextProgram, chain, txState, NoTx
<1>9. CASE SkipHistory
  <2>1. Fresh \in SUBSET Tx /\ Fresh # {}  BY <1>9 DEF SkipHistory, Fresh
  <2>2. Max(Fresh) \in TxOrNone  BY <2>1, MinMaxTx, ConstantTypes
  <2> QED  BY <1>9, <2>2 DEF SkipHistory, chain
<1>10. CASE PushNew
  <2>1. ToPush \in SUBSET Tx /\ ToPush # {}
    BY <1>10 DEF PushNew, ToPush, Fresh
  <2>2. Max(ToPush) \in TxOrNone  BY <2>1, MinMaxTx, ConstantTypes
  <2>3. OldestFirst(ToPush) \in Seq(Tx)
    <3>1. OldestFirst(ToPush) \in Seq(ToPush)  BY <2>1, OldestFirstRange
    <3> QED  BY <2>1, <3>1
  <2>4. queue' \in Seq(Tx)  BY <1>10, <2>3 DEF PushNew
  <2> QED  BY <1>10, <2>2, <2>4 DEF PushNew, chain
<1>11. CASE StoreCursor
  BY <1>11, ConstantTypes DEF StoreCursor, NextProgram, chain, NoTx
<1>12. CASE QueueDrained
  BY <1>12 DEF QueueDrained, chain, txState, listing
<1>13. CASE SkipTx \/ FinishTx
  <2>1. queue # <<>> /\ Finalize
    BY <1>13 DEF SkipTx, FinishTx
  <2>2. Head(queue) \in Tx /\ Tail(queue) \in Seq(Tx)  BY <2>1, RangeTail
  <2> QED  BY <2>1, <2>2, ConstantTypes DEF Finalize, chain, listing
<1>14. CASE FetchTx
  BY <1>14 DEF FetchTx, chain, txState, listing
<1>15. CASE StoreBlockNumber
  <2>1. Head(queue) \in Tx  BY <1>15, RangeTail DEF StoreBlockNumber
  <2>2. Height[ledger[Head(queue)].slot] \in Nat
    <3>1. ledger \in Ledgers  OBVIOUS
    <3>2. ledger[Head(queue)].slot \in 0..MaxSlot
      <4>1. ledger[Head(queue)].slot \in 1..MaxSlot  BY <2>1, <3>1, ConstantTypes
      <4> QED  BY <4>1, ConstantTypes
    <3> QED  BY <3>2, HeightAssumption
  <2> QED  BY <1>15, <2>2 DEF StoreBlockNumber, chain, txState, listing
<1>16. CASE AddEvent
  <2>1. Head(queue) \in Tx  BY <1>16, RangeTail DEF AddEvent
  <2>2. delivered' \in Seq(EventId)  BY <1>16, <2>1 DEF AddEvent, EventId
  <2> QED  BY <1>16, <2>2 DEF AddEvent, chain, txState, listing
<1>17. CASE StoreEvent
  <2>1. Head(queue) \in Tx  BY <1>17, RangeTail DEF StoreEvent
  <2>2. stored' \in Seq(EventId)  BY <1>17, <2>1 DEF StoreEvent, EventId
  <2> QED  BY <1>17, <2>2 DEF StoreEvent, chain, txState, listing
<1>18. CASE HeightFails
  <2>1. faults' \in 0..MaxFaults
    BY <1>18, ConstantTypes DEF HeightFails, Fault
  <2>2. PICK p \in todo : NextProgram(todo \ {p})  BY <1>18 DEF HeightFails
  <2> QED  BY <1>18, <2>1, <2>2, ConstantTypes
             DEF HeightFails, NextProgram, chain, txState
<1>19. CASE QueryFails
  <2>1. faults' \in 0..MaxFaults
    BY <1>19, ConstantTypes DEF QueryFails, Fault
  <2> QED  BY <1>19, <2>1, ConstantTypes
             DEF QueryFails, NextProgram, chain, txState
<1>20. CASE CursorNotFound
  <2>1. sigs' \subseteq Tx
    BY <1>20 DEF CursorNotFound, Newest, Listed
  <2> QED  BY <1>20, <2>1, ConstantTypes DEF CursorNotFound, Fault, chain, txState
<1>21. CASE ProcessFails
  BY <1>21, ConstantTypes DEF ProcessFails, Fault, chain, txState, listing
<1>22. CASE Crash
  <2>1. faults' \in 0..MaxFaults  BY <1>22, ConstantTypes DEF Crash, Fault
  <2> QED  BY <1>22, <2>1, ConstantTypes
             DEF Crash, NextProgram, chain, txState
<1>23. CASE UNCHANGED vars
  BY <1>23 DEF vars, chain, txState, listing
<1> QED
  BY <1>1, <1>2, <1>3, <1>4, <1>5, <1>6, <1>7, <1>8, <1>9, <1>10, <1>11, <1>12,
     <1>13, <1>14, <1>15, <1>16, <1>17, <1>18, <1>19, <1>20, <1>21, <1>22,
     <1>23 DEF Next, Environment, Query, Process, Failure

(* Every variable of the loop keeps its type: in particular every event    *)
(* handed over or stored belongs to a transaction of the chain, taken from *)
(* a queue that is not empty.                                              *)
THEOREM TypeCorrect == Spec => []TypeOK
<1>1. TypeInv => TypeOK  BY DEF TypeInv
<1> QED  BY TypeInit, TypeNext, <1>1, PTL DEF Spec

-----------------------------------------------------------------------------
(* No owed event is lost, when one program is tracked.  The inductive      *)
(* invariant follows an owed transaction through one pass: the listing has *)
(* no hole above the cursor, what the duplicate filter removes is queued   *)
(* or delivered, and a transaction leaves the queue only once delivered.   *)

SingleProgram ==
  /\ \E p : TrackedPrograms = {p}
  /\ \A l \in Ledgers : \A t \in Tx : l[t].programs = TrackedPrograms

Covered(t) == t \in Range(queue) \/ Delivered(t)

(* The pass works with the stored cursor, for its only program.            *)
PassInv ==
  /\ pc \in {"program", "signatures", "page", "enqueue", "cursor"} =>
       cursor = lastQueried
  /\ pc \in {"signatures", "page", "enqueue", "cursor"} => todo = {}

(* While paging, nothing is missing between two listed signatures; once    *)
(* the listing is complete, nothing down to the cursor is.                 *)
ListingInv ==
  /\ pc \in {"page", "enqueue"} => \A v \in sigs : ledger[v].slot <= tip
  /\ pc = "page" =>
       /\ sigs # {}
       /\ \A t \in Tx : \A u, v \in sigs :
            cursor < t /\ u <= t /\ t <= v => t \in sigs
  /\ pc = "enqueue" =>
       \A t \in Tx : \A v \in sigs : cursor < t /\ t <= v => t \in sigs

CursorInv ==
  pc = "cursor" => \A t \in Tx : t <= newest /\ Due(t) => Covered(t)

(* What the duplicate filter takes for known is queued or delivered.       *)
StoredInv == \A e \in Range(stored) : Due(e[1]) => Covered(e[1])

ProcessedInv ==
  lastProcessed # NoTx /\ Due(lastProcessed) => Delivered(lastProcessed)

(* The events before the current one have been handed over.                *)
EventInv ==
  /\ pc \notin {"block", "deliver", "record", "finish"} => next = 1
  /\ pc \in {"block", "deliver", "record", "finish"} =>
       /\ ledger[Head(queue)].status = "ok"
       /\ next >= 1
       /\ \A k \in 1..(next - 1) : <<Head(queue), k>> \in Range(delivered)
  /\ pc = "record" => <<Head(queue), next>> \in Range(delivered)
  /\ pc = "finish" => ledger[Head(queue)].emits < next

CoverInv == NoEventLost /\ StoredInv /\ ProcessedInv

LossInv ==
  TypeInv /\ PassInv /\ ListingInv /\ CursorInv /\ EventInv /\ CoverInv

(* Slots are numbers.                                                      *)
LEMMA SlotNat ==
  ASSUME ledger \in Ledgers, NEW t \in Tx
  PROVE  ledger[t].slot \in Nat
<1>1. ledger[t].slot \in 1..MaxSlot /\ MaxSlot \in Nat  BY ConstantTypes
<1> QED  BY ONLY <1>1

(* Chain order is slot order.                                              *)
LEMMA SlotOrder ==
  ASSUME ledger \in Ledgers, NEW t \in Tx, NEW u \in Tx, t <= u
  PROVE  /\ ledger[t].slot <= ledger[u].slot
         /\ SlotOf(t) = ledger[t].slot
         /\ SlotOf(t) \in Nat
<1>1. t \in Nat /\ u \in Nat /\ t # NoTx
  BY ConstantTypes DEF Tx, NoTx
<1>2. ledger[t].slot \in Nat  BY ConstantTypes
<1>3. ledger[t].slot <= ledger[u].slot
  <2>1. CASE t = u  BY <1>2, <2>1
  <2>2. CASE t # u
    <3>1. t < u  BY <1>1, <2>2
    <3> QED  BY <3>1, LedgerAssumption
  <2> QED  BY <2>1, <2>2
<1> QED  BY <1>1, <1>2, <1>3 DEF SlotOf

(* One page of a listing of S, without what is older than the cursor's     *)
(* slot.                                                                   *)
Kept(S) == {t \in Newest(MaxLimit, S) : SlotOf(t) >= SlotOf(cursor)}

(* Such a page has no hole, and a short one misses nothing after the       *)
(* cursor.                                                                 *)
LEMMA KeptPage ==
  ASSUME ledger \in Ledgers, cursor \in TxOrNone, NEW S \in SUBSET Tx,
         NEW K, K = Kept(S)
  PROVE  /\ K \in SUBSET S
         /\ Cardinality(K) \in Nat
         /\ Cardinality(K) <= MaxLimit
         /\ Cardinality(K) = MaxLimit => K # {}
         /\ \A u \in K, t \in S : u <= t => t \in K
         /\ Cardinality(K) < MaxLimit => \A t \in S : cursor < t => t \in K
<1> DEFINE N == Newest(MaxLimit, S)
<1> USE DEF Kept
<1>1. MaxLimit \in Nat /\ MaxLimit # 0  BY ConfigAssumption
<1>2. /\ N \in SUBSET S
      /\ Cardinality(N) \in Nat
      /\ Cardinality(N) <= MaxLimit
      /\ Cardinality(N) < MaxLimit => N = S
  BY <1>1, NewestSize
<1>3. K \in SUBSET N /\ K \in SUBSET S /\ N \in SUBSET Tx /\ K \in SUBSET Tx
  BY <1>2
<1>4. IsFiniteSet(K) /\ Cardinality(K) \in Nat /\ IsFiniteSet(N)
  BY <1>3, FiniteTx
<1>5. Cardinality(K) <= Cardinality(N)  BY <1>3, <1>4, FS_Subset
<1>6. Cardinality(K) <= MaxLimit  BY <1>1, <1>2, <1>4, <1>5
<1>7. Cardinality(K) = MaxLimit => K # {}  BY <1>1, FS_EmptySet
<1>8. ASSUME NEW x \in Tx PROVE x \in Nat /\ SlotOf(x) \in Nat
  <2>1. x \in Nat /\ x <= x  BY <1>8, ConstantTypes
  <2> QED  BY <2>1, SlotOrder
<1>9. SlotOf(cursor) \in Nat /\ cursor \in Nat
  <2>1. CASE cursor = NoTx  BY <2>1 DEF SlotOf, NoTx
  <2>2. CASE cursor # NoTx
    <3>1. cursor \in Tx  BY <2>2, ConstantTypes
    <3> QED  BY <1>8, <3>1
  <2> QED  BY <2>1, <2>2
<1>10. ASSUME NEW u \in K, NEW t \in S, u <= t PROVE t \in K
  <2>1. u \in N /\ u \in Tx /\ SlotOf(u) >= SlotOf(cursor)  BY <1>3
  <2>2. t \in N  BY <1>1, <1>10, <2>1, NewestUpward
  <2>3. SlotOf(u) <= SlotOf(t)
    <3>1. t \in Tx /\ t <= t  BY <1>8
    <3>2. SlotOf(u) = ledger[u].slot /\ ledger[u].slot <= ledger[t].slot
      BY <1>10, <2>1, <3>1, SlotOrder
    <3>3. SlotOf(t) = ledger[t].slot  BY <3>1, SlotOrder
    <3> QED  BY <3>2, <3>3
  <2>4. SlotOf(t) >= SlotOf(cursor)
    BY <1>8, <1>9, <2>1, <2>3
  <2> QED  BY <2>2, <2>4
<1>11. ASSUME Cardinality(K) < MaxLimit, NEW t \in S, cursor < t
       PROVE  t \in K
  <2>1. t \in Tx /\ t \in Nat /\ SlotOf(t) \in Nat  BY <1>8
  <2>2. SlotOf(t) >= SlotOf(cursor)
    <3>1. CASE cursor = NoTx
      <4>1. SlotOf(cursor) = 0  BY <3>1 DEF SlotOf
      <4> QED  BY <2>1, <4>1
    <3>2. CASE cursor # NoTx
      <4>1. cursor \in Tx /\ cursor <= t
        BY <1>9, <1>11, <2>1, <3>2, ConstantTypes
      <4>2. SlotOf(cursor) = ledger[cursor].slot
            /\ ledger[cursor].slot <= ledger[t].slot
        BY <2>1, <4>1, SlotOrder
      <4>3. SlotOf(t) = ledger[t].slot  BY <2>1, SlotOrder
      <4> QED  BY <1>9, <2>1, <4>2, <4>3
    <3> QED  BY <3>1, <3>2
  <2>3. ASSUME t \notin N PROVE FALSE
    <3>1. ~(Cardinality(N) < MaxLimit)  BY <1>2, <2>3
    <3>2. K # N  BY <1>11, <3>1
    <3>3. PICK w \in N : ~(SlotOf(w) >= SlotOf(cursor))  BY <1>3, <3>2
    <3>4. w \in Tx /\ w \in Nat /\ SlotOf(w) \in Nat  BY <1>3, <1>8
    <3>5. cursor # NoTx
      <4>1. SlotOf(cursor) # 0  BY <1>9, <3>3, <3>4
      <4> QED  BY <4>1 DEF SlotOf
    <3>6. cursor \in Tx  BY <3>5, ConstantTypes
    <3>7. ~(cursor <= w)
      <4>1. ASSUME cursor <= w PROVE FALSE
        <5>1. SlotOf(cursor) = ledger[cursor].slot
              /\ ledger[cursor].slot <= ledger[w].slot
          BY <3>4, <3>6, <4>1, SlotOrder
        <5>2. SlotOf(w) = ledger[w].slot  BY <3>4, SlotOrder
        <5> QED  BY <1>9, <3>3, <3>4, <5>1, <5>2
      <4> QED  BY <4>1
    <3>8. w <= t  BY <1>9, <1>11, <2>1, <3>4, <3>7
    <3> QED  BY <1>1, <2>3, <3>8, NewestUpward
  <2> QED  BY <2>2, <2>3
<1> QED  BY <1>3, <1>4, <1>6, <1>7, <1>10, <1>11

(* Delivery and queueing are never undone while both only grow.            *)
LEMMA CoverGrows ==
  ASSUME ledger' = ledger, Range(queue) \subseteq Range(queue'),
         Range(delivered) \subseteq Range(delivered'), NEW t \in Tx
  PROVE  /\ Due(t)' <=> Due(t)
         /\ Delivered(t) => Delivered(t)'
         /\ Covered(t) => Covered(t)'
BY DEF Due, Delivered, Deliverable, Covered

LEMMA QuietCover ==
  ASSUME TypeInv, CoverInv, ledger' = ledger, stored' = stored,
         lastQueried' = lastQueried, lastProcessed' = lastProcessed,
         Range(queue) \subseteq Range(queue'),
         Range(delivered) \subseteq Range(delivered')
  PROVE  CoverInv'
<1>1. \A e \in Range(stored) : e[1] \in Tx
  <2>1. stored \in Seq(Tx \X Nat)  BY DEF TypeInv, TypeOK, EventId
  <2> QED  BY <2>1 DEF Range
<1>2. NoEventLost'
  BY CoverGrows DEF CoverInv, NoEventLost, Covered
<1>3. StoredInv'  BY <1>1, CoverGrows DEF CoverInv, StoredInv
<1>4. ProcessedInv'
  <2>1. lastProcessed # NoTx => lastProcessed \in Tx
    BY ConstantTypes DEF TypeInv, TypeOK
  <2> QED  BY <2>1, CoverGrows DEF CoverInv, ProcessedInv
<1> QED  BY <1>2, <1>3, <1>4 DEF CoverInv

(* What the node lists for the only program, and that it misses nothing    *)
(* below a visible transaction.                                            *)
LEMMA SingleListing ==
  ASSUME SingleProgram, TypeInv, NEW until \in Nat, NEW before \in Nat
  PROVE  /\ Listed(program, until, before) =
             {t \in Tx : ledger[t].slot <= tip /\ until < t /\ t < before}
         /\ \A t, v \in Tx : t <= v /\ ledger[v].slot <= tip =>
               ledger[t].slot <= tip
<1>1. ledger \in Ledgers /\ program \in TrackedPrograms /\ tip \in Nat
  BY ConstantTypes DEF TypeInv, TypeOK
<1>2. \A t \in Tx : program \in ledger[t].programs
  BY <1>1 DEF SingleProgram
<1>3. ASSUME NEW t \in Tx, NEW v \in Tx, t <= v, ledger[v].slot <= tip
      PROVE  ledger[t].slot <= tip
  <2>1. ledger[t].slot <= ledger[v].slot  BY <1>1, <1>3, SlotOrder
  <2>2. ledger[t].slot \in Nat /\ ledger[v].slot \in Nat
    BY <1>1, ConstantTypes
  <2> QED  BY <1>1, <1>3, <2>1, <2>2
<1> QED  BY <1>2, <1>3 DEF Listed

(* Adding a page below what is listed so far leaves no hole.               *)
LEMMA ListingStep ==
  ASSUME SingleProgram, LossInv, UNCHANGED <<ledger, tip, cursor>>,
         NEW until \in Nat, until <= cursor,
         NEW before \in Nat,
         NEW old \in SUBSET Tx,
         \/ old = {} /\ before = NumTxs + 1
         \/ old = sigs /\ before = Min(sigs) /\ pc = "page",
         NEW S, S = {t \in Tx : ledger[t].slot <= tip /\ until < t /\ t < before},
         NEW K, K = Kept(S),
         sigs' = old \cup K,
         pc' = IF Cardinality(K) = MaxLimit THEN "page" ELSE "enqueue"
  PROVE  ListingInv'
<1>1. /\ ledger \in Ledgers /\ cursor \in TxOrNone /\ sigs \in SUBSET Tx
      /\ tip \in Nat /\ cursor \in Nat /\ NumTxs \in Nat /\ Tx \subseteq Nat
  <2>1. /\ ledger \in Ledgers /\ cursor \in TxOrNone /\ sigs \in SUBSET Tx
        /\ tip \in 0..MaxSlot
    BY DEF LossInv, TypeInv, TypeOK
  <2>2. /\ NumTxs \in Nat /\ MaxSlot \in Nat /\ Tx \subseteq Nat
        /\ TxOrNone = Tx \cup {0}
    BY ConstantTypes DEF NoTx
  <2> QED  BY <2>1, <2>2
<1>2. S \in SUBSET Tx  OBVIOUS
<1>3. /\ K \in SUBSET S
      /\ Cardinality(K) \in Nat
      /\ Cardinality(K) <= MaxLimit
      /\ Cardinality(K) = MaxLimit => K # {}
      /\ \A u \in K, t \in S : u <= t => t \in K
      /\ Cardinality(K) < MaxLimit => \A t \in S : cursor < t => t \in K
  <2>1. ledger \in Ledgers /\ cursor \in TxOrNone  BY <1>1
  <2>2. K = Kept(S)  OBVIOUS
  <2> QED  BY ONLY <1>2, <2>1, <2>2, KeptPage
<1>4. \A t, v \in Tx : t <= v /\ ledger[v].slot <= tip => ledger[t].slot <= tip
  BY SingleListing DEF LossInv
(* Everything already listed is visible, at or above the page's bound.     *)
<1>5. /\ \A v \in old : ledger[v].slot <= tip
      /\ \A v \in old : before <= v
      /\ \A t \in Tx, v \in old : before <= t /\ cursor < t /\ t <= v => t \in old
  <2>1. CASE old = {}  BY <2>1
  <2>2. CASE old = sigs /\ before = Min(sigs) /\ pc = "page"
    <3>1. sigs # {}  BY <2>2 DEF LossInv, ListingInv
    <3>2. Min(sigs) \in sigs /\ \A t \in sigs : Min(sigs) <= t
      BY <1>1, <3>1, MinMaxTx
    <3> QED  BY <2>2, <3>2 DEF LossInv, ListingInv
  <2> QED  BY <2>1, <2>2
<1>6. \A t \in Tx : t < NumTxs + 1  BY <1>1 DEF Tx
<1>7. \A v \in sigs' : v \in Tx /\ ledger[v].slot <= tip
  BY <1>3, <1>5
(* A transaction between the cursor and a listed one is in the page if it  *)
(* is below the page's bound, and was listed before otherwise.             *)
<1>8. ASSUME NEW t \in Tx, NEW v \in sigs', cursor < t, t <= v
      PROVE  t \in S \/ t \in old
  <2>1. ledger[t].slot <= tip  BY <1>4, <1>7, <1>8
  <2>2. CASE t < before
    <3>1. until < t  BY <1>1, <1>8
    <3> QED  BY <2>1, <2>2, <3>1
  <2>3. CASE ~(t < before)
    <3>1. before <= t  BY <1>1, <2>3
    <3>2. v \notin K
      <4>1. ASSUME v \in K PROVE FALSE
        <5>1. v < before /\ v \in Nat /\ t \in Nat  BY <1>1, <1>3, <4>1
        <5> QED  BY <1>8, <3>1, <5>1
      <4> QED  BY <4>1
    <3>3. v \in old  BY <1>8, <3>2
    <3> QED  BY <1>5, <1>8, <3>1, <3>3
  <2> QED  BY <2>2, <2>3
<1>9. ASSUME pc' = "page"
      PROVE  /\ sigs' # {}
             /\ \A t \in Tx : \A u, v \in sigs' :
                  cursor < t /\ u <= t /\ t <= v => t \in sigs'
  <2>1. Cardinality(K) = MaxLimit  BY <1>9
  <2>2. ASSUME NEW t \in Tx, NEW u \in sigs', NEW v \in sigs',
               cursor < t, u <= t, t <= v
        PROVE  t \in sigs'
    <3>1. t \in S \/ t \in old  BY <1>8, <2>2
    <3>2. CASE t \in S
      <4>1. u \notin old
        <5>1. ASSUME u \in old PROVE FALSE
          <6>1. before <= u /\ t < before /\ u \in Nat /\ t \in Nat
            BY <1>1, <1>5, <3>2, <5>1
          <6> QED  BY <2>2, <6>1
        <5> QED  BY <5>1
      <4>2. u \in K  BY <2>2, <4>1
      <4> QED  BY <1>3, <2>2, <3>2, <4>2
    <3> QED  BY <3>1, <3>2
  <2> QED  BY <1>3, <2>1, <2>2
<1>10. ASSUME pc' = "enqueue"
       PROVE  \A t \in Tx : \A v \in sigs' : cursor < t /\ t <= v => t \in sigs'
  <2>1. Cardinality(K) # MaxLimit  BY <1>10
  <2>2. Cardinality(K) < MaxLimit  BY <1>3, <2>1, ConfigAssumption
  <2> QED  BY <1>3, <1>8, <2>2
<1> QED  BY <1>7, <1>9, <1>10 DEF ListingInv

(* What a listing call adds to the signatures seen so far: one page of the *)
(* visible transactions below a bound, without what is older than the      *)
(* cursor's slot.                                                          *)
LEMMA ListingForm ==
  ASSUME SingleProgram, LossInv,
         QuerySignatures \/ CursorNotFound \/ QueryPage
  PROVE  \E until, before \in Nat : \E old \in SUBSET Tx :
           LET S == {t \in Tx : ledger[t].slot <= tip /\ until < t /\ t < before}
               K == Kept(S)
           IN  /\ until <= cursor
               /\ \/ old = {} /\ before = NumTxs + 1
                  \/ old = sigs /\ before = Min(sigs) /\ pc = "page"
               /\ sigs' = old \cup K
               /\ pc' = IF Cardinality(K) = MaxLimit THEN "page" ELSE "enqueue"
<1> DEFINE S(until, before) ==
      {t \in Tx : ledger[t].slot <= tip /\ until < t /\ t < before}
<1>1. /\ ledger \in Ledgers /\ cursor \in TxOrNone /\ sigs \in SUBSET Tx
      /\ cursor \in Nat /\ NumTxs + 1 \in Nat /\ Tx \subseteq Nat
      /\ NoTx \in Nat /\ NoTx <= cursor /\ cursor <= cursor
  <2>1. /\ ledger \in Ledgers /\ cursor \in TxOrNone /\ sigs \in SUBSET Tx
    BY DEF LossInv, TypeInv, TypeOK
  <2>2. /\ NumTxs \in Nat /\ Tx \subseteq Nat /\ TxOrNone = Tx \cup {0}
    BY ConstantTypes DEF NoTx
  <2> QED  BY <2>1, <2>2 DEF NoTx
<1>3. ASSUME NEW until \in Nat, NEW before \in Nat
      PROVE  Listed(program, until, before) = S(until, before)
  BY SingleListing DEF LossInv
(* Without a lost cursor a page holds nothing older than the cursor.       *)
<1>4. ASSUME NEW before \in Nat
      PROVE  Kept(S(cursor, before)) = Newest(MaxLimit, S(cursor, before))
  <2>1. SUFFICES ASSUME NEW t \in Tx, cursor < t
                 PROVE  SlotOf(t) >= SlotOf(cursor)
    BY DEF Newest, Kept
  <2>2. t \in Nat /\ t <= t  BY <1>1
  <2>3. SlotOf(t) = ledger[t].slot /\ SlotOf(t) \in Nat
    BY <1>1, <2>2, SlotOrder
  <2>4. CASE cursor = NoTx  BY <2>3, <2>4 DEF SlotOf
  <2>5. CASE cursor # NoTx
    <3>1. cursor \in Tx /\ cursor <= t  BY <1>1, <2>1, <2>2, <2>5, ConstantTypes
    <3>2. SlotOf(cursor) = ledger[cursor].slot
          /\ ledger[cursor].slot <= ledger[t].slot /\ SlotOf(cursor) \in Nat
      BY <1>1, <3>1, SlotOrder
    <3> QED  BY <2>3, <3>2
  <2> QED  BY <2>4, <2>5
<1>5. CASE QuerySignatures
  <2> DEFINE K == Kept(S(cursor, NumTxs + 1))
  <2>1. /\ sigs' = {} \cup K
        /\ pc' = IF Cardinality(K) = MaxLimit THEN "page" ELSE "enqueue"
    BY <1>1, <1>3, <1>4, <1>5 DEF QuerySignatures
  <2> HIDE DEF K, S
  <2>2. {} \in SUBSET Tx  OBVIOUS
  <2> QED  BY <1>1, <2>1, <2>2 DEF K, S
<1>6. CASE CursorNotFound
  <2> DEFINE K == Kept(S(NoTx, NumTxs + 1))
  <2>1. /\ sigs' = {} \cup K
        /\ pc' = IF Cardinality(K) = MaxLimit THEN "page" ELSE "enqueue"
    BY <1>1, <1>3, <1>6 DEF CursorNotFound, Kept
  <2> HIDE DEF K, S
  <2>2. {} \in SUBSET Tx  OBVIOUS
  <2> QED  BY <1>1, <2>1, <2>2 DEF K, S
<1>7. CASE QueryPage
  <2>1. sigs # {}  BY <1>7 DEF LossInv, ListingInv, QueryPage
  <2>2. Min(sigs) \in Nat  BY <1>1, <2>1, MinMaxTx
  <2> DEFINE until == IF lost THEN NoTx ELSE cursor
             K == Kept(S(until, Min(sigs)))
  <2>3. until \in Nat /\ until <= cursor  BY <1>1
  <2>4. K \in SUBSET Tx  BY DEF Kept, Newest
  <2>5. /\ sigs' = sigs \cup K
        /\ pc' = IF Cardinality(K) < MaxLimit THEN "enqueue" ELSE "page"
    <3>1. CASE lost
      <4>1. Listed(program, NoTx, Min(sigs)) = S(until, Min(sigs))
        BY <1>1, <1>3, <2>2, <3>1
      <4>2. LET k == {t \in Newest(MaxLimit, Listed(program, NoTx, Min(sigs))) :
                        SlotOf(t) >= SlotOf(cursor)}
            IN  /\ sigs' = sigs \cup k
                /\ pc' = IF Cardinality(k) < MaxLimit THEN "enqueue" ELSE "page"
        BY ONLY <1>7, <3>1 DEF QueryPage
      <4> HIDE DEF S, until
      <4> QED  BY ONLY <4>1, <4>2 DEF Kept, K
    <3>2. CASE ~lost
      BY <1>1, <1>3, <1>4, <1>7, <2>2, <3>2 DEF QueryPage
    <3> QED  BY <3>1, <3>2
  <2>6. pc' = IF Cardinality(K) = MaxLimit THEN "page" ELSE "enqueue"
    <3>1. S(until, Min(sigs)) \in SUBSET Tx  OBVIOUS
    <3>2. Cardinality(K) \in Nat /\ Cardinality(K) <= MaxLimit
      BY ONLY <1>1, <3>1, KeptPage
    <3> QED  BY <2>5, <3>2, ConfigAssumption
  <2>7. pc = "page"  BY <1>7 DEF QueryPage
  <2> HIDE DEF K, S, until
  <2> QED  BY <1>1, <2>2, <2>3, <2>5, <2>6, <2>7 DEF K, S
<1> QED  BY <1>5, <1>6, <1>7

(* The listing calls keep the listing without holes.                       *)
LEMMA QueryListing ==
  ASSUME SingleProgram, LossInv,
         QuerySignatures \/ CursorNotFound \/ QueryPage
  PROVE  ListingInv'
<1>1. UNCHANGED <<ledger, tip, cursor>>
  BY DEF QuerySignatures, CursorNotFound, QueryPage, chain
<1>2. PICK until \in Nat, before \in Nat, old \in SUBSET Tx :
        LET S == {t \in Tx : ledger[t].slot <= tip /\ until < t /\ t < before}
            K == Kept(S)
        IN  /\ until <= cursor
            /\ \/ old = {} /\ before = NumTxs + 1
               \/ old = sigs /\ before = Min(sigs) /\ pc = "page"
            /\ sigs' = old \cup K
            /\ pc' = IF Cardinality(K) = MaxLimit THEN "page" ELSE "enqueue"
  BY ListingForm
<1> QED  BY <1>1, <1>2, ListingStep

(* Taking a finished transaction off the queue uncovers nothing.           *)
LEMMA FinalizeCover ==
  ASSUME LossInv, SkipTx \/ FinishTx
  PROVE  CoverInv'
<1>1. queue # <<>> /\ Finalize
  BY DEF SkipTx, FinishTx, LossInv, TypeInv, Busy
<1> DEFINE h == Head(queue)
<1>2. /\ h \in Tx
      /\ Range(queue) = Range(Tail(queue)) \cup {h}
  BY <1>1, RangeTail DEF LossInv, TypeInv, TypeOK
<1>3. Due(h) => Delivered(h)
  <2>1. CASE h = lastProcessed
    <3>1. h # NoTx  BY <1>2 DEF Tx, NoTx
    <3> QED  BY <2>1, <3>1 DEF LossInv, CoverInv, ProcessedInv
  <2>2. CASE SkipTx /\ h # lastProcessed
    <3>1. Deliverable(h) = 0  BY <2>2 DEF SkipTx, HasEvents, Deliverable
    <3> QED  BY <3>1 DEF Delivered
  <2>3. CASE FinishTx
    <3>1. /\ pc = "finish" /\ ledger[h].status = "ok" /\ ledger[h].emits < next
          /\ \A k \in 1..(next - 1) : <<h, k>> \in Range(delivered)
      BY <2>3 DEF FinishTx, LossInv, EventInv
    <3>2. ledger[h].emits \in Nat /\ next \in Nat
      BY <1>2, ConstantTypes DEF LossInv, TypeInv, TypeOK
    <3>3. Deliverable(h) = ledger[h].emits  BY <3>1 DEF Deliverable
    <3>4. \A k \in 1..ledger[h].emits : k \in 1..(next - 1)
      BY <3>1, <3>2
    <3> QED  BY <3>1, <3>3, <3>4 DEF Delivered
  <2> QED  BY <2>1, <2>2, <2>3
<1>4. /\ ledger' = ledger /\ delivered' = delivered /\ stored' = stored
      /\ lastQueried' = lastQueried /\ lastProcessed' = h
      /\ queue' = Tail(queue)
  BY <1>1 DEF Finalize, chain
<1>5. ASSUME NEW t \in Tx
      PROVE  /\ Due(t)' <=> Due(t)
             /\ Delivered(t)' <=> Delivered(t)
             /\ Due(t) /\ Covered(t) => Covered(t)'
  <2>1. (Due(t)' <=> Due(t)) /\ (Delivered(t)' <=> Delivered(t))
    BY <1>4 DEF Due, Delivered, Deliverable
  <2> QED  BY <1>2, <1>3, <1>4, <2>1 DEF Covered
<1>6. NoEventLost'
  BY <1>4, <1>5 DEF LossInv, CoverInv, NoEventLost, Covered
<1>7. StoredInv'
  <2>1. \A e \in Range(stored) : e[1] \in Tx
    <3>1. stored \in Seq(Tx \X Nat)  BY DEF LossInv, TypeInv, TypeOK, EventId
    <3> QED  BY <3>1 DEF Range
  <2> QED  BY <1>4, <1>5, <2>1 DEF LossInv, CoverInv, StoredInv
<1>8. ProcessedInv'
  BY <1>2, <1>3, <1>4, <1>5 DEF ProcessedInv
<1> QED  BY <1>6, <1>7, <1>8 DEF CoverInv

(* Queueing what is new covers everything the cursor will pass.            *)
LEMMA PushCover ==
  ASSUME LossInv, PushNew
  PROVE  CursorInv' /\ CoverInv'
<1>1. /\ ledger \in Ledgers /\ queue \in Seq(Tx) /\ sigs \in SUBSET Tx
      /\ lastQueried \in Nat /\ cursor = lastQueried /\ pc = "enqueue"
      /\ Tx \subseteq Nat
  <2>1. /\ ledger \in Ledgers /\ queue \in Seq(Tx) /\ sigs \in SUBSET Tx
        /\ lastQueried \in TxOrNone
    BY DEF LossInv, TypeInv, TypeOK
  <2>2. cursor = lastQueried /\ pc = "enqueue"
    BY DEF LossInv, PassInv, PushNew
  <2> QED  BY <2>1, <2>2, ConstantTypes DEF NoTx
<1>2. ToPush \in SUBSET Tx /\ ToPush \in SUBSET sigs /\ ToPush # {}
  BY <1>1 DEF ToPush, Fresh, PushNew
<1>3. Range(queue') = Range(queue) \cup ToPush
  <2>1. OldestFirst(ToPush) \in Seq(ToPush) /\ Range(OldestFirst(ToPush)) = ToPush
    BY <1>2, OldestFirstRange
  <2>2. OldestFirst(ToPush) \in Seq(Tx)  BY <1>2, <2>1
  <2>3. queue' = queue \o OldestFirst(ToPush)  BY DEF PushNew
  <2> QED  BY <1>1, <2>1, <2>2, <2>3, RangeConcat
<1>4. /\ ledger' = ledger /\ stored' = stored /\ lastQueried' = lastQueried
      /\ lastProcessed' = lastProcessed /\ delivered' = delivered
      /\ newest' = Max(ToPush)
  BY DEF PushNew, chain
<1>5. CoverInv'
  <2>1. TypeInv /\ CoverInv  BY DEF LossInv
  <2> QED  BY <1>3, <1>4, <2>1, QuietCover
<1>6. ASSUME NEW t \in Tx, t <= Max(ToPush), Due(t) PROVE Covered(t)'
  <2>1. Covered(t) => Covered(t)'  BY <1>3, <1>4, CoverGrows
  <2>2. CASE t <= lastQueried
    <3>1. Covered(t)
      BY <1>6, <2>2 DEF LossInv, CoverInv, NoEventLost, Covered
    <3> QED  BY <2>1, <3>1
  <2>3. CASE ~(t <= lastQueried)
    <3>1. cursor < t  BY <1>1, <2>3
    <3>2. Max(ToPush) \in sigs  BY <1>2, MinMaxTx
    <3>3. t \in sigs  BY <1>1, <1>6, <3>1, <3>2 DEF LossInv, ListingInv
    <3>4. CASE t \in Queued
      <4>1. CASE t \in Range(queue)  BY <2>1, <4>1 DEF Covered
      <4>2. CASE \E e \in Range(stored) : t = e[1]
        BY <1>6, <2>1, <4>2 DEF LossInv, CoverInv, StoredInv
      <4>3. CASE t = lastProcessed /\ t # NoTx
        BY <1>6, <2>1, <4>3 DEF LossInv, CoverInv, ProcessedInv, Covered
      <4> QED  BY <3>4, <4>1, <4>2, <4>3 DEF Queued
    <3>5. CASE t \notin Queued
      <4>1. t \in Fresh  BY <3>3, <3>5 DEF Fresh
      <4>2. SlotOf(t) >= StartFromSlot
        <5>1. SlotOf(t) = ledger[t].slot  BY <1>1, SlotOrder
        <5> QED  BY <1>6, <5>1 DEF Due
      <4>3. t \in ToPush  BY <4>1, <4>2 DEF ToPush
      <4> QED  BY <1>3, <4>3 DEF Covered
    <3> QED  BY <3>4, <3>5
  <2> QED  BY <2>2, <2>3
<1>7. CursorInv'
  <2>1. \A t \in Tx : Due(t)' <=> Due(t)  BY <1>4 DEF Due
  <2> QED  BY <1>4, <1>6, <2>1 DEF CursorInv
<1> QED  BY <1>5, <1>7

(* On a first run that finds only history before the start slot, nothing   *)
(* the cursor will pass is owed.                                           *)
LEMMA SkipCover ==
  ASSUME LossInv, SkipHistory
  PROVE  CursorInv' /\ CoverInv'
<1>0. PICK m : m = Max(Fresh)  OBVIOUS
<1>1. /\ ledger \in Ledgers /\ sigs \in SUBSET Tx /\ Tx \subseteq Nat
      /\ StartFromSlot \in Nat
  BY ConstantTypes, ConfigAssumption DEF LossInv, TypeInv, TypeOK
<1>2. Fresh \in SUBSET Tx /\ Fresh # {} /\ ToPush = {}
  BY <1>1 DEF Fresh, SkipHistory
<1>3. m \in Fresh /\ m \in Tx  BY <1>0, <1>2, MinMaxTx
<1>4. ~(ledger[m].slot >= StartFromSlot)
  <2>1. ~(SlotOf(m) >= StartFromSlot)  BY <1>2, <1>3 DEF ToPush
  <2>2. m <= m  BY <1>1, <1>3
  <2>3. SlotOf(m) = ledger[m].slot  BY <1>1, <1>3, <2>2, SlotOrder
  <2> QED  BY <2>1, <2>3
<1>5. ASSUME NEW t \in Tx, t <= m PROVE ~Due(t)
  <2>1. ledger[t].slot <= ledger[m].slot  BY <1>1, <1>3, <1>5, SlotOrder
  <2>2. ledger[t].slot \in Nat /\ ledger[m].slot \in Nat
    BY <1>1, <1>3, SlotNat
  <2> QED  BY <1>1, <1>4, <2>1, <2>2 DEF Due
<1>6. /\ ledger' = ledger /\ stored' = stored /\ lastQueried' = lastQueried
      /\ delivered' = delivered /\ queue' = queue
      /\ newest' = m /\ lastProcessed' = m
  BY <1>0 DEF SkipHistory, chain
<1>7. /\ \A t \in Tx : Due(t)' <=> Due(t)
      /\ \A t \in Tx : Covered(t)' <=> Covered(t)
  BY <1>6 DEF Due, Covered, Delivered, Deliverable
<1>8. CursorInv'  BY <1>5, <1>6, <1>7 DEF CursorInv
<1>9. NoEventLost'
  BY <1>6, <1>7 DEF LossInv, CoverInv, NoEventLost, Covered
<1>10. StoredInv'
  <2>1. \A e \in Range(stored) : e[1] \in Tx
    <3>1. stored \in Seq(Tx \X Nat)  BY DEF LossInv, TypeInv, TypeOK, EventId
    <3> QED  BY <3>1 DEF Range
  <2> QED  BY <1>6, <1>7, <2>1 DEF LossInv, CoverInv, StoredInv
<1>11. ProcessedInv'
  <2>1. m <= m  BY <1>1, <1>3
  <2>2. ~Due(m)'  BY <1>3, <1>5, <1>7, <2>1
  <2> QED  BY <1>6, <2>2 DEF ProcessedInv
<1> QED  BY <1>8, <1>9, <1>10, <1>11 DEF CoverInv

LEMMA LossInit == Init => LossInv
<1> SUFFICES ASSUME Init PROVE LossInv
  OBVIOUS
<1>1. TypeInv  BY TypeInit
<1>2. Range(stored) = {}  BY DEF Init, Range
<1>3. PassInv /\ ListingInv /\ CursorInv /\ EventInv
  BY DEF Init, PassInv, ListingInv, CursorInv, EventInv
<1>4. NoEventLost
  <2>1. \A t \in Tx : ~(t <= lastQueried)  BY ConstantTypes DEF Init, Tx, NoTx
  <2> QED  BY <2>1 DEF NoEventLost
<1>5. CoverInv
  BY <1>2, <1>4 DEF Init, CoverInv, StoredInv, ProcessedInv
<1> QED  BY <1>1, <1>3, <1>5 DEF LossInv

(* Steps that touch neither the queue, the markers nor the deliveries.     *)
LEMMA QuietStep ==
  ASSUME LossInv,
         UNCHANGED <<ledger, queue, lastProcessed, lastQueried, stored,
                     delivered>>
  PROVE  /\ CoverInv'
         /\ pc' # "cursor" \/ (pc = "cursor" /\ newest' = newest) => CursorInv'
<1>1. CoverInv'
  <2>1. TypeInv /\ CoverInv  BY DEF LossInv
  <2> QED  BY <2>1, QuietCover
<1>2. ASSUME pc = "cursor", newest' = newest PROVE CursorInv'
  BY <1>2, CoverGrows DEF LossInv, CursorInv
<1>3. ASSUME pc' # "cursor" PROVE CursorInv'
  BY <1>3 DEF CursorInv
<1> QED  BY <1>1, <1>2, <1>3

LEMMA LossNext ==
  ASSUME SingleProgram
  PROVE  LossInv /\ [Next]_vars => LossInv'
<1> SUFFICES ASSUME LossInv, [Next]_vars PROVE LossInv'
  OBVIOUS
<1>1. TypeInv'  BY TypeNext DEF LossInv
<1>2. SUFFICES PassInv' /\ ListingInv' /\ CursorInv' /\ EventInv' /\ CoverInv'
  BY <1>1 DEF LossInv
<1>3. PassInv /\ ListingInv /\ CursorInv /\ EventInv /\ CoverInv
  BY DEF LossInv
<1>4. CASE NewBlock \/ FinalizeBlock
  <2>1. UNCHANGED <<ledger, txState, stored, pc, listing, next, delivered>>
    BY <1>4 DEF NewBlock, FinalizeBlock
  <2>2. CursorInv' /\ CoverInv'
    <3>1. UNCHANGED <<ledger, queue, lastProcessed, lastQueried, stored, delivered>>
      BY <2>1 DEF txState
    <3>2. pc' = pc /\ newest' = newest  BY <2>1 DEF listing
    <3> QED  BY <3>1, <3>2, QuietStep
  <2>3. PassInv' /\ EventInv'
    BY <1>3, <2>1 DEF txState, listing, PassInv, EventInv
  <2>4. ListingInv'
    <3>1. tip \in Nat /\ sigs \in SUBSET Tx /\ ledger \in Ledgers
      BY ConstantTypes DEF LossInv, TypeInv, TypeOK
    <3>2. tip' \in Nat /\ tip <= tip'
      BY <1>4, <3>1 DEF NewBlock, FinalizeBlock
    <3>3. \A v \in sigs : ledger[v].slot <= tip => ledger[v].slot <= tip'
      <4>1. \A v \in sigs : ledger[v].slot \in Nat  BY <3>1, ConstantTypes
      <4> QED  BY <3>1, <3>2, <4>1
    <3> QED  BY <1>3, <2>1, <3>3 DEF listing, ListingInv
  <2> QED  BY <2>2, <2>3, <2>4
<1>5. CASE StartProcessing \/ QueueDrained \/ StartQuerying
  <2>1. /\ UNCHANGED <<ledger, queue, lastProcessed, lastQueried, stored,
                       delivered, next>>
        /\ pc \in {"pass", "fetch"} /\ pc' \in {"pass", "fetch", "program"}
        /\ pc' = "program" => cursor' = lastQueried
    BY <1>5 DEF StartProcessing, QueueDrained, StartQuerying, chain, txState
  <2>2. CursorInv' /\ CoverInv'  BY <2>1, QuietStep
  <2> QED  BY <1>3, <2>1, <2>2 DEF PassInv, ListingInv, EventInv
<1>6. CASE QueryHeight
  <2>1. todo' = {}
    <3>1. todo \subseteq TrackedPrograms  BY DEF LossInv, TypeInv, TypeOK
    <3> QED  BY <1>6, <3>1 DEF QueryHeight, SingleProgram
  <2>2. /\ UNCHANGED <<ledger, queue, lastProcessed, lastQueried, stored,
                       delivered, next, cursor>>
        /\ pc = "program" /\ pc' = "signatures"
    BY <1>6 DEF QueryHeight, chain, txState
  <2>3. CursorInv' /\ CoverInv'  BY <2>2, QuietStep
  <2> QED  BY <1>3, <2>1, <2>2, <2>3 DEF PassInv, ListingInv, EventInv
<1>7. CASE QuerySignatures \/ CursorNotFound \/ QueryPage
  <2>1. ListingInv'  BY <1>7, QueryListing
  <2>2. /\ UNCHANGED <<ledger, queue, lastProcessed, lastQueried, stored,
                       delivered, next, cursor, todo>>
        /\ pc \in {"signatures", "page"} /\ pc' \in {"page", "enqueue"}
    BY <1>7 DEF QuerySignatures, CursorNotFound, QueryPage, chain, txState
  <2>3. CursorInv' /\ CoverInv'  BY <2>2, QuietStep
  <2> QED  BY <1>3, <2>1, <2>2, <2>3 DEF PassInv, EventInv
<1>8. CASE NothingNew \/ HeightFails \/ QueryFails \/ Crash
  <2>1. pc' = "pass"
    <3>1. CASE NothingNew  BY <1>3, <3>1 DEF NothingNew, NextProgram, PassInv
    <3>2. CASE HeightFails
      <4>1. PICK p \in todo : NextProgram(todo \ {p})  BY <3>2 DEF HeightFails
      <4>2. todo \subseteq TrackedPrograms  BY DEF LossInv, TypeInv, TypeOK
      <4>3. todo \ {p} = {}  BY <4>1, <4>2 DEF SingleProgram
      <4> QED  BY <4>1, <4>3 DEF NextProgram
    <3>3. CASE QueryFails  BY <1>3, <3>3 DEF QueryFails, NextProgram, PassInv
    <3>4. CASE Crash  BY <3>4 DEF Crash, NextProgram
    <3> QED  BY <1>8, <3>1, <3>2, <3>3, <3>4
  <2>2. next' = 1
    BY <1>3, <1>8 DEF NothingNew, HeightFails, QueryFails, Crash, EventInv
  <2>3. UNCHANGED <<ledger, queue, lastProcessed, lastQueried, stored, delivered>>
    BY <1>8 DEF NothingNew, HeightFails, QueryFails, Crash, chain, txState
  <2>4. CursorInv' /\ CoverInv'  BY <2>1, <2>3, QuietStep
  <2> QED  BY <2>1, <2>2, <2>4 DEF PassInv, ListingInv, EventInv
<1>9. CASE SkipHistory
  <2>1. CursorInv' /\ CoverInv'  BY <1>9, SkipCover
  <2>2. /\ pc = "enqueue" /\ pc' = "cursor"
        /\ UNCHANGED <<cursor, lastQueried, todo, next>>
    BY <1>9 DEF SkipHistory
  <2> QED  BY <1>3, <2>1, <2>2 DEF PassInv, ListingInv, EventInv
<1>10. CASE PushNew
  <2>1. CursorInv' /\ CoverInv'  BY <1>10, PushCover
  <2>2. /\ pc = "enqueue" /\ pc' = "cursor"
        /\ UNCHANGED <<cursor, lastQueried, todo, next>>
    BY <1>10 DEF PushNew
  <2> QED  BY <1>3, <2>1, <2>2 DEF PassInv, ListingInv, EventInv
<1>11. CASE StoreCursor
  <2>1. /\ pc = "cursor" /\ pc' = "pass" /\ lastQueried' = newest
        /\ UNCHANGED <<ledger, queue, lastProcessed, stored, delivered, next>>
    BY <1>3, <1>11 DEF StoreCursor, NextProgram, PassInv, chain
  <2>2. /\ \A t \in Tx : Due(t)' <=> Due(t)
        /\ \A t \in Tx : Delivered(t)' <=> Delivered(t)
        /\ \A t \in Tx : Covered(t)' <=> Covered(t)
    BY <2>1 DEF Due, Covered, Delivered, Deliverable
  <2>3. NoEventLost'
    BY <1>3, <2>1, <2>2 DEF CursorInv, NoEventLost, Covered
  <2>4. StoredInv'
    <3>1. \A e \in Range(stored) : e[1] \in Tx
      <4>1. stored \in Seq(Tx \X Nat)  BY DEF LossInv, TypeInv, TypeOK, EventId
      <4> QED  BY <4>1 DEF Range
    <3> QED  BY <1>3, <2>1, <2>2, <3>1 DEF CoverInv, StoredInv
  <2>5. ProcessedInv'
    <3>1. lastProcessed # NoTx => lastProcessed \in Tx
      BY ConstantTypes DEF LossInv, TypeInv, TypeOK
    <3> QED  BY <1>3, <2>1, <2>2, <3>1 DEF CoverInv, ProcessedInv
  <2> QED  BY <1>3, <2>1, <2>3, <2>4, <2>5
             DEF PassInv, ListingInv, CursorInv, EventInv, CoverInv
<1>12. CASE SkipTx \/ FinishTx
  <2>1. CoverInv'  BY <1>12, FinalizeCover
  <2>2. pc' = "pass" /\ next' = 1
    BY <1>12 DEF SkipTx, FinishTx, Finalize
  <2> QED  BY <2>1, <2>2 DEF PassInv, ListingInv, CursorInv, EventInv
<1>13. CASE FetchTx \/ StoreBlockNumber
  <2>1. /\ UNCHANGED <<ledger, queue, lastProcessed, lastQueried, stored,
                       delivered, next>>
        /\ pc \in {"fetch", "block"} /\ pc' \in {"block", "deliver", "finish"}
    BY <1>13 DEF FetchTx, StoreBlockNumber, chain, txState
  <2>2. CursorInv' /\ CoverInv'  BY <2>1, QuietStep
  <2>3. EventInv'
    <3>1. CASE FetchTx
      <4>1. next = 1 /\ ledger[Head(queue)].status = "ok"
            /\ (pc' = "finish" => ledger[Head(queue)].emits = 0)
            /\ 1..(next - 1) = {}
        BY <1>3, <3>1 DEF FetchTx, HasEvents, EventInv
      <4> QED  BY <2>1, <4>1 DEF EventInv
    <3>2. CASE StoreBlockNumber
      <4>1. pc = "block" /\ pc' = "deliver"  BY <3>2 DEF StoreBlockNumber
      <4> QED  BY <1>3, <2>1, <4>1 DEF EventInv
    <3> QED  BY <1>13, <3>1, <3>2
  <2> QED  BY <2>1, <2>2, <2>3 DEF PassInv, ListingInv
<1>14. CASE AddEvent
  <2>1. /\ UNCHANGED <<ledger, queue, lastProcessed, lastQueried, stored, next>>
        /\ pc = "deliver" /\ pc' = "record"
        /\ delivered' = Append(delivered, <<Head(queue), next>>)
    BY <1>14 DEF AddEvent, chain, txState
  <2>2. queue # <<>> /\ queue \in Seq(Tx) /\ delivered \in Seq(EventId)
        /\ next \in Nat
    BY <2>1 DEF LossInv, TypeInv, TypeOK, Busy
  <2>3. Head(queue) \in Tx  BY <2>2, RangeTail
  <2>4. <<Head(queue), next>> \in EventId  BY <2>2, <2>3 DEF EventId
  <2>5. Range(delivered') = Range(delivered) \cup {<<Head(queue), next>>}
    <3> DEFINE e == <<Head(queue), next>>
    <3>1. e \in EventId /\ delivered' = Append(delivered, e)  BY <2>1, <2>4
    <3> HIDE DEF e
    <3>2. Range(delivered') = Range(delivered) \cup {e}
      BY <2>2, <3>1, RangeAppend
    <3> QED  BY <3>2 DEF e
  <2>6. CoverInv'
    <3>1. TypeInv /\ CoverInv  BY DEF LossInv
    <3> QED  BY <2>1, <2>5, <3>1, QuietCover
  <2>7. EventInv'  BY <1>3, <2>1, <2>5 DEF EventInv
  <2> QED  BY <2>1, <2>6, <2>7 DEF PassInv, ListingInv, CursorInv
<1>15. CASE StoreEvent
  <2> DEFINE h == Head(queue)
  <2>1. /\ UNCHANGED <<ledger, queue, lastProcessed, lastQueried, delivered>>
        /\ pc = "record" /\ pc' \in {"block", "finish"}
        /\ pc' = "finish" => ~(next < ledger[h].emits)
        /\ next' = next + 1
        /\ stored' = Append(stored, <<h, next>>)
    BY <1>15 DEF StoreEvent, chain, txState
  <2>2. queue # <<>> /\ queue \in Seq(Tx) /\ stored \in Seq(EventId)
        /\ next \in Nat /\ ledger \in Ledgers
    BY <2>1 DEF LossInv, TypeInv, TypeOK, Busy
  <2>3. h \in Tx /\ h \in Range(queue)  BY <2>2, RangeTail
  <2>4. <<h, next>> \in EventId  BY <2>2, <2>3 DEF EventId
  <2>5. Range(stored') = Range(stored) \cup {<<h, next>>}
    <3>1. Range(Append(stored, <<h, next>>)) = Range(stored) \cup {<<h, next>>}
      <4> HIDE DEF h
      <4> QED  BY ONLY <2>2, <2>4, RangeAppend
    <3>2. stored' = Append(stored, <<h, next>>)  BY <2>1
    <3> QED  BY ONLY <3>1, <3>2
  <2>6. /\ \A t \in Tx : Due(t)' <=> Due(t)
        /\ \A t \in Tx : Delivered(t)' <=> Delivered(t)
        /\ \A t \in Tx : Covered(t)' <=> Covered(t)
    BY <2>1 DEF Due, Covered, Delivered, Deliverable
  <2>7. NoEventLost'
    BY <1>3, <2>1, <2>6 DEF CoverInv, NoEventLost, Covered
  <2>8. StoredInv'
    <3>1. \A e \in Range(stored) : e[1] \in Tx
      BY <2>2 DEF EventId, Range
    <3>2. Covered(h)  BY <2>3 DEF Covered
    <3>3. ASSUME NEW e \in Range(stored'), Due(e[1])' PROVE Covered(e[1])'
      <4>1. CASE e \in Range(stored)
        BY <1>3, <2>6, <3>1, <3>3, <4>1 DEF CoverInv, StoredInv
      <4>2. CASE e = <<h, next>>
        <5>1. e[1] = h  BY <4>2
        <5> QED  BY <2>3, <2>6, <3>2, <5>1
      <4> QED  BY <2>5, <3>3, <4>1, <4>2
    <3> QED  BY <3>3 DEF StoredInv
  <2>9. ProcessedInv'
    <3>1. lastProcessed # NoTx => lastProcessed \in Tx
      BY ConstantTypes DEF LossInv, TypeInv, TypeOK
    <3> QED  BY <1>3, <2>1, <2>6, <3>1 DEF CoverInv, ProcessedInv
  <2>10. EventInv'
    <3>1. ledger[h].emits \in Nat  BY <2>2, <2>3, ConstantTypes
    <3>2. /\ ledger[h].status = "ok"
          /\ next >= 1
          /\ \A k \in 1..(next - 1) : <<h, k>> \in Range(delivered)
          /\ <<h, next>> \in Range(delivered)
      BY <1>3, <2>1 DEF EventInv
    <3>3. \A k \in 1..next : k \in 1..(next - 1) \/ k = next  BY <2>2
    <3>4. next + 1 >= 1 /\ (next + 1) - 1 = next  BY <2>2
    <3>5. \A k \in 1..((next + 1) - 1) : <<h, k>> \in Range(delivered)
      BY <3>2, <3>3, <3>4
    <3>6. pc' = "finish" => ledger[h].emits < next + 1
      BY <2>1, <2>2, <3>1
    <3> QED  BY <2>1, <3>2, <3>4, <3>5, <3>6 DEF EventInv
  <2> QED  BY <2>1, <2>7, <2>8, <2>9, <2>10
             DEF PassInv, ListingInv, CursorInv, CoverInv
<1>16. CASE ProcessFails
  <2>1. /\ UNCHANGED <<ledger, queue, lastProcessed, lastQueried, stored,
                       delivered>>
        /\ pc' = "pass" /\ next' = 1
    BY <1>16 DEF ProcessFails, chain, txState
  <2>2. CursorInv' /\ CoverInv'  BY <2>1, QuietStep
  <2> QED  BY <2>1, <2>2 DEF PassInv, ListingInv, EventInv
<1>17. CASE UNCHANGED vars
  <2>1. UNCHANGED <<ledger, tip, queue, lastProcessed, lastQueried, stored,
                    pc, todo, cursor, sigs, newest, next, delivered>>
    BY <1>17 DEF vars, chain, txState, listing
  <2>2. CursorInv' /\ CoverInv'  BY <2>1, QuietStep
  <2> QED  BY <1>3, <2>1, <2>2 DEF PassInv, ListingInv, EventInv
<1> QED
  BY <1>4, <1>5, <1>6, <1>7, <1>8, <1>9, <1>10, <1>11, <1>12, <1>13, <1>14,
     <1>15, <1>16, <1>17 DEF Next, Environment, Query, Process, Failure

(* With one tracked program, whatever the chain, the start slot, the page  *)
(* size, the commitment and the faults: the cursor never moves past an     *)
(* owed transaction that is neither queued nor fully delivered.            *)
THEOREM NothingLost ==
  ASSUME SingleProgram
  PROVE  Spec => []NoEventLost
<1>1. Init => LossInv  BY LossInit
<1>2. LossInv /\ [Next]_vars => LossInv'  BY LossNext
<1>3. LossInv => NoEventLost  BY DEF LossInv, CoverInv
<1> QED  BY <1>1, <1>2, <1>3, PTL DEF Spec

-----------------------------------------------------------------------------
(* The queue.                                                              *)

(* Two sequences without repetitions and without a common member.          *)
LEMMA DistinctConcat ==
  ASSUME NEW S, NEW s \in Seq(S), NEW r \in Seq(S), Distinct(s), Distinct(r),
         Range(s) \cap Range(r) = {}
  PROVE  Distinct(s \o r)
<1> DEFINE q == s \o r
<1>1. DOMAIN q = 1..(Len(s) + Len(r))  OBVIOUS
<1>2. \A i \in 1..Len(s) : q[i] = s[i] /\ s[i] \in Range(s)  BY DEF Range
<1>3. \A i \in 1..Len(r) : q[Len(s) + i] = r[i] /\ r[i] \in Range(r)
  BY DEF Range
<1>4. ASSUME NEW i \in DOMAIN q, NEW j \in DOMAIN q, i < j PROVE q[i] # q[j]
  <2>0. i \in Nat /\ j \in Nat /\ Len(s) \in Nat /\ Len(r) \in Nat
        /\ 1 <= i /\ j <= Len(s) + Len(r)
    BY <1>1, <1>4
  <2>1. CASE j <= Len(s)
    <3>1. i \in 1..Len(s) /\ j \in 1..Len(s)  BY <1>4, <2>0, <2>1
    <3>2. i \in DOMAIN s /\ j \in DOMAIN s /\ i # j  BY <1>4, <2>0, <3>1
    <3> HIDE DEF q
    <3> QED  BY <1>2, <3>1, <3>2 DEF Distinct
  <2>2. CASE Len(s) < i
    <3> DEFINE a == i - Len(s)
               b == j - Len(s)
    <3>1. /\ a \in 1..Len(r) /\ b \in 1..Len(r) /\ a # b
          /\ i = Len(s) + a /\ j = Len(s) + b
      BY <1>4, <2>0, <2>2
    <3> HIDE DEF a, b, q
    <3>2. q[i] = r[a] /\ q[j] = r[b]  BY <1>3, <3>1
    <3>3. a \in DOMAIN r /\ b \in DOMAIN r  BY <3>1
    <3> QED  BY <3>1, <3>2, <3>3 DEF Distinct
  <2>3. CASE i <= Len(s) /\ Len(s) < j
    <3> DEFINE b == j - Len(s)
    <3>1. i \in 1..Len(s) /\ b \in 1..Len(r) /\ j = Len(s) + b
      BY <1>4, <2>0, <2>3
    <3> HIDE DEF b, q
    <3>2. q[i] \in Range(s) /\ q[j] \in Range(r)  BY <1>2, <1>3, <3>1
    <3> QED  BY <3>2
  <2> QED  BY <2>0, <2>1, <2>2, <2>3
<1>5. ASSUME NEW i \in DOMAIN q, NEW j \in DOMAIN q, i # j PROVE i < j \/ j < i
  BY <1>1, <1>5
<1> HIDE DEF q
<1>6. Distinct(q)  BY <1>4, <1>5 DEF Distinct
<1> QED  BY <1>6 DEF q

(* The front of a queue without repetitions is not behind itself.          *)
LEMMA DistinctTail ==
  ASSUME NEW S, NEW s \in Seq(S), s # <<>>, Distinct(s)
  PROVE  Distinct(Tail(s)) /\ Head(s) \notin Range(Tail(s))
<1>1. /\ Len(s) \in Nat /\ Len(s) > 0 /\ Head(s) = s[1]
      /\ DOMAIN s = 1..Len(s) /\ DOMAIN Tail(s) = 1..(Len(s) - 1)
  OBVIOUS
<1>2. ASSUME NEW i \in DOMAIN Tail(s)
      PROVE  /\ Tail(s)[i] = s[i + 1] /\ i + 1 \in DOMAIN s /\ i + 1 # 1
             /\ 1 \in DOMAIN s
  BY <1>1
<1>3. Distinct(Tail(s))
  <2>1. ASSUME NEW i \in DOMAIN Tail(s), NEW j \in DOMAIN Tail(s), i # j
        PROVE  i + 1 # j + 1
    BY <1>1, <2>1
  <2> QED  BY <1>2, <2>1 DEF Distinct
<1>4. ASSUME NEW i \in DOMAIN Tail(s) PROVE Tail(s)[i] # Head(s)
  BY <1>1, <1>2 DEF Distinct
<1> QED  BY <1>3, <1>4 DEF Range

QueueInv == TypeInv /\ QueuedOnce

LEMMA QueueInit == Init => QueueInv
<1> SUFFICES ASSUME Init PROVE QueueInv
  OBVIOUS
<1>1. DOMAIN queue = {} /\ Range(queue) = {}  BY DEF Init, Range
<1> QED  BY <1>1, TypeInit DEF QueueInv, QueuedOnce

LEMMA QueueStep == QueueInv /\ [Next]_vars => QueuedOnce'
<1> SUFFICES ASSUME QueueInv, [Next]_vars PROVE QueuedOnce'
  OBVIOUS
<1>1. /\ queue \in Seq(Tx) /\ sigs \in SUBSET Tx /\ lastProcessed \in TxOrNone
      /\ Distinct(queue) /\ lastProcessed \notin Range(queue)
  BY DEF QueueInv, QueuedOnce, Distinct, TypeInv, TypeOK
<1>2. /\ Fresh \in SUBSET Tx /\ ToPush \in SUBSET Fresh
      /\ Fresh \cap Range(queue) = {} /\ lastProcessed \notin Fresh
  <2>1. lastProcessed \in Tx => lastProcessed \in Queued
    <3>1. NoTx \notin Tx  BY BoundsAssumption DEF NoTx, Tx
    <3> QED  BY <3>1 DEF Queued
  <2> QED  BY <1>1, <2>1 DEF Fresh, ToPush, Queued
<1>3. CASE PushNew
  <2>1. /\ OldestFirst(ToPush) \in Seq(ToPush)
        /\ Range(OldestFirst(ToPush)) = ToPush
        /\ Distinct(OldestFirst(ToPush))
    BY <1>2, OldestFirstRange
  <2>2. OldestFirst(ToPush) \in Seq(Tx)  BY <1>2, <2>1
  <2>3. queue' = queue \o OldestFirst(ToPush) /\ lastProcessed' = lastProcessed
    BY <1>3 DEF PushNew
  <2>4. Distinct(queue \o OldestFirst(ToPush))
    BY <1>1, <1>2, <2>1, <2>2, DistinctConcat
  <2>5. Range(queue \o OldestFirst(ToPush)) = Range(queue) \cup ToPush
    BY <1>1, <2>1, <2>2, RangeConcat
  <2>6. lastProcessed \notin Range(queue) \cup ToPush  BY <1>1, <1>2
  <2>7. Distinct(queue') /\ lastProcessed' \notin Range(queue')
    BY <2>3, <2>4, <2>5, <2>6
  <2> QED  BY <2>7 DEF QueuedOnce, Distinct
<1>4. CASE SkipHistory
  <2>1. Max(Fresh) \in Fresh  BY <1>2, <1>4, MinMaxTx DEF SkipHistory
  <2>2. queue' = queue /\ lastProcessed' = Max(Fresh)
    BY <1>4 DEF SkipHistory
  <2>3. Distinct(queue') /\ lastProcessed' \notin Range(queue')
    BY <1>1, <1>2, <2>1, <2>2
  <2> QED  BY <2>3 DEF QueuedOnce, Distinct
<1>5. CASE SkipTx \/ FinishTx
  <2>1. queue # <<>> /\ Finalize
    BY <1>5 DEF SkipTx, FinishTx, QueueInv, TypeInv, Busy
  <2>2. queue' = Tail(queue) /\ lastProcessed' = Head(queue)
    BY <2>1 DEF Finalize
  <2>3. Distinct(Tail(queue)) /\ Head(queue) \notin Range(Tail(queue))
    BY <1>1, <2>1, DistinctTail
  <2>4. Distinct(queue') /\ lastProcessed' \notin Range(queue')
    BY <2>2, <2>3
  <2> QED  BY <2>4 DEF QueuedOnce, Distinct
<1>6. ASSUME UNCHANGED <<queue, lastProcessed>> PROVE QueuedOnce'
  <2>1. Distinct(queue') /\ lastProcessed' \notin Range(queue')
    BY <1>1, <1>6
  <2> QED  BY <2>1 DEF QueuedOnce, Distinct
<1>7. CASE Environment
  BY <1>6, <1>7 DEF Environment, NewBlock, FinalizeBlock, txState
<1>8. CASE \/ StartQuerying \/ QueryHeight \/ QuerySignatures \/ QueryPage
           \/ NothingNew \/ StoreCursor
  BY <1>6, <1>8 DEF StartQuerying, QueryHeight, QuerySignatures, QueryPage,
     NothingNew, StoreCursor, txState
<1>9. CASE \/ StartProcessing \/ QueueDrained \/ FetchTx \/ StoreBlockNumber
           \/ AddEvent \/ StoreEvent
  BY <1>6, <1>9 DEF StartProcessing, QueueDrained, FetchTx, StoreBlockNumber,
     AddEvent, StoreEvent, txState
<1>10. CASE Failure
  BY <1>6, <1>10 DEF Failure, HeightFails, QueryFails, CursorNotFound,
     ProcessFails, Crash, txState
<1>11. CASE UNCHANGED vars
  BY <1>6, <1>11 DEF vars, txState
<1> QED  BY <1>3, <1>4, <1>5, <1>7, <1>8, <1>9, <1>10, <1>11
          DEF Next, Query, Process

(* A transaction waits in the queue once and the last processed one does   *)
(* not wait, for every chain, page size, any number of programs and of     *)
(* faults: the branch of fetchNextGetFullTxBySignature that drops an       *)
(* already processed front is never taken.                                 *)
THEOREM QueueHasNoDuplicates == Spec => []QueuedOnce
<1>1. Init => QueueInv  BY QueueInit
<1>2. QueueInv /\ [Next]_vars => QueueInv'
  BY QueueStep, TypeNext DEF QueueInv
<1>3. QueueInv => QueuedOnce  BY DEF QueueInv
<1> QED  BY <1>1, <1>2, <1>3, PTL DEF Spec

-----------------------------------------------------------------------------
(* Batches and queues.                                                     *)

(* A batch pushed oldest first is sorted and ends with its newest member.  *)
LEMMA OldestFirstSorted ==
  ASSUME NEW S \in SUBSET Tx, NEW q, q = OldestFirst(S)
  PROVE  /\ \A i, j \in DOMAIN q : q[i] < q[j] => i < j
         /\ S # {} => Len(q) \in DOMAIN q /\ q[Len(q)] = Max(S)
<1> DEFINE n == Cardinality(S)
           Upto(x) == {v \in S : v <= x}
<1>1. /\ n \in Nat /\ q \in [1..n -> S]
      /\ \A i \in 1..n : Cardinality(Upto(q[i])) = i
      /\ \A x, y \in S : x < y => Cardinality(Upto(x)) < Cardinality(Upto(y))
  BY OldestFirstRank
<1>2. q \in Seq(S) /\ Range(q) = S  BY OldestFirstRange
<1>3. S \subseteq Nat  BY ConstantTypes
<1> HIDE DEF Upto, n
<1>4. DOMAIN q = 1..n /\ Len(q) = n  BY <1>1, <1>2
<1>5. ASSUME NEW i \in DOMAIN q, NEW j \in DOMAIN q, q[i] < q[j] PROVE i < j
  <2>1. i \in 1..n /\ j \in 1..n /\ q[i] \in S /\ q[j] \in S  BY <1>1, <1>4
  <2> QED  BY <1>1, <1>5, <2>1
<1>6. ASSUME S # {} PROVE Len(q) \in DOMAIN q /\ q[Len(q)] = Max(S)
  <2> DEFINE m == Max(S)
  <2>1. m \in S /\ \A t \in S : t <= m  BY <1>6, MinMaxTx
  <2> HIDE DEF m
  <2>2. PICK i \in DOMAIN q : q[i] = m  BY <1>2, <2>1 DEF Range
  <2>3. i \in 1..n /\ n \in 1..n  BY <1>1, <1>4, <2>2
  <2>4. q[n] \in S /\ q[n] <= m  BY <1>1, <2>1, <2>3
  <2>5. ~(q[n] < m)
    <3>1. ASSUME q[n] < m PROVE n < i  BY <1>4, <1>5, <2>2, <2>3, <3>1
    <3> QED  BY <1>1, <2>3, <3>1
  <2>6. q[n] = m
    <3>1. q[n] \in Nat /\ m \in Nat  BY <1>3, <2>1, <2>4
    <3> QED  BY <2>4, <2>5, <3>1
  <2> QED  BY <1>4, <2>3, <2>6 DEF m
<1> QED  BY <1>5, <1>6

-----------------------------------------------------------------------------
(* The cursor.  A pass keeps only what is not older than the cursor's      *)
(* slot, so the next cursor is not either.                                 *)

FloorInv ==
  /\ pc \in {"page", "enqueue"} => \A v \in sigs : SlotOf(v) >= SlotOf(cursor)
  /\ pc = "cursor" => SlotOf(newest) >= SlotOf(cursor)

(* Slots of positions and of the zero TxPoint are numbers, in chain order. *)
LEMMA SlotOfOrder ==
  ASSUME ledger \in Ledgers
  PROVE  /\ \A t \in TxOrNone : SlotOf(t) \in Nat
         /\ \A t, u \in TxOrNone : t <= u => SlotOf(t) <= SlotOf(u)
         /\ \A t \in Tx : SlotOf(t) = ledger[t].slot
<1>1. TxOrNone = Tx \cup {NoTx} /\ NoTx \notin Tx /\ Tx \subseteq Nat /\ NoTx = 0
  BY ConstantTypes DEF Tx, NoTx
<1>2. \A t \in Tx : SlotOf(t) = ledger[t].slot /\ ledger[t].slot \in Nat
  BY <1>1, SlotNat DEF SlotOf
<1>3. SlotOf(NoTx) = 0  BY DEF SlotOf
<1>4. ASSUME NEW t \in TxOrNone, NEW u \in TxOrNone, t <= u
      PROVE  SlotOf(t) <= SlotOf(u)
  <2>1. CASE t = NoTx
    <3>1. SlotOf(u) \in Nat  BY <1>1, <1>2, <1>3
    <3> QED  BY <1>3, <2>1, <3>1
  <2>2. CASE t # NoTx
    <3>1. t \in Tx /\ u \in Tx
      <4>1. t \in Tx /\ t \in Nat /\ t # 0  BY <1>1, <2>2
      <4>2. u # 0  BY <1>1, <1>4, <4>1
      <4> QED  BY <1>1, <4>1, <4>2
    <3> QED  BY <1>2, <1>4, <3>1, SlotOrder
  <2> QED  BY <2>1, <2>2
<1> QED  BY <1>1, <1>2, <1>3, <1>4

LEMMA FloorInit == Init => FloorInv
BY DEF Init, FloorInv

(* A listing call keeps nothing older than the cursor's slot, whether or   *)
(* not the node still knew the cursor.                                     *)
LEMMA ListingFloor ==
  ASSUME TypeInv, FloorInv, QuerySignatures \/ CursorNotFound \/ QueryPage
  PROVE  FloorInv'
<1>1. /\ ledger \in Ledgers /\ cursor \in TxOrNone /\ sigs \in SUBSET Tx
      /\ Tx \subseteq TxOrNone
  BY ConstantTypes DEF TypeInv, TypeOK
<1>2. ledger' = ledger /\ cursor' = cursor /\ pc' \in {"page", "enqueue"}
  BY DEF QuerySignatures, CursorNotFound, QueryPage, chain
<1>3. ASSUME NEW p, NEW before, NEW t \in Newest(MaxLimit, Listed(p, cursor, before))
      PROVE  SlotOf(t) >= SlotOf(cursor)
  <2>1. t \in Tx /\ cursor < t  BY DEF Newest, Listed
  <2>2. t \in TxOrNone /\ cursor \in Nat /\ t \in Nat /\ cursor <= t
    BY <1>1, <2>1, ConstantTypes DEF TxOrNone
  <2>3. SlotOf(cursor) <= SlotOf(t) /\ SlotOf(cursor) \in Nat /\ SlotOf(t) \in Nat
    BY <1>1, <2>2, SlotOfOrder
  <2> QED  BY <2>3
<1>4. \A v \in sigs' : SlotOf(v) >= SlotOf(cursor)
  <2>1. CASE QuerySignatures  BY <1>3, <2>1 DEF QuerySignatures
  <2>2. CASE CursorNotFound  BY <2>2 DEF CursorNotFound
  <2>3. CASE QueryPage
    <3>1. \A v \in sigs : SlotOf(v) >= SlotOf(cursor)
      BY <2>3 DEF QueryPage, FloorInv
    <3>2. CASE lost  BY <2>3, <3>1, <3>2 DEF QueryPage
    <3>3. CASE ~lost  BY <1>3, <2>3, <3>1, <3>3 DEF QueryPage
    <3> QED  BY <3>2, <3>3
  <2> QED  BY <2>1, <2>2, <2>3
<1> QED  BY <1>2, <1>4 DEF FloorInv, SlotOf

(* What is pushed or skipped is among what was listed.                     *)
LEMMA PushedListed ==
  ASSUME TypeInv
  PROVE  /\ Fresh \in SUBSET sigs /\ Fresh \in SUBSET Tx
         /\ ToPush \in SUBSET sigs /\ ToPush \in SUBSET Tx
BY DEF TypeInv, TypeOK, Fresh, ToPush

LEMMA FloorNext == TypeInv /\ FloorInv /\ [Next]_vars => FloorInv'
<1> SUFFICES ASSUME TypeInv, FloorInv, [Next]_vars PROVE FloorInv'
  OBVIOUS
<1>1. CASE QuerySignatures \/ CursorNotFound \/ QueryPage
  BY <1>1, ListingFloor
<1>2. CASE SkipHistory
  <2>1. Max(Fresh) \in sigs
    <3>1. Fresh # {}  BY <1>2 DEF SkipHistory
    <3> QED  BY <3>1, PushedListed, MinMaxTx
  <2>2. SlotOf(Max(Fresh)) >= SlotOf(cursor)
    BY <1>2, <2>1 DEF SkipHistory, FloorInv
  <2> QED  BY <1>2, <2>2 DEF SkipHistory, FloorInv, SlotOf, chain
<1>3. CASE PushNew
  <2>1. Max(ToPush) \in sigs
    <3>1. ToPush # {}  BY <1>3 DEF PushNew
    <3> QED  BY <3>1, PushedListed, MinMaxTx
  <2>2. SlotOf(Max(ToPush)) >= SlotOf(cursor)
    BY <1>3, <2>1 DEF PushNew, FloorInv
  <2> QED  BY <1>3, <2>2 DEF PushNew, FloorInv, SlotOf, chain
<1>4. CASE \/ StartQuerying \/ QueryHeight \/ NothingNew \/ StoreCursor
           \/ HeightFails \/ QueryFails \/ Crash
  <2>1. pc' \in {"pass", "program", "signatures"}
    BY <1>4 DEF StartQuerying, QueryHeight, NothingNew, StoreCursor,
                HeightFails, QueryFails, Crash, NextProgram
  <2> QED  BY <2>1 DEF FloorInv
<1>5. CASE Process \/ ProcessFails
  <2>1. pc' \in {"pass", "fetch", "block", "deliver", "record", "finish"}
    BY <1>5 DEF Process, StartProcessing, QueueDrained, SkipTx, FetchTx,
                StoreBlockNumber, AddEvent, StoreEvent, FinishTx, Finalize,
                ProcessFails
  <2> QED  BY <2>1 DEF FloorInv
<1>6. CASE Environment \/ UNCHANGED vars
  <2>1. UNCHANGED <<ledger, pc, sigs, cursor, newest>>
    BY <1>6 DEF Environment, NewBlock, FinalizeBlock, vars, chain, listing
  <2> QED  BY <2>1 DEF FloorInv, SlotOf
<1> QED
  BY <1>1, <1>2, <1>3, <1>4, <1>5, <1>6 DEF Next, Query, Failure

(* With one tracked program, whatever fails and however the chain grows,   *)
(* fetchNextGetSignaturesForAddress never moves the cursor back to an      *)
(* earlier slot, not even after the node lost it.                          *)
THEOREM CursorAdvances ==
  ASSUME SingleProgram
  PROVE  Spec => CursorSlotAdvances
<1> DEFINE Inv == LossInv /\ FloorInv
<1>1. Init => Inv  BY LossInit, FloorInit
<1>2. Inv /\ [Next]_vars => Inv'
  BY LossNext, FloorNext DEF LossInv
<1>3. ASSUME Inv, [Next]_vars
      PROVE  [SlotOf(lastQueried') >= SlotOf(lastQueried)]_vars
  <2>1. ledger \in Ledgers /\ lastQueried \in TxOrNone
    BY <1>3 DEF LossInv, TypeInv, TypeOK
  <2>2. SlotOf(lastQueried) \in Nat  BY <2>1, SlotOfOrder
  <2>3. CASE StoreCursor
    <3>1. lastQueried' = newest /\ cursor = lastQueried
      BY <1>3, <2>3 DEF StoreCursor, LossInv, PassInv
    <3> QED  BY <1>3, <2>3, <3>1 DEF StoreCursor, FloorInv
  <2>4. CASE ~StoreCursor
    <3>1. lastQueried' = lastQueried
      BY <1>3, <2>4 DEF Next, Environment, NewBlock, FinalizeBlock, Query,
           StartQuerying, QueryHeight, QuerySignatures, QueryPage, NothingNew,
           SkipHistory, PushNew, Process, StartProcessing, QueueDrained,
           SkipTx, FetchTx, StoreBlockNumber, AddEvent, StoreEvent, FinishTx,
           Finalize, Failure, HeightFails, QueryFails, CursorNotFound,
           ProcessFails, Crash, vars, txState
    <3> QED  BY <2>2, <3>1
  <2> QED  BY <2>3, <2>4
<1>4. Inv /\ [Next]_vars => [SlotOf(lastQueried') >= SlotOf(lastQueried)]_vars
  BY <1>3
<1> HIDE DEF Inv
<1> QED  BY <1>1, <1>2, <1>4, PTL DEF Spec, CursorSlotAdvances

-----------------------------------------------------------------------------
(* Order.  Whatever is owed and older than a queued transaction has been   *)
(* delivered or is queued before it; a queued or delivered transaction is  *)
(* on the chain.                                                           *)

FrontInv ==
  \A i \in DOMAIN queue : \A t \in Tx :
    t < queue[i] /\ Due(t) =>
      Delivered(t) \/ \E j \in DOMAIN queue : j < i /\ queue[j] = t

VisibleInv ==
  /\ \A t \in Range(queue) : ledger[t].slot <= tip
  /\ \A e \in Range(delivered) : ledger[e[1]].slot <= tip

OrderInv == LossInv /\ FrontInv /\ VisibleInv

LEMMA OrderInit == Init => OrderInv
<1> SUFFICES ASSUME Init PROVE OrderInv
  OBVIOUS
<1>1. LossInv  BY LossInit
<1>2. DOMAIN queue = {} /\ Range(queue) = {} /\ Range(delivered) = {}
  BY DEF Init, Range
<1> QED  BY <1>1, <1>2 DEF OrderInv, FrontInv, VisibleInv

(* A push puts nothing in front of an older owed transaction: CursorInv    *)
(* after the push says that everything up to the newest one is covered,    *)
(* and the batch itself is sorted.                                         *)
LEMMA PushOrder ==
  ASSUME OrderInv, CursorInv', PushNew
  PROVE  FrontInv' /\ VisibleInv'
<1> DEFINE b == OldestFirst(ToPush)
           n == Len(queue)
<1>1. /\ queue \in Seq(Tx) /\ ToPush \in SUBSET Tx /\ ToPush # {}
      /\ ToPush \in SUBSET sigs /\ TypeInv /\ LossInv
  BY PushedListed DEF OrderInv, LossInv, TypeInv, TypeOK, PushNew
<1>2. /\ b \in Seq(ToPush) /\ b \in Seq(Tx) /\ Range(b) = ToPush
      /\ \A i, j \in DOMAIN b : b[i] < b[j] => i < j
  BY <1>1, OldestFirstRange, OldestFirstSorted
<1>3. /\ queue' = queue \o b /\ newest' = Max(ToPush) /\ pc' = "cursor"
      /\ UNCHANGED <<ledger, tip, delivered>> /\ pc = "enqueue"
  BY DEF PushNew, chain
<1>4. Max(ToPush) \in ToPush /\ \A t \in ToPush : t <= Max(ToPush)
  BY <1>1, MinMaxTx
<1>5. \A t \in Tx : (Due(t)' <=> Due(t)) /\ (Delivered(t)' <=> Delivered(t))
  BY <1>3 DEF Due, Delivered, Deliverable
<1> HIDE DEF b
<1>6. /\ n \in Nat /\ Len(b) \in Nat
      /\ DOMAIN queue = 1..n /\ DOMAIN b = 1..Len(b)
      /\ DOMAIN queue' = 1..(n + Len(b))
      /\ \A i \in 1..n : queue'[i] = queue[i]
      /\ \A i \in 1..Len(b) : queue'[n + i] = b[i]
  BY ONLY <1>1, <1>2, <1>3
<1> HIDE DEF n
<1>7. ASSUME NEW i \in DOMAIN queue', NEW t \in Tx, t < queue'[i], Due(t)'
      PROVE  Delivered(t)' \/ \E j \in DOMAIN queue' : j < i /\ queue'[j] = t
  <2>1. CASE i \in 1..n
    <3>1. t < queue[i] /\ Due(t) /\ i \in DOMAIN queue
      BY <1>5, <1>6, <1>7, <2>1
    <3>2. Delivered(t) \/ \E j \in DOMAIN queue : j < i /\ queue[j] = t
      BY <3>1 DEF OrderInv, FrontInv
    <3>3. \A j \in DOMAIN queue : j \in DOMAIN queue' /\ queue'[j] = queue[j]
      BY <1>6
    <3> QED  BY <1>5, <3>2, <3>3
  <2>2. CASE i \notin 1..n
    <3> DEFINE k == i - n
    <3>1. k \in 1..Len(b) /\ i = n + k  BY <1>6, <2>2
    <3> HIDE DEF k
    <3>2. queue'[i] = b[k]  BY <1>6, <3>1
    <3>3. b[k] \in ToPush /\ b[k] \in Nat /\ t \in Nat /\ Max(ToPush) \in Nat
      <4>1. b[k] \in Range(b)  BY <1>6, <3>1 DEF Range
      <4> QED  BY <1>1, <1>2, <1>4, <4>1, ConstantTypes
    <3>4. t <= newest'
      <4>1. b[k] <= Max(ToPush) /\ t < b[k]  BY <1>4, <1>7, <3>2, <3>3
      <4> QED  BY <1>3, <3>3, <4>1
    <3>5. Covered(t)'  BY <1>3, <1>7, <3>4 DEF CursorInv
    <3>6. ASSUME t \in Range(queue')
          PROVE  \E j \in DOMAIN queue' : j < i /\ queue'[j] = t
      <4>1. PICK j \in DOMAIN queue' : queue'[j] = t  BY <3>6 DEF Range
      <4>2. CASE j \in 1..n  BY <1>6, <3>1, <4>1, <4>2
      <4>3. CASE j \notin 1..n
        <5>1. PICK l \in 1..Len(b) : j = n + l
          <6>1. j - n \in 1..Len(b) /\ j = n + (j - n)  BY <1>6, <4>3
          <6> QED  BY <6>1
        <5>2. b[l] = t  BY <1>6, <4>1, <5>1
        <5>3. l < k  BY <1>2, <1>6, <1>7, <3>1, <3>2, <5>2
        <5>4. j < i  BY <1>6, <3>1, <5>1, <5>3
        <5> QED  BY <4>1, <5>4
      <4> QED  BY <4>2, <4>3
    <3> QED  BY <3>5, <3>6 DEF Covered
  <2> QED  BY <2>1, <2>2
<1>8. FrontInv'  BY <1>7 DEF FrontInv
<1>9. VisibleInv'
  <2>1. \A t \in ToPush : ledger[t].slot <= tip
    BY <1>1, <1>3 DEF LossInv, ListingInv
  <2>2. Range(queue') = Range(queue) \cup ToPush
    BY <1>1, <1>2, <1>3, RangeConcat
  <2> QED  BY <1>3, <2>1, <2>2 DEF OrderInv, VisibleInv
<1> QED  BY <1>8, <1>9

(* Taking the front off keeps the order: when it was owed, its events have *)
(* been delivered.                                                         *)
LEMMA FinalizeOrder ==
  ASSUME OrderInv, ProcessedInv', SkipTx \/ FinishTx
  PROVE  FrontInv' /\ VisibleInv'
<1> DEFINE h == Head(queue)
<1>1. queue # <<>> /\ Finalize
  BY DEF SkipTx, FinishTx, OrderInv, LossInv, TypeInv, Busy
<1>2. queue \in Seq(Tx)  BY DEF OrderInv, LossInv, TypeInv, TypeOK
<1>3. /\ queue' = Tail(queue) /\ lastProcessed' = h
      /\ UNCHANGED <<ledger, tip, delivered>>
  BY <1>1 DEF Finalize, chain
<1>4. h \in Tx /\ Range(queue) = Range(Tail(queue)) \cup {h}
  BY <1>1, <1>2, RangeTail
<1>5. \A t \in Tx : (Due(t)' <=> Due(t)) /\ (Delivered(t)' <=> Delivered(t))
  BY <1>3 DEF Due, Delivered, Deliverable
<1>6. Due(h) => Delivered(h)
  <2>1. h # NoTx  BY <1>4 DEF Tx, NoTx
  <2>2. lastProcessed' = h /\ lastProcessed' # NoTx  BY <1>3, <2>1
  <2>3. Due(lastProcessed)' => Delivered(lastProcessed)'
    BY <2>2 DEF ProcessedInv
  <2>4. Due(lastProcessed)' <=> Due(h)  BY <1>3, <2>2 DEF Due
  <2>5. Delivered(lastProcessed)' <=> Delivered(h)
    BY <1>3, <2>2 DEF Delivered, Deliverable
  <2> QED  BY <2>3, <2>4, <2>5
<1>7. /\ Len(queue) \in Nat /\ DOMAIN queue = 1..Len(queue)
      /\ DOMAIN queue' = 1..(Len(queue) - 1)
      /\ \A i \in DOMAIN queue' : queue'[i] = queue[i + 1]
      /\ h = queue[1]
  BY ONLY <1>1, <1>2, <1>3
<1> HIDE DEF h
<1>8. ASSUME NEW i \in DOMAIN queue', NEW t \in Tx, t < queue'[i], Due(t)'
      PROVE  Delivered(t)' \/ \E j \in DOMAIN queue' : j < i /\ queue'[j] = t
  <2>1. i + 1 \in DOMAIN queue /\ t < queue[i + 1] /\ Due(t) /\ i \in Nat
    BY <1>5, <1>7, <1>8
  <2>2. Delivered(t) \/ \E j \in DOMAIN queue : j < i + 1 /\ queue[j] = t
    BY <2>1 DEF OrderInv, FrontInv
  <2>3. ASSUME NEW j \in DOMAIN queue, j < i + 1, queue[j] = t, ~Delivered(t)
        PROVE  \E k \in DOMAIN queue' : k < i /\ queue'[k] = t
    <3>1. j # 1  BY <1>6, <1>7, <2>1, <2>3
    <3>2. j - 1 \in DOMAIN queue' /\ j - 1 < i /\ (j - 1) + 1 = j
      BY <1>7, <1>8, <2>1, <2>3, <3>1
    <3>3. queue'[j - 1] = t  BY <1>7, <2>3, <3>2
    <3> QED  BY <3>2, <3>3
  <2> QED  BY <1>5, <2>2, <2>3
<1>9. FrontInv'  BY <1>8 DEF FrontInv
<1>10. VisibleInv'
  BY <1>3, <1>4 DEF OrderInv, VisibleInv
<1> QED  BY <1>9, <1>10

LEMMA OrderNext ==
  ASSUME SingleProgram
  PROVE  OrderInv /\ [Next]_vars => OrderInv'
<1> SUFFICES ASSUME OrderInv, [Next]_vars PROVE OrderInv'
  OBVIOUS
<1>1. LossInv'  BY LossNext DEF OrderInv
<1>2. SUFFICES FrontInv' /\ VisibleInv'  BY <1>1 DEF OrderInv
<1>3. CASE PushNew
  <2>1. CursorInv'  BY <1>1 DEF LossInv
  <2> QED  BY <1>3, <2>1, PushOrder
<1>4. CASE SkipTx \/ FinishTx
  <2>1. ProcessedInv'  BY <1>1 DEF LossInv, CoverInv
  <2> QED  BY <1>4, <2>1, FinalizeOrder
<1>5. CASE AddEvent
  <2> DEFINE e == <<Head(queue), next>>
  <2>1. /\ UNCHANGED <<ledger, tip, queue>> /\ delivered' = Append(delivered, e)
        /\ pc = "deliver"
    BY <1>5 DEF AddEvent, chain, txState
  <2>2. /\ queue # <<>> /\ queue \in Seq(Tx) /\ delivered \in Seq(EventId)
        /\ next \in Nat
    BY <2>1 DEF OrderInv, LossInv, TypeInv, TypeOK, Busy
  <2>3. Head(queue) \in Range(queue) /\ Head(queue) \in Tx  BY <2>2, RangeTail
  <2>4. e \in EventId /\ e[1] = Head(queue)  BY <2>2, <2>3 DEF EventId
  <2> HIDE DEF e
  <2>5. Range(delivered') = Range(delivered) \cup {e}
    BY <2>1, <2>2, <2>4, RangeAppend
  <2>6. \A t \in Tx : (Due(t)' <=> Due(t)) /\ (Delivered(t) => Delivered(t)')
    BY <2>1, <2>5 DEF Due, Delivered, Deliverable
  <2>7. FrontInv'  BY <2>1, <2>6 DEF OrderInv, FrontInv
  <2>8. VisibleInv'  BY <2>1, <2>3, <2>4, <2>5 DEF OrderInv, VisibleInv
  <2> QED  BY <2>7, <2>8
<1>6. CASE Environment
  <2>1. UNCHANGED <<ledger, queue, delivered>>
    BY <1>6 DEF Environment, NewBlock, FinalizeBlock, txState
  <2>2. tip \in Nat /\ tip' \in Nat /\ tip <= tip' /\ ledger \in Ledgers
    BY <1>6, ConstantTypes DEF Environment, NewBlock, FinalizeBlock,
                               OrderInv, LossInv, TypeInv, TypeOK
  <2>3. \A t \in Tx : ledger[t].slot <= tip => ledger[t].slot <= tip'
    <3>1. \A t \in Tx : ledger[t].slot \in Nat  BY <2>2, SlotNat
    <3> QED  BY <2>2, <3>1
  <2>4. /\ \A t \in Range(queue) : t \in Tx
        /\ \A e \in Range(delivered) : e[1] \in Tx
    <3>1. queue \in Seq(Tx) /\ delivered \in Seq(Tx \X Nat)
      BY DEF OrderInv, LossInv, TypeInv, TypeOK, EventId
    <3> QED  BY <3>1 DEF Range
  <2>5. VisibleInv'  BY <2>1, <2>3, <2>4 DEF OrderInv, VisibleInv
  <2>6. FrontInv'
    BY <2>1 DEF OrderInv, FrontInv, Due, Delivered, Deliverable
  <2> QED  BY <2>5, <2>6
<1>7. CASE UNCHANGED <<ledger, tip, queue, delivered>>
  BY <1>7 DEF OrderInv, FrontInv, VisibleInv, Due, Delivered, Deliverable
<1>8. \/ PushNew \/ SkipTx \/ FinishTx \/ AddEvent \/ Environment
      \/ UNCHANGED <<ledger, tip, queue, delivered>>
  BY DEF Next, Query, StartQuerying, QueryHeight, QuerySignatures, QueryPage,
         NothingNew, SkipHistory, StoreCursor, Process, StartProcessing,
         QueueDrained, FetchTx, StoreBlockNumber, StoreEvent, Failure,
         HeightFails, QueryFails, CursorNotFound, ProcessFails, Crash, vars,
         txState, chain
<1> QED  BY <1>3, <1>4, <1>5, <1>6, <1>7, <1>8

(* The events of the chain, as the feed sees them.                         *)
LEMMA PublishedMember ==
  ASSUME NEW e
  PROVE  e \in Published <=>
           \E t \in Tx : /\ Due(t) /\ ledger[t].slot <= tip
                         /\ \E k \in 1..Deliverable(t) : e = <<t, k>>
BY DEF Published

(* A new block publishes events at the end of the chain, and none of them  *)
(* has been delivered yet.                                                 *)
LEMMA NewBlockPublishes ==
  ASSUME OrderInv, NewBlock
  PROVE  Feed!Publish
<1>1. /\ tip \in Nat /\ tip' = tip + 1 /\ ledger \in Ledgers
      /\ ledger' = ledger /\ delivered' = delivered
  BY ConstantTypes DEF NewBlock, OrderInv, LossInv, TypeInv, TypeOK
<1>2. \A t \in Tx : ledger[t].slot \in Nat /\ t \in Nat
  BY <1>1, SlotNat, ConstantTypes
<1>3. \A t \in Tx : /\ Due(t)' <=> Due(t)
                    /\ Deliverable(t)' = Deliverable(t)
  BY <1>1 DEF Due, Deliverable
<1>4. ASSUME NEW e
      PROVE  e \in Published' <=>
               \E t \in Tx : /\ Due(t) /\ ledger[t].slot <= tip + 1
                             /\ \E k \in 1..Deliverable(t) : e = <<t, k>>
  BY <1>1, <1>3 DEF Published
<1>5. Published \subseteq Published'
  <2>1. \A t \in Tx : ledger[t].slot <= tip => ledger[t].slot <= tip + 1
    BY <1>1, <1>2
  <2> QED  BY <1>4, <2>1, PublishedMember
<1>6. ASSUME NEW e \in Published' \ Published, NEW f \in Published
      PROVE  Feed!Older(f, e)
  <2>1. PICK t \in Tx : /\ Due(t) /\ ledger[t].slot <= tip + 1
                        /\ \E k \in 1..Deliverable(t) : e = <<t, k>>
    BY <1>4, <1>6
  <2>2. PICK u \in Tx : /\ Due(u) /\ ledger[u].slot <= tip
                        /\ \E k \in 1..Deliverable(u) : f = <<u, k>>
    BY <1>6, PublishedMember
  <2>3. e[1] = t /\ f[1] = u  BY <2>1, <2>2
  <2>4. ~(ledger[t].slot <= tip)  BY <1>6, <2>1, PublishedMember
  <2>5. ~(t <= u)
    <3>1. ASSUME t <= u PROVE FALSE
      <4>1. ledger[t].slot <= ledger[u].slot  BY <1>1, <3>1, SlotOrder
      <4> QED  BY <1>1, <1>2, <2>2, <2>4, <4>1
    <3> QED  BY <3>1
  <2>6. u < t  BY <1>2, <2>5
  <2> QED  BY <2>3, <2>6 DEF Feed!Older
<1>7. Range(delivered) \cap Published' = Range(delivered) \cap Published
  <2>1. ASSUME NEW e \in Range(delivered), e \in Published'
        PROVE  e \in Published
    <3>1. PICK t \in Tx : /\ Due(t) /\ ledger[t].slot <= tip + 1
                          /\ \E k \in 1..Deliverable(t) : e = <<t, k>>
      BY <1>4, <2>1
    <3>2. ledger[e[1]].slot <= tip /\ e[1] = t
      BY <2>1, <3>1 DEF OrderInv, VisibleInv
    <3> QED  BY <3>1, <3>2, PublishedMember
  <2> QED  BY <1>5, <2>1
<1> QED  BY <1>1, <1>5, <1>6, <1>7 DEF Feed!Publish

(* An event handed over is the oldest one owed, unless it was handed over  *)
(* before or is not owed.                                                  *)
LEMMA AddEventReceives ==
  ASSUME OrderInv, AddEvent
  PROVE  \/ Feed!Receive
         \/ UNCHANGED <<Published, Range(delivered) \cap Published>>
<1> DEFINE h == Head(queue)
           e == <<h, next>>
<1>1. /\ UNCHANGED <<ledger, tip>> /\ delivered' = Append(delivered, e)
      /\ pc = "deliver"
  BY DEF AddEvent, chain
<1>2. /\ queue # <<>> /\ queue \in Seq(Tx) /\ delivered \in Seq(EventId)
      /\ next \in Nat
  BY <1>1 DEF OrderInv, LossInv, TypeInv, TypeOK, Busy
<1>3. h \in Tx /\ h \in Range(queue) /\ 1 \in DOMAIN queue /\ queue[1] = h
  <2>1. h \in Tx /\ h \in Range(queue)  BY <1>2, RangeTail
  <2>2. 1 \in DOMAIN queue /\ queue[1] = h  BY ONLY <1>2
  <2> QED  BY <2>1, <2>2
<1>4. Range(delivered') = Range(delivered) \cup {e}
  <2>1. e \in EventId  BY <1>2, <1>3 DEF EventId
  <2> HIDE DEF e
  <2> QED  BY <1>1, <1>2, <2>1, RangeAppend
<1>5. Published' = Published  BY <1>1 DEF Published, Due, Deliverable
<1>6. ASSUME NEW t \in Tx, t < h, Due(t) PROVE Delivered(t)
  <2>1. Delivered(t) \/ \E j \in DOMAIN queue : j < 1 /\ queue[j] = t
    BY <1>3, <1>6 DEF OrderInv, FrontInv
  <2>2. \A j \in DOMAIN queue : ~(j < 1)  BY ONLY <1>2
  <2> QED  BY <2>1, <2>2
<1>7. ASSUME NEW f \in Published, Feed!Older(f, e) PROVE f \in Range(delivered)
  <2>1. PICK t \in Tx : /\ Due(t) /\ ledger[t].slot <= tip
                        /\ \E k \in 1..Deliverable(t) : f = <<t, k>>
    BY PublishedMember
  <2>2. PICK k \in 1..Deliverable(t) : f = <<t, k>>  BY <2>1
  <2>3. t < h \/ (t = h /\ k < next)  BY <1>7, <2>2 DEF Feed!Older
  <2>4. CASE t < h  BY <1>6, <2>1, <2>2, <2>4 DEF Delivered
  <2>5. CASE t = h /\ k < next
    <3>1. Deliverable(t) \in Nat
      BY <2>1, ConstantTypes DEF Deliverable, OrderInv, LossInv, TypeInv, TypeOK
    <3>2. k \in 1..(next - 1)  BY <1>2, <2>2, <2>5, <3>1
    <3>3. <<h, k>> \in Range(delivered)
      BY <1>1, <3>2 DEF OrderInv, LossInv, EventInv
    <3> QED  BY <2>2, <2>5, <3>3
  <2> QED  BY <2>3, <2>4, <2>5
<1> HIDE DEF e, h
<1>8. CASE e \in Published /\ e \notin Range(delivered)
  <2>1. e \in Published \ (Range(delivered) \cap Published)  BY <1>8
  <2>2. Range(delivered') \cap Published' =
          (Range(delivered) \cap Published) \cup {e}
    BY <1>4, <1>5, <1>8
  <2> QED  BY <1>5, <1>7, <2>1, <2>2 DEF Feed!Receive
<1>9. CASE e \notin Published \/ e \in Range(delivered)
  BY <1>4, <1>5, <1>9
<1> QED  BY <1>8, <1>9

(* With one tracked program, whatever the chain, the page size, the        *)
(* commitment, the start slot and the faults: runTransactionPolling        *)
(* implements the ordered feed.  Crashes, retries, lost cursors and failed *)
(* writes may repeat an event, never reorder first deliveries or leave a   *)
(* gap.                                                                    *)
THEOREM FeedInOrder ==
  ASSUME SingleProgram
  PROVE  Spec => DeliversInOrder
<1>1. Init => OrderInv  BY OrderInit
<1>2. OrderInv /\ [Next]_vars => OrderInv'  BY OrderNext
<1>3. Init => Feed!Init
  <2>1. Init => Range(delivered) = {}  BY DEF Init, Range
  <2> QED  BY <2>1 DEF Feed!Init
<1>4. ASSUME OrderInv, [Next]_vars
      PROVE  [Feed!Next]_<<Published, Range(delivered) \cap Published>>
  <2>1. CASE NewBlock  BY <1>4, <2>1, NewBlockPublishes DEF Feed!Next
  <2>2. CASE AddEvent  BY <1>4, <2>2, AddEventReceives DEF Feed!Next
  <2>3. CASE UNCHANGED <<ledger, tip, delivered>>
    BY <2>3 DEF Published, Due, Deliverable
  <2>4. NewBlock \/ AddEvent \/ UNCHANGED <<ledger, tip, delivered>>
    BY <1>4 DEF Next, Environment, FinalizeBlock, Query, StartQuerying,
         QueryHeight, QuerySignatures, QueryPage, NothingNew, SkipHistory,
         PushNew, StoreCursor, Process, StartProcessing, QueueDrained, SkipTx,
         FetchTx, StoreBlockNumber, StoreEvent, FinishTx, Finalize, Failure,
         HeightFails, QueryFails, CursorNotFound, ProcessFails, Crash, vars,
         chain
  <2> QED  BY <2>1, <2>2, <2>3, <2>4
<1>5. OrderInv /\ [Next]_vars =>
        [Feed!Next]_<<Published, Range(delivered) \cap Published>>
  BY <1>4
<1> QED  BY <1>1, <1>2, <1>3, <1>5, PTL DEF Spec, DeliversInOrder, Feed!Spec

-----------------------------------------------------------------------------
(* The markers.  From here on the process does not stop and its writes     *)
(* succeed; the RPC node may fail and may lose the cursor.                 *)

StoreReliable == Faults \subseteq {"rpc", "cursor"}

(* The transaction the cursor is at, or is about to move to.               *)
Target == IF pc = "cursor" THEN newest ELSE lastQueried

(* The cursor is at the last queued transaction, or at the last processed  *)
(* one when nothing is queued; nothing is queued while a pass lists.       *)
BacklogInv ==
  /\ Target = IF queue = <<>> THEN lastProcessed ELSE queue[Len(queue)]
  /\ pc \in {"program", "signatures", "page", "enqueue"} => queue = <<>>

(* Without store failures only listings and fetches are given up halfway.  *)
LEMMA ReliableSteps ==
  ASSUME StoreReliable
  PROVE  /\ ~Crash
         /\ QueryFails => pc \in {"signatures", "page"}
         /\ ProcessFails => pc \in {"fetch", "block"}
BY DEF StoreReliable, Crash, QueryFails, ProcessFails, Fault

LEMMA BacklogInit == Init => BacklogInv
BY DEF Init, BacklogInv, Target

LEMMA BacklogNext ==
  ASSUME SingleProgram, StoreReliable, LossInv, QueueInv, BacklogInv, [Next]_vars
  PROVE  BacklogInv'
<1>1. /\ queue \in Seq(Tx) /\ TypeInv /\ PassInv
      /\ lastProcessed \notin Range(queue)
  BY DEF LossInv, TypeInv, TypeOK, QueueInv, QueuedOnce
<1>2. queue # <<>> => queue[Len(queue)] \in Range(queue)
  <2>1. queue # <<>> => Len(queue) \in DOMAIN queue  BY ONLY <1>1
  <2> QED  BY <2>1 DEF Range
<1>3. CASE PushNew
  <2> DEFINE b == OldestFirst(ToPush)
  <2>1. ToPush \in SUBSET Tx /\ ToPush # {}
    BY <1>1, <1>3, PushedListed DEF PushNew
  <2>2. /\ b \in Seq(Tx) /\ Len(b) \in DOMAIN b /\ b[Len(b)] = Max(ToPush)
    BY <2>1, OldestFirstRange, OldestFirstSorted
  <2>3. /\ queue' = queue \o b /\ queue = <<>> /\ pc' = "cursor"
        /\ newest' = Max(ToPush)
    BY <1>3 DEF PushNew, BacklogInv
  <2> HIDE DEF b
  <2>4. queue' = b /\ b # <<>>  BY <2>2, <2>3
  <2> QED  BY <2>2, <2>3, <2>4 DEF BacklogInv, Target
<1>4. CASE SkipHistory
  <2>1. /\ queue' = queue /\ queue = <<>> /\ pc' = "cursor"
        /\ newest' = lastProcessed'
    BY <1>4 DEF SkipHistory, BacklogInv
  <2> QED  BY <2>1 DEF BacklogInv, Target
<1>5. CASE StoreCursor
  <2>1. /\ pc = "cursor" /\ pc' = "pass" /\ lastQueried' = newest
        /\ UNCHANGED <<queue, lastProcessed>>
    BY <1>1, <1>5 DEF StoreCursor, NextProgram, PassInv
  <2> QED  BY <2>1 DEF BacklogInv, Target
<1>6. CASE SkipTx \/ FinishTx
  <2>1. queue # <<>> /\ Finalize /\ pc \in {"fetch", "finish"}
    BY <1>1, <1>6 DEF SkipTx, FinishTx, TypeInv, Busy
  <2>2. /\ queue' = Tail(queue) /\ lastProcessed' = Head(queue)
        /\ lastQueried' = lastQueried /\ pc' = "pass"
    BY <2>1 DEF Finalize
  <2>3. lastQueried = queue[Len(queue)]  BY <2>1 DEF BacklogInv, Target
  <2>4. IF Tail(queue) = <<>>
          THEN Head(queue) = queue[Len(queue)]
          ELSE Tail(queue)[Len(Tail(queue))] = queue[Len(queue)]
    <3>1. /\ Len(queue) \in Nat /\ Len(queue) # 0 /\ Head(queue) = queue[1]
          /\ Tail(queue) \in Seq(Tx) /\ Len(Tail(queue)) = Len(queue) - 1
          /\ \A i \in 1..(Len(queue) - 1) : Tail(queue)[i] = queue[i + 1]
      BY ONLY <1>1, <2>1
    <3>2. CASE Len(queue) = 1
      <4>1. Tail(queue) = <<>>
        <5> DEFINE r == Tail(queue)
        <5>1. r \in Seq(Tx) /\ Len(r) = 0  BY <3>1, <3>2
        <5> HIDE DEF r
        <5>2. r = <<>>  BY ONLY <5>1
        <5> QED  BY <5>2 DEF r
      <4> QED  BY ONLY <3>1, <3>2, <4>1
    <3>3. CASE Len(queue) # 1
      <4>1. /\ Len(queue) - 1 \in 1..(Len(queue) - 1)
            /\ (Len(queue) - 1) + 1 = Len(queue)
            /\ Len(Tail(queue)) # 0
        BY <3>1, <3>3
      <4>2. Tail(queue) # <<>>  BY <4>1
      <4>3. Tail(queue)[Len(queue) - 1] = queue[Len(queue)]  BY <3>1, <4>1
      <4> QED  BY <3>1, <4>2, <4>3
    <3> QED  BY <3>2, <3>3
  <2> QED  BY <2>2, <2>3, <2>4 DEF BacklogInv, Target
<1>7. CASE StartQuerying
  <2>1. /\ UNCHANGED <<queue, lastProcessed, lastQueried>>
        /\ pc = "pass" /\ pc' = "program" /\ lastQueried = lastProcessed
    BY <1>7 DEF StartQuerying, txState
  <2>2. queue = <<>>  BY <1>1, <1>2, <2>1 DEF BacklogInv, Target
  <2> QED  BY <2>1, <2>2 DEF BacklogInv, Target
<1>8. CASE \/ QueryHeight \/ QuerySignatures \/ QueryPage \/ NothingNew
           \/ HeightFails \/ QueryFails \/ CursorNotFound
  <2>1. UNCHANGED <<queue, lastProcessed, lastQueried>>
    BY <1>8 DEF QueryHeight, QuerySignatures, QueryPage, NothingNew,
                HeightFails, QueryFails, CursorNotFound, txState
  <2>2. pc \in {"program", "signatures", "page", "enqueue"} /\ pc' # "cursor"
    BY <1>8, ReliableSteps
       DEF QueryHeight, QuerySignatures, QueryPage, NothingNew, HeightFails,
           QueryFails, CursorNotFound, NextProgram
  <2> QED  BY <2>1, <2>2 DEF BacklogInv, Target
<1>9. CASE \/ StartProcessing \/ QueueDrained \/ FetchTx \/ StoreBlockNumber
           \/ AddEvent \/ StoreEvent \/ ProcessFails
  <2>1. /\ UNCHANGED <<queue, lastProcessed, lastQueried>>
        /\ pc # "cursor"
        /\ pc' \in {"pass", "fetch", "block", "deliver", "record", "finish"}
    BY <1>9, ReliableSteps
       DEF StartProcessing, QueueDrained, FetchTx, StoreBlockNumber, AddEvent,
           StoreEvent, ProcessFails, txState
  <2> QED  BY <2>1 DEF BacklogInv, Target
<1>10. CASE Environment \/ UNCHANGED vars
  <2>1. UNCHANGED <<queue, lastProcessed, lastQueried, pc, newest>>
    BY <1>10 DEF Environment, NewBlock, FinalizeBlock, vars, txState, listing
  <2> QED  BY <2>1 DEF BacklogInv, Target
<1> QED
  BY <1>3, <1>4, <1>5, <1>6, <1>7, <1>8, <1>9, <1>10, ReliableSteps
     DEF Next, Query, Process, Failure

(* When the store does not fail, the two markers runTransactionPolling     *)
(* compares differ between passes exactly when transactions are queued:    *)
(* work is neither forgotten nor looked for in vain.                       *)
THEOREM MarkersExact ==
  ASSUME SingleProgram, StoreReliable
  PROVE  Spec => []MarkersTellBacklog
<1> DEFINE Inv == LossInv /\ QueueInv /\ BacklogInv
<1>1. Init => Inv
  BY LossInit, QueueInit, BacklogInit
<1>2. Inv /\ [Next]_vars => Inv'
  <2>1. ASSUME Inv, [Next]_vars PROVE Inv'
    <3>1. LossInv'  BY <2>1, LossNext
    <3>2. QueueInv'
      BY <2>1, <3>1, QueueStep DEF QueueInv, LossInv
    <3>3. BacklogInv'  BY <2>1, BacklogNext
    <3> QED  BY <3>1, <3>2, <3>3
  <2> QED  BY <2>1
<1>3. Inv => MarkersTellBacklog
  <2> SUFFICES ASSUME Inv PROVE MarkersTellBacklog
    OBVIOUS
  <2>1. queue \in Seq(Tx) /\ lastProcessed \notin Range(queue)
    BY DEF LossInv, TypeInv, TypeOK, QueueInv, QueuedOnce
  <2>2. queue # <<>> => queue[Len(queue)] \in Range(queue)
    <3>1. queue # <<>> => Len(queue) \in DOMAIN queue  BY ONLY <2>1
    <3> QED  BY <3>1 DEF Range
  <2> QED  BY <2>1, <2>2 DEF MarkersTellBacklog, BacklogInv, Target
<1> HIDE DEF Inv
<1> QED  BY <1>1, <1>2, <1>3, PTL DEF Spec

-----------------------------------------------------------------------------
(* Records.  Without store failures an event that was handed over is       *)
(* recorded before anything else happens, and a transaction whose last     *)
(* event is recorded is not queued again: the listing keeps nothing older  *)
(* than the cursor's slot, and recognises what is recorded in that slot.   *)

(* A transaction all of whose events are recorded waits no longer.         *)
UnrecordedInv ==
  \A t \in Range(queue) :
    <<t, ledger[t].emits>> \in Range(stored) =>
      pc = "finish" /\ t = Head(queue)

RecordInv ==
  /\ \A e \in Range(delivered) :
       e \in Range(stored) \/ (pc = "record" /\ e = <<Head(queue), next>>)
  /\ pc \in {"block", "deliver", "record"} => next <= ledger[Head(queue)].emits
  /\ UnrecordedInv
  /\ \A t \in Range(queue) : SlotOf(t) <= SlotOf(Target)
  /\ \A e \in Range(stored) : SlotOf(e[1]) <= SlotOf(lastQueried)

LEMMA RecordInit == Init => RecordInv
<1> SUFFICES ASSUME Init PROVE RecordInv
  OBVIOUS
<1>1. Range(queue) = {} /\ Range(delivered) = {} /\ Range(stored) = {}
  BY DEF Init, Range
<1> QED  BY <1>1 DEF Init, RecordInv, UnrecordedInv

(* A push queues nothing whose events are recorded.                        *)
LEMMA PushRecord ==
  ASSUME LossInv, FloorInv, BacklogInv, RecordInv, PushNew
  PROVE  RecordInv'
<1>1. /\ ledger \in Ledgers /\ TypeInv /\ stored \in Seq(EventId)
      /\ cursor = lastQueried /\ cursor \in TxOrNone /\ pc = "enqueue"
      /\ queue = <<>>
  BY DEF LossInv, TypeInv, TypeOK, PassInv, PushNew, BacklogInv
<1>2. /\ queue' = queue \o OldestFirst(ToPush) /\ newest' = Max(ToPush)
      /\ pc' = "cursor"
      /\ UNCHANGED <<ledger, lastQueried, stored, delivered, next>>
  BY DEF PushNew, chain
<1>3. /\ ToPush \in SUBSET Tx /\ ToPush # {} /\ ToPush \in SUBSET Fresh
      /\ ToPush \in SUBSET sigs
  BY <1>1, PushedListed DEF PushNew, ToPush
<1>4. Range(queue') = ToPush
  <2>1. OldestFirst(ToPush) \in Seq(Tx) /\ Range(OldestFirst(ToPush)) = ToPush
    BY <1>3, OldestFirstRange
  <2>2. queue' = OldestFirst(ToPush)  BY <1>1, <1>2, <2>1
  <2> QED  BY <2>1, <2>2
<1>5. ASSUME NEW t \in ToPush, <<t, ledger[t].emits>> \in Range(stored)
      PROVE  FALSE
  <2>1. t \in Tx /\ t \in sigs /\ t \notin Queued /\ t \in TxOrNone
    BY <1>3, ConstantTypes DEF Fresh
  <2>2. SlotOf(t) <= SlotOf(cursor)
    <3>1. <<t, ledger[t].emits>>[1] = t  OBVIOUS
    <3> QED  BY <1>1, <1>5, <3>1 DEF RecordInv
  <2>3. SlotOf(t) >= SlotOf(cursor)  BY <1>1, <2>1 DEF FloorInv
  <2>4. SlotOf(t) = SlotOf(cursor)
    <3>1. SlotOf(t) \in Nat /\ SlotOf(cursor) \in Nat
      BY <1>1, <2>1, SlotOfOrder
    <3> QED  BY <2>2, <2>3, <3>1
  <2>5. t \in {e[1] : e \in Range(stored)}
    <3>1. <<t, ledger[t].emits>>[1] = t  OBVIOUS
    <3> QED  BY <1>5, <3>1
  <2>6. t \in Queued  BY <2>4, <2>5 DEF Queued
  <2> QED  BY <2>1, <2>6
<1>6. \A t \in ToPush : SlotOf(t) <= SlotOf(Max(ToPush))
  <2>1. Max(ToPush) \in ToPush /\ \A t \in ToPush : t <= Max(ToPush)
    BY <1>3, MinMaxTx
  <2>2. \A t \in ToPush : t \in TxOrNone  BY <1>3, ConstantTypes
  <2> QED  BY <1>1, <2>1, <2>2, SlotOfOrder
<1>7. UnrecordedInv'  BY <1>2, <1>4, <1>5 DEF UnrecordedInv
<1>8. \A t \in Range(queue') : SlotOf(t)' <= SlotOf(Target)'
  BY <1>2, <1>4, <1>6 DEF SlotOf, Target
<1>9. \A e \in Range(stored') : SlotOf(e[1])' <= SlotOf(lastQueried)'
  BY <1>2 DEF RecordInv, SlotOf
<1>10. \A e \in Range(delivered') : e \in Range(stored')
  BY <1>1, <1>2 DEF RecordInv
<1> QED  BY <1>2, <1>7, <1>8, <1>9, <1>10 DEF RecordInv

(* The event handed over is recorded; the last one ends the transaction.   *)
LEMMA StoreRecord ==
  ASSUME LossInv, RecordInv, StoreEvent
  PROVE  RecordInv'
<1> DEFINE h == Head(queue)
           e == <<h, next>>
<1>1. /\ pc = "record" /\ stored' = Append(stored, e) /\ next' = next + 1
      /\ pc' = IF next < ledger[h].emits THEN "block" ELSE "finish"
      /\ UNCHANGED <<ledger, queue, lastQueried, delivered>>
  BY DEF StoreEvent, chain, txState
<1>2. /\ queue # <<>> /\ queue \in Seq(Tx) /\ stored \in Seq(EventId)
      /\ next \in Nat /\ ledger \in Ledgers
  BY <1>1 DEF LossInv, TypeInv, TypeOK, Busy
<1>3. h \in Tx /\ h \in Range(queue)  BY <1>2, RangeTail
<1>4. e \in EventId /\ e[1] = h  BY <1>2, <1>3 DEF EventId
<1>5. Range(stored') = Range(stored) \cup {e}
  <2> HIDE DEF e
  <2> QED  BY <1>1, <1>2, <1>4, RangeAppend
<1>6. ledger[h].emits \in Nat  BY <1>2, <1>3, ConstantTypes
<1>7. \A f \in Range(delivered') : f \in Range(stored')
  BY <1>1, <1>5 DEF RecordInv
<1>8. pc' \in {"block", "deliver", "record"} => next' <= ledger[h].emits
  BY <1>1, <1>2, <1>6
<1>9. ASSUME NEW t \in Range(queue), <<t, ledger[t].emits>> \in Range(stored')
      PROVE  pc' = "finish" /\ t = h
  <2>1. <<t, ledger[t].emits>> \notin Range(stored)
    BY <1>1 DEF RecordInv, UnrecordedInv
  <2>2. <<t, ledger[t].emits>> = e  BY <1>5, <1>9, <2>1
  <2>3. t = h /\ ledger[h].emits = next  BY <2>2
  <2> QED  BY <1>1, <1>2, <2>3
<1>10. \A t \in Range(queue') : SlotOf(t)' <= SlotOf(Target)'
  BY <1>1 DEF RecordInv, SlotOf, Target
<1>11. \A f \in Range(stored') : SlotOf(f[1])' <= SlotOf(lastQueried)'
  <2>1. SlotOf(h) <= SlotOf(lastQueried)  BY <1>1, <1>3 DEF RecordInv, Target
  <2>2. \A f \in Range(stored') : SlotOf(f[1]) <= SlotOf(lastQueried)
    BY <1>4, <1>5, <2>1 DEF RecordInv
  <2> QED  BY <1>1, <2>2 DEF SlotOf
<1>12. UnrecordedInv'
  <2> HIDE DEF h
  <2> QED  BY <1>1, <1>9 DEF UnrecordedInv, h
<1>13. pc' \in {"block", "deliver", "record"} =>
         next' <= ledger'[Head(queue')].emits
  BY <1>1, <1>8
<1> QED  BY <1>7, <1>10, <1>11, <1>12, <1>13 DEF RecordInv

LEMMA RecordNext ==
  ASSUME SingleProgram, StoreReliable, LossInv, QueueInv, FloorInv, BacklogInv,
         RecordInv, [Next]_vars
  PROVE  RecordInv'
<1>1. CASE PushNew  BY <1>1, PushRecord
<1>2. CASE StoreEvent  BY <1>2, StoreRecord
<1>3. CASE SkipHistory
  <2>1. /\ pc = "enqueue" /\ pc' = "cursor" /\ queue' = queue /\ queue = <<>>
        /\ UNCHANGED <<ledger, lastQueried, stored, delivered>>
    BY <1>3 DEF SkipHistory, chain, BacklogInv
  <2>2. Range(queue') = {}  BY <2>1 DEF Range
  <2> QED  BY <2>1, <2>2 DEF RecordInv, UnrecordedInv, SlotOf
<1>4. CASE StoreCursor
  <2>1. /\ pc = "cursor" /\ pc' = "pass" /\ lastQueried' = newest
        /\ UNCHANGED <<ledger, queue, stored, delivered>>
        /\ cursor = lastQueried
    BY <1>4 DEF StoreCursor, NextProgram, LossInv, PassInv, chain
  <2>2. SlotOf(newest) >= SlotOf(lastQueried)  BY <2>1 DEF FloorInv
  <2>3. \A e \in Range(stored) : SlotOf(e[1]) <= SlotOf(newest)
    <3>1. /\ ledger \in Ledgers /\ newest \in TxOrNone
          /\ lastQueried \in TxOrNone
          /\ \A e \in Range(stored) : e[1] \in TxOrNone
      <4>1. stored \in Seq(Tx \X Nat)  BY DEF LossInv, TypeInv, TypeOK, EventId
      <4>2. \A e \in Range(stored) : e[1] \in Tx  BY <4>1 DEF Range
      <4> QED  BY <4>2, ConstantTypes DEF LossInv, TypeInv, TypeOK
    <3>2. /\ SlotOf(newest) \in Nat /\ SlotOf(lastQueried) \in Nat
          /\ \A e \in Range(stored) : SlotOf(e[1]) \in Nat
      BY <3>1, SlotOfOrder
    <3>3. \A e \in Range(stored) : SlotOf(e[1]) <= SlotOf(lastQueried)
      BY DEF RecordInv
    <3> QED  BY <2>2, <3>2, <3>3
  <2>4. \A t \in Range(queue) : SlotOf(t) <= SlotOf(newest)
    BY <2>1 DEF RecordInv, Target
  <2>5. /\ \A t \in Range(queue') : SlotOf(t)' <= SlotOf(Target)'
        /\ \A e \in Range(stored') : SlotOf(e[1])' <= SlotOf(lastQueried)'
    BY <2>1, <2>3, <2>4 DEF SlotOf, Target
  <2> QED  BY <2>1, <2>5 DEF RecordInv, UnrecordedInv
<1>5. CASE SkipTx \/ FinishTx
  <2>1. queue # <<>> /\ Finalize /\ pc \in {"fetch", "finish"}
    BY <1>5 DEF SkipTx, FinishTx, LossInv, TypeInv, Busy
  <2>2. /\ queue' = Tail(queue) /\ pc' = "pass"
        /\ UNCHANGED <<ledger, lastQueried, stored, delivered>>
    BY <2>1 DEF Finalize, chain
  <2>3. queue \in Seq(Tx) /\ Distinct(queue)
    BY DEF LossInv, TypeInv, TypeOK, QueueInv, QueuedOnce, Distinct
  <2>4. /\ Range(queue) = Range(Tail(queue)) \cup {Head(queue)}
        /\ Head(queue) \notin Range(Tail(queue))
    BY <2>1, <2>3, RangeTail, DistinctTail
  <2>5. UnrecordedInv'
    BY <2>2, <2>4 DEF RecordInv, UnrecordedInv
  <2>6. \A t \in Range(queue') : SlotOf(t)' <= SlotOf(Target)'
    BY <2>1, <2>2, <2>4 DEF RecordInv, SlotOf, Target
  <2> QED  BY <2>1, <2>2, <2>5, <2>6 DEF RecordInv, SlotOf
<1>6. CASE AddEvent
  <2> DEFINE e == <<Head(queue), next>>
  <2>1. /\ pc = "deliver" /\ pc' = "record" /\ delivered' = Append(delivered, e)
        /\ UNCHANGED <<ledger, queue, lastQueried, stored, next>>
    BY <1>6 DEF AddEvent, chain, txState
  <2>2. /\ queue # <<>> /\ queue \in Seq(Tx) /\ delivered \in Seq(EventId)
        /\ next \in Nat
    BY <2>1 DEF LossInv, TypeInv, TypeOK, Busy
  <2>3. Head(queue) \in Tx  BY <2>2, RangeTail
  <2>4. e \in EventId  BY <2>2, <2>3 DEF EventId
  <2>5. Range(delivered') = Range(delivered) \cup {e}
    <3> HIDE DEF e
    <3> QED  BY <2>1, <2>2, <2>4, RangeAppend
  <2>6. \A f \in Range(delivered') : f \in Range(stored') \/ f = e
    BY <2>1, <2>5 DEF RecordInv
  <2>7. /\ \A t \in Range(queue') : SlotOf(t)' <= SlotOf(Target)'
        /\ \A f \in Range(stored') : SlotOf(f[1])' <= SlotOf(lastQueried)'
    BY <2>1 DEF RecordInv, SlotOf, Target
  <2>8. UnrecordedInv'  BY <2>1 DEF RecordInv, UnrecordedInv
  <2> QED  BY <2>1, <2>6, <2>7, <2>8 DEF RecordInv
(* The remaining steps change neither the queue nor the records.           *)
<1>7. ASSUME UNCHANGED <<ledger, queue, lastQueried, stored, delivered>>,
             pc \notin {"record", "finish", "cursor"}, pc' # "cursor",
             pc' \in {"block", "deliver", "record"} =>
               next' <= ledger[Head(queue)].emits
      PROVE  RecordInv'
  <2>1. \A t \in Range(queue') : SlotOf(t)' <= SlotOf(Target)'
    BY <1>7 DEF RecordInv, SlotOf, Target
  <2>2. \A e \in Range(stored') : SlotOf(e[1])' <= SlotOf(lastQueried)'
    BY <1>7 DEF RecordInv, SlotOf
  <2>3. UnrecordedInv'  BY <1>7 DEF RecordInv, UnrecordedInv
  <2>4. \A e \in Range(delivered') : e \in Range(stored')
    BY <1>7 DEF RecordInv
  <2>5. pc' \in {"block", "deliver", "record"} =>
          next' <= ledger'[Head(queue')].emits
    BY <1>7
  <2> QED  BY <2>1, <2>2, <2>3, <2>4, <2>5 DEF RecordInv
<1>8. CASE \/ StartQuerying \/ QueryHeight \/ QuerySignatures \/ QueryPage
           \/ NothingNew \/ HeightFails \/ QueryFails \/ CursorNotFound
           \/ StartProcessing \/ QueueDrained \/ ProcessFails
  <2>1. UNCHANGED <<ledger, queue, lastQueried, stored, delivered>>
    BY <1>8 DEF StartQuerying, QueryHeight, QuerySignatures, QueryPage,
         NothingNew, HeightFails, QueryFails, CursorNotFound, StartProcessing,
         QueueDrained, ProcessFails, txState, chain
  <2>2. /\ pc \notin {"record", "finish", "cursor"}
        /\ pc' \in {"pass", "program", "signatures", "page", "enqueue", "fetch"}
    BY <1>8, ReliableSteps
       DEF StartQuerying, QueryHeight, QuerySignatures, QueryPage, NothingNew,
         HeightFails, QueryFails, CursorNotFound, StartProcessing,
         QueueDrained, ProcessFails, NextProgram
  <2> QED  BY <1>7, <2>1, <2>2
<1>9. CASE FetchTx
  <2>1. /\ UNCHANGED <<ledger, queue, lastQueried, stored, delivered, next>>
        /\ pc = "fetch" /\ pc' \in {"block", "finish"} /\ next = 1
        /\ pc' = "block" => ledger[Head(queue)].emits # 0
        /\ queue # <<>>
    BY <1>9 DEF FetchTx, txState, chain, LossInv, EventInv
  <2>2. ledger[Head(queue)].emits \in Nat
    <3>1. Head(queue) \in Tx  BY <2>1, RangeTail DEF LossInv, TypeInv, TypeOK
    <3> QED  BY <3>1, ConstantTypes DEF LossInv, TypeInv, TypeOK
  <2>3. pc' = "block" => next' <= ledger[Head(queue)].emits  BY <2>1, <2>2
  <2> QED  BY <1>7, <2>1, <2>3
<1>10. CASE StoreBlockNumber
  <2>1. /\ UNCHANGED <<ledger, queue, lastQueried, stored, delivered, next>>
        /\ pc = "block" /\ pc' = "deliver"
    BY <1>10 DEF StoreBlockNumber, txState, chain
  <2>2. next' <= ledger[Head(queue)].emits  BY <2>1 DEF RecordInv
  <2> QED  BY <1>7, <2>1, <2>2
<1>11. CASE Environment \/ UNCHANGED vars
  <2>1. UNCHANGED <<ledger, queue, lastQueried, stored, delivered, pc, newest,
                    next>>
    BY <1>11 DEF Environment, NewBlock, FinalizeBlock, vars, chain, txState,
                 listing
  <2> QED  BY <2>1 DEF RecordInv, UnrecordedInv, SlotOf, Target
<1> QED
  BY <1>1, <1>2, <1>3, <1>4, <1>5, <1>6, <1>8, <1>9, <1>10, <1>11, ReliableSteps
     DEF Next, Query, Process, Failure

(* The invariants of a loop whose store does not fail.                     *)
SteadyInv ==
  /\ OrderInv /\ QueueInv /\ FloorInv /\ BacklogInv /\ RecordInv

LEMMA SteadyInit == Init => SteadyInv
BY OrderInit, QueueInit, FloorInit, BacklogInit, RecordInit DEF SteadyInv

LEMMA SteadyNext ==
  ASSUME SingleProgram, StoreReliable
  PROVE  SteadyInv /\ [Next]_vars => SteadyInv'
<1> SUFFICES ASSUME SteadyInv, [Next]_vars PROVE SteadyInv'
  OBVIOUS
<1>1. /\ OrderInv /\ QueueInv /\ FloorInv /\ BacklogInv /\ RecordInv
      /\ LossInv /\ TypeInv
  BY DEF SteadyInv, OrderInv, LossInv
<1>2. OrderInv'  BY <1>1, OrderNext
<1>3. TypeInv'  BY <1>2 DEF OrderInv, LossInv
<1>4. QueueInv'  BY <1>1, <1>3, QueueStep DEF QueueInv
<1>5. FloorInv'  BY <1>1, FloorNext
<1>6. BacklogInv'  BY <1>1, BacklogNext
<1>7. RecordInv'  BY <1>1, RecordNext
<1> QED  BY <1>2, <1>4, <1>5, <1>6, <1>7 DEF SteadyInv

(* A transaction emits at most one event.                                  *)
OneEventEach == \A l \in Ledgers : \A t \in Tx : l[t].emits <= 1

(* When the store does not fail and no transaction emits several events    *)
(* (a failed fetch between two events starts the transaction over), no     *)
(* event reaches the subscriber twice, however often the node loses the    *)
(* cursor and the listing falls back to the cursor's slot.                 *)
THEOREM DeliveredOnce ==
  ASSUME SingleProgram, StoreReliable, OneEventEach
  PROVE  Spec => []NoRepeat
<1> DEFINE Inv == SteadyInv /\ NoRepeat
<1>1. Init => Inv
  <2>1. Init => NoRepeat
    <3> SUFFICES ASSUME Init PROVE NoRepeat
      OBVIOUS
    <3>1. DOMAIN delivered = {}  BY DEF Init
    <3> QED  BY <3>1 DEF NoRepeat
  <2> QED  BY <2>1, SteadyInit
<1>2. Inv /\ [Next]_vars => Inv'
  <2> SUFFICES ASSUME Inv, [Next]_vars PROVE Inv'
    OBVIOUS
  <2>1. SteadyInv'  BY SteadyNext
  <2>2. CASE AddEvent
    <3> DEFINE e == <<Head(queue), next>>
    <3>1. LossInv /\ RecordInv  BY DEF SteadyInv, OrderInv
    <3>2. pc = "deliver" /\ delivered' = Append(delivered, e)
      BY <2>2 DEF AddEvent
    <3>3. /\ queue # <<>> /\ queue \in Seq(Tx) /\ delivered \in Seq(EventId)
          /\ next \in Nat /\ ledger \in Ledgers /\ next >= 1
      BY <3>1, <3>2 DEF LossInv, TypeInv, TypeOK, Busy, EventInv
    <3>4. Head(queue) \in Tx /\ Head(queue) \in Range(queue)
      BY <3>3, RangeTail
    <3>5. next = ledger[Head(queue)].emits
      <4>1. next <= ledger[Head(queue)].emits  BY <3>1, <3>2 DEF RecordInv
      <4>2. ledger[Head(queue)].emits <= 1  BY <3>3, <3>4 DEF OneEventEach
      <4>3. ledger[Head(queue)].emits \in Nat  BY <3>3, <3>4, ConstantTypes
      <4> QED  BY <3>3, <4>1, <4>2, <4>3
    <3>6. e \notin Range(delivered)
      <4>1. ASSUME e \in Range(delivered) PROVE FALSE
        <5>1. e \in Range(stored)  BY <3>1, <3>2, <4>1 DEF RecordInv
        <5> QED  BY <3>1, <3>2, <3>4, <3>5, <5>1 DEF RecordInv, UnrecordedInv
      <4> QED  BY <4>1
    <3>7. e \in EventId  BY <3>3, <3>4 DEF EventId
    <3> HIDE DEF e
    <3>8. /\ Len(delivered) \in Nat
          /\ DOMAIN delivered = 1..Len(delivered)
          /\ DOMAIN delivered' = 1..(Len(delivered) + 1)
          /\ \A i \in DOMAIN delivered : delivered'[i] = delivered[i]
          /\ delivered'[Len(delivered) + 1] = e
      BY ONLY <3>2, <3>3, <3>7
    <3>9. \A i \in DOMAIN delivered : delivered[i] # e  BY <3>6 DEF Range
    <3>10. ASSUME NEW i \in DOMAIN delivered', NEW j \in DOMAIN delivered', i # j
           PROVE  delivered'[i] # delivered'[j]
      <4>1. CASE i \in DOMAIN delivered /\ j \in DOMAIN delivered
        BY <3>8, <3>10, <4>1 DEF NoRepeat
      <4>2. CASE i \notin DOMAIN delivered
        <5>1. i = Len(delivered) + 1 /\ j \in DOMAIN delivered
          BY <3>8, <3>10, <4>2
        <5> QED  BY <3>8, <3>9, <5>1
      <4>3. CASE j \notin DOMAIN delivered
        <5>1. j = Len(delivered) + 1 /\ i \in DOMAIN delivered
          BY <3>8, <3>10, <4>3
        <5> QED  BY <3>8, <3>9, <5>1
      <4> QED  BY <4>1, <4>2, <4>3
    <3>11. NoRepeat'  BY <3>10 DEF NoRepeat
    <3> QED  BY <2>1, <3>11
  <2>3. CASE ~AddEvent
    <3>1. delivered' = delivered
      BY <2>3 DEF Next, Environment, NewBlock, FinalizeBlock, Query,
           StartQuerying, QueryHeight, QuerySignatures, QueryPage, NothingNew,
           SkipHistory, PushNew, StoreCursor, Process, StartProcessing,
           QueueDrained, SkipTx, FetchTx, StoreBlockNumber, StoreEvent,
           FinishTx, Finalize, Failure, HeightFails, QueryFails,
           CursorNotFound, ProcessFails, Crash, vars
    <3> QED  BY <2>1, <3>1 DEF NoRepeat
  <2> QED  BY <2>2, <2>3
<1>3. Inv => NoRepeat  OBVIOUS
<1> HIDE DEF Inv
<1> QED  BY <1>1, <1>2, <1>3, PTL DEF Spec

-----------------------------------------------------------------------------
(* The finalized block number.  The height is read before the listing, so  *)
(* every transaction up to it is listed.                                   *)

HeightInv ==
  /\ pc \in {"signatures", "page", "enqueue"} =>
       \A t \in Tx : Height[ledger[t].slot] <= height => ledger[t].slot <= tip
  /\ pc = "page" =>
       \A t \in Tx : cursor < t /\ Height[ledger[t].slot] <= height =>
         t \in sigs \/ \A v \in sigs : t < v
  /\ pc = "enqueue" =>
       \A t \in Tx : cursor < t /\ Height[ledger[t].slot] <= height => t \in sigs

(* Heights are numbers in the order of the slots.                          *)
LEMMA HeightOrder ==
  ASSUME NEW s \in 0..MaxSlot, NEW u \in 0..MaxSlot
  PROVE  /\ Height[s] \in Nat /\ Height[u] \in Nat
         /\ s <= u => Height[s] <= Height[u]
         /\ Height[s] <= Height[u] => s <= u
         /\ Height[s] < Height[u] => s < u
<1>1. /\ Height[s] \in Nat /\ Height[u] \in Nat
      /\ s < u => Height[s] < Height[u]
      /\ u < s => Height[u] < Height[s]
  BY HeightAssumption
<1>2. s \in Nat /\ u \in Nat  BY BoundsAssumption
<1>3. s = u => Height[s] = Height[u]  OBVIOUS
<1> QED  BY <1>1, <1>2, <1>3

(* The slot of a transaction is a slot of the chain.                       *)
LEMMA SlotBound ==
  ASSUME ledger \in Ledgers, NEW t \in Tx
  PROVE  ledger[t].slot \in 0..MaxSlot /\ ledger[t].slot \in Nat
<1>1. ledger[t].slot \in 1..MaxSlot /\ MaxSlot \in Nat  BY ConstantTypes
<1> QED  BY <1>1

LEMMA ListingHeight ==
  ASSUME SingleProgram, LossInv, HeightInv,
         QuerySignatures \/ CursorNotFound \/ QueryPage
  PROVE  HeightInv'
<1>1. UNCHANGED <<ledger, tip, cursor, height>>
      /\ pc \in {"signatures", "page"} /\ pc' \in {"page", "enqueue"}
  BY DEF QuerySignatures, CursorNotFound, QueryPage, chain
<1>2. PICK until \in Nat, before \in Nat, old \in SUBSET Tx :
        LET S == {t \in Tx : ledger[t].slot <= tip /\ until < t /\ t < before}
            K == Kept(S)
        IN  /\ until <= cursor
            /\ \/ old = {} /\ before = NumTxs + 1
               \/ old = sigs /\ before = Min(sigs) /\ pc = "page"
            /\ sigs' = old \cup K
            /\ pc' = IF Cardinality(K) = MaxLimit THEN "page" ELSE "enqueue"
  BY ListingForm
<1> DEFINE S == {t \in Tx : ledger[t].slot <= tip /\ until < t /\ t < before}
           K == Kept(S)
<1>3. /\ until <= cursor /\ sigs' = old \cup K
      /\ \/ old = {} /\ before = NumTxs + 1
         \/ old = sigs /\ before = Min(sigs) /\ pc = "page"
      /\ pc' = IF Cardinality(K) = MaxLimit THEN "page" ELSE "enqueue"
  BY <1>2
<1>4. /\ ledger \in Ledgers /\ cursor \in TxOrNone /\ cursor \in Nat
      /\ sigs \in SUBSET Tx /\ NumTxs \in Nat /\ Tx \subseteq Nat
      /\ \A t \in Tx : t < NumTxs + 1
  <2>1. /\ ledger \in Ledgers /\ cursor \in TxOrNone /\ sigs \in SUBSET Tx
    BY DEF LossInv, TypeInv, TypeOK
  <2>2. NumTxs \in Nat /\ Tx \subseteq Nat /\ \A t \in Tx : t < NumTxs + 1
    BY ConstantTypes DEF Tx
  <2> QED  BY <2>1, <2>2 DEF TxOrNone
<1>5. /\ K \in SUBSET S
      /\ Cardinality(K) \in Nat
      /\ Cardinality(K) <= MaxLimit
      /\ \A u \in K, t \in S : u <= t => t \in K
      /\ Cardinality(K) < MaxLimit => \A t \in S : cursor < t => t \in K
  <2>1. S \in SUBSET Tx  OBVIOUS
  <2> HIDE DEF S
  <2> QED  BY ONLY <1>4, <2>1, KeptPage
<1>6. /\ \A v \in old : before <= v
      /\ before # NumTxs + 1 =>
           old = sigs /\ before \in sigs /\ pc = "page"
  <2>1. CASE old = {} /\ before = NumTxs + 1  BY <2>1
  <2>2. CASE old = sigs /\ before = Min(sigs) /\ pc = "page"
    <3>1. sigs # {}  BY <2>2 DEF LossInv, ListingInv
    <3>2. Min(sigs) \in sigs /\ \A t \in sigs : Min(sigs) <= t
      BY <1>4, <3>1, MinMaxTx
    <3> QED  BY <2>2, <3>2
  <2> QED  BY <1>3, <2>1, <2>2
<1>7. \A t \in Tx : Height[ledger[t].slot] <= height => ledger[t].slot <= tip
  BY <1>1 DEF HeightInv
<1>8. ASSUME NEW t \in Tx, cursor < t, Height[ledger[t].slot] <= height,
             t \notin sigs'
      PROVE  pc' = "page" /\ \A v \in sigs' : t < v
  <2>1. t < before
    <3>1. ASSUME ~(t < before) PROVE FALSE
      <4>1. before # NumTxs + 1 /\ before <= t  BY <1>4, <3>1
      <4>2. old = sigs /\ before \in sigs /\ pc = "page"  BY <1>6, <4>1
      <4>3. t \in sigs \/ \A v \in sigs : t < v
        BY <1>8, <4>2 DEF HeightInv
      <4>4. t \notin sigs  BY <1>3, <1>8, <4>2
      <4> QED  BY <3>1, <4>2, <4>3, <4>4
    <3> QED  BY <3>1
  <2>2. t \in S
    <3>1. until < t  BY <1>3, <1>4, <1>8
    <3> QED  BY <1>7, <1>8, <2>1, <3>1
  <2>3. t \notin K  BY <1>3, <1>8
  <2> HIDE DEF K, S
  <2>4. ~(Cardinality(K) < MaxLimit)  BY <1>5, <1>8, <2>2, <2>3
  <2>5. pc' = "page"
    <3>1. Cardinality(K) = MaxLimit  BY <1>5, <2>4, ConfigAssumption
    <3> QED  BY <1>3, <3>1
  <2>6. ASSUME NEW v \in K PROVE t < v
    <3>1. ~(v <= t)  BY <1>5, <2>2, <2>3
    <3>2. v \in Nat /\ t \in Nat  BY <1>4, <1>5 DEF S
    <3> QED  BY <3>1, <3>2
  <2>7. ASSUME NEW v \in old PROVE t < v
    <3>1. before <= v /\ v \in Nat /\ t \in Nat  BY <1>4, <1>6
    <3> QED  BY <2>1, <3>1
  <2> QED  BY <1>3, <2>5, <2>6, <2>7
<1> QED  BY <1>1, <1>7, <1>8 DEF HeightInv

LEMMA HeightNext ==
  ASSUME SingleProgram, LossInv, HeightInv, [Next]_vars
  PROVE  HeightInv'
<1>1. CASE QuerySignatures \/ CursorNotFound \/ QueryPage
  BY <1>1, ListingHeight
<1>2. CASE QueryHeight
  <2>1. /\ height' = Height[finalized] /\ pc' = "signatures"
        /\ UNCHANGED <<ledger, tip>>
    BY <1>2 DEF QueryHeight, chain
  <2>2. /\ ledger \in Ledgers /\ tip \in Nat /\ finalized \in Nat
        /\ finalized <= tip /\ finalized \in 0..MaxSlot
    BY ConstantTypes DEF LossInv, TypeInv, TypeOK
  <2>3. ASSUME NEW t \in Tx, Height[ledger[t].slot] <= Height[finalized]
        PROVE  ledger[t].slot <= tip
    <3>1. ledger[t].slot \in 0..MaxSlot /\ ledger[t].slot \in Nat
      BY <2>2, SlotBound
    <3>2. ledger[t].slot <= finalized  BY <2>2, <2>3, <3>1, HeightOrder
    <3> QED  BY <2>2, <3>1, <3>2
  <2> QED  BY <2>1, <2>3 DEF HeightInv
<1>3. CASE Environment \/ UNCHANGED vars
  <2>1. UNCHANGED <<ledger, pc, sigs, cursor, height>>
    BY <1>3 DEF Environment, NewBlock, FinalizeBlock, vars, chain, listing
  <2>2. tip \in Nat /\ tip' \in Nat /\ tip <= tip' /\ ledger \in Ledgers
    BY <1>3, ConstantTypes DEF Environment, NewBlock, FinalizeBlock, vars,
                               chain, LossInv, TypeInv, TypeOK
  <2>3. \A t \in Tx : ledger[t].slot <= tip => ledger[t].slot <= tip'
    <3>1. \A t \in Tx : ledger[t].slot \in Nat  BY <2>2, SlotNat
    <3> QED  BY <2>2, <3>1
  <2> QED  BY <2>1, <2>3 DEF HeightInv
<1>4. ASSUME pc' \notin {"signatures", "page", "enqueue"} PROVE HeightInv'
  BY <1>4 DEF HeightInv
<1>5. CASE \/ StartQuerying \/ NothingNew \/ SkipHistory \/ PushNew
           \/ StoreCursor \/ HeightFails \/ QueryFails \/ Crash
  <2>1. pc' \in {"pass", "program", "cursor"}
    BY <1>5 DEF StartQuerying, NothingNew, SkipHistory, PushNew, StoreCursor,
                HeightFails, QueryFails, Crash, NextProgram
  <2> QED  BY <1>4, <2>1
<1>6. CASE Process \/ ProcessFails
  <2>1. pc' \in {"pass", "fetch", "block", "deliver", "record", "finish"}
    BY <1>6 DEF Process, StartProcessing, QueueDrained, SkipTx, FetchTx,
                StoreBlockNumber, AddEvent, StoreEvent, FinishTx, Finalize,
                ProcessFails
  <2> QED  BY <1>4, <2>1
<1> QED  BY <1>1, <1>2, <1>3, <1>5, <1>6 DEF Next, Query, Failure

(* What was delivered is recorded, except while an event is being          *)
(* recorded.                                                               *)
LEMMA DeliveredRecorded ==
  ASSUME RecordInv, pc # "record", NEW t, Delivered(t)
  PROVE  Recorded(t)
BY DEF RecordInv, Delivered, Recorded

WorkInv == SteadyInv /\ HeightInv /\ FinalizedWorkDone

LEMMA WorkInit == Init => WorkInv
<1> SUFFICES ASSUME Init PROVE WorkInv
  OBVIOUS
<1>1. HeightInv  BY DEF Init, HeightInv
<1>2. FinalizedWorkDone
  <2>1. ledger \in Ledgers /\ finalizedNumber = 0  BY DEF Init
  <2>2. ASSUME NEW t \in Tx PROVE ~(Height[ledger[t].slot] < finalizedNumber)
    <3>1. ledger[t].slot \in 0..MaxSlot  BY <2>1, SlotBound
    <3>2. Height[ledger[t].slot] \in Nat  BY <3>1, HeightOrder
    <3> QED  BY <2>1, <3>2
  <2> QED  BY <2>2 DEF FinalizedWorkDone
<1> QED  BY <1>1, <1>2, SteadyInit DEF WorkInv

(* An empty listing leaves nothing undone up to the height read before it. *)
LEMMA NothingNewWork ==
  ASSUME WorkInv, NothingNew
  PROVE  \A t \in Tx : Due(t) /\ Height[ledger[t].slot] < height => Recorded(t)
<1> SUFFICES ASSUME NEW t \in Tx, Due(t), Height[ledger[t].slot] < height
             PROVE  Recorded(t)
  OBVIOUS
<1>1. LossInv /\ RecordInv /\ BacklogInv /\ HeightInv
  BY DEF WorkInv, SteadyInv, OrderInv
<1>2. pc = "enqueue" /\ Fresh = {} /\ queue = <<>> /\ cursor = lastQueried
  BY <1>1 DEF NothingNew, BacklogInv, LossInv, PassInv
<1>3. Range(queue) = {}  BY <1>2 DEF Range
<1>4. t \in Nat /\ cursor \in Nat /\ t # NoTx
  BY <1>1, ConstantTypes DEF LossInv, TypeInv, TypeOK, TxOrNone, Tx, NoTx
<1>5. Covered(t)
  <2>1. CASE t <= cursor
    BY <1>1, <1>2, <2>1 DEF LossInv, CoverInv, NoEventLost, Covered
  <2>2. CASE ~(t <= cursor)
    <3>1. cursor < t  BY <1>4, <2>2
    <3>2. Height[ledger[t].slot] <= height
      <4>1. ledger[t].slot \in 0..MaxSlot /\ height \in Nat
        BY <1>1, SlotBound DEF LossInv, TypeInv, TypeOK
      <4>2. Height[ledger[t].slot] \in Nat  BY <4>1, HeightOrder
      <4> QED  BY <4>1, <4>2
    <3>3. t \in sigs  BY <1>1, <1>2, <3>1, <3>2 DEF HeightInv
    <3>4. t \in Queued  BY <1>2, <3>3 DEF Fresh
    <3>5. CASE t \in Range(queue)  BY <1>3, <3>5
    <3>6. CASE t \in {e[1] : e \in Range(stored)}
      BY <1>1, <3>6 DEF LossInv, CoverInv, StoredInv
    <3>7. CASE t = lastProcessed
      BY <1>1, <1>4, <3>7 DEF LossInv, CoverInv, ProcessedInv, Covered
    <3> QED  BY <3>4, <3>5, <3>6, <3>7 DEF Queued
  <2> QED  BY <2>1, <2>2
<1>6. Delivered(t)  BY <1>3, <1>5 DEF Covered
<1> QED  BY <1>1, <1>2, <1>6, DeliveredRecorded

(* When a transaction's block number is stored, everything in earlier      *)
(* blocks has been recorded.                                               *)
LEMMA BlockNumberWork ==
  ASSUME WorkInv, StoreBlockNumber
  PROVE  \A t \in Tx :
           Due(t) /\ Height[ledger[t].slot] < Height[ledger[Head(queue)].slot] =>
             Recorded(t)
<1> DEFINE h == Head(queue)
<1> SUFFICES ASSUME NEW t \in Tx, Due(t),
                    Height[ledger[t].slot] < Height[ledger[h].slot]
             PROVE  Recorded(t)
  OBVIOUS
<1>1. OrderInv /\ RecordInv  BY DEF WorkInv, SteadyInv
<1>2. /\ pc = "block" /\ queue # <<>> /\ queue \in Seq(Tx) /\ ledger \in Ledgers
  BY <1>1 DEF StoreBlockNumber, OrderInv, LossInv, TypeInv, TypeOK, Busy
<1>3. h \in Tx  BY <1>2, RangeTail
<1>4. 1 \in DOMAIN queue /\ queue[1] = h /\ \A j \in DOMAIN queue : ~(j < 1)
  BY ONLY <1>2
<1>5. t < h
  <2>1. /\ ledger[t].slot \in 0..MaxSlot /\ ledger[h].slot \in 0..MaxSlot
        /\ ledger[t].slot \in Nat /\ ledger[h].slot \in Nat
    BY <1>2, <1>3, SlotBound
  <2>2. ledger[t].slot < ledger[h].slot  BY <2>1, HeightOrder
  <2>3. ~(h <= t)
    <3>1. h <= t => ledger[h].slot <= ledger[t].slot
      BY <1>2, <1>3, SlotOrder
    <3> QED  BY <2>1, <2>2, <3>1
  <2>4. t \in Nat /\ h \in Nat  BY <1>3, ConstantTypes
  <2> QED  BY <2>3, <2>4
<1>6. Delivered(t)  BY <1>1, <1>4, <1>5 DEF OrderInv, FrontInv
<1> QED  BY <1>1, <1>2, <1>6, DeliveredRecorded

(* What no other step than NothingNew and StoreBlockNumber changes.        *)
LEMMA NumberChanges ==
  ASSUME [Next]_vars
  PROVE  NothingNew \/ StoreBlockNumber \/ finalizedNumber' = finalizedNumber
BY DEF Next, Environment, NewBlock, FinalizeBlock, Query, StartQuerying,
       QueryHeight, QuerySignatures, QueryPage, SkipHistory, PushNew,
       StoreCursor, Process, StartProcessing, QueueDrained, SkipTx, FetchTx,
       AddEvent, StoreEvent, FinishTx, Finalize, Failure, HeightFails,
       QueryFails, CursorNotFound, ProcessFails, Crash, vars

(* The chain stays, and records are only added.                            *)
LEMMA RecordsGrow ==
  ASSUME TypeInv, [Next]_vars
  PROVE  ledger' = ledger /\ Range(stored) \subseteq Range(stored')
<1>1. CASE StoreEvent
  <2>1. /\ pc = "record" /\ ledger' = ledger
        /\ stored' = Append(stored, <<Head(queue), next>>)
    BY <1>1 DEF StoreEvent, chain
  <2>2. /\ queue # <<>> /\ queue \in Seq(Tx) /\ stored \in Seq(EventId)
        /\ next \in Nat
    BY <2>1 DEF TypeInv, TypeOK, Busy
  <2>3. Head(queue) \in Tx  BY <2>2, RangeTail
  <2>4. <<Head(queue), next>> \in EventId  BY <2>2, <2>3 DEF EventId
  <2> QED  BY <2>1, <2>2, <2>4, RangeAppend
<1>2. CASE ~StoreEvent
  <2>1. ledger' = ledger /\ stored' = stored
    BY <1>2 DEF Next, Environment, NewBlock, FinalizeBlock, Query,
         StartQuerying, QueryHeight, QuerySignatures, QueryPage, NothingNew,
         SkipHistory, PushNew, StoreCursor, Process, StartProcessing,
         QueueDrained, SkipTx, FetchTx, StoreBlockNumber, AddEvent, FinishTx,
         Finalize, Failure, HeightFails, QueryFails, CursorNotFound,
         ProcessFails, Crash, vars, chain
  <2> QED  BY <2>1
<1> QED  BY <1>1, <1>2

LEMMA WorkNext ==
  ASSUME SingleProgram, StoreReliable
  PROVE  WorkInv /\ [Next]_vars => WorkInv'
<1> SUFFICES ASSUME WorkInv, [Next]_vars PROVE WorkInv'
  OBVIOUS
<1>1. SteadyInv /\ LossInv /\ TypeInv /\ HeightInv /\ FinalizedWorkDone
  BY DEF WorkInv, SteadyInv, OrderInv, LossInv
<1>2. SteadyInv'  BY <1>1, SteadyNext
<1>3. HeightInv'  BY <1>1, HeightNext
<1>4. ledger' = ledger /\ Range(stored) \subseteq Range(stored')
  BY <1>1, RecordsGrow
<1>5. \A t \in Tx : (Due(t)' <=> Due(t)) /\ (Recorded(t) => Recorded(t)')
  BY <1>4 DEF Due, Recorded, Deliverable
<1>6. \A t \in Tx :
        Due(t) /\ Height[ledger[t].slot] < finalizedNumber' => Recorded(t)
  <2>1. CASE NothingNew
    <3>1. finalizedNumber' = height  BY <2>1 DEF NothingNew
    <3> QED  BY <2>1, <3>1, NothingNewWork
  <2>2. CASE StoreBlockNumber
    <3>1. finalizedNumber' = Height[ledger[Head(queue)].slot]
      BY <2>2 DEF StoreBlockNumber
    <3> QED  BY <2>2, <3>1, BlockNumberWork
  <2>3. CASE finalizedNumber' = finalizedNumber
    BY <1>1, <2>3 DEF FinalizedWorkDone
  <2> QED  BY <2>1, <2>2, <2>3, NumberChanges
<1>7. FinalizedWorkDone'  BY <1>4, <1>5, <1>6 DEF FinalizedWorkDone
<1> QED  BY <1>2, <1>3, <1>7 DEF WorkInv

(* When the store does not fail, every owed event in a block below the     *)
(* recorded finalized block number is in the store, whatever the           *)
(* commitment and the start slot: a reader of that number misses nothing.  *)
THEOREM NumberMeansDone ==
  ASSUME SingleProgram, StoreReliable
  PROVE  Spec => []FinalizedWorkDone
<1>1. Init => WorkInv  BY WorkInit
<1>2. WorkInv /\ [Next]_vars => WorkInv'  BY WorkNext
<1>3. WorkInv => FinalizedWorkDone  BY DEF WorkInv
<1> QED  BY <1>1, <1>2, <1>3, PTL DEF Spec

-----------------------------------------------------------------------------
(* At the finalized commitment the number is never ahead of the chain, and *)
(* not ahead of the height a pass has read.                                *)

FromTheStart == Commitment = "finalized" /\ StartFromSlot <= 1

NumberInv ==
  /\ finalized = tip
  /\ finalizedNumber <= Height[finalized]
  /\ pc \in {"signatures", "page", "enqueue"} =>
       finalizedNumber <= height /\ height <= Height[finalized]

LEMMA NumberInit ==
  ASSUME FromTheStart
  PROVE  Init => NumberInv
<1> SUFFICES ASSUME Init PROVE NumberInv
  OBVIOUS
<1>1. finalized = tip /\ finalized \in 0..MaxSlot /\ finalizedNumber = 0
      /\ pc = "pass"
  BY DEF Init, FromTheStart
<1>2. Height[finalized] \in Nat  BY <1>1, HeightOrder
<1> QED  BY <1>1, <1>2 DEF NumberInv

LEMMA NumberNext ==
  ASSUME FromTheStart, OrderInv, NumberInv, [Next]_vars
  PROVE  NumberInv'
<1>1. /\ finalized = tip /\ finalizedNumber <= Height[finalized]
      /\ finalized \in 0..MaxSlot /\ finalizedNumber \in Nat /\ height \in Nat
      /\ finalized \in Nat /\ MaxSlot \in Nat
  BY ConstantTypes DEF NumberInv, OrderInv, LossInv, TypeInv, TypeOK
<1>2. Height[finalized] \in Nat  BY <1>1, HeightOrder
<1>3. CASE NewBlock
  <2>1. /\ tip' = tip + 1 /\ finalized' = tip + 1 /\ tip < MaxSlot
        /\ UNCHANGED <<finalizedNumber, pc, height>>
    BY <1>3 DEF NewBlock, FromTheStart, listing
  <2>2. finalized' = tip' /\ finalized' \in 0..MaxSlot /\ finalized <= finalized'
    BY <1>1, <2>1
  <2>3. Height[finalized] <= Height[finalized'] /\ Height[finalized'] \in Nat
    BY <1>1, <2>2, HeightOrder
  <2>4. finalizedNumber' <= Height[finalized']
    BY <1>1, <1>2, <2>1, <2>3
  <2>5. height <= Height[finalized] => height' <= Height[finalized']
    BY <1>1, <1>2, <2>1, <2>3
  <2> QED  BY <2>1, <2>2, <2>4, <2>5 DEF NumberInv
<1>4. ~FinalizeBlock  BY <1>1 DEF FinalizeBlock
<1>5. CASE QueryHeight
  <2>1. /\ UNCHANGED <<tip, finalized, finalizedNumber>>
        /\ height' = Height[finalized]
    BY <1>5 DEF QueryHeight, chain
  <2>2. height' <= Height[finalized']  BY <1>2, <2>1
  <2> QED  BY <1>1, <2>1, <2>2 DEF NumberInv
<1>6. CASE NothingNew
  <2>1. /\ UNCHANGED <<tip, finalized>> /\ finalizedNumber' = height
        /\ pc' \in {"pass", "program"}
    BY <1>6 DEF NothingNew, NextProgram, chain
  <2>2. height <= Height[finalized]
    BY <1>6 DEF NothingNew, NumberInv
  <2> QED  BY <1>1, <2>1, <2>2 DEF NumberInv
<1>7. CASE StoreBlockNumber
  <2>1. /\ UNCHANGED <<tip, finalized>> /\ pc = "block" /\ pc' = "deliver"
        /\ finalizedNumber' = Height[ledger[Head(queue)].slot]
    BY <1>7 DEF StoreBlockNumber, chain
  <2>2. /\ queue # <<>> /\ queue \in Seq(Tx) /\ ledger \in Ledgers
    BY <2>1 DEF OrderInv, LossInv, TypeInv, TypeOK, Busy
  <2>3. Head(queue) \in Tx /\ Head(queue) \in Range(queue)  BY <2>2, RangeTail
  <2>4. ledger[Head(queue)].slot <= finalized
    BY <1>1, <2>3 DEF OrderInv, VisibleInv
  <2>5. ledger[Head(queue)].slot \in 0..MaxSlot  BY <2>2, <2>3, SlotBound
  <2>6. Height[ledger[Head(queue)].slot] <= Height[finalized]
    BY <1>1, <2>4, <2>5, HeightOrder
  <2> QED  BY <1>1, <2>1, <2>6 DEF NumberInv
<1>8. CASE UNCHANGED <<tip, finalized, finalizedNumber, pc, height>>
  BY <1>8 DEF NumberInv
<1>9. ASSUME UNCHANGED <<tip, finalized, finalizedNumber>>,
             \/ pc' \notin {"signatures", "page", "enqueue"}
             \/ pc \in {"signatures", "page"} /\ height' = height
      PROVE  NumberInv'
  BY <1>1, <1>9 DEF NumberInv
<1>10. CASE QuerySignatures \/ QueryPage \/ CursorNotFound
  <2>1. /\ UNCHANGED <<tip, finalized, finalizedNumber>>
        /\ pc \in {"signatures", "page"} /\ height' = height
    BY <1>10 DEF QuerySignatures, QueryPage, CursorNotFound, chain
  <2> QED  BY <1>9, <2>1
<1>11. CASE \/ StartQuerying \/ SkipHistory \/ PushNew \/ StoreCursor
            \/ HeightFails \/ QueryFails \/ Crash
  <2>1. UNCHANGED <<tip, finalized, finalizedNumber>>
    BY <1>11 DEF StartQuerying, SkipHistory, PushNew, StoreCursor, HeightFails,
                 QueryFails, Crash, chain
  <2>2. pc' \in {"pass", "program", "cursor"}
    BY <1>11 DEF StartQuerying, SkipHistory, PushNew, StoreCursor, HeightFails,
                 QueryFails, Crash, NextProgram
  <2> QED  BY <1>9, <2>1, <2>2
<1>12. CASE (Process /\ ~StoreBlockNumber) \/ ProcessFails
  <2>1. /\ UNCHANGED <<tip, finalized, finalizedNumber>>
        /\ pc' \in {"pass", "fetch", "block", "deliver", "record", "finish"}
    BY <1>12 DEF Process, StartProcessing, QueueDrained, SkipTx, FetchTx,
                 AddEvent, StoreEvent, FinishTx, Finalize, ProcessFails, chain
  <2> QED  BY <1>9, <2>1
<1>13. UNCHANGED vars => UNCHANGED <<tip, finalized, finalizedNumber, pc, height>>
  BY DEF vars, chain, listing
<1> QED
  BY <1>3, <1>4, <1>5, <1>6, <1>7, <1>8, <1>10, <1>11, <1>12, <1>13
     DEF Next, Environment, Query, Failure

(* At the finalized commitment, from the first slot on and when the store  *)
(* does not fail: StoreLatestFinalizedBlockNumber never writes a smaller   *)
(* number than it wrote before, neither for an empty listing nor for an    *)
(* event of an old block.                                                  *)
THEOREM NumberAdvances ==
  ASSUME SingleProgram, StoreReliable, FromTheStart
  PROVE  Spec => FinalizedNumberAdvances
<1> DEFINE Inv == WorkInv /\ NumberInv
<1>1. Init => Inv  BY WorkInit, NumberInit
<1>2. Inv /\ [Next]_vars => Inv'
  BY WorkNext, NumberNext DEF WorkInv, SteadyInv
<1>3. ASSUME Inv, [Next]_vars PROVE [finalizedNumber' >= finalizedNumber]_vars
  <2>1. finalizedNumber \in Nat /\ OrderInv /\ LossInv /\ RecordInv
    BY <1>3 DEF WorkInv, SteadyInv, OrderInv, LossInv, TypeInv, TypeOK
  <2>2. CASE NothingNew
    <3>1. finalizedNumber' = height /\ pc = "enqueue" /\ height \in Nat
      BY <2>1, <2>2 DEF NothingNew, LossInv, TypeInv, TypeOK
    <3> QED  BY <1>3, <2>1, <3>1 DEF NumberInv
  <2>3. CASE StoreBlockNumber
    <3> DEFINE h == Head(queue)
    <3>1. /\ pc = "block" /\ finalizedNumber' = Height[ledger[h].slot]
          /\ queue # <<>> /\ queue \in Seq(Tx) /\ ledger \in Ledgers
          /\ next \in Nat /\ next >= 1 /\ ledger[h].status = "ok"
      BY <2>1, <2>3 DEF StoreBlockNumber, LossInv, TypeInv, TypeOK, Busy, EventInv
    <3>2. h \in Tx /\ h \in Range(queue)  BY <3>1, RangeTail
    <3>3. ledger[h].slot \in 0..MaxSlot /\ ledger[h].slot \in 1..MaxSlot
      BY <3>1, <3>2, SlotBound, ConstantTypes
    <3>4. Height[ledger[h].slot] \in Nat  BY <3>3, HeightOrder
    <3>5. Due(h)
      <4>1. StartFromSlot \in Nat /\ MaxSlot \in Nat
        BY ConfigAssumption, BoundsAssumption
      <4> QED  BY <3>3, <4>1 DEF Due, FromTheStart
    <3>6. ledger[h].emits \in 1..Deliverable(h)
      <4>1. ledger[h].emits \in Nat  BY <3>1, <3>2, ConstantTypes
      <4>2. next <= ledger[h].emits  BY <2>1, <3>1 DEF RecordInv
      <4>3. Deliverable(h) = ledger[h].emits  BY <3>1 DEF Deliverable
      <4> QED  BY <3>1, <4>1, <4>2, <4>3
    <3>7. ~Recorded(h)
      <4>1. <<h, ledger[h].emits>> \notin Range(stored)
        BY <2>1, <3>1, <3>2 DEF RecordInv, UnrecordedInv
      <4> QED  BY <3>6, <4>1 DEF Recorded
    <3>8. ~(Height[ledger[h].slot] < finalizedNumber)
      BY <1>3, <3>2, <3>5, <3>7 DEF WorkInv, FinalizedWorkDone
    <3> QED  BY <2>1, <3>1, <3>4, <3>8
  <2>4. CASE finalizedNumber' = finalizedNumber  BY <2>1, <2>4
  <2> QED  BY <1>3, <2>2, <2>3, <2>4, NumberChanges
<1>4. Inv /\ [Next]_vars => [finalizedNumber' >= finalizedNumber]_vars
  BY <1>3
<1> HIDE DEF Inv
<1> QED  BY <1>1, <1>2, <1>4, PTL DEF Spec, FinalizedNumberAdvances
=============================================================================
