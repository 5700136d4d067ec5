-------------------------- MODULE TxBuilders_proofs --------------------------
(***************************************************************************)
(* Lemmas about what the builders compute, shared by the proofs about the  *)
(* sender and about the lookup tables.                                     *)
(***************************************************************************)
EXTENDS TxBuilders, FiniteSetTheorems, TLAPS

-----------------------------------------------------------------------------
(* Loops that pick elements of a list.                                     *)

(* The k-th member in ascending order has k members at or below it, and    *)
(* every member has its own such number.                                   *)
LEMMA AscendingRank ==
  ASSUME NEW S \in SUBSET Nat, IsFiniteSet(S)
  PROVE  /\ Cardinality(S) \in Nat
         /\ Ascending(S) \in [1..Cardinality(S) -> S]
         /\ \A i \in 1..Cardinality(S) :
              Cardinality({v \in S : v <= Ascending(S)[i]}) = i
         /\ \A x \in S : Cardinality({v \in S : v <= x}) \in 1..Cardinality(S)
         /\ \A x, y \in S :
              x < y => Cardinality({v \in S : v <= x}) < Cardinality({v \in S : v <= y})
<1> DEFINE Upto(x) == {v \in S : v <= x}
           rank == [x \in S |-> Cardinality(Upto(x))]
           I == 1..Cardinality(S)
<1>1. S \subseteq Nat  OBVIOUS
<1>2. IsFiniteSet(S) /\ Cardinality(S) \in Nat  BY FS_CardinalityType
<1>3. \A x : /\ Upto(x) \in SUBSET S
             /\ IsFiniteSet(Upto(x))
             /\ Cardinality(Upto(x)) \in Nat
  <2>1. \A x : Upto(x) \in SUBSET S  OBVIOUS
  <2> QED  BY <1>2, <2>1, FS_Subset, FS_CardinalityType
<1>4. ASSUME NEW x \in S PROVE Cardinality(Upto(x)) \in I
  <2>1. x \in Upto(x)  BY <1>1
  <2>2. Cardinality(Upto(x)) # 0  BY <1>3, <2>1, FS_EmptySet
  <2>3. Cardinality(Upto(x)) <= Cardinality(S)  BY <1>2, <1>3, FS_Subset
  <2> QED  BY <1>2, <1>3, <2>2, <2>3
<1>5. ASSUME NEW a \in S, NEW b \in S, a < b
      PROVE  Cardinality(Upto(a)) < Cardinality(Upto(b))
  <2>1. Upto(a) \in SUBSET Upto(b) /\ b \in Upto(b) /\ b \notin Upto(a)
    <3>1. a \in Nat /\ b \in Nat  BY <1>1
    <3>2. b <= b /\ ~(b <= a)  BY <1>5, <3>1
    <3>3. ASSUME NEW v \in S, v <= a PROVE v <= b  BY <1>1, <1>5, <3>1, <3>3
    <3> QED  BY <3>2, <3>3
  <2>2. Upto(b) # Upto(a)  BY <2>1
  <2>3. /\ Cardinality(Upto(a)) <= Cardinality(Upto(b))
        /\ Cardinality(Upto(a)) # Cardinality(Upto(b))
    BY <1>3, <2>1, <2>2, FS_Subset
  <2> QED  BY <1>3, <2>3
<1>6. rank \in Injection(S, I)
  <2>1. rank \in [S -> I]  BY <1>4
  <2>2. ASSUME NEW x \in S, NEW y \in S, rank[x] = rank[y] PROVE x = y
    <3>1. Cardinality(Upto(x)) = Cardinality(Upto(y))  BY <2>2
    <3>2. x \in Nat /\ y \in Nat  BY <1>1
    <3>3. Cardinality(Upto(x)) \in Nat /\ Cardinality(Upto(y)) \in Nat
      BY <1>3
    <3>4. ~(x < y)  BY <1>5, <3>1, <3>3
    <3>5. ~(y < x)  BY <1>5, <3>1, <3>3
    <3> QED  BY <3>2, <3>4, <3>5
  <2> HIDE DEF rank, I
  <2> QED  BY <2>1, <2>2 DEF Injection, IsInjective
<1>7. IsFiniteSet(I) /\ Cardinality(I) = Cardinality(S)
  BY <1>2, FS_Interval
<1>8. rank \in Surjection(S, I)  BY <1>6, <1>7, FS_Injection
<1>9. ASSUME NEW i \in I PROVE \E x \in S : Cardinality(Upto(x)) = i
  <2>1. \E x \in S : rank[x] = i
    <3> HIDE DEF rank, I
    <3> QED  BY <1>8 DEF Surjection
  <2> QED  BY <2>1
<1>10. \A i \in I : /\ Ascending(S)[i] \in S
                   /\ Cardinality(Upto(Ascending(S)[i])) = i
  BY <1>9 DEF Ascending
<1>11. Ascending(S) \in [I -> S]  BY <1>10 DEF Ascending
<1> QED  BY <1>2, <1>4, <1>5, <1>10, <1>11

(* Every member comes exactly once, the smaller ones first.                *)
LEMMA AscendingOrder ==
  ASSUME NEW S \in SUBSET Nat, IsFiniteSet(S)
  PROVE  /\ Cardinality(S) \in Nat
         /\ Ascending(S) \in [1..Cardinality(S) -> S]
         /\ \A x \in S : \E k \in 1..Cardinality(S) : Ascending(S)[k] = x
         /\ \A k, l \in 1..Cardinality(S) :
              Ascending(S)[k] = Ascending(S)[l] => k = l
         /\ \A k, l \in 1..Cardinality(S) :
              k < l => Ascending(S)[k] < Ascending(S)[l]
<1> DEFINE Upto(x) == {v \in S : v <= x}
           I == 1..Cardinality(S)
           q == Ascending(S)
<1>1. /\ Cardinality(S) \in Nat
      /\ q \in [I -> S]
      /\ \A i \in I : Cardinality(Upto(q[i])) = i
      /\ \A x \in S : Cardinality(Upto(x)) \in I
      /\ \A x, y \in S : x < y => Cardinality(Upto(x)) < Cardinality(Upto(y))
  BY AscendingRank
<1> HIDE DEF q, Upto
<1>2. ASSUME NEW x \in S PROVE \E k \in I : q[k] = x
  <2> DEFINE i == Cardinality(Upto(x))
  <2>1. i \in I /\ i \in Nat  BY <1>1
  <2>2. q[i] \in S /\ Cardinality(Upto(q[i])) = i  BY <1>1, <2>1
  <2>3. ~(q[i] < x) /\ ~(x < q[i])
    <3> HIDE DEF I
    <3>1. ~(i < i)  BY <2>1
    <3> QED  BY <1>1, <2>2, <3>1
  <2> HIDE DEF i
  <2>4. q[i] \in Nat /\ x \in Nat  BY <2>2
  <2>5. q[i] = x  BY <2>3, <2>4
  <2> QED  BY <2>1, <2>5
<1>3. ASSUME NEW k \in I, NEW l \in I, q[k] = q[l] PROVE k = l
  <2> HIDE DEF I
  <2>1. Cardinality(Upto(q[k])) = k /\ Cardinality(Upto(q[l])) = l  BY <1>1
  <2> QED  BY <1>3, <2>1
<1>4. ASSUME NEW k \in I, NEW l \in I, k < l PROVE q[k] < q[l]
  <2>1. k \in Nat /\ l \in Nat /\ q[k] \in S /\ q[l] \in S  BY <1>1
  <2> HIDE DEF I
  <2>2. Cardinality(Upto(q[k])) = k /\ Cardinality(Upto(q[l])) = l  BY <1>1
  <2>3. ~(q[l] < q[k])
    <3>1. ~(l < k)  BY <1>4, <2>1
    <3> QED  BY <1>1, <2>1, <2>2, <3>1
  <2>4. q[k] # q[l]
    <3>1. k # l  BY <1>4, <2>1
    <3> QED  BY <1>3, <3>1
  <2>5. q[k] \in Nat /\ q[l] \in Nat  BY <2>1
  <2> QED  BY <2>3, <2>4, <2>5
<1> QED  BY <1>1, <1>2, <1>3, <1>4 DEF q

(* A list at a set of positions holds what stood there and nothing else,   *)
(* as often as there are positions.                                        *)
LEMMA AtElements ==
  ASSUME NEW seq, NEW P \in SUBSET Nat, IsFiniteSet(P)
  PROVE  /\ Cardinality(P) \in Nat
         /\ At(seq, P) \in Seq({seq[i] : i \in P})
         /\ Len(At(seq, P)) = Cardinality(P)
         /\ DOMAIN At(seq, P) = 1..Cardinality(P)
         /\ \A k \in 1..Cardinality(P) :
              /\ Ascending(P)[k] \in P
              /\ At(seq, P)[k] = seq[Ascending(P)[k]]
         /\ \A i \in P : \E k \in 1..Cardinality(P) :
              Ascending(P)[k] = i /\ At(seq, P)[k] = seq[i]
<1> DEFINE a == Ascending(P)
           I == 1..Cardinality(P)
           s == At(seq, P)
<1>1. Cardinality(P) \in Nat /\ a \in [I -> P] /\ \A x \in P : \E k \in I : a[k] = x
  BY AscendingOrder
<1>2. s = [k \in I |-> seq[a[k]]]  BY DEF At
<1> HIDE DEF a, s
<1>3. \A k \in I : a[k] \in P /\ s[k] = seq[a[k]]  BY <1>1, <1>2
<1>4. \A k \in I : s[k] \in {seq[i] : i \in P}  BY <1>3
<1>5. DOMAIN s = I  BY <1>2
<1>6. s \in [I -> {seq[i] : i \in P}]  BY <1>2, <1>4
<1>7. s \in Seq({seq[i] : i \in P}) /\ Len(s) = Cardinality(P)
  BY ONLY <1>1, <1>5, <1>6
<1> QED  BY <1>1, <1>3, <1>5, <1>7 DEF a, s

(* A list without repetition has none at any set of positions.             *)
LEMMA AtInjective ==
  ASSUME NEW seq, NEW P \in SUBSET Nat, IsFiniteSet(P),
         \A i, j \in P : seq[i] = seq[j] => i = j
  PROVE  \A k, l \in 1..Cardinality(P) : At(seq, P)[k] = At(seq, P)[l] => k = l
<1> SUFFICES ASSUME NEW k \in 1..Cardinality(P), NEW l \in 1..Cardinality(P),
                    At(seq, P)[k] = At(seq, P)[l]
             PROVE  k = l
  OBVIOUS
<1>1. /\ Ascending(P)[k] \in P /\ Ascending(P)[l] \in P
      /\ seq[Ascending(P)[k]] = seq[Ascending(P)[l]]
  BY AtElements
<1>2. Ascending(P)[k] = Ascending(P)[l]  BY <1>1
<1> QED  BY <1>2, AscendingOrder

(* Something stands at its first position in a list, and nowhere before.   *)
LEMMA FirstPosition ==
  ASSUME NEW seq, NEW n \in Nat, DOMAIN seq = 1..n, NEW i \in 1..n
  PROVE  /\ PositionIn(seq, seq[i]) \in FirstPositions(seq)
         /\ seq[PositionIn(seq, seq[i])] = seq[i]
<1> DEFINE S == {j \in 1..n : seq[j] = seq[i]}
<1>1. S \in SUBSET Nat /\ i \in S  OBVIOUS
<1>2. PICK j \in S : \A l \in S : j <= l
  <2> HIDE DEF S
  <2>1. \E j \in S : \A l \in S : ~(l < j)
    <3>1. \E j \in S : \A l \in S : ~(<<l, j>> \in OpToRel(<, Nat))
      BY <1>1, WFMin, NatLessThanWellFounded
    <3> QED  BY <1>1, <3>1 DEF OpToRel
  <2> QED  BY <1>1, <2>1
<1>3. j \in 1..n /\ seq[j] = seq[i] /\ \A l \in 1..(j - 1) : seq[l] # seq[i]
  <2>1. j \in 1..n /\ seq[j] = seq[i]  BY <1>2
  <2>2. ASSUME NEW l \in 1..(j - 1) PROVE seq[l] # seq[i]
    <3>1. l \in 1..n /\ ~(j <= l)  BY <2>1
    <3> QED  BY <1>2, <3>1
  <2> QED  BY <2>1, <2>2
<1>4. /\ PositionIn(seq, seq[i]) \in 1..n
      /\ seq[PositionIn(seq, seq[i])] = seq[i]
      /\ \A l \in 1..(PositionIn(seq, seq[i]) - 1) : seq[l] # seq[i]
  BY <1>3 DEF PositionIn
<1> QED  BY <1>4 DEF FirstPositions

-----------------------------------------------------------------------------
(* One list behind another.                                                *)

LEMMA ConcatAt ==
  ASSUME NEW K, NEW s \in Seq(K), NEW t \in Seq(K)
  PROVE  /\ Len(s) \in Nat /\ Len(t) \in Nat /\ s \o t \in Seq(K)
         /\ DOMAIN s = 1..Len(s) /\ DOMAIN t = 1..Len(t)
         /\ Len(s \o t) = Len(s) + Len(t)
         /\ DOMAIN (s \o t) = 1..(Len(s) + Len(t))
         /\ \A i \in 1..Len(s) : /\ i \in DOMAIN (s \o t)
                                 /\ (s \o t)[i] = s[i]
         /\ \A i \in 1..Len(t) : /\ Len(s) + i \in DOMAIN (s \o t)
                                 /\ (s \o t)[Len(s) + i] = t[i]
         /\ \A i \in DOMAIN (s \o t) :
              \/ i \in 1..Len(s) /\ (s \o t)[i] = s[i]
              \/ \E j \in 1..Len(t) : i = Len(s) + j /\ (s \o t)[i] = t[j]
<1> DEFINE u == s \o t  m == Len(s)  n == Len(t)
<1>1. /\ m \in Nat /\ n \in Nat /\ u \in Seq(K) /\ DOMAIN s = 1..m /\ DOMAIN t = 1..n
      /\ Len(u) = m + n /\ DOMAIN u = 1..(m + n)
      /\ \A i \in 1..m : u[i] = s[i]
      /\ \A i \in 1..n : u[m + i] = t[i]
  OBVIOUS
<1> HIDE DEF u, m, n
<1>2. \A i \in 1..m : i \in DOMAIN u  BY <1>1
<1>3. \A i \in 1..n : m + i \in DOMAIN u  BY <1>1
<1>4. ASSUME NEW i \in DOMAIN u, i \notin 1..m PROVE \E j \in 1..n : i = m + j
  <2>1. i - m \in 1..n /\ i = m + (i - m)  BY <1>1, <1>4
  <2> QED  BY <2>1
<1>5. ASSUME NEW i \in DOMAIN u
      PROVE  \/ i \in 1..m /\ u[i] = s[i]
             \/ \E j \in 1..n : i = m + j /\ u[i] = t[j]
  BY <1>1, <1>4
<1> QED  BY <1>1, <1>2, <1>3, <1>5 DEF u, m, n

LEMMA ConcatSet ==
  ASSUME NEW K, NEW s \in Seq(K), NEW t \in Seq(K)
  PROVE  ToSet(s \o t) = ToSet(s) \cup ToSet(t)
<1> DEFINE u == s \o t  m == Len(s)  n == Len(t)
<1>1. /\ DOMAIN s = 1..m /\ DOMAIN t = 1..n
      /\ \A i \in 1..m : i \in DOMAIN u /\ u[i] = s[i]
      /\ \A i \in 1..n : m + i \in DOMAIN u /\ u[m + i] = t[i]
      /\ \A i \in DOMAIN u : \/ i \in 1..m /\ u[i] = s[i]
                             \/ \E j \in 1..n : i = m + j /\ u[i] = t[j]
  BY ConcatAt
<1> HIDE DEF u, m, n
<1>2. ToSet(u) \subseteq ToSet(s) \cup ToSet(t)  BY <1>1 DEF ToSet
<1>3. ToSet(s) \subseteq ToSet(u)  BY <1>1 DEF ToSet
<1>4. ToSet(t) \subseteq ToSet(u)  BY <1>1 DEF ToSet
<1> QED  BY <1>2, <1>3, <1>4 DEF u

LEMMA ConcatInjective ==
  ASSUME NEW K, NEW s \in Seq(K), NEW t \in Seq(K),
         IsInjective(s), IsInjective(t), ToSet(s) \cap ToSet(t) = {}
  PROVE  IsInjective(s \o t)
<1> DEFINE u == s \o t  m == Len(s)  n == Len(t)
<1>1. /\ DOMAIN s = 1..m /\ DOMAIN t = 1..n
      /\ \A i \in 1..m : i \in DOMAIN u /\ u[i] = s[i]
      /\ \A i \in 1..n : m + i \in DOMAIN u /\ u[m + i] = t[i]
      /\ \A i \in DOMAIN u : \/ i \in 1..m /\ u[i] = s[i]
                             \/ \E j \in 1..n : i = m + j /\ u[i] = t[j]
  BY ConcatAt
<1> HIDE DEF u, m, n
<1>2. ASSUME NEW i \in 1..m, NEW j \in 1..n PROVE s[i] # t[j]
  <2>1. s[i] \in ToSet(s) /\ t[j] \in ToSet(t)  BY <1>1 DEF ToSet
  <2> QED  BY <2>1
<1>3. ASSUME NEW a \in DOMAIN u, NEW b \in DOMAIN u, u[a] = u[b] PROVE a = b
  <2>1. CASE a \in 1..m /\ u[a] = s[a] /\ b \in 1..m /\ u[b] = s[b]
    BY <1>1, <1>3, <2>1 DEF IsInjective
  <2>2. CASE /\ \E i \in 1..n : a = m + i /\ u[a] = t[i]
             /\ \E j \in 1..n : b = m + j /\ u[b] = t[j]
    <3>1. PICK i \in 1..n : a = m + i /\ u[a] = t[i]  BY <2>2
    <3>2. PICK j \in 1..n : b = m + j /\ u[b] = t[j]  BY <2>2
    <3>3. i = j  BY <1>1, <1>3, <3>1, <3>2 DEF IsInjective
    <3> QED  BY <3>1, <3>2, <3>3
  <2>3. CASE /\ a \in 1..m /\ u[a] = s[a]
             /\ \E j \in 1..n : b = m + j /\ u[b] = t[j]
    BY <1>2, <1>3, <2>3
  <2>4. CASE /\ b \in 1..m /\ u[b] = s[b]
             /\ \E j \in 1..n : a = m + j /\ u[a] = t[j]
    BY <1>2, <1>3, <2>4
  <2> QED  BY <1>1, <2>1, <2>2, <2>3, <2>4
<1> QED  BY <1>3 DEF IsInjective, u

-----------------------------------------------------------------------------
(* The concatenation of a list of lists.                                   *)

LEMMA LeastOf ==
  ASSUME NEW S \in SUBSET Nat, S # {}
  PROVE  \E m \in S : \A x \in S : m <= x
<1>1. \E m \in S : \A x \in S : ~(<<x, m>> \in OpToRel(<, Nat))
  BY WFMin, NatLessThanWellFounded
<1>2. PICK m \in S : \A x \in S : ~(x < m)  BY <1>1 DEF OpToRel
<1>3. \A x \in S : x \in Nat  OBVIOUS
<1>4. \A x \in S : m <= x  BY <1>2, <1>3
<1> QED  BY <1>4

(* The recursion of FlattenSeq has a solution, in lists.                   *)
LEMMA FlattenRecursion ==
  ASSUME NEW S, NEW seqs \in Seq(Seq(S)), Len(seqs) # 0
  PROVE  \E f \in [1..Len(seqs) -> Seq(S)] :
           \A i \in 1..Len(seqs) : f[i] = IF i = 1 THEN seqs[i] ELSE f[i - 1] \o seqs[i]
<1> DEFINE N == Len(seqs)
           Ok(n) == \E f \in [1..n -> Seq(S)] :
                      \A i \in 1..n : f[i] = IF i = 1 THEN seqs[i] ELSE f[i - 1] \o seqs[i]
           Bad == {n \in 1..N : ~Ok(n)}
<1>1. N \in Nat /\ N >= 1 /\ \A i \in 1..N : seqs[i] \in Seq(S)  OBVIOUS
<1> HIDE DEF N
<1>2. Ok(1)
  <2> DEFINE f == [i \in 1..1 |-> seqs[1]]
  <2>1. seqs[1] \in Seq(S)  BY <1>1
  <2>2. f \in [1..1 -> Seq(S)]  BY <2>1
  <2>3. \A i \in 1..1 : i = 1 /\ f[i] = seqs[i]  OBVIOUS
  <2> QED  BY <2>2, <2>3
<1>3. ASSUME NEW n \in 1..N, Ok(n), n + 1 \in 1..N PROVE Ok(n + 1)
  <2>0. n \in Nat /\ n >= 1  BY <1>1
  <2>1. PICK g \in [1..n -> Seq(S)] :
          \A i \in 1..n : g[i] = IF i = 1 THEN seqs[i] ELSE g[i - 1] \o seqs[i]
    BY <1>3
  <2> DEFINE f == [i \in 1..(n + 1) |-> IF i = n + 1 THEN g[n] \o seqs[n + 1] ELSE g[i]]
  <2>2. g[n] \o seqs[n + 1] \in Seq(S)
    <3>1. g[n] \in Seq(S) /\ seqs[n + 1] \in Seq(S)  BY <1>1, <1>3, <2>0, <2>1
    <3> QED  BY ONLY <3>1
  <2>3. \A i \in 1..(n + 1) : i = n + 1 \/ (i \in 1..n /\ i # n + 1)  BY <2>0
  <2>4. f \in [1..(n + 1) -> Seq(S)]  BY <2>1, <2>2, <2>3
  <2>5. ASSUME NEW i \in 1..(n + 1)
        PROVE  f[i] = IF i = 1 THEN seqs[i] ELSE f[i - 1] \o seqs[i]
    <3>1. CASE i = n + 1
      <4>1. i # 1 /\ i - 1 = n /\ n \in 1..(n + 1) /\ n # n + 1  BY <2>0, <3>1
      <4>2. f[i - 1] = g[n] /\ f[i] = g[n] \o seqs[i]  BY <3>1, <4>1
      <4> QED  BY <4>1, <4>2
    <3>2. CASE i \in 1..n /\ i # n + 1
      <4>1. f[i] = g[i]  BY <3>2
      <4>2. i # 1 => i - 1 \in 1..(n + 1) /\ i - 1 # n + 1  BY <2>0, <3>2
      <4>3. i # 1 => f[i - 1] = g[i - 1]  BY <4>2
      <4> QED  BY <2>1, <3>2, <4>1, <4>3
    <3> QED  BY <2>3, <3>1, <3>2
  <2> HIDE DEF f
  <2> QED  BY <2>4, <2>5
<1> HIDE DEF Ok
<1>4. Bad = {}
  <2> SUFFICES ASSUME Bad # {} PROVE FALSE
    OBVIOUS
  <2>1. Bad \in SUBSET Nat  BY <1>1
  <2>2. PICK m \in Bad : \A x \in Bad : m <= x  BY <2>1, LeastOf
  <2>3. m \in 1..N /\ ~Ok(m) /\ m # 1  BY <1>2, <2>2
  <2>4. m - 1 \in 1..N /\ ~(m <= m - 1) /\ (m - 1) + 1 = m  BY <1>1, <2>3
  <2>5. Ok(m - 1)  BY <2>2, <2>4
  <2>6. Ok((m - 1) + 1)  BY <1>3, <2>3, <2>4, <2>5
  <2> QED  BY <2>3, <2>4, <2>6
<1>5. Ok(N)  BY <1>1, <1>4
<1> QED  BY <1>5 DEF Ok, N

LEMMA FlattenElements ==
  ASSUME NEW S, NEW seqs \in Seq(Seq(S))
  PROVE  /\ FlattenSeq(seqs) \in Seq(S)
         /\ ToSet(FlattenSeq(seqs)) = UNION {ToSet(q) : q \in ToSet(seqs)}
<1> DEFINE N == Len(seqs)
<1>1. N \in Nat /\ DOMAIN seqs = 1..N /\ \A i \in 1..N : seqs[i] \in Seq(S)  OBVIOUS
<1>2. CASE N = 0
  <2>1. FlattenSeq(seqs) = seqs  BY <1>2 DEF FlattenSeq
  <2>2. seqs = << >>  BY <1>2
  <2>3. ToSet(<< >>) = {} /\ << >> \in Seq(S)  BY DEF ToSet
  <2> QED  BY <2>1, <2>2, <2>3
<1>3. CASE N # 0
  <2> DEFINE Def(f) == [i \in 1..N |-> IF i = 1 THEN seqs[i] ELSE f[i - 1] \o seqs[i]]
             flatten == CHOOSE f : f = Def(f)
  <2>1. FlattenSeq(seqs) = flatten[N]  BY <1>3 DEF FlattenSeq
  <2>2. PICK g \in [1..N -> Seq(S)] :
          \A i \in 1..N : g[i] = IF i = 1 THEN seqs[i] ELSE g[i - 1] \o seqs[i]
    BY <1>3, FlattenRecursion
  <2>3. g = Def(g)  BY <2>2
  <2>4. flatten = Def(flatten)  BY <2>3
  <2> HIDE DEF flatten, N
  <2>5. \A i \in 1..N : flatten[i] = IF i = 1 THEN seqs[i] ELSE flatten[i - 1] \o seqs[i]
    BY <2>4
  <2> DEFINE Upto(i) == UNION {ToSet(seqs[j]) : j \in 1..i}
             Good(i) == flatten[i] \in Seq(S) /\ ToSet(flatten[i]) = Upto(i)
             Bad == {i \in 1..N : ~Good(i)}
  <2>6. ASSUME NEW i \in 1..N, i # 1 => Good(i - 1) PROVE Good(i)
    <3>1. CASE i = 1
      <4>1. Upto(1) = ToSet(seqs[1])
        <5>1. 1..1 = {1}  OBVIOUS
        <5> QED  BY <5>1
      <4>2. flatten[i] = seqs[1]  BY <2>5, <3>1
      <4> HIDE DEF Upto
      <4> QED  BY <1>1, <3>1, <4>1, <4>2
    <3>2. CASE i # 1
      <4>1. flatten[i] = flatten[i - 1] \o seqs[i] /\ seqs[i] \in Seq(S)
        BY <1>1, <2>5, <3>2
      <4>2. ToSet(flatten[i]) = Upto(i - 1) \cup ToSet(seqs[i])
        BY <2>6, <3>2, <4>1, ConcatSet
      <4>3. \A j : j \in 1..i <=> (j \in 1..(i - 1) \/ j = i)  BY <1>1
      <4>4. Upto(i) = Upto(i - 1) \cup ToSet(seqs[i])
        <5> HIDE DEF flatten
        <5> QED  BY <4>3
      <4>5. flatten[i] \in Seq(S)  BY <2>6, <3>2, <4>1, ConcatAt
      <4> QED  BY <4>2, <4>4, <4>5
    <3> QED  BY <3>1, <3>2
  <2> HIDE DEF Good, Upto
  <2>7. Bad = {}
    <3> SUFFICES ASSUME Bad # {} PROVE FALSE
      OBVIOUS
    <3>1. Bad \in SUBSET Nat  BY <1>1
    <3>2. PICK m \in Bad : \A x \in Bad : m <= x  BY <3>1, LeastOf
    <3>3. m \in 1..N /\ ~Good(m)  BY <3>2
    <3>4. m # 1 => m - 1 \in 1..N /\ ~(m <= m - 1)  BY <1>1, <3>3
    <3>5. m # 1 => Good(m - 1)  BY <3>2, <3>4
    <3> QED  BY <2>6, <3>3, <3>5
  <2>8. Good(N)
    <3>1. N \in 1..N  BY <1>1, <1>3
    <3> QED  BY <2>7, <3>1
  <2>9. Upto(N) = UNION {ToSet(q) : q \in ToSet(seqs)}
    <3>1. ASSUME NEW x \in Upto(N) PROVE \E q \in ToSet(seqs) : x \in ToSet(q)
      <4>1. PICK j \in 1..N : x \in ToSet(seqs[j])  BY DEF Upto
      <4>2. seqs[j] \in ToSet(seqs)  BY <1>1 DEF ToSet
      <4> QED  BY <4>1, <4>2
    <3>2. ASSUME NEW q \in ToSet(seqs), NEW x \in ToSet(q) PROVE x \in Upto(N)
      <4>1. PICK j \in 1..N : q = seqs[j]  BY <1>1 DEF ToSet
      <4> QED  BY <3>2, <4>1 DEF Upto
    <3> QED  BY <3>1, <3>2
  <2> QED  BY <2>1, <2>8, <2>9 DEF Good
<1> QED  BY <1>2, <1>3

-----------------------------------------------------------------------------
(* Positions in lists.                                                     *)

LEMMA AtSubset ==
  ASSUME NEW U, NEW seq \in Seq(U), NEW P \in SUBSET (DOMAIN seq)
  PROVE  /\ At(seq, P) \in Seq(U)
         /\ ToSet(At(seq, P)) = {seq[i] : i \in P}
         /\ IsFiniteSet(P) /\ P \in SUBSET Nat
<1>1. Len(seq) \in Nat /\ DOMAIN seq = 1..Len(seq)  OBVIOUS
<1>2. P \in SUBSET Nat /\ IsFiniteSet(P)
  <2>1. IsFiniteSet(1..Len(seq))  BY <1>1, FS_Interval
  <2> QED  BY <1>1, <2>1, FS_Subset
<1> DEFINE s == At(seq, P)  T == {seq[i] : i \in P}  m == Cardinality(P)
<1>3. /\ s \in Seq(T) /\ DOMAIN s = 1..m
      /\ \A k \in 1..m : Ascending(P)[k] \in P /\ s[k] = seq[Ascending(P)[k]]
      /\ \A i \in P : \E k \in 1..m : s[k] = seq[i]
  <2>1. s \in Seq(T) /\ DOMAIN s = 1..m  BY <1>2, AtElements
  <2>2. \A k \in 1..m : Ascending(P)[k] \in P /\ s[k] = seq[Ascending(P)[k]]
    BY <1>2, AtElements
  <2>3. \A i \in P : \E k \in 1..m : Ascending(P)[k] = i /\ s[k] = seq[i]
    BY <1>2, AtElements
  <2> HIDE DEF s, m
  <2> QED  BY <2>1, <2>2, <2>3
<1> HIDE DEF s, m
<1>4. T \in SUBSET U  OBVIOUS
<1>5. s \in Seq(U)  BY <1>3, <1>4
<1>6. ToSet(s) = T
  <2>1. \A k \in 1..m : s[k] \in T  BY <1>3
  <2>2. ToSet(s) \subseteq T  BY <1>3, <2>1 DEF ToSet
  <2>3. T \subseteq ToSet(s)  BY <1>3 DEF ToSet
  <2> QED  BY <2>2, <2>3
<1> QED  BY <1>2, <1>5, <1>6 DEF s

LEMMA PositionFound ==
  ASSUME NEW U, NEW seq \in Seq(U), NEW x \in ToSet(seq)
  PROVE  PositionIn(seq, x) \in DOMAIN seq /\ seq[PositionIn(seq, x)] = x
<1>1. Len(seq) \in Nat /\ DOMAIN seq = 1..Len(seq)  OBVIOUS
<1>2. PICK i \in 1..Len(seq) : x = seq[i]  BY <1>1 DEF ToSet
<1>3. /\ PositionIn(seq, seq[i]) \in FirstPositions(seq)
      /\ seq[PositionIn(seq, seq[i])] = seq[i]
  BY <1>1, FirstPosition
<1> QED  BY <1>2, <1>3 DEF FirstPositions

(* The elements of a list, each at its first position.                     *)
LEMMA FirstOnes ==
  ASSUME NEW U, NEW seq \in Seq(U)
  PROVE  /\ At(seq, FirstPositions(seq)) \in Seq(U)
         /\ ToSet(At(seq, FirstPositions(seq))) = ToSet(seq)
<1> DEFINE P == FirstPositions(seq)
<1>1. P \in SUBSET (DOMAIN seq)  BY DEF FirstPositions
<1> HIDE DEF P
<1>2. At(seq, P) \in Seq(U) /\ ToSet(At(seq, P)) = {seq[i] : i \in P}
  BY <1>1, AtSubset
<1>3. ASSUME NEW x \in ToSet(seq) PROVE x \in {seq[i] : i \in P}
  <2>1. Len(seq) \in Nat /\ DOMAIN seq = 1..Len(seq)  OBVIOUS
  <2>2. PICK i \in 1..Len(seq) : x = seq[i]  BY <2>1 DEF ToSet
  <2>3. PositionIn(seq, seq[i]) \in P /\ seq[PositionIn(seq, seq[i])] = seq[i]
    BY <2>1, FirstPosition DEF P
  <2> QED  BY <2>2, <2>3
<1>4. {seq[i] : i \in P} \subseteq ToSet(seq)  BY <1>1 DEF ToSet
<1>5. ToSet(At(seq, P)) = ToSet(seq)  BY <1>2, <1>3, <1>4
<1> QED  BY <1>2, <1>5 DEF P

(* A list given by what it holds at each position.                         *)
LEMMA ListOf ==
  ASSUME NEW n \in Nat, NEW s, DOMAIN s = 1..n, s = [i \in 1..n |-> s[i]]
  PROVE  s \in Seq(ToSet(s)) /\ Len(s) = n
<1>1. \A i \in 1..n : s[i] \in ToSet(s)  BY DEF ToSet
<1>2. s \in [1..n -> ToSet(s)]  BY <1>1
<1> QED  BY ONLY <1>2, n \in Nat

-----------------------------------------------------------------------------
(* The instructions of a batch.                                            *)

(* Each mint once, with a token that has it; every receiver finds its own. *)
MintsDerived(m, program, receivers) ==
  LET Mint(i) == MintOf(program, receivers[i].token)
      wanted == {Mint(i) : i \in DOMAIN receivers}
  IN /\ m.mints \in Seq(wanted) /\ IsInjective(m.mints)
     /\ ToSet(m.mints) = wanted
     /\ Len(m.mints) = Cardinality(wanted)
     /\ \A k \in DOMAIN m.mints : \E i \in DOMAIN receivers :
          m.mints[k] = Mint(i) /\ m.tokens[k] = receivers[i].token
     /\ \A i \in DOMAIN receivers :
          m.index[i] \in DOMAIN m.mints /\ m.mints[m.index[i]] = Mint(i)

LEMMA DerivedMints ==
  ASSUME NEW program, NEW R, NEW receivers \in Seq(R)
  PROVE  MintsDerived(DeriveMints(program, receivers), program, receivers)
<1> DEFINE m == DeriveMints(program, receivers)
           Mint(i) == MintOf(program, receivers[i].token)
           wanted == {Mint(i) : i \in DOMAIN receivers}
           tokens == [i \in DOMAIN receivers |-> receivers[i].token]
           all == [i \in DOMAIN receivers |-> MintOf(program, tokens[i])]
           F == FirstPositions(all)
           mints == At(all, F)
<1>1. m = [mints |-> mints, tokens |-> At(tokens, F),
           index |-> [i \in DOMAIN receivers |-> PositionIn(mints, all[i])]]
  BY DEF DeriveMints
<1>2. Len(receivers) \in Nat /\ DOMAIN receivers = 1..Len(receivers)  OBVIOUS
<1> DEFINE n == Len(receivers)
<1> HIDE DEF m, n
<1>3. DOMAIN all = 1..n /\ all = [i \in 1..n |-> all[i]] /\ \A i \in 1..n : all[i] = Mint(i)
  BY <1>2 DEF n
<1>4. \A i \in 1..n : tokens[i] = receivers[i].token  BY <1>2 DEF n
<1>5. n \in Nat /\ DOMAIN receivers = 1..n  BY <1>2 DEF n
<1> HIDE DEF all, tokens, Mint
<1>6. all \in Seq(wanted) /\ ToSet(all) = wanted
  <2>1. ToSet(all) = wanted  BY <1>3, <1>5 DEF ToSet
  <2> HIDE DEF wanted
  <2> QED  BY <1>3, <1>5, <2>1, ListOf
<1> HIDE DEF wanted
<1>7. F \in SUBSET (DOMAIN all)  BY DEF FirstPositions
<1>8. mints \in Seq(wanted) /\ ToSet(mints) = wanted  BY <1>6, FirstOnes
<1>9. F \in SUBSET Nat /\ IsFiniteSet(F)  BY <1>6, <1>7, AtSubset
<1> DEFINE nm == Cardinality(F)
<1>10. /\ nm \in Nat /\ Len(mints) = nm /\ DOMAIN mints = 1..nm
       /\ \A k \in 1..nm : Ascending(F)[k] \in F /\ mints[k] = all[Ascending(F)[k]]
  BY <1>9, AtElements
<1>11. \A k \in 1..nm : At(tokens, F)[k] = tokens[Ascending(F)[k]]
  BY <1>9, AtElements
<1>12. \A i, j \in F : all[i] = all[j] => i = j
  <2> SUFFICES ASSUME NEW i \in F, NEW j \in F, all[i] = all[j] PROVE i = j
    OBVIOUS
  <2>1. i \in 1..n /\ j \in 1..n  BY <1>3, <1>7
  <2>2. /\ \A l \in 1..(i - 1) : all[l] # all[i]
        /\ \A l \in 1..(j - 1) : all[l] # all[j]
    BY DEF FirstPositions
  <2>3. j \notin 1..(i - 1) /\ i \notin 1..(j - 1)  BY <2>2
  <2> QED  BY <1>5, <2>1, <2>3
<1>13. \A k, l \in 1..nm : mints[k] = mints[l] => k = l  BY <1>9, <1>12, AtInjective
<1> HIDE DEF F, mints, nm
<1>14. IsInjective(mints)  BY <1>10, <1>13 DEF IsInjective
<1>15. Len(mints) = Cardinality(wanted)
  <2>1. mints \in [1..nm -> wanted]  BY <1>8, <1>10
  <2>2. \A x \in wanted : \E k \in 1..nm : mints[k] = x  BY <1>8, <1>10 DEF ToSet
  <2>3. mints \in Bijection(1..nm, wanted)
    BY <1>13, <2>1, <2>2 DEF Bijection, Injection, Surjection, IsInjective
  <2>4. IsFiniteSet(1..nm) /\ Cardinality(1..nm) = nm  BY <1>10, FS_Interval
  <2>5. ExistsBijection(1..nm, wanted)  BY <2>3 DEF ExistsBijection
  <2>6. Cardinality(wanted) = nm  BY <2>4, <2>5, FS_Bijection
  <2> QED  BY <1>10, <2>6
<1>16. ASSUME NEW k \in 1..nm
       PROVE  \E i \in 1..n : mints[k] = Mint(i) /\ At(tokens, F)[k] = receivers[i].token
  <2>1. Ascending(F)[k] \in 1..n  BY <1>3, <1>7, <1>10
  <2> QED  BY <1>3, <1>4, <1>10, <1>11, <2>1
<1>17. ASSUME NEW i \in 1..n
       PROVE  PositionIn(mints, all[i]) \in DOMAIN mints /\ mints[PositionIn(mints, all[i])] = Mint(i)
  <2>1. all[i] \in ToSet(mints)  BY <1>3, <1>6, <1>8 DEF ToSet
  <2> QED  BY <1>3, <1>8, <2>1, PositionFound
<1>18. /\ m.mints = mints /\ m.tokens = At(tokens, F)
       /\ \A i \in 1..n : m.index[i] = PositionIn(mints, all[i])
  BY <1>1, <1>5
<1>19. /\ m.mints \in Seq(wanted) /\ IsInjective(m.mints) /\ ToSet(m.mints) = wanted
       /\ Len(m.mints) = Cardinality(wanted)
       /\ \A k \in DOMAIN m.mints : \E i \in DOMAIN receivers :
            m.mints[k] = Mint(i) /\ m.tokens[k] = receivers[i].token
       /\ \A i \in DOMAIN receivers :
            m.index[i] \in DOMAIN m.mints /\ m.mints[m.index[i]] = Mint(i)
  <2>1. \A k \in 1..nm : \E i \in 1..n :
          m.mints[k] = Mint(i) /\ m.tokens[k] = receivers[i].token
    BY <1>16, <1>18
  <2>2. \A i \in 1..n : m.index[i] \in 1..nm /\ m.mints[m.index[i]] = Mint(i)
    BY <1>10, <1>17, <1>18
  <2>3. /\ m.mints \in Seq(wanted) /\ IsInjective(m.mints) /\ ToSet(m.mints) = wanted
        /\ Len(m.mints) = Cardinality(wanted)
    BY <1>8, <1>10, <1>14, <1>15, <1>18
  <2>4. DOMAIN m.mints = 1..nm /\ DOMAIN receivers = 1..n  BY <1>5, <1>10, <1>18
  <2> QED  BY <2>1, <2>2, <2>3, <2>4
<1> QED  BY <1>19 DEF MintsDerived, m, wanted, Mint

(* Five lists, one behind the other.                                       *)
FiveBehind(s, K, a, b, c, d, e) ==
  LET na == Len(a)  nb == Len(b)  nc == Len(c)  nd == Len(d)  ne == Len(e)
  IN /\ s \in Seq(K) /\ Len(s) = na + nb + nc + nd + ne
     /\ \A i \in 1..na : s[i] = a[i]
     /\ \A i \in 1..nb : s[na + i] = b[i]
     /\ \A i \in 1..nc : s[na + nb + i] = c[i]
     /\ \A i \in 1..nd : s[na + nb + nc + i] = d[i]
     /\ \A i \in 1..ne : s[na + nb + nc + nd + i] = e[i]

LEMMA FiveLists ==
  ASSUME NEW K, NEW a \in Seq(K), NEW b \in Seq(K), NEW c \in Seq(K), NEW d \in Seq(K),
         NEW e \in Seq(K)
  PROVE  FiveBehind(a \o b \o c \o d \o e, K, a, b, c, d, e)
<1> DEFINE s2 == a \o b  s3 == s2 \o c  s4 == s3 \o d  s5 == s4 \o e
           na == Len(a)  nb == Len(b)  nc == Len(c)  nd == Len(d)  ne == Len(e)
<1>1. na \in Nat /\ nb \in Nat /\ nc \in Nat /\ nd \in Nat /\ ne \in Nat  OBVIOUS
<1>2. /\ s2 \in Seq(K) /\ Len(s2) = na + nb
      /\ \A i \in 1..na : s2[i] = a[i]
      /\ \A i \in 1..nb : s2[na + i] = b[i]
  BY ConcatAt
<1> HIDE DEF s2
<1>3. /\ s3 \in Seq(K) /\ Len(s3) = Len(s2) + nc
      /\ \A i \in 1..Len(s2) : s3[i] = s2[i]
      /\ \A i \in 1..nc : s3[Len(s2) + i] = c[i]
  <2>1. s2 \in Seq(K)  BY <1>2
  <2> QED  BY <2>1, ConcatAt
<1> HIDE DEF s3
<1>4. /\ s4 \in Seq(K) /\ Len(s4) = Len(s3) + nd
      /\ \A i \in 1..Len(s3) : s4[i] = s3[i]
      /\ \A i \in 1..nd : s4[Len(s3) + i] = d[i]
  <2>1. s3 \in Seq(K)  BY <1>3
  <2> QED  BY <2>1, ConcatAt
<1> HIDE DEF s4
<1>5. /\ s5 \in Seq(K) /\ Len(s5) = Len(s4) + ne
      /\ \A i \in 1..Len(s4) : s5[i] = s4[i]
      /\ \A i \in 1..ne : s5[Len(s4) + i] = e[i]
  <2>1. s4 \in Seq(K)  BY <1>4
  <2> QED  BY <2>1, ConcatAt
<1> HIDE DEF s5, na, nb, nc, nd, ne
<1>6. /\ Len(s3) = na + nb + nc /\ Len(s4) = na + nb + nc + nd
      /\ Len(s5) = na + nb + nc + nd + ne
  BY <1>2, <1>3, <1>4, <1>5
<1>7. ASSUME NEW i \in 1..Len(s3) PROVE s5[i] = s3[i]
  <2>1. i \in 1..Len(s4)  BY <1>1, <1>6
  <2> QED  BY <1>4, <1>5, <2>1
<1>8. ASSUME NEW i \in 1..Len(s2) PROVE s5[i] = s2[i]
  <2>1. i \in 1..Len(s3)  BY <1>1, <1>2, <1>6
  <2> QED  BY <1>3, <1>7, <2>1
<1>9. ASSUME NEW i \in 1..na PROVE s5[i] = a[i]
  <2>1. i \in 1..Len(s2)  BY <1>1, <1>2
  <2> QED  BY <1>2, <1>8, <2>1
<1>10. ASSUME NEW i \in 1..nb PROVE s5[na + i] = b[i]
  <2>1. na + i \in 1..Len(s2)  BY <1>1, <1>2
  <2> QED  BY <1>2, <1>8, <2>1
<1>11. ASSUME NEW i \in 1..nc PROVE s5[na + nb + i] = c[i]
  <2>1. na + nb + i \in 1..Len(s3)  BY <1>1, <1>6
  <2>2. s3[na + nb + i] = c[i]  BY <1>2, <1>3
  <2> QED  BY <1>7, <2>1, <2>2
<1>12. ASSUME NEW i \in 1..nd PROVE s5[na + nb + nc + i] = d[i]
  <2>1. na + nb + nc + i \in 1..Len(s4)  BY <1>1, <1>6
  <2>2. s4[na + nb + nc + i] = d[i]  BY <1>4, <1>6
  <2> QED  BY <1>5, <2>1, <2>2
<1>13. ASSUME NEW i \in 1..ne PROVE s5[na + nb + nc + nd + i] = e[i]
  BY <1>5, <1>6
<1>14. s5 = a \o b \o c \o d \o e  BY DEF s2, s3, s4, s5
<1> QED  BY <1>5, <1>6, <1>9, <1>10, <1>11, <1>12, <1>13, <1>14
    DEF FiveBehind, na, nb, nc, nd, ne

(* bridgeTransactionRemainingAccounts: each mint, the receivers, a         *)
(* registry per mint, a token account per receiver, the vault's per mint.  *)
RemainingLaid(rest, m, c, d, nm, nr) ==
  /\ nm \in Nat /\ nr \in Nat
  /\ DOMAIN m.mints = 1..nm /\ DOMAIN d.receivers = 1..nr
  /\ rest \in Seq(ToSet(rest)) /\ Len(rest) = 3 * nm + 2 * nr
  /\ \A i \in 1..nm :
       /\ rest[i] = Remaining(m.mints[i], "mint", {"w"})
       /\ rest[nm + nr + i] =
            Remaining(TokenPda("tokenRegistry", m.tokens[i], d.program), "registry", {})
       /\ rest[2 * nm + 2 * nr + i] =
            Remaining(Ata(c["vault"], m.mints[i]), "vault_ata", {"w"})
  /\ \A i \in 1..nr :
       /\ rest[nm + i] = Remaining(d.receivers[i].wallet, "recipient", {})
       /\ rest[2 * nm + nr + i] =
            Remaining(Ata(d.receivers[i].wallet, m.mints[m.index[i]]), "recipient_ata", {"w"})

LEMMA RemainingForm ==
  ASSUME NEW c, NEW d, NEW R, d.receivers \in Seq(R)
  PROVE  LET m == DeriveMints(d.program, d.receivers)
         IN RemainingLaid(RemainingAccounts(c, d), m, c, d, Len(m.mints), Len(d.receivers))
<1> DEFINE m == DeriveMints(d.program, d.receivers)
           rest == RemainingAccounts(c, d)
           nm == Len(m.mints)
           nr == Len(d.receivers)
           a == [i \in DOMAIN m.mints |-> Remaining(m.mints[i], "mint", {"w"})]
           b == [i \in DOMAIN d.receivers |->
                   Remaining(d.receivers[i].wallet, "recipient", {})]
           e == [i \in DOMAIN m.mints |->
                   Remaining(TokenPda("tokenRegistry", m.tokens[i], d.program), "registry", {})]
           f == [i \in DOMAIN d.receivers |->
                   Remaining(Ata(d.receivers[i].wallet, m.mints[m.index[i]]),
                             "recipient_ata", {"w"})]
           g == [i \in DOMAIN m.mints |->
                   Remaining(Ata(c["vault"], m.mints[i]), "vault_ata", {"w"})]
<1>1. rest = a \o b \o e \o f \o g  BY DEF RemainingAccounts
<1>2. \E U : m.mints \in Seq(U)
  <2>1. MintsDerived(m, d.program, d.receivers)  BY DerivedMints
  <2> HIDE DEF m
  <2> QED  BY <2>1 DEF MintsDerived
<1>3. nm \in Nat /\ DOMAIN m.mints = 1..nm
  <2> HIDE DEF m
  <2>1. PICK U : m.mints \in Seq(U)  BY <1>2
  <2> QED  BY <2>1
<1>4. nr \in Nat /\ DOMAIN d.receivers = 1..nr  OBVIOUS
<1> HIDE DEF m, nm, nr, rest
<1>5. /\ DOMAIN a = 1..nm /\ a = [i \in 1..nm |-> a[i]]
      /\ DOMAIN e = 1..nm /\ e = [i \in 1..nm |-> e[i]]
      /\ DOMAIN g = 1..nm /\ g = [i \in 1..nm |-> g[i]]
      /\ \A i \in 1..nm :
           /\ a[i] = Remaining(m.mints[i], "mint", {"w"})
           /\ e[i] = Remaining(TokenPda("tokenRegistry", m.tokens[i], d.program), "registry", {})
           /\ g[i] = Remaining(Ata(c["vault"], m.mints[i]), "vault_ata", {"w"})
  BY <1>3
<1>6. /\ DOMAIN b = 1..nr /\ b = [i \in 1..nr |-> b[i]]
      /\ DOMAIN f = 1..nr /\ f = [i \in 1..nr |-> f[i]]
      /\ \A i \in 1..nr :
           /\ b[i] = Remaining(d.receivers[i].wallet, "recipient", {})
           /\ f[i] = Remaining(Ata(d.receivers[i].wallet, m.mints[m.index[i]]),
                               "recipient_ata", {"w"})
  BY <1>4
<1> HIDE DEF a, b, e, f, g
<1> DEFINE U == ToSet(a) \cup ToSet(b) \cup ToSet(e) \cup ToSet(f) \cup ToSet(g)
<1>7. /\ a \in Seq(ToSet(a)) /\ Len(a) = nm /\ b \in Seq(ToSet(b)) /\ Len(b) = nr
      /\ e \in Seq(ToSet(e)) /\ Len(e) = nm /\ f \in Seq(ToSet(f)) /\ Len(f) = nr
      /\ g \in Seq(ToSet(g)) /\ Len(g) = nm
  BY <1>3, <1>4, <1>5, <1>6, ListOf
<1>8. /\ ToSet(a) \in SUBSET U /\ ToSet(b) \in SUBSET U /\ ToSet(e) \in SUBSET U
      /\ ToSet(f) \in SUBSET U /\ ToSet(g) \in SUBSET U
  OBVIOUS
<1> HIDE DEF U
<1>9. a \in Seq(U) /\ b \in Seq(U) /\ e \in Seq(U) /\ f \in Seq(U) /\ g \in Seq(U)
  BY <1>7, <1>8
<1>10. /\ rest \in Seq(U) /\ Len(rest) = nm + nr + nm + nr + nm
       /\ \A i \in 1..nm : rest[i] = a[i]
       /\ \A i \in 1..nr : rest[nm + i] = b[i]
       /\ \A i \in 1..nm : rest[nm + nr + i] = e[i]
       /\ \A i \in 1..nr : rest[nm + nr + nm + i] = f[i]
       /\ \A i \in 1..nm : rest[nm + nr + nm + nr + i] = g[i]
  <2>1. FiveBehind(a \o b \o e \o f \o g, U, a, b, e, f, g)  BY <1>9, FiveLists
  <2>2. FiveBehind(rest, U, a, b, e, f, g)  BY <1>1, <2>1
  <2> QED  BY <1>7, <2>2 DEF FiveBehind
<1>11. /\ Len(rest) = 3 * nm + 2 * nr
       /\ \A i \in 1..nr : rest[2 * nm + nr + i] = f[i]
       /\ \A i \in 1..nm : rest[2 * nm + 2 * nr + i] = g[i]
  <2>1. nm + nr + nm = 2 * nm + nr /\ nm + nr + nm + nr = 2 * nm + 2 * nr
        /\ nm + nr + nm + nr + nm = 3 * nm + 2 * nr
    BY <1>3, <1>4
  <2> QED  BY <1>10, <2>1
<1>12. rest \in Seq(ToSet(rest))
  <2>1. DOMAIN rest = 1..Len(rest) /\ Len(rest) \in Nat /\ rest = [i \in 1..Len(rest) |-> rest[i]]
    BY <1>10
  <2> QED  BY <2>1, ListOf
<1>13. /\ \A i \in 1..nm :
            /\ rest[i] = Remaining(m.mints[i], "mint", {"w"})
            /\ rest[nm + nr + i] =
                 Remaining(TokenPda("tokenRegistry", m.tokens[i], d.program), "registry", {})
            /\ rest[2 * nm + 2 * nr + i] =
                 Remaining(Ata(c["vault"], m.mints[i]), "vault_ata", {"w"})
       /\ \A i \in 1..nr :
            /\ rest[nm + i] = Remaining(d.receivers[i].wallet, "recipient", {})
            /\ rest[2 * nm + nr + i] =
                 Remaining(Ata(d.receivers[i].wallet, m.mints[m.index[i]]),
                           "recipient_ata", {"w"})
  BY <1>5, <1>6, <1>10, <1>11
<1> QED  BY <1>3, <1>4, <1>11, <1>12, <1>13 DEF RemainingLaid, m, nm, nr, rest

(* The bridge instruction: nine accounts of the program's interface, and   *)
(* the remaining ones behind them.                                         *)
BridgeKeys(c, d) ==
  <<d.sender, c["validatorSet"], c["vault"], WellKnown("token"), WellKnown("system"),
    WellKnown("ata_program"), WellKnown("instructions_sysvar"), c["eventAuthority"], d.program>>

BridgeLaid(ix, c, d) ==
  LET rest == RemainingAccounts(c, d)
  IN /\ ix.program = d.program
     /\ ix.accounts \in Seq(ToSet(ix.accounts))
     /\ Len(rest) \in Nat /\ rest \in Seq(ToSet(rest))
     /\ Len(ix.accounts) = 9 + Len(rest)
     /\ \A i \in 1..9 :
          ix.accounts[i] = [key   |-> BridgeKeys(c, d)[i],
                            role  |-> BridgeTransactionAccounts[i][1],
                            flags |-> BridgeTransactionAccounts[i][2]]
     /\ \A i \in 1..Len(rest) : ix.accounts[9 + i] = rest[i]

LEMMA BridgeForm ==
  ASSUME NEW c, NEW d, NEW R, d.receivers \in Seq(R)
  PROVE  BridgeLaid(BridgeInstruction(c, d), c, d)
<1> DEFINE ix == BridgeInstruction(c, d)
           rest == RemainingAccounts(c, d)
           fixed == NewInstruction(d.program, BridgeTransactionAccounts, BridgeKeys(c, d))
           front == fixed.accounts
<1>1. ix = [fixed EXCEPT !.accounts = @ \o rest]  BY DEF BridgeInstruction, BridgeKeys
<1>2. /\ fixed = [program |-> d.program, accounts |-> front]
      /\ front = [i \in DOMAIN BridgeTransactionAccounts |->
                    [key   |-> BridgeKeys(c, d)[i],
                     role  |-> BridgeTransactionAccounts[i][1],
                     flags |-> BridgeTransactionAccounts[i][2]]]
  BY DEF NewInstruction
<1>3. DOMAIN BridgeTransactionAccounts = 1..9
  BY DEF BridgeTransactionAccounts
<1>4. rest \in Seq(ToSet(rest)) /\ Len(rest) \in Nat
  <2>1. rest \in Seq(ToSet(rest))  BY RemainingForm DEF RemainingLaid
  <2> HIDE DEF rest
  <2> QED  BY <2>1
<1> HIDE DEF ix, rest, fixed, front
<1>5. ix.program = d.program /\ ix.accounts = front \o rest  BY <1>1, <1>2
<1>6. /\ DOMAIN front = 1..9 /\ front = [i \in 1..9 |-> front[i]]
      /\ \A i \in 1..9 : front[i] = [key   |-> BridgeKeys(c, d)[i],
                                     role  |-> BridgeTransactionAccounts[i][1],
                                     flags |-> BridgeTransactionAccounts[i][2]]
  BY <1>2, <1>3
<1>7. front \in Seq(ToSet(front)) /\ Len(front) = 9  BY <1>6, ListOf
<1> DEFINE U == ToSet(front) \cup ToSet(rest)
<1>8. ToSet(front) \in SUBSET U /\ ToSet(rest) \in SUBSET U  OBVIOUS
<1> HIDE DEF U
<1>9. front \in Seq(U) /\ rest \in Seq(U)  BY <1>4, <1>7, <1>8
<1> DEFINE s == front \o rest
<1>10. /\ s \in Seq(U) /\ Len(s) = 9 + Len(rest)
       /\ \A i \in 1..9 : s[i] = front[i]
       /\ \A i \in 1..Len(rest) : s[9 + i] = rest[i]
  <2>1. /\ s \in Seq(U) /\ Len(s) = Len(front) + Len(rest)
        /\ \A i \in 1..Len(front) : s[i] = front[i]
        /\ \A i \in 1..Len(rest) : s[Len(front) + i] = rest[i]
    BY <1>9, ConcatAt
  <2> HIDE DEF s
  <2> QED  BY <1>7, <2>1
<1> HIDE DEF s
<1>11. s \in Seq(ToSet(s))
  <2>1. DOMAIN s = 1..Len(s) /\ Len(s) \in Nat /\ s = [i \in 1..Len(s) |-> s[i]]
    BY <1>10
  <2> QED  BY <2>1, ListOf
<1>12. ix.accounts = s  BY <1>5 DEF s
<1> QED  BY <1>4, <1>5, <1>6, <1>10, <1>11, <1>12 DEF BridgeLaid, ix, rest

(* bridge_transaction: the signatures right in front of the bridge         *)
(* instruction, and a limit before both for the largest batches.           *)
LEMMA BatchForm ==
  ASSUME NEW c, NEW d, NEW signers
  PROVE  LET ixs == BridgeTransaction(c, d, signers)
             n == IF Len(d.receivers) = MaxReceivers THEN 3 ELSE 2
         IN /\ DOMAIN ixs = 1..n /\ Len(ixs) = n
            /\ ixs[n] = BridgeInstruction(c, d)
            /\ ixs[n - 1] = BuildBatchedEd25519(signers, d.payload)
            /\ n = 3 => ixs[1] = SetComputeUnitLimit(MaxReceiversUnits)
<1> DEFINE e == BuildBatchedEd25519(signers, d.payload)
           b == BridgeInstruction(c, d)
           l == SetComputeUnitLimit(MaxReceiversUnits)
           ixs == BridgeTransaction(c, d, signers)
<1>1. ixs = IF Len(d.receivers) = MaxReceivers THEN <<l>> \o <<e, b>> ELSE <<e, b>>
  BY DEF BridgeTransaction
<1> HIDE DEF e, b, l, ixs
<1>2. LET s == <<l>> \o <<e, b>>
      IN DOMAIN s = 1..3 /\ Len(s) = 3 /\ s[1] = l /\ s[2] = e /\ s[3] = b
  <2> DEFINE K == {l, e, b}  u == <<l>>  v == <<e, b>>  s == u \o v
  <2>1. Len(u) = 1 /\ Len(v) = 2 /\ u[1] = l /\ v[1] = e /\ v[2] = b  OBVIOUS
  <2>4. u \in Seq(K)  OBVIOUS
  <2>5. v \in Seq(K)  OBVIOUS
  <2> HIDE DEF K, u, v
  <2>2. /\ Len(s) = Len(u) + Len(v) /\ DOMAIN s = 1..(Len(u) + Len(v))
        /\ \A i \in 1..Len(u) : s[i] = u[i]
        /\ \A i \in 1..Len(v) : s[Len(u) + i] = v[i]
    BY ONLY <2>4, <2>5, ConcatAt
  <2> HIDE DEF s
  <2>3. s[1] = l /\ s[1 + 1] = e /\ s[1 + 2] = b  BY <2>1, <2>2
  <2> QED  BY <2>1, <2>2, <2>3 DEF s, u, v
<1>3. CASE Len(d.receivers) = MaxReceivers
  <2>1. ixs = <<l>> \o <<e, b>>  BY <1>1, <1>3
  <2>2. DOMAIN ixs = 1..3 /\ Len(ixs) = 3 /\ ixs[1] = l /\ ixs[2] = e /\ ixs[3] = b
    BY <1>2, <2>1
  <2> QED  BY <1>3, <2>2 DEF e, b, l, ixs
<1>4. CASE Len(d.receivers) # MaxReceivers
  <2>1. ixs = <<e, b>>  BY <1>1, <1>4
  <2>2. DOMAIN ixs = 1..2 /\ Len(ixs) = 2 /\ ixs[1] = e /\ ixs[2] = b  BY <2>1
  <2> QED  BY <1>4, <2>2 DEF e, b, l, ixs
<1> QED  BY <1>3, <1>4

-----------------------------------------------------------------------------
(* The payload.                                                            *)

(* Every 16-bit offset names what it should, up to 255 signers and a       *)
(* payload whose own length fits.                                          *)
LEMMA EntryExact ==
  ASSUME NEW n \in Nat, 0 < n, n < 256, NEW i \in 1..n, NEW size \in Nat, U16(size) = size
  PROVE  LET e == Entry(i, n, size)
             at == HeaderSize + n * (OffsetsSize + PubKeyLength + SigLength)
         IN /\ e.msg = at /\ e.size = size /\ e.ix = CurrentInstruction
            /\ e.sig + SigLength <= at /\ e.pub + PubKeyLength <= at
            /\ e.msg + e.size = at + size
<1> DEFINE pub == 2 + n * 14 + (i - 1) * 96
           at == 2 + n * 110
<1>1. Entry(i, n, size) = [sig |-> (pub + 32) % 65536, pub |-> pub % 65536,
                           msg |-> (2 + n * 14 + n * 96) % 65536, size |-> size % 65536,
                           ix |-> 65535]
  BY DEF Entry, HeaderSize, OffsetsSize, PubKeyLength, SigLength, U16, CurrentInstruction
<1>2. /\ pub \in Nat /\ 2 + n * 14 + n * 96 = at /\ at \in Nat /\ at < 65000
      /\ pub + 32 + 64 <= at
  OBVIOUS
<1>3. HeaderSize + n * (OffsetsSize + PubKeyLength + SigLength) = at
  BY DEF HeaderSize, OffsetsSize, PubKeyLength, SigLength
<1> HIDE DEF pub, at
<1>4. /\ (pub + 32) % 65536 = pub + 32 /\ pub % 65536 = pub
      /\ at % 65536 = at /\ size % 65536 = size
  BY <1>2 DEF U16
<1> QED  BY <1>1, <1>2, <1>3, <1>4 DEF PubKeyLength, SigLength, CurrentInstruction

(* ExtractSolanaPayload reads back what buildBatchedEd25519Instruction     *)
(* was given.                                                              *)
LEMMA PayloadExtracted ==
  ASSUME NEW signers, Len(signers) \in Nat, NEW payload, payload.size \in Nat,
         U16(payload.size) = payload.size, ~Ed25519Refused(signers, payload), NEW k
  PROVE  ExtractSolanaPayload(BuildBatchedEd25519(signers, payload).data, k) = payload
<1> DEFINE n == Len(signers)
           data == BuildBatchedEd25519(signers, payload).data
           at == HeaderSize + n * (OffsetsSize + PubKeyLength + SigLength)
           messages == {Message(data, e.msg, e.size) : e \in ToSet(data.entries)}
<1>1. n \in Nat /\ 0 < n /\ n < 256
  <2>1. n \in Nat  OBVIOUS
  <2> QED  BY <2>1 DEF Ed25519Refused
<1>2. data = [num |-> n, entries |-> [i \in 1..n |-> Entry(i, n, payload.size)],
              signers |-> signers, at |-> at, message |-> payload]
  BY DEF BuildBatchedEd25519
<1> HIDE DEF n, data
<1>3. /\ data.num = n /\ data.at = at /\ data.message = payload
      /\ data.entries = [i \in 1..n |-> Entry(i, n, payload.size)]
  BY <1>2
<1>4. at \in Nat
  BY <1>1 DEF HeaderSize, OffsetsSize, PubKeyLength, SigLength
<1> HIDE DEF at
<1>5. ASSUME NEW e \in ToSet(data.entries)
      PROVE  /\ e.msg = at /\ e.size = payload.size /\ e.ix = CurrentInstruction
             /\ e.sig + SigLength <= at /\ e.pub + PubKeyLength <= at
             /\ e.msg + e.size = at + payload.size
             /\ e.sig + SigLength \in Int /\ e.pub + PubKeyLength \in Int
  <2>1. PICK i \in 1..n : e = Entry(i, n, payload.size)  BY <1>3 DEF ToSet
  <2>2. /\ e.msg = at /\ e.size = payload.size /\ e.ix = CurrentInstruction
        /\ e.sig + SigLength <= at /\ e.pub + PubKeyLength <= at
        /\ e.msg + e.size = at + payload.size
    BY <1>1, <2>1, EntryExact DEF at
  <2>3. e.sig \in Int /\ e.pub \in Int
    <3>1. e.sig = U16(HeaderSize + n * OffsetsSize + (i - 1) * (PubKeyLength + SigLength)
                      + PubKeyLength)
      BY <2>1 DEF Entry
    <3>2. e.pub = U16(HeaderSize + n * OffsetsSize + (i - 1) * (PubKeyLength + SigLength))
      BY <2>1 DEF Entry
    <3> QED  BY <1>1, <3>1, <3>2 DEF U16, HeaderSize, OffsetsSize, PubKeyLength, SigLength
  <2> QED  BY <2>2, <2>3 DEF SigLength, PubKeyLength
<1>6. messages = {payload}
  <2>1. \A e \in ToSet(data.entries) : Message(data, e.msg, e.size) = payload
    BY <1>3, <1>5 DEF Message
  <2>2. ToSet(data.entries) # {}
    <3>1. 1 \in DOMAIN data.entries  BY <1>1, <1>3
    <3>2. data.entries[1] \in ToSet(data.entries)  BY <3>1 DEF ToSet
    <3> QED  BY <3>2
  <2> QED  BY <2>1, <2>2
<1>7. Cardinality(messages) = 1
  <2>1. Cardinality({payload}) = 1  BY FS_Singleton
  <2> HIDE DEF messages
  <2> QED  BY <1>6, <2>1
<1> DEFINE length == data.at + data.message.size
           Good(e) == /\ e.ix \in {CurrentInstruction, k}
                      /\ e.sig + SigLength <= length
                      /\ e.pub + PubKeyLength <= length
                      /\ e.msg + e.size <= length
<1>8. \A e \in ToSet(data.entries) : Good(e)
  <2> SUFFICES ASSUME NEW e \in ToSet(data.entries) PROVE Good(e)
    OBVIOUS
  <2>1. length = at + payload.size /\ length \in Nat /\ at <= length  BY <1>1, <1>3, <1>4
  <2> HIDE DEF length
  <2> QED  BY <1>4, <1>5, <2>1
<1>9. ExtractSolanaPayload(data, k) = CHOOSE m \in messages : TRUE
  <2>1. data.num > 0  BY <1>1, <1>3
  <2>2. ExtractSolanaPayload(data, k) =
          IF data.num > 0 /\ (\A e \in ToSet(data.entries) : Good(e)) /\ Cardinality(messages) = 1
          THEN CHOOSE m \in messages : TRUE ELSE NoPayload
    BY DEF ExtractSolanaPayload
  <2> HIDE DEF messages, Good
  <2> QED  BY <1>7, <1>8, <2>1, <2>2
<1> QED  BY <1>6, <1>9 DEF data

(* The list at one position.                                               *)
LEMMA AtSingle ==
  ASSUME NEW seq, NEW p \in Nat
  PROVE  /\ DOMAIN At(seq, {p}) = 1..1 /\ Len(At(seq, {p})) = 1
         /\ At(seq, {p})[1] = seq[p]
<1>1. {p} \in SUBSET Nat /\ IsFiniteSet({p}) /\ Cardinality({p}) = 1  BY FS_Singleton
<1> DEFINE P == {p}
<1>2. P \in SUBSET Nat /\ IsFiniteSet(P) /\ Cardinality(P) = 1  BY <1>1
<1> HIDE DEF P
<1>3. /\ Len(At(seq, P)) = Cardinality(P)
      /\ DOMAIN At(seq, P) = 1..Cardinality(P)
      /\ \A k \in 1..Cardinality(P) :
           /\ Ascending(P)[k] \in P
           /\ At(seq, P)[k] = seq[Ascending(P)[k]]
  BY <1>2, AtElements
<1>4. Ascending(P)[1] \in P /\ At(seq, P)[1] = seq[Ascending(P)[1]]  BY <1>2, <1>3
<1>5. Ascending(P)[1] = p  BY <1>4 DEF P
<1> QED  BY <1>2, <1>3, <1>4, <1>5 DEF P

(* findBatchPayloadAtInstruction, at the last of n instructions with the   *)
(* signatures right before it.                                             *)
SignedBefore(ixs, n, keys, signers, payload) ==
  /\ Len(signers) \in Nat /\ ~Ed25519Refused(signers, payload)
  /\ payload.size \in Nat /\ U16(payload.size) = payload.size /\ payload # NoPayload
  /\ n \in Nat /\ n >= 2 /\ DOMAIN ixs = 1..n
  /\ InstructionProgramEquals(ixs, keys, n - 1, Ed25519Program)
  /\ ixs[n - 1].data = BuildBatchedEd25519(signers, payload).data

LEMMA PayloadBefore ==
  ASSUME NEW ixs, NEW n, NEW keys, NEW signers, NEW payload,
         SignedBefore(ixs, n, keys, signers, payload)
  PROVE  FindBatchPayload(ixs, keys, n, payload.batch) = payload
<1> USE DEF SignedBefore
<1> DEFINE adjacent == {i \in {n - 1, n + 1} :
                          InstructionProgramEquals(ixs, keys, i, Ed25519Program)}
           found == ExtractSolanaPayload(ixs[Min(adjacent)].data, Min(adjacent) - 1)
<1>1. FindBatchPayload(ixs, keys, n, payload.batch) =
        IF n \in DOMAIN ixs /\ adjacent # {} /\ found # NoPayload /\ found.batch = payload.batch
        THEN found ELSE NoPayload
  BY DEF FindBatchPayload
<1>2. n + 1 \notin DOMAIN ixs /\ n \in DOMAIN ixs  OBVIOUS
<1>3. ~InstructionProgramEquals(ixs, keys, n + 1, Ed25519Program)
  BY <1>2 DEF InstructionProgramEquals
<1>4. adjacent = {n - 1}  BY <1>3
<1>5. Min({n - 1}) = n - 1
  <2>1. \E x \in {n - 1} : \A y \in {n - 1} : x <= y  OBVIOUS
  <2> QED  BY <2>1 DEF Min
<1> HIDE DEF adjacent
<1>6. found = ExtractSolanaPayload(ixs[n - 1].data, (n - 1) - 1)  BY <1>4, <1>5
<1>7. found = payload  BY <1>6, PayloadExtracted
<1> HIDE DEF found
<1> QED  BY <1>1, <1>2, <1>4, <1>7

-----------------------------------------------------------------------------
(* The configuration after the options of a call that nothing interleaves  *)
(* with.                                                                   *)

LEMMA OptionsApplied ==
  ASSUME NEW c, NEW fields, NEW n \in Nat, Len(fields) = n, NEW d
  PROVE  \E a : /\ a[0] = c
                /\ \A i \in 1..n : a[i] = Option(a[i - 1], fields[i], d)
                /\ ApplyOptions(c, fields, d) = a[n]
<1> DEFINE Solves(f, m) ==
             f = [i \in 0..m |-> IF i = 0 THEN c ELSE Option(f[i - 1], fields[i], d)]
           Bad == {m \in Nat : ~\E f : Solves(f, m)}
<1>1. Bad = {}
  <2> SUFFICES ASSUME Bad # {} PROVE FALSE
    OBVIOUS
  <2>1. Bad \in SUBSET Nat  OBVIOUS
  <2>2. PICK m \in Bad : \A x \in Bad : m <= x
    <3> HIDE DEF Bad
    <3> QED  BY <2>1, LeastOf
  <2>3. m \in Nat /\ ~\E f : Solves(f, m)  OBVIOUS
  <2>4. CASE m = 0
    <3> DEFINE f == [i \in 0..0 |-> c]
    <3>1. \A i \in 0..0 : i = 0  OBVIOUS
    <3>2. f = [i \in 0..0 |-> IF i = 0 THEN c ELSE Option(f[i - 1], fields[i], d)]
      BY <3>1
    <3>3. Solves(f, m)  BY <2>4, <3>2
    <3> QED  BY <2>3, <3>3
  <2>5. CASE m # 0
    <3>1. m - 1 \in Nat /\ m - 1 \notin Bad
      <4>1. m - 1 \in Nat /\ ~(m <= m - 1)  BY <2>3, <2>5
      <4> QED  BY <2>2, <4>1
    <3>2. PICK f : Solves(f, m - 1)  BY <3>1
    <3> DEFINE g == [i \in 0..m |-> IF i = m THEN Option(f[m - 1], fields[m], d) ELSE f[i]]
    <3>3. /\ f[0] = c
          /\ \A i \in 1..(m - 1) : f[i] = Option(f[i - 1], fields[i], d)
      <4>1. 0 \in 0..(m - 1) /\ \A i \in 1..(m - 1) : i \in 0..(m - 1) /\ i # 0  BY <3>1
      <4> QED  BY <3>2, <4>1
    <3>4. \A i \in 0..(m - 1) : g[i] = f[i] /\ g[m] = Option(f[m - 1], fields[m], d)
      BY <3>1, <2>3
    <3>5. ASSUME NEW i \in 0..m
          PROVE  g[i] = IF i = 0 THEN c ELSE Option(g[i - 1], fields[i], d)
      <4> HIDE DEF g
      <4>1. CASE i = 0
        <5>1. 0 \in 0..(m - 1)  BY <3>1
        <5> QED  BY <3>3, <3>4, <4>1, <5>1
      <4>2. CASE i = m /\ i # 0
        <5>1. m - 1 \in 0..(m - 1)  BY <3>1
        <5> QED  BY <3>4, <4>2, <5>1
      <4>3. CASE i # m /\ i # 0
        <5>1. i \in 1..(m - 1) /\ i \in 0..(m - 1) /\ i - 1 \in 0..(m - 1)  BY <2>3, <4>3
        <5> QED  BY <3>3, <3>4, <4>3, <5>1
      <4> QED  BY <4>1, <4>2, <4>3
    <3>6. Solves(g, m)
      <4>1. g = [i \in 0..m |-> g[i]]  OBVIOUS
      <4> HIDE DEF g
      <4> QED  BY <3>5, <4>1
    <3> QED  BY <2>3, <3>6
  <2> QED  BY <2>4, <2>5
<1>2. \E f : Solves(f, n)  BY <1>1
<1> DEFINE applied == CHOOSE f : Solves(f, n)
<1>3. Solves(applied, n)  BY <1>2
<1>4. ApplyOptions(c, fields, d) = applied[n]  BY DEF ApplyOptions
<1> HIDE DEF applied
<1>5. applied[0] = c /\ \A i \in 1..n : applied[i] = Option(applied[i - 1], fields[i], d)
  <2>1. 0 \in 0..n /\ \A i \in 1..n : i \in 0..n /\ i # 0  OBVIOUS
  <2> QED  BY <1>3, <2>1
<1> QED  BY <1>4, <1>5

(* What an option stores, when the configuration holds that program.       *)
Derived(field, program, d) ==
  CASE field = "program"       -> d.program
    [] field \in {"tokenRegistry", "tokenIDGuard"}
                               -> TokenPda(field, d.token, program)
    [] field = "metadata"      -> <<"metadata", d.mint>>
    [] OTHER                   -> Pda(field, program)

LEMMA OptionStores ==
  ASSUME NEW c, DOMAIN c = ConfigFields, NEW field \in ConfigFields, NEW d
  PROVE  /\ DOMAIN Option(c, field, d) = ConfigFields
         /\ Option(c, field, d)[field] = Derived(field, c["program"], d)
         /\ \A g \in ConfigFields : g # field => Option(c, field, d)[g] = c[g]
<1> DEFINE v == Derived(field, c["program"], d)
<1>1. Option(c, field, d) = [c EXCEPT ![field] = v]  BY DEF Option, Derived
<1> HIDE DEF v
<1> QED  BY <1>1 DEF v

LEMMA DerivedKeys ==
  ASSUME NEW program, NEW d
  PROVE  /\ Derived("program", program, d) = d.program
         /\ Derived("validatorSet", program, d) = Pda("validatorSet", program)
         /\ Derived("vault", program, d) = Pda("vault", program)
         /\ Derived("feeConfig", program, d) = Pda("feeConfig", program)
         /\ Derived("programConfig", program, d) = Pda("programConfig", program)
         /\ Derived("programData", program, d) = Pda("programData", program)
         /\ Derived("eventAuthority", program, d) = Pda("eventAuthority", program)
         /\ Derived("tokenRegistry", program, d) = TokenPda("tokenRegistry", d.token, program)
         /\ Derived("tokenIDGuard", program, d) = TokenPda("tokenIDGuard", d.token, program)
         /\ Derived("metadata", program, d) = <<"metadata", d.mint>>
BY DEF Derived

(* What a batch and a listing find in it.                                  *)
LEMMA BatchConfig ==
  ASSUME NEW d, NEW fields \in {BridgeTransactionOptions, ALTAddressesOptions}
  PROVE  LET c == ApplyOptions(NewInstructionConfig, fields, d)
         IN /\ c["program"] = d.program
            /\ c["validatorSet"] = Pda("validatorSet", d.program)
            /\ c["vault"] = Pda("vault", d.program)
            /\ fields = BridgeTransactionOptions =>
                 c["eventAuthority"] = Pda("eventAuthority", d.program)
<1> DEFINE c == ApplyOptions(NewInstructionConfig, fields, d)
           n == IF fields = BridgeTransactionOptions THEN 4 ELSE 3
<1>1. /\ Len(fields) = n /\ n \in 3..4
      /\ fields[1] = "program" /\ fields[2] = "validatorSet" /\ fields[3] = "vault"
      /\ fields = BridgeTransactionOptions => fields[4] = "eventAuthority"
  BY DEF BridgeTransactionOptions, ALTAddressesOptions
<1> HIDE DEF n
<1>2. n \in Nat  BY <1>1
<1>3. PICK a : /\ a[0] = NewInstructionConfig
               /\ \A i \in 1..n : a[i] = Option(a[i - 1], fields[i], d)
               /\ c = a[n]
  BY <1>1, <1>2, OptionsApplied
<1> HIDE DEF c
<1>4. /\ a[1] = Option(a[0], "program", d) /\ a[2] = Option(a[1], "validatorSet", d)
      /\ a[3] = Option(a[2], "vault", d)
  <2>1. 1 \in 1..n /\ 2 \in 1..n /\ 3 \in 1..n  BY <1>1
  <2>2. a[1] = Option(a[1 - 1], fields[1], d)  BY <1>3, <2>1
  <2>3. a[2] = Option(a[2 - 1], fields[2], d)  BY <1>3, <2>1
  <2>4. a[3] = Option(a[3 - 1], fields[3], d)  BY <1>3, <2>1
  <2> QED  BY <1>1, <2>2, <2>3, <2>4
<1>5. DOMAIN a[0] = ConfigFields  BY <1>3 DEF NewInstructionConfig
<1>6. /\ "program" \in ConfigFields /\ "validatorSet" \in ConfigFields
      /\ "vault" \in ConfigFields /\ "eventAuthority" \in ConfigFields
  BY DEF ConfigFields
<1>7. DOMAIN a[1] = ConfigFields /\ a[1]["program"] = d.program
  BY <1>4, <1>5, <1>6, OptionStores, DerivedKeys
<1>8. /\ DOMAIN a[2] = ConfigFields /\ a[2]["program"] = d.program
      /\ a[2]["validatorSet"] = Pda("validatorSet", d.program)
  BY <1>4, <1>6, <1>7, OptionStores, DerivedKeys
<1>9. /\ DOMAIN a[3] = ConfigFields /\ a[3]["program"] = d.program
      /\ a[3]["validatorSet"] = Pda("validatorSet", d.program)
      /\ a[3]["vault"] = Pda("vault", d.program)
  BY <1>4, <1>6, <1>8, OptionStores, DerivedKeys
<1>10. CASE fields = BridgeTransactionOptions
  <2>1. n = 4 /\ fields[4] = "eventAuthority"  BY <1>1, <1>10 DEF n
  <2>2. a[4] = Option(a[4 - 1], fields[4], d)  BY <1>3, <2>1
  <2>3. c = Option(a[3], "eventAuthority", d)  BY <1>3, <2>1, <2>2
  <2>4. /\ c["program"] = d.program
        /\ c["validatorSet"] = Pda("validatorSet", d.program)
        /\ c["vault"] = Pda("vault", d.program)
        /\ c["eventAuthority"] = Pda("eventAuthority", d.program)
    BY <1>6, <1>9, <2>3, OptionStores, DerivedKeys
  <2> QED  BY <2>4 DEF c
<1>11. CASE fields # BridgeTransactionOptions
  <2>1. c = a[3]  BY <1>3, <1>11 DEF n
  <2> QED  BY <1>9, <1>11, <2>1 DEF c
<1> QED  BY <1>10, <1>11

-----------------------------------------------------------------------------
(* A batch as a transaction.                                               *)

(* The list at two positions.                                              *)
LEMMA AtPair ==
  ASSUME NEW seq, NEW p \in Nat, NEW q \in Nat, p < q
  PROVE  LET s == At(seq, {p, q})
         IN DOMAIN s = 1..2 /\ Len(s) = 2 /\ s[1] = seq[p] /\ s[2] = seq[q]
<1> DEFINE P == {p, q}
<1>1. P \in SUBSET Nat /\ IsFiniteSet(P) /\ Cardinality(P) = 2
  <2>1. IsFiniteSet({p}) /\ Cardinality({p}) = 1  BY FS_Singleton
  <2>4. q \notin {p}  OBVIOUS
  <2>2. IsFiniteSet({p} \cup {q}) /\ Cardinality({p} \cup {q}) = 1 + 1
    BY <2>1, <2>4, FS_AddElement
  <2>3. P = {p} \cup {q}  OBVIOUS
  <2> QED  BY <2>2, <2>3
<1>2. \A x \in P : x = p \/ x = q  OBVIOUS
<1>3. p \in P /\ q \in P  OBVIOUS
<1> HIDE DEF P
<1>4. /\ Len(At(seq, P)) = 2 /\ DOMAIN At(seq, P) = 1..2
      /\ \A k \in 1..2 : Ascending(P)[k] \in P /\ At(seq, P)[k] = seq[Ascending(P)[k]]
  <2>1. /\ Len(At(seq, P)) = Cardinality(P) /\ DOMAIN At(seq, P) = 1..Cardinality(P)
        /\ \A k \in 1..Cardinality(P) :
             Ascending(P)[k] \in P /\ At(seq, P)[k] = seq[Ascending(P)[k]]
    BY <1>1, AtElements
  <2> QED  BY <1>1, <2>1
<1>5. \A k, l \in 1..2 : k < l => Ascending(P)[k] < Ascending(P)[l]
  <2>1. \A k, l \in 1..Cardinality(P) : k < l => Ascending(P)[k] < Ascending(P)[l]
    BY <1>1, AscendingOrder
  <2> QED  BY <1>1, <2>1
<1>6. Ascending(P)[1] < Ascending(P)[2]  BY <1>5
<1>7. Ascending(P)[1] \in P /\ Ascending(P)[2] \in P  BY <1>4
<1>8. Ascending(P)[1] = p /\ Ascending(P)[2] = q  BY <1>2, <1>6, <1>7
<1> QED  BY <1>4, <1>8 DEF P

(* A v1 message holds the signatures and the bridge instruction, and the   *)
(* limit in its header; a v0 message holds what was built.                 *)
BatchTx(tx, c, d, signers, n) ==
  /\ DOMAIN tx.instructions = 1..n /\ Len(tx.instructions) = n
  /\ tx.instructions[n] = BridgeInstruction(c, d)
  /\ tx.instructions[n - 1] = BuildBatchedEd25519(signers, d.payload)
  /\ n = 3 => tx.instructions[1] = SetComputeUnitLimit(MaxReceiversUnits)
  /\ \/ tx.version = "v0" /\ n = IF Len(d.receivers) = MaxReceivers THEN 3 ELSE 2
     \/ /\ tx.version = "v1" /\ n = 2
        /\ tx.units = IF Len(d.receivers) = MaxReceivers THEN MaxReceiversUnits
                      ELSE DefaultComputeUnitLimit(2)

LEMMA BatchTxForm ==
  ASSUME NEW c, NEW d, NEW signers, d.program # ComputeBudget, NEW R, d.receivers \in Seq(R)
  PROVE  \E n \in 2..3 :
           BatchTx(CreateTx("bridge_transaction", BridgeTransaction(c, d, signers), d.tables),
                   c, d, signers, n)
<1> DEFINE ixs == BridgeTransaction(c, d, signers)
           k == IF Len(d.receivers) = MaxReceivers THEN 3 ELSE 2
           tx == CreateTx("bridge_transaction", ixs, d.tables)
           bridge == BridgeInstruction(c, d)
           signed == BuildBatchedEd25519(signers, d.payload)
           limit == SetComputeUnitLimit(MaxReceiversUnits)
           budget == {i \in DOMAIN ixs : ixs[i].program = ComputeBudget}
           rest == At(ixs, DOMAIN ixs \ budget)
           units == IF budget # {} THEN ixs[Max(budget)].data.units
                    ELSE DefaultComputeUnitLimit(Len(rest))
<1>1. /\ DOMAIN ixs = 1..k /\ Len(ixs) = k /\ ixs[k] = bridge /\ ixs[k - 1] = signed
      /\ k = 3 => ixs[1] = limit
  BY BatchForm
<1>2. /\ bridge.program # ComputeBudget /\ signed.program # ComputeBudget
      /\ limit.program = ComputeBudget /\ limit.data.units = MaxReceiversUnits
  <2>1. bridge.program = d.program  BY BridgeForm DEF BridgeLaid
  <2>2. signed.program = Ed25519Program  BY DEF BuildBatchedEd25519
  <2>3. Ed25519Program # ComputeBudget  BY DEF Ed25519Program, ComputeBudget, WellKnown
  <2>4. limit.program = ComputeBudget /\ limit.data.units = MaxReceiversUnits
    BY DEF SetComputeUnitLimit
  <2> QED  BY <2>1, <2>2, <2>3, <2>4
<1>3. tx = IF d.tables THEN [version |-> "v0", units |-> 0, instructions |-> ixs]
           ELSE [version |-> "v1", units |-> units, instructions |-> rest]
  <2>1. UsesV1Message("bridge_transaction")  BY DEF UsesV1Message
  <2>2. /\ InlineComputeBudget(ixs).units = units
        /\ InlineComputeBudget(ixs).instructions = rest
    <3>1. InlineComputeBudget(ixs) = [instructions |-> rest, units |-> units]
      BY DEF InlineComputeBudget
    <3> HIDE DEF rest, units
    <3> QED  BY <3>1
  <2> HIDE DEF rest, units, ixs
  <2> QED  BY <2>1, <2>2 DEF CreateTx
<1> HIDE DEF bridge, signed, limit, ixs, tx
<1>4. CASE d.tables
  <2>1. tx.instructions = ixs /\ tx.version = "v0"  BY <1>3, <1>4
  <2>2. BatchTx(tx, c, d, signers, k)
    BY <1>1, <2>1 DEF BatchTx, bridge, signed, limit
  <2>3. k \in 2..3  OBVIOUS
  <2> HIDE DEF k
  <2> QED  BY <2>2, <2>3 DEF tx, ixs
<1>5. CASE ~d.tables
  <2>1. tx.version = "v1" /\ tx.units = units /\ tx.instructions = rest
    <3> HIDE DEF units, rest
    <3> QED  BY <1>3, <1>5
  <2>2. /\ DOMAIN rest = 1..2 /\ Len(rest) = 2 /\ rest[1] = signed /\ rest[2] = bridge
        /\ units = IF Len(d.receivers) = MaxReceivers THEN MaxReceiversUnits
                   ELSE DefaultComputeUnitLimit(2)
    <3>1. CASE Len(d.receivers) = MaxReceivers
      <4>1. /\ DOMAIN ixs = 1..3 /\ ixs[3] = bridge /\ ixs[2] = signed /\ ixs[1] = limit
        BY <1>1, <3>1
      <4>2. budget = {1}
        <5>1. \A i \in 1..3 : i = 1 \/ i = 2 \/ i = 3  OBVIOUS
        <5> QED  BY <1>2, <4>1, <5>1
      <4>3. DOMAIN ixs \ {1} = {2, 3}
        <5>1. 1..3 = {1, 2, 3}  OBVIOUS
        <5> QED  BY <4>1, <5>1
      <4>4. rest = At(ixs, {2, 3})  BY <4>2, <4>3
      <4>5. DOMAIN rest = 1..2 /\ Len(rest) = 2 /\ rest[1] = ixs[2] /\ rest[2] = ixs[3]
        <5> HIDE DEF rest
        <5>1. 2 \in Nat /\ 3 \in Nat /\ 2 < 3  OBVIOUS
        <5> QED  BY <4>4, <5>1, AtPair
      <4>6. Max({1}) = 1
        <5>1. \E x \in {1} : \A y \in {1} : x >= y  OBVIOUS
        <5> QED  BY <5>1 DEF Max
      <4> HIDE DEF budget, rest
      <4>7. units = MaxReceiversUnits  BY <1>2, <4>1, <4>2, <4>6
      <4> QED  BY <3>1, <4>1, <4>5, <4>7
    <3>2. CASE Len(d.receivers) # MaxReceivers
      <4>1. DOMAIN ixs = 1..2 /\ ixs[2] = bridge /\ ixs[1] = signed  BY <1>1, <3>2
      <4>2. budget = {}
        <5>1. \A i \in 1..2 : i = 1 \/ i = 2  OBVIOUS
        <5> QED  BY <1>2, <4>1, <5>1
      <4>3. DOMAIN ixs \ {} = {1, 2}
        <5>1. 1..2 = {1, 2}  OBVIOUS
        <5> QED  BY <4>1, <5>1
      <4>4. rest = At(ixs, {1, 2})  BY <4>2, <4>3
      <4>5. DOMAIN rest = 1..2 /\ Len(rest) = 2 /\ rest[1] = ixs[1] /\ rest[2] = ixs[2]
        <5> HIDE DEF rest
        <5>1. 1 \in Nat /\ 2 \in Nat /\ 1 < 2  OBVIOUS
        <5> QED  BY <4>4, <5>1, AtPair
      <4> HIDE DEF budget, rest
      <4>6. units = DefaultComputeUnitLimit(2)  BY <4>2, <4>5
      <4> QED  BY <3>2, <4>1, <4>5, <4>6
    <3> QED  BY <3>1, <3>2
  <2> HIDE DEF units, rest
  <2>3. BatchTx(tx, c, d, signers, 2)
    BY <2>1, <2>2 DEF BatchTx, bridge, signed
  <2> QED  BY <2>3 DEF tx, ixs
<1> QED  BY <1>4, <1>5
=============================================================================
