------------------------- MODULE LookupTables_proofs -------------------------
(***************************************************************************)
(* Proofs about the lookup tables, for every number of goroutines, every   *)
(* request and every size of an extend instruction.                        *)
(***************************************************************************)
EXTENDS LookupTables, TxBuilders_proofs

-----------------------------------------------------------------------------
(* The addresses asked for, and their chunks.                              *)

(* A list of tokens is asked for as a list of addresses.                   *)
LEMMA AskedSeq ==
  ASSUME NEW r \in AltRequests
  PROVE  Asked(r) \in Seq(ToSet(Asked(r))) /\ Asked(r) \in Seq(AskedKeys)
<1> DEFINE c == ApplyOptions(NewInstructionConfig, ALTAddressesOptions, r)
           tokens == ALTTokens(r)
           entries == ALTEntries(c, r)
           front == ALTFront(c)
           U == ToSet(front) \cup ToSet(entries)
<1>1. Len(tokens) \in Nat
  <2> DEFINE S == {t \in DOMAIN r.mints : r.mints[t] # NativeSolMint}
  <2>1. S \in SUBSET Nat /\ IsFiniteSet(S)
    <3>1. S \in SUBSET DOMAIN r.mints  OBVIOUS
    <3> QED  BY <3>1, RequestsAssumption, FS_Subset
  <2>2. tokens = Ascending(S)  BY DEF ALTTokens
  <2> HIDE DEF S, tokens
  <2>3. Cardinality(S) \in Nat /\ tokens \in [1..Cardinality(S) -> S]
    BY <2>1, <2>2, AscendingOrder
  <2> QED  BY <2>3
<1>2. entries \in Seq(U)
  <2> DEFINE n == 3 * Len(tokens)
  <2>1. DOMAIN entries = 1..n  BY DEF ALTEntries
  <2>2. n \in Nat  BY <1>1
  <2>3. entries = [i \in 1..n |-> entries[i]]  BY <2>1 DEF ALTEntries
  <2> HIDE DEF n, entries
  <2>4. \A i \in 1..n : entries[i] \in U  BY <2>1 DEF ToSet
  <2>5. entries \in [1..n -> U]  BY <2>3, <2>4
  <2> QED  BY ONLY <2>2, <2>5
<1>3. front \in Seq(U)
  <2>1. front \in Seq(ToSet(front))
    <3> DEFINE a == c["validatorSet"]  b == c["vault"]
    <3>1. front = <<a, b, WellKnown("token"), WellKnown("system"), WellKnown("ata_program"),
                    WellKnown("instructions_sysvar")>>
      BY DEF ALTFront
    <3> HIDE DEF front, a, b
    <3>2. DOMAIN front = 1..6 /\ front = [i \in 1..6 |-> front[i]]  BY <3>1
    <3> QED  BY <3>2, ListOf
  <2>2. ToSet(front) \in SUBSET U  OBVIOUS
  <2> HIDE DEF front, U
  <2> QED  BY <2>1, <2>2
<1>4. Asked(r) = front \o entries  BY DEF Asked, ALTAddresses
<1> HIDE DEF front, entries, U
<1> DEFINE a == Asked(r)
<1>5. a \in Seq(U)  BY <1>2, <1>3, <1>4
<1> HIDE DEF a
<1>6. a \in Seq(ToSet(a))
  <2>1. Len(a) \in Nat /\ a = [i \in 1..Len(a) |-> a[i]] /\ DOMAIN a = 1..Len(a)
    BY ONLY <1>5
  <2>2. \A i \in 1..Len(a) : a[i] \in ToSet(a)  BY <2>1 DEF ToSet
  <2>3. a \in [1..Len(a) -> ToSet(a)]  BY ONLY <2>1, <2>2
  <2> QED  BY ONLY <2>1, <2>3
<1>7. ToSet(a) \in SUBSET AskedKeys  BY DEF AskedKeys, a
<1>8. a \in Seq(AskedKeys)  BY ONLY <1>6, <1>7
<1> QED  BY <1>6, <1>8 DEF a

(* Quotient and remainder.                                                 *)
LEMMA Division ==
  ASSUME NEW a \in Nat, NEW n \in Nat \ {0}
  PROVE  /\ a \div n \in Nat /\ a % n \in Nat
         /\ a % n < n
         /\ a = n * (a \div n) + (a % n)
OBVIOUS

(* What an extend adds: the asked addresses that are not stored, once each. *)
LEMMA ToAddExact ==
  ASSUME NEW K, NEW asked \in Seq(K), NEW stored
  PROVE  /\ ToAdd(stored, asked) \in Seq(K)
         /\ IsInjective(ToAdd(stored, asked))
         /\ ToSet(ToAdd(stored, asked)) = ToSet(asked) \ ToSet(stored)
<1> DEFINE P == {i \in FirstPositions(asked) : asked[i] \notin ToSet(stored)}
           n == Len(asked)
           s == ToAdd(stored, asked)
<1>1. n \in Nat /\ DOMAIN asked = 1..n /\ \A i \in 1..n : asked[i] \in K
  OBVIOUS
<1> HIDE DEF n
<1>2. P \in SUBSET (1..n)  BY <1>1 DEF FirstPositions
<1>3. P \in SUBSET Nat /\ IsFiniteSet(P)
  <2>1. IsFiniteSet(1..n)  BY <1>1, FS_Interval
  <2> QED  BY <1>1, <1>2, <2>1, FS_Subset
<1>4. s = At(asked, P)  BY DEF ToAdd
<1>5. \A i, j \in P : asked[i] = asked[j] => i = j
  <2> SUFFICES ASSUME NEW i \in P, NEW j \in P, asked[i] = asked[j] PROVE i = j
    OBVIOUS
  <2>1. i \in 1..n /\ j \in 1..n  BY <1>2
  <2>2. /\ \A l \in 1..(i - 1) : asked[l] # asked[i]
        /\ \A l \in 1..(j - 1) : asked[l] # asked[j]
    BY DEF FirstPositions
  <2>3. j \notin 1..(i - 1) /\ i \notin 1..(j - 1)  BY <2>2
  <2> QED  BY <1>1, <2>1, <2>3
<1> DEFINE m == Cardinality(P)
<1>6. /\ m \in Nat /\ s \in Seq({asked[i] : i \in P}) /\ DOMAIN s = 1..m
      /\ \A k \in 1..m : \E i \in P : s[k] = asked[i]
      /\ \A i \in P : \E k \in 1..m : s[k] = asked[i]
      /\ \A k, l \in 1..m : s[k] = s[l] => k = l
  <2> HIDE DEF P, s
  <2>1. /\ m \in Nat /\ s \in Seq({asked[i] : i \in P}) /\ DOMAIN s = 1..m
        /\ \A k \in 1..m : Ascending(P)[k] \in P /\ s[k] = asked[Ascending(P)[k]]
        /\ \A i \in P : \E k \in 1..m : s[k] = asked[i]
    BY <1>3, <1>4, AtElements
  <2>2. \A k, l \in 1..m : s[k] = s[l] => k = l
    BY <1>3, <1>4, <1>5, AtInjective
  <2>3. \A k \in 1..m : \E i \in P : s[k] = asked[i]  BY <2>1
  <2> QED  BY <2>1, <2>2, <2>3
<1> HIDE DEF s, m
<1>7. s \in Seq(K)
  <2>1. {asked[i] : i \in P} \in SUBSET K  BY <1>1, <1>2
  <2> QED  BY <1>6, <2>1
<1>8. IsInjective(s)  BY <1>6 DEF IsInjective
<1>9. ASSUME NEW k \in 1..m PROVE s[k] \in ToSet(asked) \ ToSet(stored)
  <2>1. PICK i \in P : s[k] = asked[i]  BY <1>6
  <2>2. i \in DOMAIN asked  BY <1>1, <1>2
  <2> QED  BY <2>1, <2>2 DEF ToSet
<1>10. ASSUME NEW x \in ToSet(asked) \ ToSet(stored) PROVE x \in ToSet(s)
  <2>1. PICK i \in 1..n : x = asked[i]  BY <1>1 DEF ToSet
  <2> DEFINE p == PositionIn(asked, asked[i])
  <2>2. p \in FirstPositions(asked) /\ asked[p] = asked[i]  BY <1>1, FirstPosition
  <2> HIDE DEF p
  <2>3. p \in P  BY <1>10, <2>1, <2>2
  <2>4. PICK k \in 1..m : s[k] = asked[p]  BY <1>6, <2>3
  <2> QED  BY <1>6, <2>1, <2>2, <2>4 DEF ToSet
<1>11. ToSet(s) = ToSet(asked) \ ToSet(stored)
  <2>1. ToSet(s) \subseteq ToSet(asked) \ ToSet(stored)  BY <1>6, <1>9 DEF ToSet
  <2> QED  BY <1>10, <2>1
<1> QED  BY <1>7, <1>8, <1>11 DEF s

(* The chunks hold the addresses in turn, none is empty and none too long. *)
LEMMA ChunkForm ==
  ASSUME NEW K, NEW keys \in Seq(K)
  PROVE  LET count == (Len(keys) + MaxPerIx - 1) \div MaxPerIx IN
         /\ count \in Nat
         /\ Chunks(keys) \in Seq(Seq(K))
         /\ DOMAIN Chunks(keys) = 1..count
         /\ \A i \in 1..count :
              LET c == Chunks(keys)[i] IN
              /\ Len(c) \in 1..MaxPerIx
              /\ (i - 1) * MaxPerIx + Len(c) <= Len(keys)
              /\ i < count => Len(c) = MaxPerIx
              /\ i = count => (i - 1) * MaxPerIx + Len(c) = Len(keys)
              /\ \A j \in 1..Len(c) : c[j] = keys[(i - 1) * MaxPerIx + j]
<1> DEFINE n == Len(keys)
           M == MaxPerIx
           count == (n + M - 1) \div M
           End(i) == IF i * M > n THEN n ELSE i * M
<1>1. n \in Nat /\ M \in Nat \ {0}  BY TablesAssumption
<1>2. Chunks(keys) = [i \in 1..count |-> SubSeq(keys, (i - 1) * M + 1, End(i))]
  BY DEF Chunks
<1>3. /\ count \in Nat /\ (n + M - 1) % M \in Nat /\ (n + M - 1) % M < M
      /\ n + M - 1 = M * count + ((n + M - 1) % M)
  <2>1. n + M - 1 \in Nat  BY <1>1
  <2> DEFINE a == n + M - 1
  <2> HIDE DEF a, n, M
  <2> QED  BY <1>1, <2>1, Division DEF a
<1>4. M * count < n + M /\ n <= M * count
  <2> DEFINE q == count  r == (n + M - 1) % M  p == M * q
  <2>1. n + M - 1 = p + r /\ r \in Nat /\ r < M  BY <1>3
  <2>2. p \in Nat  BY <1>1, <1>3
  <2> HIDE DEF q, r, p, n, M
  <2>3. p < n + M /\ n <= p  BY <1>1, <2>1, <2>2
  <2> QED  BY <2>3 DEF p, q
<1> HIDE DEF n, M, count
<1>5. ASSUME NEW i \in 1..count
      PROVE  /\ (i - 1) * M \in Nat /\ (i - 1) * M < n
             /\ End(i) \in Nat /\ End(i) <= n
             /\ End(i) - (i - 1) * M \in 1..M
             /\ i < count => End(i) - (i - 1) * M = M
             /\ i = count => End(i) = n
  <2>0. i \in Nat /\ i - 1 \in Nat /\ i <= count  BY <1>3
  <2> DEFINE b == (i - 1) * M  e == i * M  t == M * count
  <2>1. b \in Nat /\ e \in Nat /\ t \in Nat  BY <1>1, <1>3, <2>0
  <2>2. e = b + M
    <3>1. i = (i - 1) + 1  BY <2>0
    <3> QED  BY <1>1, <2>0, <3>1
  <2>3. e <= t
    <3>1. i * M <= count * M  BY <1>1, <1>3, <2>0
    <3> QED  BY <1>1, <1>3, <3>1
  <2>4. i < count => e + M <= t
    <3> SUFFICES ASSUME i < count PROVE e + M <= t
      OBVIOUS
    <3>1. i + 1 <= count  BY <1>3, <2>0
    <3>2. (i + 1) * M <= count * M  BY <1>1, <1>3, <2>0, <3>1
    <3>3. (i + 1) * M = i * M + M  BY <1>1, <2>0
    <3> QED  BY <1>1, <1>3, <3>2, <3>3
  <2>5. i = count => e = t  BY <1>1, <1>3, <2>0
  <2>6. t < n + M /\ n <= t  BY <1>4
  <2>7. End(i) = IF e > n THEN n ELSE e  OBVIOUS
  <2> HIDE DEF b, e, t, End
  <2>8. /\ b < n /\ End(i) \in Nat /\ End(i) <= n /\ End(i) - b \in 1..M
        /\ i < count => End(i) - b = M
        /\ i = count => End(i) = n
    BY <1>1, <2>1, <2>2, <2>3, <2>4, <2>5, <2>6, <2>7
  <2> QED  BY <2>1, <2>8 DEF b
<1>6. ASSUME NEW i \in 1..count
      PROVE  LET c == Chunks(keys)[i] IN
             /\ c \in Seq(K)
             /\ Len(c) = End(i) - (i - 1) * M
             /\ \A j \in 1..Len(c) : c[j] = keys[(i - 1) * M + j]
  <2> DEFINE b == (i - 1) * M  e == End(i)  c == Chunks(keys)[i]
  <2>1. c = SubSeq(keys, b + 1, e)  BY <1>2
  <2>2. b \in Nat /\ e \in Nat /\ b < e /\ e <= Len(keys)
    <3>1. b \in Nat /\ e \in Nat /\ e <= n /\ e - b \in 1..M  BY <1>5
    <3> HIDE DEF b, e
    <3>2. b < e  BY <1>1, <3>1
    <3> QED  BY <3>1, <3>2 DEF n
  <2> HIDE DEF b, e, c
  <2>3. c \in Seq(K) /\ Len(c) = e - b  BY <2>1, <2>2
  <2>4. \A j \in 1..Len(c) : c[j] = keys[b + j]  BY <2>1, <2>2, <2>3
  <2> QED  BY <2>3, <2>4 DEF b, e, c
<1> HIDE DEF End
<1>7. DOMAIN Chunks(keys) = 1..count /\ Chunks(keys) \in Seq(Seq(K))
  <2> DEFINE s == Chunks(keys)
  <2>1. DOMAIN s = 1..count /\ s = [i \in 1..count |-> s[i]]  BY <1>2
  <2>2. \A i \in 1..count : s[i] \in Seq(K)  BY <1>6
  <2> HIDE DEF s
  <2>3. s \in [1..count -> Seq(K)]  BY <2>1, <2>2
  <2>4. s \in Seq(Seq(K))  BY ONLY <1>3, <2>3
  <2> QED  BY <2>1, <2>4 DEF s
<1>8. ASSUME NEW i \in 1..count
      PROVE  LET c == Chunks(keys)[i] IN
             /\ Len(c) \in 1..M
             /\ (i - 1) * M + Len(c) <= n
             /\ i < count => Len(c) = M
             /\ i = count => (i - 1) * M + Len(c) = n
             /\ \A j \in 1..Len(c) : c[j] = keys[(i - 1) * M + j]
  <2> DEFINE b == (i - 1) * M  e == End(i)  c == Chunks(keys)[i]
  <2>1. /\ b \in Nat /\ e \in Nat /\ e <= n /\ e - b \in 1..M
        /\ i < count => e - b = M
        /\ i = count => e = n
    BY <1>5
  <2>2. Len(c) = e - b /\ \A j \in 1..Len(c) : c[j] = keys[b + j]  BY <1>6
  <2> HIDE DEF b, e, c
  <2>3. b + Len(c) <= n /\ (i = count => b + Len(c) = n)
    BY <1>1, <2>1, <2>2
  <2> QED  BY <2>1, <2>2, <2>3 DEF b, c
<1> QED  BY <1>3, <1>7, <1>8 DEF n, M, count

(* Together they hold every address once.                                  *)
LEMMA ChunksPartition ==
  ASSUME NEW K, NEW keys \in Seq(K), IsInjective(keys)
  PROVE  LET chunks == Chunks(keys) IN
         /\ chunks \in Seq(Seq(K))
         /\ \A i \in DOMAIN chunks :
              /\ Len(chunks[i]) \in 1..MaxPerIx
              /\ IsInjective(chunks[i])
              /\ \A j \in DOMAIN chunks :
                   j # i => ToSet(chunks[i]) \cap ToSet(chunks[j]) = {}
         /\ UNION {ToSet(c) : c \in ToSet(chunks)} = ToSet(keys)
<1> DEFINE n == Len(keys)
           M == MaxPerIx
           count == (n + M - 1) \div M
           s == Chunks(keys)
           Base(i) == (i - 1) * M
<1>1. n \in Nat /\ M \in Nat \ {0} /\ DOMAIN keys = 1..n
  BY TablesAssumption
<1>2. /\ count \in Nat /\ s \in Seq(Seq(K)) /\ DOMAIN s = 1..count
      /\ \A i \in 1..count :
           /\ Len(s[i]) \in 1..M
           /\ Base(i) + Len(s[i]) <= n
           /\ i < count => Len(s[i]) = M
           /\ i = count => Base(i) + Len(s[i]) = n
           /\ \A j \in 1..Len(s[i]) : s[i][j] = keys[Base(i) + j]
  BY ChunkForm
<1>3. /\ n + M - 1 = M * count + ((n + M - 1) % M)
      /\ (n + M - 1) % M \in Nat /\ (n + M - 1) % M < M
  <2>1. n + M - 1 \in Nat  BY <1>1
  <2> DEFINE a == n + M - 1
  <2> HIDE DEF a, n, M
  <2> QED  BY <1>1, <2>1, Division DEF a
<1> HIDE DEF n, M, count, s
<1>4. \A i \in 1..count : /\ Base(i) \in Nat
                         /\ s[i] \in Seq(K) /\ DOMAIN s[i] = 1..Len(s[i])
  <2>1. \A i \in 1..count : i - 1 \in Nat  BY <1>2
  <2>2. \A i \in 1..count : Base(i) \in Nat  BY <1>1, <2>1
  <2>3. \A i \in 1..count : s[i] \in Seq(K)  BY ONLY <1>2
  <2>4. \A i \in 1..count : DOMAIN s[i] = 1..Len(s[i])  BY ONLY <2>3
  <2> QED  BY <2>2, <2>3, <2>4
(* A position of a chunk is a position of the whole, and tells which.      *)
<1>5. ASSUME NEW i \in 1..count, NEW j \in 1..Len(s[i])
      PROVE  Base(i) + j \in 1..n /\ j \in 1..M
  <2> DEFINE b == Base(i)  l == Len(s[i])
  <2>1. b \in Nat /\ l \in 1..M /\ b + l <= n /\ j \in 1..l  BY <1>2, <1>4
  <2> HIDE DEF b, l
  <2>2. b + j \in 1..n /\ j \in 1..M  BY <1>1, <2>1
  <2> QED  BY <2>2 DEF b
<1>6. ASSUME NEW i \in 1..count, NEW k \in 1..count, i < k PROVE Base(i) + M <= Base(k)
  <2>1. i \in Nat /\ k \in Nat /\ i <= k - 1 /\ i - 1 \in Nat /\ k - 1 \in Nat  BY <1>2, <1>6
  <2>2. i * M <= (k - 1) * M  BY <1>1, <2>1
  <2>3. i * M = (i - 1) * M + M  BY <1>1, <2>1
  <2> QED  BY <2>2, <2>3
<1>7. ASSUME NEW i \in 1..count, NEW j \in 1..Len(s[i]),
             NEW k \in 1..count, NEW l \in 1..Len(s[k]), s[i][j] = s[k][l]
      PROVE  i = k /\ j = l
  <2>1. keys[Base(i) + j] = keys[Base(k) + l]  BY <1>2, <1>7
  <2>2. Base(i) + j = Base(k) + l  BY <1>1, <1>5, <2>1 DEF IsInjective
  <2>3. Base(i) \in Nat /\ Base(k) \in Nat /\ j \in 1..M /\ l \in 1..M  BY <1>4, <1>5
  <2>4. i \in Nat /\ k \in Nat  BY <1>2
  <2>5. ~(i < k)
    <3>1. i < k => Base(i) + M <= Base(k)  BY <1>6
    <3> HIDE DEF Base
    <3> QED  BY <1>1, <2>2, <2>3, <3>1
  <2>6. ~(k < i)
    <3>1. k < i => Base(k) + M <= Base(i)  BY <1>6
    <3> HIDE DEF Base
    <3> QED  BY <1>1, <2>2, <2>3, <3>1
  <2>7. i = k  BY <2>4, <2>5, <2>6
  <2>8. Base(i) = Base(k)  BY <2>7
  <2> HIDE DEF Base
  <2> QED  BY <2>2, <2>3, <2>7, <2>8
<1>8. ASSUME NEW p \in 1..n PROVE \E i \in 1..count : \E j \in 1..Len(s[i]) : s[i][j] = keys[p]
  <2> DEFINE q == (p - 1) \div M  r == (p - 1) % M
  <2>1. q \in Nat /\ r \in Nat /\ r < M /\ p - 1 = M * q + r
    <3>1. p - 1 \in Nat  BY <1>1
    <3> DEFINE a == p - 1
    <3> HIDE DEF a
    <3> QED  BY <1>1, <3>1, Division DEF a
  <2> HIDE DEF q, r
  <2>2. q < count
    <3> DEFINE t == (n + M - 1) % M
    <3>1. t \in Nat /\ t < M /\ n + M - 1 = M * count + t  BY <1>3
    <3> HIDE DEF t
    <3>2. ASSUME count <= q PROVE FALSE
      <4>1. M * count <= M * q  BY <1>1, <1>2, <2>1, <3>2
      <4>2. M * count \in Nat /\ M * q \in Nat  BY <1>1, <1>2, <2>1
      <4> DEFINE x == M * count  y == M * q
      <4>3. x <= y /\ x \in Nat /\ y \in Nat /\ p - 1 = y + r /\ n + M - 1 = x + t
        BY <2>1, <3>1, <4>1, <4>2
      <4> HIDE DEF x, y
      <4> QED  BY <1>1, <2>1, <3>1, <4>3
    <3> QED  BY <1>2, <2>1, <3>2
  <2> DEFINE i == q + 1  j == r + 1
  <2>3. i \in 1..count /\ j \in Nat  BY <1>2, <2>1, <2>2
  <2>4. Base(i) = M * q /\ Base(i) \in Nat
    <3>1. i - 1 = q  BY <2>1
    <3>2. (i - 1) * M = q * M  BY <3>1
    <3> QED  BY <1>1, <1>4, <2>1, <2>3, <3>2
  <2>5. p = Base(i) + j
    <3> DEFINE b == Base(i)
    <3>1. b \in Nat /\ p - 1 = b + r  BY <2>1, <2>4
    <3> HIDE DEF b, i
    <3>2. p = b + j  BY <1>1, <2>1, <3>1
    <3> QED  BY <3>2 DEF b, i
  <2> HIDE DEF i
  <2>6. j \in 1..Len(s[i])
    <3> DEFINE b == Base(i)  l == Len(s[i])
    <3>1. /\ l \in 1..M /\ b \in Nat /\ p = b + j
          /\ i < count => l = M
          /\ i = count => b + l = n
      BY <1>2, <2>3, <2>4, <2>5
    <3>2. i < count \/ i = count  BY <1>2, <2>3
    <3> HIDE DEF b, l, Base
    <3>3. 1 <= j /\ j <= M /\ p \in Nat /\ p <= n  BY <1>1, <2>1
    <3> HIDE DEF j
    <3>4. j <= l
      <4>1. i = count => j <= l  BY <1>1, <2>3, <3>1, <3>3
      <4> QED  BY <3>1, <3>2, <3>3, <4>1
    <3>5. j \in 1..l  BY <1>1, <2>3, <3>1, <3>3, <3>4
    <3> QED  BY <3>5 DEF l
  <2>7. s[i][j] = keys[p]  BY <1>2, <2>3, <2>5, <2>6
  <2> QED  BY <2>3, <2>6, <2>7
<1> HIDE DEF Base
<1>9. \A i \in 1..count : IsInjective(s[i])  BY <1>4, <1>7 DEF IsInjective
<1>10. ASSUME NEW i \in 1..count, NEW k \in 1..count, k # i
       PROVE  ToSet(s[i]) \cap ToSet(s[k]) = {}
  <2> SUFFICES ASSUME NEW x \in ToSet(s[i]), x \in ToSet(s[k]) PROVE FALSE
    OBVIOUS
  <2>1. PICK j \in 1..Len(s[i]) : s[i][j] = x  BY <1>4 DEF ToSet
  <2>2. PICK l \in 1..Len(s[k]) : s[k][l] = x  BY <1>4 DEF ToSet
  <2> QED  BY <1>7, <1>10, <2>1, <2>2
<1>11. UNION {ToSet(c) : c \in ToSet(s)} = ToSet(keys)
  <2>1. ASSUME NEW i \in 1..count, NEW j \in 1..Len(s[i]) PROVE s[i][j] \in ToSet(keys)
    <3>1. Base(i) + j \in DOMAIN keys /\ s[i][j] = keys[Base(i) + j]  BY <1>1, <1>2, <1>5
    <3> QED  BY <3>1 DEF ToSet
  <2>2. ASSUME NEW c \in ToSet(s) PROVE ToSet(c) \subseteq ToSet(keys)
    <3>1. PICK i \in 1..count : c = s[i]  BY <1>2 DEF ToSet
    <3> QED  BY <1>4, <2>1, <3>1 DEF ToSet
  <2>3. ASSUME NEW x \in ToSet(keys) PROVE \E c \in ToSet(s) : x \in ToSet(c)
    <3>1. PICK p \in 1..n : x = keys[p]  BY <1>1 DEF ToSet
    <3>2. PICK i \in 1..count : \E j \in 1..Len(s[i]) : s[i][j] = keys[p]  BY <1>8
    <3>3. s[i] \in ToSet(s)  BY <1>2, <3>2 DEF ToSet
    <3>4. x \in ToSet(s[i])  BY <1>4, <3>1, <3>2 DEF ToSet
    <3> QED  BY <3>3, <3>4
  <2> QED  BY <2>2, <2>3
<1> QED  BY <1>2, <1>9, <1>10, <1>11 DEF s, M

-----------------------------------------------------------------------------
(* Types.  Everything that stands for a table's contents is a list of      *)
(* asked addresses.                                                        *)

Contents == Seq(AskedKeys)

UserOK(x) ==
  \/ x \in [pc : {"idle", "fetch"}]
  \/ x \in [pc : {"store", "resolved"}, keys : Contents]
  \/ x.pc \in {"sent", "landed"}

TableTypes ==
  /\ table \in [state : {"none", "active", "frozen", "deactivating", "closed"},
                keys : Contents]
  /\ plan \in [chunks : Seq(Contents), wanted : SUBSET AskedKeys, lost : BOOLEAN]
  /\ cache \in Contents \cup {NoEntry}
  /\ DOMAIN user = Users
  /\ user = [u \in Users |-> user[u]]
  /\ \A u \in Users : UserOK(user[u])

LEMMA TypesInit == Init => TableTypes
<1> SUFFICES ASSUME Init PROVE TableTypes
  OBVIOUS
<1>1. << >> \in Contents /\ << >> \in Seq(Contents)  BY DEF Contents
<1>2. \A u \in Users : UserOK(user[u])  BY DEF Init, UserOK
<1> QED  BY <1>1, <1>2 DEF Init, TableTypes

(* The chunks of a plan are lists of asked addresses.                      *)
LEMMA PlanChunks ==
  ASSUME NEW r \in AltRequests, NEW stored
  PROVE  LET chunks == Chunks(ToAdd(stored, Asked(r))) IN
         /\ chunks \in Seq(Contents)
         /\ ToSet(Asked(r)) \in SUBSET AskedKeys
         /\ \A i \in DOMAIN chunks :
              /\ Len(chunks[i]) \in 1..MaxPerIx
              /\ IsInjective(chunks[i])
              /\ \A j \in DOMAIN chunks :
                   j # i => ToSet(chunks[i]) \cap ToSet(chunks[j]) = {}
         /\ UNION {ToSet(c) : c \in ToSet(chunks)} = ToSet(Asked(r)) \ ToSet(stored)
<1> DEFINE add == ToAdd(stored, Asked(r))
<1>1. Asked(r) \in Seq(AskedKeys) /\ ToSet(Asked(r)) \in SUBSET AskedKeys
  BY AskedSeq DEF AskedKeys
<1>2. /\ add \in Seq(AskedKeys) /\ IsInjective(add)
      /\ ToSet(add) = ToSet(Asked(r)) \ ToSet(stored)
  BY <1>1, ToAddExact
<1> HIDE DEF add
<1> DEFINE chunks == Chunks(add)
<1>3. /\ chunks \in Seq(Contents)
      /\ \A i \in DOMAIN chunks :
           /\ Len(chunks[i]) \in 1..MaxPerIx
           /\ IsInjective(chunks[i])
           /\ \A j \in DOMAIN chunks :
                j # i => ToSet(chunks[i]) \cap ToSet(chunks[j]) = {}
      /\ UNION {ToSet(c) : c \in ToSet(chunks)} = ToSet(add)
  BY <1>2, ChunksPartition DEF Contents
<1> QED  BY <1>1, <1>2, <1>3 DEF add

LEMMA TypesNext == TableTypes /\ [Next]_vars => TableTypes'
<1> SUFFICES ASSUME TableTypes, [Next]_vars PROVE TableTypes'
  OBVIOUS
<1> USE DEF TableTypes
<1>1. ASSUME user' = user PROVE /\ DOMAIN user' = Users
                                /\ user' = [u \in Users |-> user'[u]]
                                /\ \A u \in Users : UserOK(user'[u])
  BY <1>1
<1>2. CASE Create  BY <1>1, <1>2 DEF Create
<1>3. ASSUME NEW r \in AltRequests, PlanExtend(Asked(r)) PROVE TableTypes'
  <2>1. /\ plan' \in [chunks : Seq(Contents), wanted : SUBSET AskedKeys, lost : BOOLEAN]
    BY <1>3, PlanChunks DEF PlanExtend
  <2> QED  BY <1>1, <1>3, <2>1 DEF PlanExtend
<1>4. ASSUME plan.chunks # << >>
      PROVE  Head(plan.chunks) \in Contents /\ Tail(plan.chunks) \in Seq(Contents)
  BY <1>4
<1>5. CASE LandExtend
  <2>1. table.keys \o Head(plan.chunks) \in Contents
    BY <1>4, <1>5 DEF LandExtend, Contents
  <2> QED  BY <1>1, <1>4, <1>5, <2>1 DEF LandExtend
<1>6. CASE LoseExtend  BY <1>1, <1>4, <1>6 DEF LoseExtend
<1>7. CASE Freeze  BY <1>1, <1>7 DEF Freeze
<1>8. CASE Deactivate  BY <1>1, <1>8 DEF Deactivate
<1>9. CASE Close  BY <1>1, <1>9 DEF Close, Contents
<1>10. CASE Invalidate  BY <1>1, <1>10 DEF Invalidate
(* A goroutine's step changes its own entry only.                          *)
<1>11. ASSUME NEW u \in Users, NEW x, UserOK(x), user' = [user EXCEPT ![u] = x]
       PROVE  /\ DOMAIN user' = Users
              /\ user' = [v \in Users |-> user'[v]]
              /\ \A v \in Users : UserOK(user'[v])
  <2>1. user' = [v \in Users |-> IF v = u THEN x ELSE user[v]]  BY <1>11
  <2> QED  BY <1>11, <2>1
<1>12. ASSUME NEW u \in Users, Resolve(u) PROVE TableTypes'
  <2>1. cache # NoEntry => cache \in Contents  OBVIOUS
  <2>2. UserOK(IF cache = NoEntry THEN [pc |-> "fetch"] ELSE [pc |-> "resolved", keys |-> cache])
    BY <2>1 DEF UserOK
  <2> QED  BY <1>11, <1>12, <2>2 DEF Resolve
<1>13. ASSUME NEW u \in Users, Fetch(u) PROVE TableTypes'
  <2>1. UserOK([pc |-> "store", keys |-> table.keys]) /\ UserOK([pc |-> "idle"])
    BY DEF UserOK
  <2> QED  BY <1>11, <1>13, <2>1 DEF Fetch
<1>14. ASSUME NEW u \in Users, Store(u) PROVE TableTypes'
  <2>1. user[u] \in [pc : {"store", "resolved"}, keys : Contents]
    <3>1. UserOK(user[u]) /\ user[u].pc = "store"  BY <1>14 DEF Store
    <3> QED  BY <3>1 DEF UserOK
  <2>2. UserOK([user[u] EXCEPT !.pc = "resolved"])  BY <2>1 DEF UserOK
  <2>3. user' = [user EXCEPT ![u] = [user[u] EXCEPT !.pc = "resolved"]]
    BY <1>14 DEF Store
  <2> QED  BY <1>11, <1>14, <2>1, <2>2, <2>3 DEF Store
<1>15. ASSUME NEW u \in Users, BuildTx(u) PROVE TableTypes'
  <2>1. \A m : UserOK([pc |-> "sent", message |-> m])  BY DEF UserOK
  <2> QED  BY <1>11, <1>15, <2>1 DEF BuildTx
<1>16. ASSUME NEW u \in Users, Land(u) PROVE TableTypes'
  <2>1. \A m, l : UserOK([pc |-> "landed", message |-> m, loaded |-> l])  BY DEF UserOK
  <2> QED  BY <1>11, <1>16, <2>1 DEF Land
<1>17. ASSUME NEW u \in Users, Expire(u) PROVE TableTypes'
  <2>1. UserOK([pc |-> "idle"])  BY DEF UserOK
  <2> QED  BY <1>11, <1>17, <2>1 DEF Expire
<1>18. CASE UNCHANGED vars  BY <1>1, <1>18 DEF vars
<1> QED
  BY <1>2, <1>3, <1>5, <1>6, <1>7, <1>8, <1>9, <1>10, <1>12, <1>13, <1>14, <1>15,
     <1>16, <1>17, <1>18 DEF Next

(* What a goroutine took from the resolver is contents of the table, never *)
(* the mark of a missing cache entry, whatever was fetched, invalidated or *)
(* stored in between (lookup_table.go:33-96).                              *)
THEOREM TablesTyped == Spec => []TablesTypeOK
<1>1. TableTypes => TablesTypeOK
  <2> SUFFICES ASSUME TableTypes PROVE TablesTypeOK
    OBVIOUS
  <2>1. ASSUME NEW u \in Users
        PROVE  /\ user[u].pc \in {"idle", "fetch", "store", "resolved", "sent", "landed"}
               /\ user[u].pc \in {"store", "resolved"} => user[u].keys # NoEntry
    <3>1. UserOK(user[u])  BY DEF TableTypes
    <3> QED  BY <3>1, EntryAssumption DEF UserOK, Contents
  <2> QED  BY <2>1 DEF TableTypes, TablesTypeOK
<1> QED  BY <1>1, TypesInit, TypesNext, PTL DEF Spec

-----------------------------------------------------------------------------
(* Stale contents.                                                         *)

LEMMA PrefixReflexive == ASSUME NEW s \in Contents PROVE IsPrefix(s, s)
BY DEF IsPrefix, Contents

LEMMA PrefixExtended ==
  ASSUME NEW s \in Contents, NEW t \in Contents, NEW u \in Contents, IsPrefix(s, t)
  PROVE  IsPrefix(s, t \o u)
<1> USE DEF Contents
<1>1. /\ Len(s) <= Len(t) /\ Len(t) <= Len(t \o u)
      /\ Len(s) \in Nat /\ Len(t) \in Nat /\ Len(t \o u) \in Nat
  BY DEF IsPrefix
<1>2. \A i \in 1..Len(s) : s[i] = t[i]
  <2>1. SubSeq(s, 1, Len(s)) = SubSeq(t, 1, Len(s))  BY DEF IsPrefix
  <2>2. \A i \in 1..Len(s) : SubSeq(s, 1, Len(s))[i] = s[i]  OBVIOUS
  <2>3. \A i \in 1..Len(s) : SubSeq(t, 1, Len(s))[i] = t[i]  BY <1>1
  <2> QED  BY <2>1, <2>2, <2>3
<1> QED  BY <1>1, <1>2 DEF IsPrefix

(* Elementwise.                                                            *)
LEMMA PrefixAt ==
  ASSUME NEW s \in Contents, NEW t \in Contents, IsPrefix(s, t)
  PROVE  \A i \in 1..Len(s) : i \in 1..Len(t) /\ t[i] = s[i]
<1> USE DEF Contents
<1>1. Len(s) <= Len(t) /\ Len(s) \in Nat /\ Len(t) \in Nat  BY DEF IsPrefix
<1>2. SubSeq(s, 1, Len(s)) = SubSeq(t, 1, Len(s))  BY DEF IsPrefix
<1>3. \A i \in 1..Len(s) : SubSeq(s, 1, Len(s))[i] = s[i]  OBVIOUS
<1>4. \A i \in 1..Len(s) : SubSeq(t, 1, Len(s))[i] = t[i]  BY <1>1
<1> QED  BY <1>1, <1>2, <1>3, <1>4

(* A step leaves the table as it is, closes it, or adds to its contents.   *)
LEMMA TableGrows ==
  ASSUME TableTypes, [Next]_vars
  PROVE  \/ table'.keys = table.keys /\ (table'.state = "closed" <=> table.state = "closed")
         \/ table'.state = "closed"
         \/ /\ plan.chunks # << >> /\ table.state = "active" /\ table'.state = "active"
            /\ Head(plan.chunks) \in Contents
            /\ table'.keys = table.keys \o Head(plan.chunks)
            /\ cache' = cache /\ user' = user
<1> USE DEF TableTypes
<1>1. CASE Create  BY <1>1 DEF Create
<1>2. CASE LandExtend
  <2>1. Head(plan.chunks) \in Contents  BY <1>2 DEF LandExtend
  <2> QED  BY <1>2, <2>1 DEF LandExtend
<1>3. CASE Freeze  BY <1>3 DEF Freeze
<1>4. CASE Deactivate  BY <1>4 DEF Deactivate
<1>5. CASE Close  BY <1>5 DEF Close
<1>6. CASE UNCHANGED table  BY <1>6
<1>7. Next => \/ Create \/ LandExtend \/ Freeze \/ Deactivate \/ Close \/ UNCHANGED table
  BY DEF Next, LoseExtend, PlanExtend, Invalidate, Resolve, Fetch, Store, BuildTx, Land, Expire
<1> QED  BY <1>1, <1>2, <1>3, <1>4, <1>5, <1>6, <1>7 DEF vars

(* A prefix of the table stays one while the table is there.               *)
LEMMA PrefixStays ==
  ASSUME TableTypes, [Next]_vars, NEW s \in Contents,
         table.state # "closed" => IsPrefix(s, table.keys)
  PROVE  table'.state # "closed" => IsPrefix(s, table'.keys)
<1> SUFFICES ASSUME table'.state # "closed" PROVE IsPrefix(s, table'.keys)
  OBVIOUS
<1>1. CASE table'.keys = table.keys /\ (table'.state = "closed" <=> table.state = "closed")
  BY <1>1
<1>2. CASE /\ table.state = "active" /\ Head(plan.chunks) \in Contents
           /\ table'.keys = table.keys \o Head(plan.chunks)
  <2>1. IsPrefix(s, table.keys) /\ table.keys \in Contents  BY <1>2 DEF TableTypes
  <2> QED  BY <1>2, <2>1, PrefixExtended
<1> QED  BY <1>1, <1>2, TableGrows

PrefixInv == TableTypes /\ StaleIsPrefix

LEMMA PrefixNext == PrefixInv /\ [Next]_vars => PrefixInv'
<1> SUFFICES ASSUME PrefixInv, [Next]_vars PROVE StaleIsPrefix'
  BY TypesNext DEF PrefixInv
<1>1. TableTypes /\ TableTypes'  BY TypesNext DEF PrefixInv
<1> DEFINE Was(s) == table.state # "closed" => IsPrefix(s, table.keys)
           Is(s) == table'.state # "closed" => IsPrefix(s, table'.keys)
<1>2. ASSUME NEW s \in Contents, Was(s) PROVE Is(s)  BY <1>1, <1>2, PrefixStays
<1>3. /\ cache # NoEntry => cache \in Contents /\ Was(cache)
      /\ \A u \in Users : user[u].pc \in {"store", "resolved"} =>
           user[u].keys \in Contents /\ Was(user[u].keys)
  <2>1. ASSUME NEW u \in Users, user[u].pc \in {"store", "resolved"}
        PROVE  user[u].keys \in Contents
    <3>1. UserOK(user[u])  BY <1>1 DEF TableTypes
    <3> QED  BY <2>1, <3>1 DEF UserOK
  <2> QED  BY <1>1, <2>1 DEF PrefixInv, StaleIsPrefix, TableTypes
<1> HIDE DEF Was, Is
<1>4. cache' # NoEntry => Is(cache')
  <2> SUFFICES ASSUME cache' # NoEntry PROVE Is(cache')
    OBVIOUS
  <2>1. CASE cache' = cache  BY <1>2, <1>3, <2>1
  <2>2. ASSUME NEW u \in Users, Store(u) PROVE Is(cache')  BY <1>2, <1>3, <2>2 DEF Store
  <2>3. Next => \/ cache' = cache \/ cache' = NoEntry \/ \E u \in Users : Store(u)
    BY DEF Next, Create, PlanExtend, LandExtend, LoseExtend, Freeze, Deactivate, Close,
           Invalidate, Resolve, Fetch, BuildTx, Land, Expire
  <2> QED  BY <2>1, <2>2, <2>3 DEF vars
<1>5. ASSUME NEW u \in Users, user'[u].pc \in {"store", "resolved"} PROVE Is(user'[u].keys)
  <2>1. CASE user'[u] = user[u]  BY <1>2, <1>3, <1>5, <2>1
  <2>2. DOMAIN user = Users  BY <1>1 DEF TableTypes
  <2>3. CASE Resolve(u)
    <3>1. cache # NoEntry /\ user'[u].keys = cache  BY <1>5, <2>2, <2>3 DEF Resolve
    <3> QED  BY <1>2, <1>3, <3>1
  <2>4. CASE Fetch(u)
    <3>1. user'[u].keys = table.keys /\ table' = table  BY <1>5, <2>2, <2>4 DEF Fetch
    <3>2. table.keys \in Contents  BY <1>1 DEF TableTypes
    <3> QED  BY <3>1, <3>2, PrefixReflexive DEF Is
  <2>5. CASE Store(u)
    <3>1. UserOK(user[u]) /\ user[u].pc = "store"  BY <1>1, <2>5 DEF TableTypes, Store
    <3>2. user[u] \in [pc : {"store", "resolved"}, keys : Contents]  BY <3>1 DEF UserOK
    <3>3. user'[u].keys = user[u].keys  BY <2>2, <2>5, <3>2 DEF Store
    <3> QED  BY <1>2, <1>3, <3>1, <3>3
  <2>6. CASE BuildTx(u) \/ Land(u) \/ Expire(u)
    <3>1. BuildTx(u) => user'[u].pc = "sent"  BY <2>2 DEF BuildTx
    <3>2. Land(u) => user'[u].pc = "landed"  BY <2>2 DEF Land
    <3>3. Expire(u) => user'[u].pc = "idle"  BY <2>2 DEF Expire
    <3> QED  BY <1>5, <2>6, <3>1, <3>2, <3>3
  <2>7. ASSUME NEW v \in Users, v # u,
               Resolve(v) \/ Fetch(v) \/ Store(v) \/ BuildTx(v) \/ Land(v) \/ Expire(v)
        PROVE  user'[u] = user[u]
    BY <2>2, <2>7 DEF Resolve, Fetch, Store, BuildTx, Land, Expire
  <2>8. Next => \/ user' = user
                \/ \E v \in Users :
                     Resolve(v) \/ Fetch(v) \/ Store(v) \/ BuildTx(v) \/ Land(v) \/ Expire(v)
    BY DEF Next, Create, PlanExtend, LandExtend, LoseExtend, Freeze, Deactivate, Close,
           Invalidate
  <2>9. CASE user' = user  BY <2>1, <2>9
  <2>10. ASSUME NEW v \in Users,
                Resolve(v) \/ Fetch(v) \/ Store(v) \/ BuildTx(v) \/ Land(v) \/ Expire(v)
         PROVE  Is(user'[u].keys)
    <3>1. CASE v # u  BY <2>1, <2>7, <2>10, <3>1
    <3>2. CASE v = u  BY <2>3, <2>4, <2>5, <2>6, <2>10, <3>2
    <3> QED  BY <3>1, <3>2
  <2> QED  BY <2>8, <2>9, <2>10 DEF vars
<1> QED  BY <1>4, <1>5 DEF StaleIsPrefix, Is

(* However the steps of resolver calls interleave with extends and         *)
(* invalidations, what a goroutine or the cache holds agrees with the      *)
(* table on every index it has (lookup_table.go:61-82).                    *)
THEOREM StaleAgrees == Spec => []StaleIsPrefix
<1>1. Init => PrefixInv
  <2> SUFFICES ASSUME Init PROVE StaleIsPrefix
    BY TypesInit DEF PrefixInv
  <2> QED  BY DEF Init, StaleIsPrefix
<1>2. PrefixInv => StaleIsPrefix  BY DEF PrefixInv
<1> QED  BY <1>1, <1>2, PrefixNext, PTL DEF Spec

-----------------------------------------------------------------------------
(* Extending.                                                              *)

ExtendInv == TableTypes /\ ExtendAddsMissing

LEMMA ExtendNext == ExtendInv /\ [Next]_vars => ExtendInv'
<1> SUFFICES ASSUME ExtendInv, [Next]_vars, table'.state \in {"none", "active"}
             PROVE  ExtendAddsMissing'
  BY TypesNext DEF ExtendInv, ExtendAddsMissing
<1>1. TableTypes /\ TableTypes'  BY TypesNext DEF ExtendInv
<1>2. table.state \in {"none", "active"}
      /\ (table.state = "none" => table'.keys = table.keys)
  <2>1. table \in [state : {"none", "active", "frozen", "deactivating", "closed"},
                   keys : Contents]
    BY <1>1 DEF TableTypes
  <2>2. Next => Create \/ LandExtend \/ Freeze \/ Deactivate \/ Close \/ UNCHANGED table
    BY DEF Next, PlanExtend, LoseExtend, Invalidate, Resolve, Fetch, Store, BuildTx, Land, Expire
  <2>3. CASE Create  BY <2>1, <2>3 DEF Create
  <2>4. CASE LandExtend  BY <2>4 DEF LandExtend
  <2>5. CASE Freeze  BY <2>1, <2>5 DEF Freeze
  <2>6. CASE Deactivate  BY <2>1, <2>6 DEF Deactivate
  <2>7. CASE Close  BY <2>7 DEF Close
  <2> QED  BY <2>2, <2>3, <2>4, <2>5, <2>6, <2>7 DEF vars
<1> DEFINE Held == ToSet(table.keys)
           Coming == UNION {ToSet(c) : c \in ToSet(plan.chunks)}
<1>3. /\ \A i \in DOMAIN plan.chunks :
           /\ Len(plan.chunks[i]) \in 1..MaxPerIx
           /\ IsInjective(plan.chunks[i])
           /\ ToSet(plan.chunks[i]) \cap Held = {}
           /\ \A j \in DOMAIN plan.chunks :
                j # i => ToSet(plan.chunks[i]) \cap ToSet(plan.chunks[j]) = {}
      /\ IsInjective(table.keys)
      /\ ~plan.lost => plan.wanted \subseteq Held \cup Coming
  BY <1>2 DEF ExtendInv, ExtendAddsMissing
(* The rest of the plan, behind its first chunk.                           *)
<1>4. ASSUME plan.chunks # << >>
      PROVE  LET first == Head(plan.chunks)
                 rest == Tail(plan.chunks)
             IN /\ first \in Contents /\ rest \in Seq(Contents)
                /\ IsInjective(first) /\ ToSet(first) \cap Held = {}
                /\ \A i \in DOMAIN rest :
                     /\ Len(rest[i]) \in 1..MaxPerIx
                     /\ IsInjective(rest[i])
                     /\ ToSet(rest[i]) \cap Held = {}
                     /\ ToSet(rest[i]) \cap ToSet(first) = {}
                     /\ \A j \in DOMAIN rest :
                          j # i => ToSet(rest[i]) \cap ToSet(rest[j]) = {}
                /\ Coming \subseteq ToSet(first) \cup UNION {ToSet(c) : c \in ToSet(rest)}
  <2> DEFINE q == plan.chunks  first == Head(q)  rest == Tail(q)
  <2>1. q \in Seq(Contents) /\ q # << >>  BY <1>1, <1>4 DEF TableTypes
  <2> HIDE DEF q
  <2>2. /\ first \in Contents /\ rest \in Seq(Contents) /\ first = q[1]
        /\ DOMAIN q = 1..Len(q) /\ 1 \in DOMAIN q
        /\ Len(q) \in Nat /\ DOMAIN rest = 1..(Len(q) - 1)
        /\ \A i \in DOMAIN rest : rest[i] = q[i + 1]
    BY ONLY <2>1
  <2>3. \A i \in DOMAIN rest : i + 1 \in DOMAIN q /\ i + 1 # 1 /\ \A j \in DOMAIN rest :
          j # i => j + 1 # i + 1
    BY ONLY <2>2
  <2>4. ASSUME NEW i \in DOMAIN q PROVE i = 1 \/ (i - 1 \in DOMAIN rest /\ rest[i - 1] = q[i])
    BY ONLY <2>2, <2>4
  <2>5. Coming \subseteq ToSet(first) \cup UNION {ToSet(c) : c \in ToSet(rest)}
    <3> SUFFICES ASSUME NEW x \in Coming
                 PROVE  x \in ToSet(first) \/ \E c \in ToSet(rest) : x \in ToSet(c)
      OBVIOUS
    <3>1. PICK i \in DOMAIN q : x \in ToSet(q[i])  BY DEF ToSet, q
    <3>2. CASE i = 1  BY <2>2, <3>1, <3>2
    <3>3. CASE i - 1 \in DOMAIN rest /\ rest[i - 1] = q[i]
      <4>1. q[i] \in ToSet(rest)  BY <3>3 DEF ToSet
      <4> QED  BY <3>1, <4>1
    <3> QED  BY <2>4, <3>2, <3>3
  <2>6. \A i \in DOMAIN q :
           /\ Len(q[i]) \in 1..MaxPerIx
           /\ IsInjective(q[i])
           /\ ToSet(q[i]) \cap Held = {}
           /\ \A j \in DOMAIN q : j # i => ToSet(q[i]) \cap ToSet(q[j]) = {}
    BY <1>3 DEF q
  <2> HIDE DEF first, rest, Held, Coming
  <2>7. /\ IsInjective(first) /\ ToSet(first) \cap Held = {}
        /\ \A i \in DOMAIN rest :
             /\ Len(rest[i]) \in 1..MaxPerIx
             /\ IsInjective(rest[i])
             /\ ToSet(rest[i]) \cap Held = {}
             /\ ToSet(rest[i]) \cap ToSet(first) = {}
             /\ \A j \in DOMAIN rest :
                  j # i => ToSet(rest[i]) \cap ToSet(rest[j]) = {}
    BY <2>2, <2>3, <2>6
  <2> QED  BY <2>2, <2>5, <2>7 DEF first, rest, q
<1>5. CASE LandExtend
  <2> DEFINE first == Head(plan.chunks)  rest == Tail(plan.chunks)  keys == table.keys
  <2>1. /\ plan.chunks # << >> /\ table'.keys = keys \o first
        /\ plan'.chunks = rest /\ plan'.wanted = plan.wanted /\ plan'.lost = plan.lost
    BY <1>1, <1>5 DEF LandExtend, TableTypes
  <2>2. keys \in Contents /\ first \in Contents  BY <1>1, <1>4, <2>1 DEF TableTypes
  <2> HIDE DEF first, rest, keys
  <2>3. ToSet(keys \o first) = ToSet(keys) \cup ToSet(first)
    BY <2>2, ConcatSet DEF Contents
  <2>4. IsInjective(keys \o first)
    <3>1. IsInjective(keys) /\ IsInjective(first) /\ ToSet(keys) \cap ToSet(first) = {}
      BY <1>3, <1>4, <2>1 DEF keys, first
    <3> QED  BY <2>2, <3>1, ConcatInjective DEF Contents
  <2>5. \A i \in DOMAIN rest :
          /\ Len(rest[i]) \in 1..MaxPerIx /\ IsInjective(rest[i])
          /\ ToSet(rest[i]) \cap ToSet(keys \o first) = {}
          /\ \A j \in DOMAIN rest : j # i => ToSet(rest[i]) \cap ToSet(rest[j]) = {}
    <3>1. \A i \in DOMAIN rest :
            /\ Len(rest[i]) \in 1..MaxPerIx /\ IsInjective(rest[i])
            /\ ToSet(rest[i]) \cap ToSet(keys) = {}
            /\ ToSet(rest[i]) \cap ToSet(first) = {}
            /\ \A j \in DOMAIN rest : j # i => ToSet(rest[i]) \cap ToSet(rest[j]) = {}
      BY <1>4, <2>1 DEF first, rest, keys
    <3> QED  BY <2>3, <3>1
  <2>6. ~plan.lost => plan.wanted \subseteq
          ToSet(keys \o first) \cup UNION {ToSet(c) : c \in ToSet(rest)}
    <3>1. Coming \subseteq ToSet(first) \cup UNION {ToSet(c) : c \in ToSet(rest)}
      BY <1>4, <2>1 DEF first, rest
    <3>2. ~plan.lost => plan.wanted \subseteq ToSet(keys) \cup Coming  BY <1>3 DEF keys
    <3> HIDE DEF Coming
    <3> QED  BY <2>3, <3>1, <3>2
  <2> QED  BY <2>1, <2>4, <2>5, <2>6 DEF ExtendAddsMissing
<1>6. CASE LoseExtend
  <2> DEFINE rest == Tail(plan.chunks)
  <2>1. /\ plan.chunks # << >> /\ table' = table /\ plan'.chunks = rest /\ plan'.lost = TRUE
    BY <1>1, <1>6 DEF LoseExtend, TableTypes
  <2>2. \A i \in DOMAIN rest :
          /\ Len(rest[i]) \in 1..MaxPerIx /\ IsInjective(rest[i])
          /\ ToSet(rest[i]) \cap Held = {}
          /\ \A j \in DOMAIN rest : j # i => ToSet(rest[i]) \cap ToSet(rest[j]) = {}
    BY <1>4, <2>1
  <2> HIDE DEF rest
  <2> QED  BY <1>3, <2>1, <2>2 DEF ExtendAddsMissing
<1>7. ASSUME NEW r \in AltRequests, PlanExtend(Asked(r)) PROVE ExtendAddsMissing'
  <2> DEFINE chunks == Chunks(ToAdd(table.keys, Asked(r)))
  <2>1. /\ table' = table /\ plan'.chunks = chunks /\ plan'.wanted = ToSet(Asked(r))
    BY <1>7 DEF PlanExtend
  <2>2. /\ \A i \in DOMAIN chunks :
              /\ Len(chunks[i]) \in 1..MaxPerIx
              /\ IsInjective(chunks[i])
              /\ \A j \in DOMAIN chunks :
                   j # i => ToSet(chunks[i]) \cap ToSet(chunks[j]) = {}
        /\ UNION {ToSet(c) : c \in ToSet(chunks)} = ToSet(Asked(r)) \ Held
    BY PlanChunks
  <2> HIDE DEF chunks
  <2>3. \A i \in DOMAIN chunks : ToSet(chunks[i]) \cap Held = {}
    <3>1. \A i \in DOMAIN chunks : chunks[i] \in ToSet(chunks)  BY DEF ToSet
    <3>2. \A i \in DOMAIN chunks : ToSet(chunks[i]) \subseteq ToSet(Asked(r)) \ Held
      BY <2>2, <3>1
    <3> QED  BY <3>2
  <2>4. ToSet(Asked(r)) \subseteq Held \cup UNION {ToSet(c) : c \in ToSet(chunks)}
    BY <2>2
  <2> QED  BY <1>3, <2>1, <2>2, <2>3, <2>4 DEF ExtendAddsMissing
<1>8. CASE table'.keys = table.keys /\ plan' = plan
  BY <1>3, <1>8 DEF ExtendAddsMissing
<1>9. Next => \/ LandExtend \/ LoseExtend \/ (\E r \in AltRequests : PlanExtend(Asked(r)))
              \/ table'.keys = table.keys /\ plan' = plan
  BY <1>1, <1>2 DEF Next, Create, Freeze, Deactivate, Close, Invalidate, Resolve, Fetch, Store,
     BuildTx, Land, Expire, TableTypes
<1> QED  BY <1>5, <1>6, <1>7, <1>8, <1>9 DEF vars

(* Whatever is lost and asked again, extending adds what is missing and    *)
(* nothing twice, in instructions that are neither empty nor too long      *)
(* (alt_admin.go:140-206).                                                 *)
THEOREM ExtendExact == Spec => []ExtendAddsMissing
<1>1. Init => ExtendInv
  <2> SUFFICES ASSUME Init PROVE ExtendAddsMissing
    BY TypesInit DEF ExtendInv
  <2>1. /\ plan.chunks = << >> /\ plan.wanted = {} /\ table.keys = << >>  BY DEF Init
  <2>2. IsInjective(<< >>) /\ DOMAIN << >> = {}  BY DEF IsInjective
  <2> QED  BY <2>1, <2>2 DEF ExtendAddsMissing
<1>2. ExtendInv => ExtendAddsMissing  BY DEF ExtendInv
<1> QED  BY <1>1, <1>2, ExtendNext, PTL DEF Spec

-----------------------------------------------------------------------------
(* Compiling against a table and resolving again.                          *)

Resolved(ids, keys) == [i \in DOMAIN ids |-> keys[ids[i]]]

(* With those contents, message m names the programs and accounts of the   *)
(* n instructions ix.                                                      *)
ResolvesTo(m, keys, ix, n) ==
  LET full == m.static \o Resolved(m.writable, keys) \o Resolved(m.readonly, keys)
  IN /\ \A i \in DOMAIN m.writable : m.writable[i] \in DOMAIN keys
     /\ \A i \in DOMAIN m.readonly : m.readonly[i] \in DOMAIN keys
     /\ DOMAIN m.instructions = 1..n /\ Len(m.instructions) = n
     /\ \A i \in 1..n :
          /\ m.instructions[i].program \in DOMAIN full
          /\ full[m.instructions[i].program] = ix[i].program
          /\ DOMAIN m.instructions[i].accounts = DOMAIN ix[i].accounts
          /\ \A j \in DOMAIN ix[i].accounts :
               /\ m.instructions[i].accounts[j] \in DOMAIN full
               /\ full[m.instructions[i].accounts[j]] = ix[i].accounts[j].key
          /\ m.instructions[i].data =
               IF ix[i].program = Ed25519Program THEN ix[i].data ELSE << >>

(* Resolved with the contents it was compiled against, a message names the *)
(* programs and accounts of its instructions.                              *)
LEMMA CompileResolves ==
  ASSUME NEW M, NEW K, NEW keys \in Seq(K), NEW n \in Nat,
         NEW ix, DOMAIN ix = 1..n, \A i \in 1..n : ix[i].accounts \in Seq(M)
  PROVE  ResolvesTo(Compile(ix, keys), keys, ix, n)
<1> DEFINE lists == [i \in DOMAIN ix |-> ix[i].accounts]
           metas == FlattenSeq(lists)
           programs == [i \in DOMAIN ix |-> ix[i].program]
           ofMetas == [i \in DOMAIN metas |-> metas[i].key]
           listed == ofMetas \o programs
           all == At(listed, FirstPositions(listed))
           Flagged(k, f) == \E a \in ToSet(metas) : a.key = k /\ f \in a.flags
           InTable(k) == k \in ToSet(keys) /\ k \notin ToSet(programs) /\ ~Flagged(k, "s")
           tabled == {i \in DOMAIN all : InTable(all[i])}
           written == {i \in tabled : Flagged(all[i], "w")}
           static == At(all, DOMAIN all \ tabled)
           writable == At(all, written)
           readonly == At(all, tabled \ written)
           order == static \o writable \o readonly
           Indices(ks) == [i \in DOMAIN ks |-> PositionIn(keys, ks[i])]
           m == Compile(ix, keys)
           full == m.static \o Resolved(m.writable, keys) \o Resolved(m.readonly, keys)
<1>1. m = [static |-> static, writable |-> Indices(writable), readonly |-> Indices(readonly),
           instructions |->
             [i \in DOMAIN ix |->
                [program  |-> PositionIn(order, programs[i]),
                 accounts |-> [j \in DOMAIN ix[i].accounts |->
                                 PositionIn(order, ix[i].accounts[j].key)],
                 data     |-> IF programs[i] = Ed25519Program THEN ix[i].data ELSE << >>]]]
  BY DEF Compile
<1>2. lists \in Seq(Seq(M)) /\ DOMAIN lists = 1..n
  <2>1. lists \in [1..n -> Seq(M)]  OBVIOUS
  <2> HIDE DEF lists
  <2> QED  BY ONLY <2>1, n \in Nat
<1>3. metas \in Seq(M) /\ ToSet(metas) = UNION {ToSet(q) : q \in ToSet(lists)}
  BY <1>2, FlattenElements
<1>4. \A i \in 1..n : \A j \in DOMAIN ix[i].accounts : ix[i].accounts[j] \in ToSet(metas)
  <2> SUFFICES ASSUME NEW i \in 1..n, NEW j \in DOMAIN ix[i].accounts
               PROVE  ix[i].accounts[j] \in ToSet(metas)
    OBVIOUS
  <2>1. lists[i] = ix[i].accounts  OBVIOUS
  <2>2. lists[i] \in ToSet(lists)  BY <1>2 DEF ToSet
  <2>3. ix[i].accounts[j] \in ToSet(lists[i])  BY <2>1 DEF ToSet
  <2> HIDE DEF metas, lists
  <2> QED  BY <1>3, <2>2, <2>3
<1> HIDE DEF metas, lists, m
<1> DEFINE U == ToSet(ofMetas) \cup ToSet(programs)
<1>5. ofMetas \in Seq(U)
  <2>1. Len(metas) \in Nat /\ DOMAIN metas = 1..Len(metas)  BY <1>3
  <2>2. DOMAIN ofMetas = 1..Len(metas) /\ ofMetas = [i \in 1..Len(metas) |-> ofMetas[i]]
    BY <2>1
  <2> HIDE DEF ofMetas
  <2>3. ofMetas \in Seq(ToSet(ofMetas))  BY <2>1, <2>2, ListOf
  <2>4. ToSet(ofMetas) \in SUBSET U  OBVIOUS
  <2> HIDE DEF U
  <2> QED  BY <2>3, <2>4
<1>6. programs \in Seq(U)
  <2>1. DOMAIN programs = 1..n /\ programs = [i \in 1..n |-> programs[i]]  OBVIOUS
  <2> HIDE DEF programs
  <2>2. programs \in Seq(ToSet(programs))  BY <2>1, ListOf
  <2>3. ToSet(programs) \in SUBSET U  OBVIOUS
  <2> HIDE DEF U
  <2> QED  BY <2>2, <2>3
<1>7. \A i \in 1..n : programs[i] = ix[i].program /\ programs[i] \in ToSet(programs)
  BY DEF ToSet
<1>8. \A i \in 1..n : \A j \in DOMAIN ix[i].accounts : ix[i].accounts[j].key \in ToSet(ofMetas)
  <2>1. ASSUME NEW a \in ToSet(metas) PROVE a.key \in ToSet(ofMetas)
    <3>1. PICK i \in DOMAIN metas : a = metas[i]  BY DEF ToSet
    <3>2. i \in DOMAIN ofMetas /\ ofMetas[i] = a.key  BY <3>1
    <3> QED  BY <3>2 DEF ToSet
  <2> QED  BY <1>4, <2>1
<1> HIDE DEF ofMetas, programs, U
<1>9. listed \in Seq(U) /\ ToSet(listed) = ToSet(ofMetas) \cup ToSet(programs)
  BY <1>5, <1>6, ConcatAt, ConcatSet
<1> HIDE DEF listed
<1>10. all \in Seq(U) /\ ToSet(all) = ToSet(listed)  BY <1>9, FirstOnes
<1> HIDE DEF all, Flagged
<1>11. /\ tabled \in SUBSET (DOMAIN all) /\ written \in SUBSET (DOMAIN all)
       /\ DOMAIN all \ tabled \in SUBSET (DOMAIN all)
       /\ tabled \ written \in SUBSET (DOMAIN all)
  OBVIOUS
<1>12. /\ \A i \in written : all[i] \in ToSet(keys)
       /\ \A i \in tabled \ written : all[i] \in ToSet(keys)
  OBVIOUS
<1>13. written \subseteq tabled  OBVIOUS
<1> HIDE DEF tabled, written, InTable
<1>14. /\ static \in Seq(U) /\ writable \in Seq(U) /\ readonly \in Seq(U)
       /\ ToSet(static) = {all[i] : i \in DOMAIN all \ tabled}
       /\ ToSet(writable) = {all[i] : i \in written}
       /\ ToSet(readonly) = {all[i] : i \in tabled \ written}
  BY <1>10, <1>11, AtSubset
<1>15. ToSet(all) = ToSet(static) \cup ToSet(writable) \cup ToSet(readonly)
  <2> HIDE DEF static, writable, readonly
  <2>1. ASSUME NEW i \in DOMAIN all
        PROVE  all[i] \in ToSet(static) \cup ToSet(writable) \cup ToSet(readonly)
    <3>1. i \in DOMAIN all \ tabled \/ i \in written \/ i \in tabled \ written  OBVIOUS
    <3> QED  BY <1>14, <3>1
  <2>2. ToSet(all) \subseteq ToSet(static) \cup ToSet(writable) \cup ToSet(readonly)
    BY <2>1 DEF ToSet
  <2>3. ASSUME NEW P, P \in SUBSET (DOMAIN all) PROVE {all[i] : i \in P} \subseteq ToSet(all)
    BY <2>3 DEF ToSet
  <2>4. /\ ToSet(static) \subseteq ToSet(all) /\ ToSet(writable) \subseteq ToSet(all)
        /\ ToSet(readonly) \subseteq ToSet(all)
    BY <1>11, <1>14, <2>3
  <2> QED  BY <2>2, <2>4
<1>16. ToSet(writable) \subseteq ToSet(keys) /\ ToSet(readonly) \subseteq ToSet(keys)
  BY <1>12, <1>14
<1> HIDE DEF static, writable, readonly
<1>17. order \in Seq(U) /\ ToSet(order) = ToSet(all)
  <2>1. static \o writable \in Seq(U)
        /\ ToSet(static \o writable) = ToSet(static) \cup ToSet(writable)
    BY <1>14, ConcatAt, ConcatSet
  <2> DEFINE sw == static \o writable
  <2>2. sw \in Seq(U)  BY <2>1
  <2> HIDE DEF sw
  <2>3. sw \o readonly \in Seq(U) /\ ToSet(sw \o readonly) = ToSet(sw) \cup ToSet(readonly)
    BY <1>14, <2>2, ConcatAt, ConcatSet
  <2> QED  BY <1>15, <2>1, <2>3 DEF sw
(* Indices into the table give back the keys.                              *)
<1>18. ASSUME NEW ks \in Seq(U), ToSet(ks) \subseteq ToSet(keys)
       PROVE  /\ \A i \in DOMAIN Indices(ks) : Indices(ks)[i] \in DOMAIN keys
              /\ Resolved(Indices(ks), keys) = ks
  <2>1. ASSUME NEW i \in DOMAIN ks
        PROVE  PositionIn(keys, ks[i]) \in DOMAIN keys /\ keys[PositionIn(keys, ks[i])] = ks[i]
    <3>1. ks[i] \in ToSet(keys)  BY <1>18 DEF ToSet
    <3> QED  BY <3>1, PositionFound
  <2>2. DOMAIN Indices(ks) = DOMAIN ks  OBVIOUS
  <2>3. \A i \in DOMAIN ks : Indices(ks)[i] = PositionIn(keys, ks[i])  OBVIOUS
  <2> DEFINE ids == Indices(ks)
  <2> HIDE DEF ids
  <2>4. Resolved(ids, keys) = [i \in DOMAIN ks |-> keys[ids[i]]]
    BY <2>2 DEF Resolved, ids
  <2>5. \A i \in DOMAIN ks : keys[ids[i]] = ks[i]  BY <2>1, <2>3 DEF ids
  <2>6. Resolved(ids, keys) = [i \in DOMAIN ks |-> ks[i]]  BY <2>4, <2>5
  <2>7. ks = [i \in DOMAIN ks |-> ks[i]]  OBVIOUS
  <2> QED  BY <2>1, <2>2, <2>3, <2>6, <2>7 DEF ids
<1>19. full = order
  <2>1. /\ Resolved(Indices(writable), keys) = writable
        /\ Resolved(Indices(readonly), keys) = readonly
    BY <1>14, <1>16, <1>18
  <2> HIDE DEF Indices
  <2>2. m.static = static /\ m.writable = Indices(writable) /\ m.readonly = Indices(readonly)
    BY <1>1
  <2> QED  BY <2>1, <2>2
<1>20. \A x \in ToSet(all) : PositionIn(order, x) \in DOMAIN order
                             /\ order[PositionIn(order, x)] = x
  BY <1>17, PositionFound
<1> HIDE DEF order, full
<1>21. /\ \A i \in DOMAIN m.writable : m.writable[i] \in DOMAIN keys
       /\ \A i \in DOMAIN m.readonly : m.readonly[i] \in DOMAIN keys
  <2>1. /\ \A i \in DOMAIN Indices(writable) : Indices(writable)[i] \in DOMAIN keys
        /\ \A i \in DOMAIN Indices(readonly) : Indices(readonly)[i] \in DOMAIN keys
    BY <1>14, <1>16, <1>18
  <2> HIDE DEF Indices
  <2>2. m.writable = Indices(writable) /\ m.readonly = Indices(readonly)  BY <1>1
  <2> QED  BY <2>1, <2>2
<1> HIDE DEF Indices
<1> DEFINE X(i) == m.instructions[i]
<1>22. /\ DOMAIN m.instructions = 1..n
       /\ \A i \in 1..n :
            /\ X(i).program = PositionIn(order, programs[i])
            /\ X(i).accounts = [j \in DOMAIN ix[i].accounts |->
                                  PositionIn(order, ix[i].accounts[j].key)]
            /\ X(i).data = IF programs[i] = Ed25519Program THEN ix[i].data ELSE << >>
  BY <1>1
<1> HIDE DEF X
<1>23. ASSUME NEW i \in 1..n
       PROVE  /\ X(i).program \in DOMAIN order
              /\ order[X(i).program] = ix[i].program
              /\ DOMAIN X(i).accounts = DOMAIN ix[i].accounts
              /\ \A j \in DOMAIN ix[i].accounts :
                   /\ X(i).accounts[j] \in DOMAIN order
                   /\ order[X(i).accounts[j]] = ix[i].accounts[j].key
              /\ X(i).data = IF ix[i].program = Ed25519Program THEN ix[i].data ELSE << >>
  <2>1. ix[i].program \in ToSet(all)  BY <1>7, <1>9, <1>10
  <2>2. \A j \in DOMAIN ix[i].accounts : ix[i].accounts[j].key \in ToSet(all)
    BY <1>8, <1>9, <1>10
  <2>3. DOMAIN X(i).accounts = DOMAIN ix[i].accounts  BY <1>22
  <2>4. \A j \in DOMAIN ix[i].accounts :
          X(i).accounts[j] = PositionIn(order, ix[i].accounts[j].key)
    BY <1>22
  <2>5. X(i).program = PositionIn(order, ix[i].program)  BY <1>7, <1>22
  <2>6. X(i).program \in DOMAIN order /\ order[X(i).program] = ix[i].program
    BY <1>20, <2>1, <2>5
  <2>7. ASSUME NEW j \in DOMAIN ix[i].accounts
        PROVE  /\ X(i).accounts[j] \in DOMAIN order
               /\ order[X(i).accounts[j]] = ix[i].accounts[j].key
    BY <1>20, <2>2, <2>4
  <2>8. X(i).data = IF ix[i].program = Ed25519Program THEN ix[i].data ELSE << >>
    BY <1>7, <1>22
  <2> QED  BY <2>3, <2>6, <2>7, <2>8
<1>24. Len(m.instructions) = n
  <2>1. m.instructions = [i \in 1..n |-> m.instructions[i]]  BY <1>1
  <2> QED  BY <1>22, <2>1, ListOf
<1> QED  BY <1>19, <1>21, <1>22, <1>23, <1>24
    DEF ResolvesTo, X, full, m

-----------------------------------------------------------------------------
(* Transactions.                                                           *)

Config == ApplyOptions(NewInstructionConfig, BridgeTransactionOptions, Batch)

(* The batch: the bridge instruction last, the signatures before it.       *)
LEMMA Meant ==
  LET ixs == BatchInstructions
      n == Len(ixs)
      bridge == BridgeInstruction(Config, Batch)
  IN /\ n \in 2..3 /\ DOMAIN ixs = 1..n
     /\ ixs[n] = bridge
     /\ ixs[n - 1] = BuildBatchedEd25519(Batch.signers, Batch.payload)
     /\ \A i \in 1..n : ixs[i].accounts \in Seq(ToSet(bridge.accounts))
<1> DEFINE ixs == BatchInstructions
           n == IF Len(Batch.receivers) = MaxReceivers THEN 3 ELSE 2
           bridge == BridgeInstruction(Config, Batch)
           M == ToSet(bridge.accounts)
<1>1. /\ DOMAIN ixs = 1..n /\ Len(ixs) = n
      /\ ixs[n] = bridge
      /\ ixs[n - 1] = BuildBatchedEd25519(Batch.signers, Batch.payload)
      /\ n = 3 => ixs[1] = SetComputeUnitLimit(MaxReceiversUnits)
  BY BatchForm DEF BatchInstructions, Config
<1>2. bridge.accounts \in Seq(M)  BY BatchAssumption, BridgeForm DEF BridgeLaid
<1> HIDE DEF ixs, bridge
<1>3. n \in 2..3  OBVIOUS
<1> HIDE DEF n, M
<1>4. << >> \in Seq(M)  OBVIOUS
<1>5. ixs[n - 1].accounts = << >>  BY <1>1 DEF BuildBatchedEd25519
<1>6. n = 3 => ixs[1].accounts = << >>  BY <1>1 DEF SetComputeUnitLimit
<1>7. ASSUME NEW i \in 1..n PROVE ixs[i].accounts \in Seq(M)
  <2>1. i = n \/ i = n - 1 \/ (n = 3 /\ i = 1)  BY <1>3
  <2> QED  BY <1>1, <1>2, <1>4, <1>5, <1>6, <2>1
<1> QED  BY <1>1, <1>3, <1>7 DEF ixs, bridge, M

(* Against any contents, what was compiled resolves to what was meant.     *)
LEMMA MeantResolves ==
  ASSUME NEW keys \in Contents
  PROVE  ResolvesTo(Compile(BatchInstructions, keys), keys, BatchInstructions,
                    Len(BatchInstructions))
<1> DEFINE ix == BatchInstructions
           n == Len(ix)
           M == ToSet(BridgeInstruction(Config, Batch).accounts)
<1>1. n \in 2..3 /\ DOMAIN ix = 1..n /\ \A i \in 1..n : ix[i].accounts \in Seq(M)  BY Meant
<1>2. n \in Nat  BY <1>1
<1>3. keys \in Seq(AskedKeys)  BY DEF Contents
<1> HIDE DEF ix, n, M
<1>4. ResolvesTo(Compile(ix, keys), keys, ix, n)  BY <1>1, <1>2, <1>3, CompileResolves
<1> QED  BY <1>4 DEF ix, n

(* A message in flight was compiled against a prefix of the table; one     *)
(* that landed loaded the keys of that prefix.                             *)
SentOK(x) ==
  x.pc = "sent" =>
    \E keys \in Contents :
      /\ x.message = Compile(BatchInstructions, keys)
      /\ table.state # "closed" => IsPrefix(keys, table.keys)

LandedOK(x) ==
  x.pc = "landed" =>
    \E keys \in Contents :
      /\ x.message = Compile(BatchInstructions, keys)
      /\ x.loaded = [writable |-> Resolved(x.message.writable, keys),
                     readonly |-> Resolved(x.message.readonly, keys)]

BatchInv ==
  /\ PrefixInv
  /\ \A u \in Users : SentOK(user[u]) /\ LandedOK(user[u])

(* The runtime loads from the grown table what the sender resolved.        *)
LEMMA LoadsPrefix ==
  ASSUME NEW keys \in Contents, table.keys \in Contents, IsPrefix(keys, table.keys),
         NEW m, m = Compile(BatchInstructions, keys)
  PROVE  Loaded(m) = [writable |-> Resolved(m.writable, keys),
                      readonly |-> Resolved(m.readonly, keys)]
<1>1. /\ \A i \in DOMAIN m.writable : m.writable[i] \in DOMAIN keys
      /\ \A i \in DOMAIN m.readonly : m.readonly[i] \in DOMAIN keys
  BY MeantResolves DEF ResolvesTo
<1>2. DOMAIN keys = 1..Len(keys)  BY DEF Contents
<1>3. \A i \in 1..Len(keys) : table.keys[i] = keys[i]  BY PrefixAt
<1>4. [i \in DOMAIN m.writable |-> table.keys[m.writable[i]]] = Resolved(m.writable, keys)
  BY <1>1, <1>2, <1>3 DEF Resolved
<1>5. [i \in DOMAIN m.readonly |-> table.keys[m.readonly[i]]] = Resolved(m.readonly, keys)
  BY <1>1, <1>2, <1>3 DEF Resolved
<1> QED  BY <1>4, <1>5 DEF Loaded

LEMMA BatchNext == BatchInv /\ [Next]_vars => BatchInv'
<1> SUFFICES ASSUME BatchInv, [Next]_vars
             PROVE  \A u \in Users : SentOK(user[u])' /\ LandedOK(user[u])'
  BY PrefixNext DEF BatchInv
<1>1. /\ PrefixInv /\ TableTypes /\ table.keys \in Contents
      /\ DOMAIN user = Users /\ user = [u \in Users |-> user[u]]
  BY DEF BatchInv, PrefixInv, TableTypes
<1> DEFINE Was(s) == table.state # "closed" => IsPrefix(s, table.keys)
           Is(s) == table'.state # "closed" => IsPrefix(s, table'.keys)
           Sent(x) == x.pc = "sent" =>
                        \E keys \in Contents : x.message = Compile(BatchInstructions, keys) /\ Is(keys)
<1>2. ASSUME NEW s \in Contents, Was(s) PROVE Is(s)  BY <1>1, <1>2, PrefixStays
<1> SUFFICES ASSUME NEW u \in Users PROVE Sent(user'[u]) /\ LandedOK(user'[u])
  BY DEF SentOK, LandedOK
<1>3. SentOK(user[u]) /\ LandedOK(user[u])  BY DEF BatchInv
<1>4. SentOK(user[u]) => Sent(user[u])
  <2> SUFFICES ASSUME SentOK(user[u]), user[u].pc = "sent" PROVE Sent(user[u])
    OBVIOUS
  <2>1. PICK keys \in Contents : user[u].message = Compile(BatchInstructions, keys) /\ Was(keys)
    BY DEF SentOK
  <2>2. Is(keys)  BY <1>2, <2>1
  <2> HIDE DEF Is
  <2> QED  BY <2>1, <2>2
<1>5. CASE user'[u] = user[u]  BY <1>3, <1>4, <1>5
<1>6. CASE BuildTx(u)
  <2> DEFINE keys == user[u].keys
  <2>1. user[u].pc = "resolved" /\ UserOK(user[u])  BY <1>1, <1>6 DEF BuildTx, TableTypes
  <2>2. keys \in Contents  BY <2>1 DEF UserOK
  <2>3. Was(keys)  BY <1>1, <2>1 DEF PrefixInv, StaleIsPrefix
  <2>4. Is(keys)  BY <1>2, <2>2, <2>3
  <2>5. user'[u] = [pc |-> "sent", message |-> Compile(BatchInstructions, keys)]
    <3>1. CreateTx("bridge_transaction", BatchInstructions, TRUE).instructions = BatchInstructions
      BY DEF CreateTx
    <3> QED  BY <1>1, <1>6, <3>1 DEF BuildTx
  <2> HIDE DEF keys, Is
  <2>6. /\ user'[u].pc = "sent" /\ user'[u].message = Compile(BatchInstructions, keys)  BY <2>5
  <2> QED  BY <2>2, <2>4, <2>6 DEF LandedOK
<1>7. CASE Land(u)
  <2> DEFINE m == user[u].message
  <2>1. user[u].pc = "sent" /\ Fetchable  BY <1>7 DEF Land, Loads
  <2>2. table.state # "closed"  BY <2>1 DEF Fetchable
  <2>3. PICK keys \in Contents : m = Compile(BatchInstructions, keys) /\ IsPrefix(keys, table.keys)
    BY <1>3, <2>1, <2>2 DEF SentOK
  <2>4. user'[u] = [pc |-> "landed", message |-> m, loaded |-> Loaded(m)]
    BY <1>1, <1>7 DEF Land
  <2> HIDE DEF m
  <2>5. Loaded(m) = [writable |-> Resolved(m.writable, keys), readonly |-> Resolved(m.readonly, keys)]
    BY <1>1, <2>3, LoadsPrefix
  <2>6. user'[u].pc = "landed" /\ user'[u].message = m /\ user'[u].loaded = Loaded(m)  BY <2>4
  <2> QED  BY <2>3, <2>5, <2>6 DEF LandedOK
<1>8. CASE user'[u].pc \notin {"sent", "landed"}  BY <1>8 DEF LandedOK
<1>9. ASSUME NEW v \in Users, v # u,
             Resolve(v) \/ Fetch(v) \/ Store(v) \/ BuildTx(v) \/ Land(v) \/ Expire(v)
      PROVE  user'[u] = user[u]
  BY <1>1, <1>9 DEF Resolve, Fetch, Store, BuildTx, Land, Expire
<1>10. ASSUME Resolve(u) \/ Fetch(u) \/ Store(u) \/ Expire(u)
       PROVE  user'[u].pc \notin {"sent", "landed"}
  <2>1. Resolve(u) => user'[u].pc \in {"fetch", "resolved"}  BY <1>1 DEF Resolve
  <2>2. Fetch(u) => user'[u].pc \in {"store", "idle"}  BY <1>1 DEF Fetch
  <2>3. Store(u) => user'[u].pc = "resolved"
    <3> SUFFICES ASSUME Store(u) PROVE user'[u].pc = "resolved"
      OBVIOUS
    <3>1. user[u].pc = "store" /\ UserOK(user[u])  BY <1>1 DEF Store, TableTypes
    <3>2. user[u] \in [pc : {"store", "resolved"}, keys : Contents]  BY <3>1 DEF UserOK
    <3> QED  BY <1>1, <3>2 DEF Store
  <2>4. Expire(u) => user'[u].pc = "idle"  BY <1>1 DEF Expire
  <2> QED  BY <1>10, <2>1, <2>2, <2>3, <2>4
<1>11. Next => \/ user' = user
               \/ \E v \in Users :
                    Resolve(v) \/ Fetch(v) \/ Store(v) \/ BuildTx(v) \/ Land(v) \/ Expire(v)
  BY DEF Next, Create, PlanExtend, LandExtend, LoseExtend, Freeze, Deactivate, Close, Invalidate
<1>12. CASE user' = user  BY <1>5, <1>12
<1>13. ASSUME NEW v \in Users,
              Resolve(v) \/ Fetch(v) \/ Store(v) \/ BuildTx(v) \/ Land(v) \/ Expire(v)
       PROVE  Sent(user'[u]) /\ LandedOK(user'[u])
  <2>1. CASE v # u  BY <1>5, <1>9, <1>13, <2>1
  <2>2. CASE v = u  BY <1>6, <1>7, <1>8, <1>10, <1>13, <2>2
  <2> QED  BY <2>1, <2>2
<1> QED  BY <1>11, <1>12, <1>13 DEF vars

LEMMA BatchInvariant == Spec => []BatchInv
<1>1. Init => BatchInv
  <2> SUFFICES ASSUME Init PROVE BatchInv
    OBVIOUS
  <2>1. PrefixInv
    <3>1. StaleIsPrefix  BY DEF Init, StaleIsPrefix
    <3> QED  BY <3>1, TypesInit DEF PrefixInv
  <2>2. \A u \in Users : user[u].pc = "idle"  BY DEF Init
  <2> QED  BY <2>1, <2>2 DEF BatchInv, SentOK, LandedOK
<1> QED  BY <1>1, BatchNext, PTL DEF Spec

(* The keys of a landed message, as the tracker puts them together.        *)
LEMMA LandedKeys ==
  ASSUME BatchInv, NEW u \in Users, user[u].pc = "landed"
  PROVE  LET ixs == user[u].message.instructions
             n == Len(BatchInstructions)
         IN /\ DOMAIN ixs = 1..n /\ Len(ixs) = n
            /\ \A i \in 1..n :
                 /\ ixs[i].program \in DOMAIN Keys(u)
                 /\ Keys(u)[ixs[i].program] = BatchInstructions[i].program
                 /\ DOMAIN ixs[i].accounts = DOMAIN BatchInstructions[i].accounts
                 /\ \A j \in DOMAIN ixs[i].accounts :
                      /\ ixs[i].accounts[j] \in DOMAIN Keys(u)
                      /\ Keys(u)[ixs[i].accounts[j]] = BatchInstructions[i].accounts[j].key
                 /\ ixs[i].data = IF BatchInstructions[i].program = Ed25519Program
                                  THEN BatchInstructions[i].data ELSE << >>
<1> DEFINE m == user[u].message
           ix == BatchInstructions
           n == Len(ix)
<1>1. PICK keys \in Contents :
        /\ m = Compile(BatchInstructions, keys)
        /\ user[u].loaded = [writable |-> Resolved(m.writable, keys),
                             readonly |-> Resolved(m.readonly, keys)]
  BY DEF BatchInv, LandedOK
<1>2. ResolvesTo(m, keys, ix, n)  BY <1>1, MeantResolves
<1> DEFINE full == m.static \o Resolved(m.writable, keys) \o Resolved(m.readonly, keys)
<1>3. Keys(u) = full
  <2>1. Keys(u) = m.static \o user[u].loaded.writable \o user[u].loaded.readonly
    BY DEF Keys, TransactionAccountKeys
  <2> DEFINE w == Resolved(m.writable, keys)  r == Resolved(m.readonly, keys)
  <2> HIDE DEF w, r
  <2>2. user[u].loaded = [writable |-> w, readonly |-> r]  BY <1>1 DEF w, r
  <2>3. user[u].loaded.writable = w /\ user[u].loaded.readonly = r  BY <2>2
  <2> QED  BY <2>1, <2>3 DEF w, r
<1>4. /\ DOMAIN m.instructions = 1..n /\ Len(m.instructions) = n
      /\ \A i \in 1..n :
           /\ m.instructions[i].program \in DOMAIN full
           /\ full[m.instructions[i].program] = ix[i].program
           /\ DOMAIN m.instructions[i].accounts = DOMAIN ix[i].accounts
           /\ \A j \in DOMAIN ix[i].accounts :
                /\ m.instructions[i].accounts[j] \in DOMAIN full
                /\ full[m.instructions[i].accounts[j]] = ix[i].accounts[j].key
           /\ m.instructions[i].data =
                IF ix[i].program = Ed25519Program THEN ix[i].data ELSE << >>
  BY <1>2 DEF ResolvesTo
<1> HIDE DEF full, m, ix, n
<1> QED  BY <1>3, <1>4 DEF m, ix, n

(* A landed transaction runs with exactly the programs and accounts that   *)
(* the sender meant, however the table grew between the resolver's fetch   *)
(* and the landing (cpi_events.go:37-47).                                  *)
THEOREM LandedExact == Spec => []LandedAsMeant
<1>1. BatchInv => LandedAsMeant
  <2> SUFFICES ASSUME BatchInv, NEW u \in Users, user[u].pc = "landed",
                      NEW i \in DOMAIN BatchInstructions
               PROVE  LET ix == user[u].message.instructions[i] IN
                      /\ Keys(u)[ix.program] = BatchInstructions[i].program
                      /\ \A j \in DOMAIN ix.accounts :
                           Keys(u)[ix.accounts[j]] = BatchInstructions[i].accounts[j].key
    BY DEF LandedAsMeant
  <2>1. DOMAIN BatchInstructions = 1..Len(BatchInstructions)  BY Meant
  <2> QED  BY <2>1, LandedKeys
<1> QED  BY <1>1, BatchInvariant, PTL

(* The accounts of the bridge instruction that the run uses.               *)
LEMMA BridgeAccounts ==
  LET bridge == BatchInstructions[Len(BatchInstructions)]
  IN /\ bridge.program = Batch.program
     /\ 4 \in DOMAIN bridge.accounts /\ bridge.accounts[4].key = WellKnown("token")
     /\ 5 \in DOMAIN bridge.accounts /\ bridge.accounts[5].key = WellKnown("system")
     /\ 8 \in DOMAIN bridge.accounts
     /\ bridge.accounts[8].key = Pda("eventAuthority", Batch.program)
<1> DEFINE bridge == BridgeInstruction(Config, Batch)
           rest == RemainingAccounts(Config, Batch)
           Fixed(i) == [key   |-> BridgeKeys(Config, Batch)[i],
                        role  |-> BridgeTransactionAccounts[i][1],
                        flags |-> BridgeTransactionAccounts[i][2]]
<1>1. BatchInstructions[Len(BatchInstructions)] = bridge  BY Meant
<1>2. /\ bridge.program = Batch.program
      /\ bridge.accounts \in Seq(ToSet(bridge.accounts))
      /\ Len(rest) \in Nat /\ Len(bridge.accounts) = 9 + Len(rest)
      /\ \A i \in 1..9 : bridge.accounts[i] = Fixed(i)
  <2>1. Batch.receivers \in Seq(ToSet(Batch.receivers))  BY BatchAssumption
  <2>2. BridgeLaid(bridge, Config, Batch)  BY <2>1, BridgeForm
  <2> QED  BY <2>2 DEF BridgeLaid
<1>3. Config["eventAuthority"] = Pda("eventAuthority", Batch.program)
  BY BatchConfig DEF Config
<1>4. /\ BridgeKeys(Config, Batch)[4] = WellKnown("token")
      /\ BridgeKeys(Config, Batch)[5] = WellKnown("system")
      /\ BridgeKeys(Config, Batch)[8] = Config["eventAuthority"]
  BY DEF BridgeKeys
<1> HIDE DEF bridge, rest
<1>5. 4 \in 1..9 /\ 5 \in 1..9 /\ 8 \in 1..9  OBVIOUS
<1>6. bridge.accounts[4] = Fixed(4) /\ bridge.accounts[5] = Fixed(5) /\ bridge.accounts[8] = Fixed(8)
  BY <1>2, <1>5
<1>7. 4 \in DOMAIN bridge.accounts /\ 5 \in DOMAIN bridge.accounts /\ 8 \in DOMAIN bridge.accounts
  <2>1. DOMAIN bridge.accounts = 1..Len(bridge.accounts)  BY <1>2
  <2> QED  BY <1>2, <2>1
<1>8. Fixed(4).key = WellKnown("token") /\ Fixed(5).key = WellKnown("system")
      /\ Fixed(8).key = Config["eventAuthority"]
  BY <1>4
<1> QED  BY <1>1, <1>2, <1>3, <1>6, <1>7, <1>8

(* From a landed batch the tracker takes exactly the bridge program's one  *)
(* event, not those that other programs report, and finds the validators'  *)
(* payload for it (cpi_events.go:65-144).                                  *)
THEOREM BatchRead == Spec => []TrackerReadsBatch
<1>1. BatchInv => TrackerReadsBatch
  <2> SUFFICES ASSUME BatchInv, NEW u \in Users, user[u].pc = "landed"
               PROVE  LET message == user[u].message
                          events == CollectCPIEvents(Inner(message), Keys(u), {Batch.program})
                      IN /\ events = <<[program |-> Batch.program, top |-> Len(message.instructions),
                                        batch |-> Batch.payload.batch]>>
                         /\ FindBatchPayload(message.instructions, Keys(u), events[1].top,
                                             events[1].batch) = Batch.payload
    BY DEF TrackerReadsBatch
  <2> DEFINE m == user[u].message
             ixs == m.instructions
             n == Len(BatchInstructions)
             K == Keys(u)
             bridge == ixs[n]
             meant == BatchInstructions[n]
             authority == bridge.accounts[8]
             Call(program, first, tagged, batch) ==
               [program |-> program, accounts |-> <<first>>, tagged |-> tagged, top |-> n,
                batch |-> batch]
             inner == Inner(m)
             tracked == {Batch.program}
             chosen == {i \in DOMAIN inner : IsCPIEvent(inner[i], K, tracked)}
             events == CollectCPIEvents(inner, K, tracked)
             event == [program |-> Batch.program, top |-> n, batch |-> Batch.payload.batch]
  <2>1. n \in 2..3 /\ n \in Nat /\ n \in 1..n /\ n - 1 \in 1..n
    <3>1. n \in 2..3  BY Meant
    <3> HIDE DEF n
    <3> QED  BY <3>1
  <2>2. /\ DOMAIN ixs = 1..n /\ Len(ixs) = n
        /\ \A i \in 1..n :
             /\ ixs[i].program \in DOMAIN K
             /\ K[ixs[i].program] = BatchInstructions[i].program
             /\ DOMAIN ixs[i].accounts = DOMAIN BatchInstructions[i].accounts
             /\ \A j \in DOMAIN ixs[i].accounts :
                  /\ ixs[i].accounts[j] \in DOMAIN K
                  /\ K[ixs[i].accounts[j]] = BatchInstructions[i].accounts[j].key
             /\ ixs[i].data = IF BatchInstructions[i].program = Ed25519Program
                              THEN BatchInstructions[i].data ELSE << >>
    BY LandedKeys
  <2>3. inner = <<Call(bridge.accounts[4], 1, FALSE, 0), Call(bridge.accounts[5], authority, TRUE, 0),
                  Call(bridge.program, authority, TRUE, Batch.payload.batch),
                  Call(bridge.program, 1, FALSE, 0)>>
    BY <2>2 DEF Inner
  <2>4. /\ meant.program = Batch.program
        /\ 5 \in DOMAIN meant.accounts /\ meant.accounts[5].key = WellKnown("system")
        /\ 8 \in DOMAIN meant.accounts
        /\ meant.accounts[8].key = Pda("eventAuthority", Batch.program)
    BY BridgeAccounts
  <2>5. /\ bridge.program \in DOMAIN K /\ K[bridge.program] = Batch.program
        /\ bridge.accounts[5] \in DOMAIN K /\ K[bridge.accounts[5]] = WellKnown("system")
        /\ authority \in DOMAIN K /\ K[authority] = Pda("eventAuthority", Batch.program)
    <3> HIDE DEF ixs, K, n
    <3> QED  BY <2>1, <2>2, <2>4
  <2> HIDE DEF ixs, K, n, inner
  <2>6. /\ DOMAIN inner = 1..4
        /\ inner[1] = Call(bridge.accounts[4], 1, FALSE, 0)
        /\ inner[2] = Call(bridge.accounts[5], authority, TRUE, 0)
        /\ inner[3] = Call(bridge.program, authority, TRUE, Batch.payload.batch)
        /\ inner[4] = Call(bridge.program, 1, FALSE, 0)
    <3> HIDE DEF Call, bridge, authority
    <3> QED  BY <2>3
  <2>7. ~IsCPIEvent(inner[1], K, tracked) /\ ~IsCPIEvent(inner[4], K, tracked)
    <3>1. inner[1].tagged = FALSE /\ inner[4].tagged = FALSE  BY <2>6
    <3> QED  BY <3>1 DEF IsCPIEvent
  <2>8. ~IsCPIEvent(inner[2], K, tracked)
    <3>1. inner[2].program = bridge.accounts[5]  BY <2>6
    <3>2. K[inner[2].program] # Batch.program  BY <2>5, <3>1, BatchAssumption
    <3> QED  BY <3>2 DEF IsCPIEvent
  <2>9. IsCPIEvent(inner[3], K, tracked)
    <3>1. /\ inner[3].program = bridge.program /\ inner[3].tagged = TRUE
          /\ inner[3].accounts = <<authority>>
      BY <2>6
    <3>2. inner[3].accounts # << >> /\ inner[3].accounts[1] = authority  BY <3>1
    <3> HIDE DEF authority
    <3> QED  BY <2>5, <3>1, <3>2 DEF IsCPIEvent
  <2>10. chosen = {3}
    <3>1. \A i \in 1..4 : i = 1 \/ i = 2 \/ i = 3 \/ i = 4  OBVIOUS
    <3>2. 3 \in 1..4  OBVIOUS
    <3> QED  BY <2>6, <2>7, <2>8, <2>9, <3>1, <3>2
  <2> DEFINE picked == At(inner, chosen)
  <2>11. DOMAIN picked = 1..1 /\ picked[1] = inner[3]
    <3> HIDE DEF chosen
    <3> QED  BY <2>10, AtSingle
  <2>12. events = [i \in DOMAIN picked |-> [program |-> K[picked[i].program], top |-> picked[i].top,
                                            batch |-> picked[i].batch]]
    BY DEF CollectCPIEvents
  <2> HIDE DEF picked, events
  <2>13. events = [i \in 1..1 |-> event]
    <3>1. /\ inner[3].program = bridge.program /\ inner[3].top = n
          /\ inner[3].batch = Batch.payload.batch
      BY <2>6
    <3>2. \A i \in 1..1 : i = 1  OBVIOUS
    <3>3. \A i \in 1..1 : [program |-> K[picked[i].program], top |-> picked[i].top,
                           batch |-> picked[i].batch] = event
      BY <2>5, <2>11, <3>1, <3>2
    <3> HIDE DEF event
    <3> QED  BY <2>11, <2>12, <3>3
  <2>14. events = <<event>> /\ events[1] = event
    <3> HIDE DEF event
    <3> QED  BY <2>13
  <2>15. InstructionProgramEquals(ixs, K, n - 1, Ed25519Program)
         /\ ixs[n - 1].data = BuildBatchedEd25519(Batch.signers, Batch.payload).data
    <3>1. BatchInstructions[n - 1] = BuildBatchedEd25519(Batch.signers, Batch.payload)
      BY Meant DEF n
    <3>2. BatchInstructions[n - 1].program = Ed25519Program  BY <3>1 DEF BuildBatchedEd25519
    <3> QED  BY <2>1, <2>2, <3>1, <3>2 DEF InstructionProgramEquals
  <2>16. FindBatchPayload(ixs, K, n, Batch.payload.batch) = Batch.payload
    <3>1. Len(Batch.signers) \in Nat  BY BatchAssumption
    <3>2. /\ Batch.payload.size \in Nat /\ U16(Batch.payload.size) = Batch.payload.size
          /\ ~Ed25519Refused(Batch.signers, Batch.payload) /\ Batch.payload # NoPayload
      BY BatchAssumption
    <3>3. n \in Nat /\ n >= 2 /\ DOMAIN ixs = 1..n  BY <2>1, <2>2
    <3>4. SignedBefore(ixs, n, K, Batch.signers, Batch.payload)
      BY <2>15, <3>1, <3>2, <3>3 DEF SignedBefore
    <3> QED  BY <3>4, PayloadBefore
  <2>17. event.top = n /\ event.batch = Batch.payload.batch  OBVIOUS
  <2>18. FindBatchPayload(ixs, K, events[1].top, events[1].batch) = Batch.payload
    <3> HIDE DEF event
    <3> QED  BY <2>14, <2>16, <2>17
  <2> QED  BY <2>2, <2>14, <2>18 DEF events, inner, K, ixs, tracked
<1> QED  BY <1>1, BatchInvariant, PTL
=============================================================================
