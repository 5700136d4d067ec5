--------------------------- MODULE TxSender_proofs ---------------------------
(***************************************************************************)
(* Proofs about the transaction sender: what a builder finds in the shared *)
(* configuration, whatever other calls write into it meanwhile, and what   *)
(* it makes of it.                                                         *)
(***************************************************************************)
EXTENDS TxSender, TxBuilders_proofs

-----------------------------------------------------------------------------
(* Options.                                                                *)

(* Every builder that uses the configuration sets the program first.       *)
LEMMA OptionFields ==
  ASSUME NEW kind \in Kinds
  PROVE  /\ OptionsOf(kind) \in Seq(ConfigFields)
         /\ OptionsOf(kind) # << >> => OptionsOf(kind)[1] = "program"
<1> DEFINE Fine(q) == q \in Seq(ConfigFields) /\ (q # << >> => q[1] = "program")
<1>1. Fine(BridgingRequestOptions)  BY DEF BridgingRequestOptions, ConfigFields
<1>2. Fine(BridgeTransactionOptions)  BY DEF BridgeTransactionOptions, ConfigFields
<1>3. Fine(BridgeVSUOptions)  BY DEF BridgeVSUOptions, ConfigFields
<1>4. Fine(HotWalletIncrementOptions)  BY DEF HotWalletIncrementOptions, ConfigFields
<1>5. Fine(InitializeOptions)  BY DEF InitializeOptions, ConfigFields
<1>6. Fine(RegisterLockUnlockOptions)  BY DEF RegisterLockUnlockOptions, ConfigFields
<1>7. Fine(RegisterMintBurnOptions)  BY DEF RegisterMintBurnOptions, ConfigFields
<1>8. Fine(UpdateFeeConfigOptions)  BY DEF UpdateFeeConfigOptions, ConfigFields
<1>9. Fine(UpdateProgramVersionOptions)  BY DEF UpdateProgramVersionOptions, ConfigFields
<1>10. Fine(UpdateMinBridgingAmountOptions)  BY DEF UpdateMinBridgingAmountOptions, ConfigFields
<1>11. Fine(ALTAddressesOptions)  BY DEF ALTAddressesOptions, ConfigFields
<1>12. Fine(<< >>)  OBVIOUS
<1> HIDE DEF Fine
<1>13. \/ OptionsOf(kind) = BridgingRequestOptions \/ OptionsOf(kind) = BridgeTransactionOptions
       \/ OptionsOf(kind) = BridgeVSUOptions \/ OptionsOf(kind) = HotWalletIncrementOptions
       \/ OptionsOf(kind) = InitializeOptions \/ OptionsOf(kind) = RegisterLockUnlockOptions
       \/ OptionsOf(kind) = RegisterMintBurnOptions \/ OptionsOf(kind) = UpdateFeeConfigOptions
       \/ OptionsOf(kind) = UpdateProgramVersionOptions
       \/ OptionsOf(kind) = UpdateMinBridgingAmountOptions
       \/ OptionsOf(kind) = ALTAddressesOptions \/ OptionsOf(kind) = << >>
  BY DEF OptionsOf, Kinds, Transfers
<1>14. Fine(OptionsOf(kind))
  BY <1>1, <1>2, <1>3, <1>4, <1>5, <1>6, <1>7, <1>8, <1>9, <1>10, <1>11, <1>12, <1>13
<1> QED  BY <1>14 DEF Fine

(* The options of a call that it has applied, when these are left.         *)
Applied(left, all) == {all[i] : i \in 1..(Len(all) - Len(left))}

Suffix(left, all) ==
  /\ left \in Seq(ConfigFields)
  /\ Len(left) <= Len(all)
  /\ \A j \in 1..Len(left) : left[j] = all[Len(all) - Len(left) + j]

(* What a call may find in a field: a key derived for a program, a token   *)
(* and a mint of the requests ds.                                          *)
FieldOK(f, v, ds) ==
  LET P == {d.program : d \in ds}
      T == UNION {Tokens(d) : d \in ds}
  IN CASE f = "program"  -> v \in P
       [] f \in {"tokenRegistry", "tokenIDGuard"} ->
            \E p \in P : \E t \in T : v = TokenPda(f, t, p)
       [] f = "metadata" -> \E d \in ds : v = <<"metadata", d.mint>>
       [] OTHER          -> \E p \in P : v = Pda(f, p)

LEMMA FieldGrows ==
  ASSUME NEW f, NEW v, NEW ds, NEW es, ds \subseteq es, FieldOK(f, v, ds)
  PROVE  FieldOK(f, v, es)
<1> DEFINE P == {d.program : d \in ds}  PP == {d.program : d \in es}
           T == UNION {Tokens(d) : d \in ds}  TT == UNION {Tokens(d) : d \in es}
<1>1. P \subseteq PP /\ T \subseteq TT  OBVIOUS
<1>2. CASE f = "program"  BY <1>1, <1>2 DEF FieldOK
<1>3. CASE f \in {"tokenRegistry", "tokenIDGuard"}
  <2>1. \E p \in P : \E t \in T : v = TokenPda(f, t, p)  BY <1>3 DEF FieldOK
  <2>2. \E p \in PP : \E t \in TT : v = TokenPda(f, t, p)  BY <1>1, <2>1
  <2> QED  BY <1>3, <2>2 DEF FieldOK
<1>4. CASE f = "metadata"  BY <1>4 DEF FieldOK
<1>5. CASE f \notin {"program", "tokenRegistry", "tokenIDGuard", "metadata"}
  <2>1. \E p \in P : v = Pda(f, p)  BY <1>5 DEF FieldOK
  <2>2. \E p \in PP : v = Pda(f, p)  BY <1>1, <2>1
  <2> QED  BY <1>5, <2>2 DEF FieldOK
<1> QED  BY <1>2, <1>3, <1>4, <1>5

(* An option of a request among ds derives such a key, from a program of   *)
(* one of them.                                                            *)
LEMMA FieldDerived ==
  ASSUME NEW ds, NEW d, NEW f, NEW program,
         d \in ds \/ f \in {"tokenRegistry", "tokenIDGuard"},
         f = "program" \/ program \in {e.program : e \in ds},
         f \in {"tokenRegistry", "tokenIDGuard"} => \E e \in ds : d.token \in Tokens(e)
  PROVE  FieldOK(f, Derived(f, program, d), ds)
<1> DEFINE P == {e.program : e \in ds}
           T == UNION {Tokens(e) : e \in ds}
<1>1. CASE f = "program"  BY <1>1 DEF FieldOK, Derived
<1>2. CASE f \in {"tokenRegistry", "tokenIDGuard"}
  <2>1. program \in P /\ d.token \in T  BY <1>2
  <2>2. Derived(f, program, d) = TokenPda(f, d.token, program)  BY <1>2 DEF Derived
  <2>3. \E p \in P : \E t \in T : Derived(f, program, d) = TokenPda(f, t, p)  BY <2>1, <2>2
  <2> QED  BY <1>2, <2>3 DEF FieldOK
<1>3. CASE f = "metadata"  BY <1>3 DEF FieldOK, Derived
<1>4. CASE f \notin {"program", "tokenRegistry", "tokenIDGuard", "metadata"}
  <2>1. program \in P  BY <1>4
  <2>2. Derived(f, program, d) = Pda(f, program)  BY <1>4 DEF Derived
  <2>3. \E p \in P : Derived(f, program, d) = Pda(f, p)  BY <2>1, <2>2
  <2> QED  BY <1>4, <2>3 DEF FieldOK
<1> QED  BY <1>1, <1>2, <1>3, <1>4

-----------------------------------------------------------------------------
(* Types.                                                                  *)

(* A listing under way.                                                    *)
Lists(pc, d, next, out) ==
  [pc |-> pc, dto |-> d, left |-> << >>, next |-> next, out |-> out]

CallOK(x) ==
  \/ x.pc \in {"idle", "failed", "built"}
  \/ /\ x.pc \in {"options", "read"}
     /\ x = [pc |-> x.pc, dto |-> x.dto, left |-> x.left]
     /\ x.dto \in Dtos
     /\ Suffix(x.left, OptionsOf(x.dto.kind))
     /\ x.pc = "read" => x.left = << >>
  \/ /\ x.pc \in {"list", "append"}
     /\ x = Lists(x.pc, x.dto, x.next, x.out)
     /\ x.dto \in Dtos /\ x.dto.kind = "alt_addresses"
     /\ x.next \in 1..(Len(ALTTokens(x.dto)) + 1)
     /\ x.pc = "append" => x.next <= Len(ALTTokens(x.dto))

SenderTypes ==
  /\ DOMAIN call = Callers /\ call = [s \in Callers |-> call[s]]
  /\ DOMAIN overlap = Callers
  /\ DOMAIN config = ConfigFields
  /\ \A s \in Callers : CallOK(call[s])

(* The tokens of a listing.                                                *)
Listable(d) == {t \in DOMAIN d.mints : d.mints[t] # NativeSolMint}

LEMMA ListedTokens ==
  ASSUME NEW d \in Dtos, d.kind = "alt_addresses"
  PROVE  LET q == ALTTokens(d)
         IN /\ q \in Seq(Listable(d)) /\ Len(q) \in Nat /\ DOMAIN q = 1..Len(q)
            /\ ToSet(q) = Listable(d)
            /\ \A k, l \in DOMAIN q : q[k] = q[l] => k = l
<1> DEFINE S == Listable(d)
           q == Ascending(S)
           n == Cardinality(S)
<1>1. DOMAIN d.mints \in SUBSET Nat /\ IsFiniteSet(DOMAIN d.mints)  BY DtosAssumption
<1>2. S \in SUBSET Nat /\ IsFiniteSet(S)
  <2>1. S \in SUBSET Nat /\ S \in SUBSET DOMAIN d.mints  BY <1>1 DEF Listable
  <2> HIDE DEF S
  <2> QED  BY <1>1, <2>1, FS_Subset
<1> HIDE DEF S
<1>3. /\ n \in Nat /\ q \in [1..n -> S] /\ \A x \in S : \E k \in 1..n : q[k] = x
      /\ \A k, l \in 1..n : q[k] = q[l] => k = l
  BY <1>2, AscendingOrder
<1> HIDE DEF q, n
<1>4. q \in Seq(S) /\ Len(q) = n /\ DOMAIN q = 1..n  BY ONLY <1>3
<1>5. ToSet(q) = S  BY <1>3, <1>4 DEF ToSet
<1>6. ALTTokens(d) = q  BY DEF ALTTokens, Listable, q, S
<1> QED  BY <1>3, <1>4, <1>5, <1>6 DEF S

(* One step of one goroutine.                                              *)
Step(s) ==
  \/ \E d \in Dtos : Begin(s, d)
  \/ ApplyOption(s)
  \/ \E answered \in BOOLEAN : QueryTokens(s, answered)
  \/ BuildInstruction(s)
  \/ BuildBatch(s)
  \/ BeginListing(s) \/ ApplyRegistry(s) \/ AppendEntry(s) \/ EndListing(s)

LEMMA NextSteps == Next <=> \E s \in Callers : Step(s)
BY DEF Next, Step

LEMMA SuffixAll == ASSUME NEW q \in Seq(ConfigFields) PROVE Suffix(q, q) /\ Applied(q, q) = {}
BY DEF Suffix, Applied

(* Taking the next option.                                                 *)
LEMMA SuffixTail ==
  ASSUME NEW all \in Seq(ConfigFields), NEW left, Suffix(left, all), left # << >>
  PROVE  /\ Suffix(Tail(left), all)
         /\ Head(left) \in ConfigFields
         /\ Applied(Tail(left), all) = Applied(left, all) \cup {Head(left)}
         /\ Head(left) = all[1] \/ all[1] \in Applied(left, all)
         /\ Head(left) \in ToSet(all)
<1> DEFINE n == Len(all)  m == Len(left)  tail == Tail(left)
<1>1. /\ left \in Seq(ConfigFields) /\ m \in Nat /\ n \in Nat /\ m <= n /\ m > 0
      /\ \A j \in 1..m : left[j] = all[n - m + j]
  BY DEF Suffix
<1>2. /\ tail \in Seq(ConfigFields) /\ Len(tail) = m - 1 /\ Head(left) = left[1]
      /\ \A j \in 1..(m - 1) : tail[j] = left[j + 1]
  BY <1>1
<1>3. DOMAIN all = 1..n  OBVIOUS
<1> HIDE DEF n, m, tail
<1>4. Head(left) = all[n - m + 1]
  <2>1. 1 \in 1..m  BY <1>1
  <2> QED  BY <1>1, <1>2, <2>1
<1>5. \A j \in 1..(m - 1) : tail[j] = all[n - (m - 1) + j]
  <2> SUFFICES ASSUME NEW j \in 1..(m - 1) PROVE tail[j] = all[n - (m - 1) + j]
    OBVIOUS
  <2>1. j + 1 \in 1..m /\ n - m + (j + 1) = n - (m - 1) + j  BY <1>1
  <2> QED  BY <1>1, <1>2, <2>1
<1>6. Suffix(tail, all)  BY <1>1, <1>2, <1>5 DEF Suffix, n
<1>7. Applied(tail, all) = {all[i] : i \in 1..(n - (m - 1))}  BY <1>2 DEF Applied, n
<1>8. Applied(left, all) = {all[i] : i \in 1..(n - m)}  BY DEF Applied, n, m
<1>9. 1..(n - (m - 1)) = (1..(n - m)) \cup {n - m + 1}  BY <1>1
<1>10. Applied(tail, all) = Applied(left, all) \cup {Head(left)}  BY <1>4, <1>7, <1>8, <1>9
<1>11. Head(left) = all[1] \/ all[1] \in Applied(left, all)
  <2>1. CASE n = m  BY <1>1, <1>4, <2>1
  <2>2. CASE n # m
    <3>1. 1 \in 1..(n - m)  BY <1>1, <2>2
    <3> QED  BY <1>8, <3>1
  <2> QED  BY <2>1, <2>2
<1>12. Head(left) \in ToSet(all)
  <2>1. n - m + 1 \in DOMAIN all  BY <1>1, <1>3
  <2> QED  BY <1>4, <2>1 DEF ToSet
<1>13. Head(left) \in ConfigFields  BY <1>1
<1> QED  BY <1>6, <1>10, <1>11, <1>12, <1>13 DEF tail

(* Nothing left: all applied.                                              *)
LEMMA SuffixNone ==
  ASSUME NEW all \in Seq(ConfigFields)
  PROVE  Applied(<< >>, all) = ToSet(all)
<1>1. Len(all) - Len(<< >>) = Len(all) /\ DOMAIN all = 1..Len(all)  OBVIOUS
<1> QED  BY <1>1 DEF Applied, ToSet

(* The state that an active call is in.                                    *)
LEMMA ActiveOK ==
  ASSUME SenderTypes, NEW s \in Callers, Active(s)
  PROVE  LET x == call[s]  all == OptionsOf(x.dto.kind)
         IN /\ x.pc \in {"options", "read"} => x = [pc |-> x.pc, dto |-> x.dto, left |-> x.left]
            /\ x.dto \in Dtos /\ x.dto.kind \in Kinds
            /\ all \in Seq(ConfigFields) /\ Suffix(x.left, all)
            /\ all # << >> => all[1] = "program"
            /\ x.pc # "options" => x.left = << >>
<1> DEFINE x == call[s]  all == OptionsOf(x.dto.kind)
<1>1. CallOK(x) /\ x.pc \in {"options", "read", "list", "append"}  BY DEF SenderTypes, Active
<1>2. x.dto \in Dtos  BY <1>1 DEF CallOK
<1>3. x.dto.kind \in Kinds  BY <1>2, DtosAssumption
<1>4. all \in Seq(ConfigFields) /\ (all # << >> => all[1] = "program")  BY <1>3, OptionFields
<1>5. CASE x.pc \in {"options", "read"}
  <2>1. /\ x = [pc |-> x.pc, dto |-> x.dto, left |-> x.left]
        /\ Suffix(x.left, all)
        /\ x.pc = "read" => x.left = << >>
    BY <1>1, <1>5 DEF CallOK
  <2> QED  BY <1>2, <1>3, <1>4, <1>5, <2>1
<1>6. CASE x.pc \in {"list", "append"}
  <2>1. x = Lists(x.pc, x.dto, x.next, x.out)  BY <1>1, <1>6 DEF CallOK
  <2> HIDE DEF x
  <2>2. x.left = << >>  BY <2>1 DEF Lists
  <2> HIDE DEF all
  <2>3. Suffix(<< >>, all)  BY <1>4 DEF Suffix
  <2> QED  BY <1>2, <1>3, <1>4, <1>6, <2>2, <2>3 DEF x, all
<1> QED  BY <1>1, <1>5, <1>6

LEMMA ListingState ==
  ASSUME SenderTypes, NEW s \in Callers, call[s].pc \in {"list", "append"}
  PROVE  LET x == call[s]
         IN /\ Active(s) /\ x.dto \in Dtos /\ x.dto.kind = "alt_addresses"
            /\ x = Lists(x.pc, x.dto, x.next, x.out)
            /\ x.next \in 1..(Len(ALTTokens(x.dto)) + 1)
            /\ x.pc = "append" => x.next <= Len(ALTTokens(x.dto))
<1>1. CallOK(call[s])  BY DEF SenderTypes
<1> QED  BY <1>1 DEF CallOK, Active

LEMMA ReadyOK ==
  ASSUME SenderTypes, NEW s \in Callers, Ready(s)
  PROVE  Active(s) /\ call[s].left = << >> /\ call[s].pc \in {"options", "read"}
<1>1. Active(s)  BY DEF Ready, Active
<1>2. call[s].pc = "read" => call[s].left = << >>  BY <1>1, ActiveOK
<1> QED  BY <1>1, <1>2 DEF Ready

(* Who writes the configuration.                                           *)
LEMMA Writers ==
  ASSUME NEW s \in Callers, Step(s)
  PROVE  ApplyOption(s) \/ ApplyRegistry(s) \/ config' = config
BY DEF Step, Begin, QueryTokens, BuildInstruction, BuildBatch, BeginListing, AppendEntry, EndListing

LEMMA ConfigKept ==
  ASSUME SenderTypes, NEW s \in Callers, Step(s)
  PROVE  DOMAIN config' = ConfigFields
<1>1. DOMAIN config = ConfigFields  BY DEF SenderTypes
<1>2. CASE ApplyOption(s)
  <2>1. Active(s)  BY <1>2 DEF ApplyOption, Active
  <2>2. Suffix(call[s].left, OptionsOf(call[s].dto.kind)) /\ call[s].left # << >>
        /\ OptionsOf(call[s].dto.kind) \in Seq(ConfigFields)
    BY <1>2, <2>1, ActiveOK DEF ApplyOption
  <2>3. Head(call[s].left) \in ConfigFields  BY <2>2, SuffixTail
  <2> QED  BY <1>1, <1>2, <2>3, OptionStores DEF ApplyOption
<1>3. CASE ApplyRegistry(s)
  <2>1. "tokenRegistry" \in ConfigFields  BY DEF ConfigFields
  <2>2. \A t : DOMAIN WithTokenRegistry(config, t) = ConfigFields
    BY <1>1, <2>1, OptionStores DEF WithTokenRegistry
  <2> QED  BY <1>3, <2>2 DEF ApplyRegistry
<1>4. CASE config' = config  BY <1>1, <1>4
<1> QED  BY <1>2, <1>3, <1>4, Writers

LEMMA Effects ==
  ASSUME SenderTypes, NEW s \in Callers, Step(s)
  PROVE  /\ DOMAIN call' = Callers /\ call' = [t \in Callers |-> call'[t]]
         /\ DOMAIN overlap' = Callers
         /\ \A t \in Callers : t # s => call'[t] = call[t]
<1>1. DOMAIN call = Callers /\ call = [t \in Callers |-> call[t]] /\ DOMAIN overlap = Callers
  BY DEF SenderTypes
<1> DEFINE Fine == /\ DOMAIN call' = Callers /\ call' = [t \in Callers |-> call'[t]]
                   /\ DOMAIN overlap' = Callers
                   /\ \A t \in Callers : t # s => call'[t] = call[t]
<1>2. ASSUME NEW v, call' = [call EXCEPT ![s] = v], DOMAIN overlap' = Callers PROVE Fine
  BY <1>1, <1>2
<1> SUFFICES Fine  OBVIOUS
<1> HIDE DEF Fine
<1>3. ASSUME NEW d \in Dtos, Begin(s, d) PROVE Fine
  <2>1. DOMAIN overlap' = Callers  BY <1>3 DEF Begin
  <2> QED  BY <1>2, <1>3, <2>1 DEF Begin
<1>4. CASE ApplyOption(s)
  <2>1. call' = [call EXCEPT ![s] = [call[s] EXCEPT !.left = Tail(@)]] /\ overlap' = overlap
    BY <1>1, <1>4 DEF ApplyOption
  <2> QED  BY <1>1, <1>2, <2>1
<1>5. ASSUME NEW answered \in BOOLEAN, QueryTokens(s, answered) PROVE Fine
  <2> DEFINE pc == IF answered /\ ~RefusedLate(call[s].dto) THEN "read" ELSE "failed"
  <2>1. call' = [call EXCEPT ![s] = [call[s] EXCEPT !.pc = pc]] /\ overlap' = overlap
    BY <1>1, <1>5 DEF QueryTokens
  <2> HIDE DEF pc
  <2> QED  BY <1>1, <1>2, <2>1
<1>6. ASSUME NEW out, Built(s, out), overlap' = overlap PROVE Fine
  BY <1>1, <1>2, <1>6 DEF Built
<1>7. CASE BuildInstruction(s)  BY <1>6, <1>7 DEF BuildInstruction
<1>8. CASE BuildBatch(s)
  <2>1. CASE Ed25519Refused(call[s].dto.signers, call[s].dto.payload)
    <3>1. call' = [call EXCEPT ![s] = [call[s] EXCEPT !.pc = "failed"]] /\ overlap' = overlap
      BY <1>1, <1>8, <2>1 DEF BuildBatch
    <3> QED  BY <1>1, <1>2, <3>1
  <2>2. CASE ~Ed25519Refused(call[s].dto.signers, call[s].dto.payload)
    BY <1>6, <1>8, <2>2 DEF BuildBatch
  <2> QED  BY <2>1, <2>2
<1>9. CASE BeginListing(s)
  <2>1. call' = [call EXCEPT ![s] = Lists("list", call[s].dto, 1, ALTFront(config))]
        /\ overlap' = overlap
    BY <1>9 DEF BeginListing, Lists
  <2> QED  BY <1>1, <1>2, <2>1
<1>10. CASE ApplyRegistry(s)
  <2>1. call' = [call EXCEPT ![s] = [call[s] EXCEPT !.pc = "append"]] /\ overlap' = overlap
    BY <1>1, <1>10 DEF ApplyRegistry
  <2> QED  BY <1>1, <1>2, <2>1
<1>11. CASE AppendEntry(s)
  <2>1. overlap' = overlap  BY <1>11 DEF AppendEntry
  <2> QED  BY <1>1, <1>2, <1>11, <2>1 DEF AppendEntry
<1>12. CASE EndListing(s)  BY <1>6, <1>12 DEF EndListing
<1> QED  BY <1>3, <1>4, <1>5, <1>7, <1>8, <1>9, <1>10, <1>11, <1>12 DEF Step

(* The steps of a listing.                                                 *)
ListStep(s) ==
  LET x == call[s]  y == call'[s]
  IN \/ /\ BeginListing(s) /\ Ready(s) /\ x.dto.kind = "alt_addresses" /\ config' = config
        /\ y = Lists("list", x.dto, 1, ALTFront(config))
     \/ /\ ApplyRegistry(s) /\ x.pc = "list" /\ MoreTokens(s)
        /\ y = Lists("append", x.dto, x.next, x.out)
     \/ /\ AppendEntry(s) /\ x.pc = "append" /\ config' = config
        /\ y = Lists("list", x.dto, x.next + 1, x.out \o ALTEntry(config, x.dto, Token(s)))

LEMMA ListSteps ==
  ASSUME SenderTypes, NEW s \in Callers, BeginListing(s) \/ ApplyRegistry(s) \/ AppendEntry(s)
  PROVE  ListStep(s) /\ overlap' = overlap
<1>1. DOMAIN call = Callers  BY DEF SenderTypes
<1> DEFINE x == call[s]  y == call'[s]
<1>2. CASE BeginListing(s)
  <2>1. y = Lists("list", x.dto, 1, ALTFront(config))  BY <1>1, <1>2 DEF BeginListing, Lists
  <2>2. /\ Ready(s) /\ x.dto.kind = "alt_addresses" /\ config' = config /\ overlap' = overlap
    BY <1>2 DEF BeginListing
  <2> QED  BY <1>2, <2>1, <2>2 DEF ListStep
<1>3. CASE ApplyRegistry(s)
  <2>1. x.pc = "list" /\ MoreTokens(s) /\ overlap' = overlap  BY <1>3 DEF ApplyRegistry
  <2>2. x = Lists(x.pc, x.dto, x.next, x.out)  BY <2>1, ListingState
  <2>3. y = [x EXCEPT !.pc = "append"]  BY <1>1, <1>3 DEF ApplyRegistry
  <2> HIDE DEF x, y
  <2>4. y = Lists("append", x.dto, x.next, x.out)  BY <2>2, <2>3 DEF Lists
  <2> QED  BY <1>3, <2>1, <2>4 DEF ListStep, x, y
<1>4. CASE AppendEntry(s)
  <2> DEFINE n == x.next + 1  out == x.out \o ALTEntry(config, x.dto, Token(s))
  <2>1. x.pc = "append" /\ config' = config /\ overlap' = overlap  BY <1>4 DEF AppendEntry
  <2>2. x = Lists(x.pc, x.dto, x.next, x.out)  BY <2>1, ListingState
  <2>3. y = [x EXCEPT !.pc = "list", !.next = n, !.out = out]  BY <1>1, <1>4 DEF AppendEntry
  <2> HIDE DEF x, y, n, out
  <2>4. y = Lists("list", x.dto, n, out)
    <3> DEFINE pc == x.pc  d == x.dto  k == x.next  o == x.out
    <3>1. x = [pc |-> pc, dto |-> d, left |-> << >>, next |-> k, out |-> o]  BY <2>2 DEF Lists
    <3> HIDE DEF pc, d, k, o
    <3>2. y = [pc |-> "list", dto |-> d, left |-> << >>, next |-> n, out |-> out]  BY <2>3, <3>1
    <3> QED  BY <3>2 DEF Lists, d
  <2> QED  BY <1>4, <2>1, <2>4 DEF ListStep, x, y, n, out
<1> QED  BY <1>2, <1>3, <1>4

(* Where a call goes.                                                      *)
LEMMA OwnStep ==
  ASSUME SenderTypes, NEW s \in Callers, Step(s)
  PROVE  LET x == call[s]  y == call'[s]
         IN \/ \E d \in Dtos :
                 /\ Begin(s, d)
                 /\ \/ y.pc = "failed"
                    \/ y = [pc |-> "options", dto |-> d, left |-> OptionsOf(d.kind)]
            \/ /\ ApplyOption(s) /\ x.pc = "options" /\ x.left # << >>
               /\ y = [pc |-> x.pc, dto |-> x.dto, left |-> Tail(x.left)]
               /\ overlap' = overlap
            \/ /\ x.pc = "options" /\ x.left = << >> /\ config' = config /\ overlap' = overlap
               /\ y = [pc |-> "read", dto |-> x.dto, left |-> x.left]
            \/ /\ y.pc = "failed" /\ config' = config /\ overlap' = overlap
            \/ ListStep(s) /\ overlap' = overlap
            \/ /\ y.pc = "built" /\ y.dto = x.dto /\ overlap' = overlap /\ config' = config
               /\ \/ Ready(s) /\ (BuildInstruction(s) \/ BuildBatch(s))
                  \/ EndListing(s) /\ x.pc = "list" /\ ~MoreTokens(s) /\ y.out = x.out
<1>1. DOMAIN call = Callers  BY DEF SenderTypes
<1> DEFINE x == call[s]  y == call'[s]
<1>2. ASSUME NEW d \in Dtos, Begin(s, d)
      PROVE  \/ y.pc = "failed"
             \/ y = [pc |-> "options", dto |-> d, left |-> OptionsOf(d.kind)]
  <2>1. y = [pc |-> IF Refused(d) THEN "failed" ELSE "options", dto |-> d, left |-> OptionsOf(d.kind)]
    BY <1>1, <1>2 DEF Begin
  <2>2. CASE Refused(d)  BY <2>1, <2>2
  <2>3. CASE ~Refused(d)  BY <2>1, <2>3
  <2> QED  BY <2>2, <2>3
<1>3. x.pc \in {"options", "read"} => x = [pc |-> x.pc, dto |-> x.dto, left |-> x.left]
  BY ActiveOK DEF Active
<1>4. CASE ApplyOption(s)
  <2>1. x.pc = "options" /\ x.left # << >> /\ overlap' = overlap  BY <1>4 DEF ApplyOption
  <2>2. y = [x EXCEPT !.left = Tail(@)]  BY <1>1, <1>4 DEF ApplyOption
  <2> HIDE DEF x, y
  <2>3. y = [pc |-> x.pc, dto |-> x.dto, left |-> Tail(x.left)]  BY <1>3, <2>1, <2>2
  <2> QED  BY <1>4, <2>1, <2>3 DEF x, y
<1>5. ASSUME NEW answered \in BOOLEAN, QueryTokens(s, answered)
      PROVE  /\ x.pc = "options" /\ x.left = << >> /\ config' = config /\ overlap' = overlap
             /\ \/ y = [pc |-> "read", dto |-> x.dto, left |-> x.left]
                \/ y.pc = "failed"
  <2>1. x.pc = "options" /\ x.left = << >> /\ config' = config /\ overlap' = overlap
    BY <1>5 DEF QueryTokens
  <2>2. \E pc \in {"read", "failed"} : y = [x EXCEPT !.pc = pc]
    BY <1>1, <1>5 DEF QueryTokens
  <2> HIDE DEF x, y
  <2>3. \E pc \in {"read", "failed"} : y = [pc |-> pc, dto |-> x.dto, left |-> x.left]
    BY <1>3, <2>1, <2>2
  <2>4. y = [pc |-> "read", dto |-> x.dto, left |-> x.left] \/ y.pc = "failed"  BY <2>3
  <2> QED  BY <2>1, <2>4 DEF x, y
<1>6. ASSUME NEW out, Built(s, out) PROVE y.pc = "built" /\ y.dto = x.dto /\ y.out = out
  BY <1>1, <1>6 DEF Built
<1>7. CASE BuildInstruction(s)
  <2>1. y.pc = "built" /\ y.dto = x.dto  BY <1>6, <1>7 DEF BuildInstruction
  <2> QED  BY <1>7, <2>1 DEF BuildInstruction
<1>8. CASE BuildBatch(s)
  <2>1. CASE Ed25519Refused(x.dto.signers, x.dto.payload)
    <3>1. y = [x EXCEPT !.pc = "failed"]  BY <1>1, <1>8, <2>1 DEF BuildBatch
    <3>2. x.pc \in {"options", "read"}  BY <1>8 DEF BuildBatch, Ready
    <3> HIDE DEF x, y
    <3>3. y = [pc |-> "failed", dto |-> x.dto, left |-> x.left]  BY <1>3, <3>1, <3>2
    <3>4. y.pc = "failed"  BY <3>3
    <3> QED  BY <1>8, <3>4 DEF BuildBatch, x, y
  <2>2. CASE ~Ed25519Refused(x.dto.signers, x.dto.payload)
    <3>1. y.pc = "built" /\ y.dto = x.dto  BY <1>6, <1>8, <2>2 DEF BuildBatch
    <3> QED  BY <1>8, <3>1 DEF BuildBatch
  <2> QED  BY <2>1, <2>2
<1>9. CASE BeginListing(s) \/ ApplyRegistry(s) \/ AppendEntry(s)  BY <1>9, ListSteps
<1>10. CASE EndListing(s)
  <2>1. y.pc = "built" /\ y.dto = x.dto /\ y.out = x.out  BY <1>6, <1>10 DEF EndListing
  <2> QED  BY <1>10, <2>1 DEF EndListing
<1> QED  BY <1>2, <1>4, <1>5, <1>7, <1>8, <1>9, <1>10 DEF Step

LEMMA SenderTypesNext == SenderTypes /\ [Next]_vars => SenderTypes'
<1> SUFFICES ASSUME SenderTypes, [Next]_vars PROVE SenderTypes'
  OBVIOUS
<1>1. CASE UNCHANGED vars  BY <1>1 DEF vars, SenderTypes
<1>2. ASSUME NEW s \in Callers, Step(s) PROVE SenderTypes'
  <2>1. /\ DOMAIN call' = Callers /\ call' = [t \in Callers |-> call'[t]]
        /\ DOMAIN overlap' = Callers /\ DOMAIN config' = ConfigFields
        /\ \A t \in Callers : t # s => call'[t] = call[t]
    BY <1>2, Effects, ConfigKept
  <2>2. \A t \in Callers : t # s => CallOK(call'[t])  BY <2>1 DEF SenderTypes
  <2> DEFINE x == call[s]  y == call'[s]
  <2>3. ASSUME NEW d \in Dtos, y = [pc |-> "options", dto |-> d, left |-> OptionsOf(d.kind)]
        PROVE  CallOK(y)
    <3>1. OptionsOf(d.kind) \in Seq(ConfigFields)  BY DtosAssumption, OptionFields
    <3>2. Suffix(OptionsOf(d.kind), OptionsOf(d.kind))  BY <3>1, SuffixAll
    <3> HIDE DEF y
    <3> QED  BY <2>3, <3>2 DEF CallOK
  <2>4. x.pc = "options" => /\ x.dto \in Dtos
                            /\ OptionsOf(x.dto.kind) \in Seq(ConfigFields)
                            /\ Suffix(x.left, OptionsOf(x.dto.kind))
    BY ActiveOK DEF Active
  <2>5. ASSUME x.pc = "options", x.left # << >>,
               y = [pc |-> x.pc, dto |-> x.dto, left |-> Tail(x.left)]
        PROVE  CallOK(y)
    <3>1. Suffix(Tail(x.left), OptionsOf(x.dto.kind))  BY <2>4, <2>5, SuffixTail
    <3> HIDE DEF x, y
    <3> QED  BY <2>4, <2>5, <3>1 DEF CallOK
  <2>6. ASSUME x.pc = "options", x.left = << >>,
               y = [pc |-> "read", dto |-> x.dto, left |-> x.left]
        PROVE  CallOK(y)
    <3> HIDE DEF x, y
    <3> QED  BY <2>4, <2>6 DEF CallOK
  <2>9. ListStep(s) => CallOK(y)
    <3> SUFFICES ASSUME ListStep(s) PROVE CallOK(y)
      OBVIOUS
    <3> DEFINE Count(d) == Len(ALTTokens(d))
    <3>1. /\ x.dto \in Dtos /\ x.dto.kind = "alt_addresses" /\ Count(x.dto) \in Nat
      <4>1. x.dto \in Dtos /\ x.dto.kind = "alt_addresses"
        BY ListingState, ReadyOK, ActiveOK DEF ListStep
      <4> QED  BY <4>1, ListedTokens
    <3>2. x.pc \in {"list", "append"} =>
            /\ x.next \in 1..(Count(x.dto) + 1)
            /\ x.pc = "append" => x.next <= Count(x.dto)
      BY ListingState
    <3>3. MoreTokens(s) => x.next <= Count(x.dto)  BY DEF MoreTokens
    <3>4. \E pc \in {"list", "append"}, n \in 1..(Count(x.dto) + 1) : \E out :
            y = Lists(pc, x.dto, n, out) /\ (pc = "append" => n <= Count(x.dto))
      <4>1. CASE y = Lists("list", x.dto, 1, ALTFront(config))
        <5>1. 1 \in 1..(Count(x.dto) + 1)  BY <3>1
        <5> QED  BY <4>1, <5>1
      <4>2. CASE x.pc = "list" /\ MoreTokens(s) /\ y = Lists("append", x.dto, x.next, x.out)
        BY <3>2, <3>3, <4>2
      <4>3. ASSUME NEW out, x.pc = "append", y = Lists("list", x.dto, x.next + 1, out)
            PROVE  \E pc \in {"list", "append"}, n \in 1..(Count(x.dto) + 1) : \E o :
                     y = Lists(pc, x.dto, n, o) /\ (pc = "append" => n <= Count(x.dto))
        <5>1. x.next + 1 \in 1..(Count(x.dto) + 1)  BY <3>1, <3>2, <4>3
        <5> QED  BY <4>3, <5>1
      <4> HIDE DEF x, y, Count
      <4> QED  BY <4>1, <4>2, <4>3 DEF ListStep, x, y
    <3> HIDE DEF x, y
    <3>5. PICK pc \in {"list", "append"}, n \in 1..(Count(x.dto) + 1) : \E out :
            y = Lists(pc, x.dto, n, out) /\ (pc = "append" => n <= Count(x.dto))
      BY <3>4
    <3>6. PICK out : y = Lists(pc, x.dto, n, out)  BY <3>5
    <3>7. y.pc = pc /\ y.dto = x.dto /\ y.next = n /\ y.out = out  BY <3>6 DEF Lists
    <3> QED  BY <3>1, <3>5, <3>6, <3>7 DEF CallOK
  <2>7. y.pc \in {"failed", "built"} => CallOK(y)  BY DEF CallOK
  <2>8. CallOK(y)
    <3> HIDE DEF CallOK
    <3> QED  BY <1>2, <2>3, <2>5, <2>6, <2>7, <2>9, OwnStep
  <2> QED  BY <2>1, <2>2, <2>8 DEF SenderTypes
<1> QED  BY <1>1, <1>2, NextSteps

-----------------------------------------------------------------------------
(* The configuration.                                                      *)

Near(s) == overlap[s] \cup {call[s].dto}

(* Calls that run at the same time know of each other.                     *)
Beside ==
  \A s, t \in Callers : Active(s) /\ Active(t) /\ s # t => call[t].dto \in overlap[s]

(* What a running call has set is still derived for it or for a call that  *)
(* ran beside it.                                                          *)
OwnFields(s) ==
  \A f \in Applied(call[s].left, OptionsOf(call[s].dto.kind)) : FieldOK(f, config[f], Near(s))

Fields == \A s \in Callers : Active(s) => OwnFields(s)

(* An option written by a request among ds spoils none of the fields F.    *)
LEMMA WriteKeeps ==
  ASSUME NEW c, DOMAIN c = ConfigFields, NEW F \in SUBSET ConfigFields, NEW ds,
         \A g \in F : FieldOK(g, c[g], ds),
         NEW f \in ConfigFields, NEW d,
         f = "program" \/ "program" \in F \/ F = {},
         d \in ds \/ f \in {"tokenRegistry", "tokenIDGuard"},
         f \in {"tokenRegistry", "tokenIDGuard"} => \E e \in ds : d.token \in Tokens(e)
  PROVE  /\ \A g \in F : FieldOK(g, Option(c, f, d)[g], ds)
         /\ f = "program" \/ "program" \in F => FieldOK(f, Option(c, f, d)[f], ds)
<1> DEFINE new == Option(c, f, d)
<1>1. new[f] = Derived(f, c["program"], d) /\ \A g \in ConfigFields : g # f => new[g] = c[g]
  BY OptionStores
<1> HIDE DEF new
<1>2. ASSUME "program" \in F PROVE c["program"] \in {e.program : e \in ds}
  BY <1>2 DEF FieldOK
<1>3. ASSUME f = "program" \/ "program" \in F PROVE FieldOK(f, new[f], ds)
  <2>1. FieldOK(f, Derived(f, c["program"], d), ds)  BY <1>2, <1>3, FieldDerived
  <2> QED  BY <1>1, <2>1
<1>4. ASSUME NEW g \in F PROVE FieldOK(g, new[g], ds)
  <2>1. CASE g = f  BY <1>3, <2>1
  <2>2. CASE g # f  BY <1>1, <2>2
  <2> QED  BY <2>1, <2>2
<1> QED  BY <1>3, <1>4 DEF new

(* The options of a listing derive no registry; those of the others derive *)
(* it for the token of the request.                                        *)
LEMMA OwnToken ==
  ASSUME NEW d \in Dtos, NEW f \in ToSet(OptionsOf(d.kind)),
         f \in {"tokenRegistry", "tokenIDGuard"}
  PROVE  d.token \in Tokens(d)
<1>1. CASE d.kind = "alt_addresses"
  <2>1. OptionsOf(d.kind) = ALTAddressesOptions  BY <1>1 DEF OptionsOf, Transfers
  <2>2. ToSet(ALTAddressesOptions) = {"program", "validatorSet", "vault"}
    <3>1. DOMAIN ALTAddressesOptions = {1, 2, 3}  BY DEF ALTAddressesOptions
    <3> QED  BY <3>1 DEF ToSet, ALTAddressesOptions
  <2> QED  BY <2>1, <2>2
<1>2. CASE d.kind # "alt_addresses"  BY <1>2 DEF Tokens
<1> QED  BY <1>1, <1>2

(* The applied fields of a running call.                                   *)
LEMMA AppliedFields ==
  ASSUME SenderTypes, NEW s \in Callers, Active(s)
  PROVE  LET F == Applied(call[s].left, OptionsOf(call[s].dto.kind))
         IN F \in SUBSET ConfigFields /\ ("program" \in F \/ F = {})
<1> DEFINE all == OptionsOf(call[s].dto.kind)
           left == call[s].left
           n == Len(all) - Len(left)
<1>1. all \in Seq(ConfigFields) /\ Suffix(left, all) /\ (all # << >> => all[1] = "program")
  BY ActiveOK
<1> HIDE DEF all, left
<1>2. /\ Len(all) \in Nat /\ Len(left) \in Nat /\ Len(left) <= Len(all)
      /\ \A i \in 1..Len(all) : all[i] \in ConfigFields
  BY <1>1 DEF Suffix
<1>3. n \in Nat /\ n <= Len(all)  BY <1>2
<1>4. \A i \in 1..n : i \in 1..Len(all)  BY <1>2, <1>3
<1>5. Applied(left, all) = {all[i] : i \in 1..n}  BY DEF Applied
<1> HIDE DEF n
<1>6. Applied(left, all) \in SUBSET ConfigFields  BY <1>2, <1>4, <1>5
<1>7. n # 0 => "program" \in Applied(left, all)
  <2> SUFFICES ASSUME n # 0 PROVE "program" \in Applied(left, all)
    OBVIOUS
  <2>1. 1 \in 1..n /\ Len(all) # 0  BY <1>2, <1>3
  <2>2. all # << >>  BY <2>1
  <2> QED  BY <1>1, <1>5, <2>1, <2>2
<1>8. n = 0 => Applied(left, all) = {}  BY <1>5
<1> QED  BY <1>6, <1>7, <1>8 DEF all, left

(* What a step of one goroutine does to what the others know: a new call   *)
(* is known to all that run, and knows them; nothing else changes.         *)
LEMMA OverlapStep ==
  ASSUME SenderTypes, NEW a \in Callers, Step(a)
  PROVE  \/ overlap' = overlap /\ (Active(a)' => Active(a) /\ call'[a].dto = call[a].dto)
         \/ \E d \in Dtos :
              /\ config' = config /\ ~Active(a)
              /\ Active(a)' => call'[a].dto = d /\ call'[a].left = OptionsOf(d.kind)
              /\ call'[a].pc \in {"failed", "options"}
              /\ overlap'[a] = {call[b].dto : b \in {e \in Callers : Active(e)}}
              /\ \A s \in Callers : s # a =>
                   overlap'[s] = IF Active(s) THEN overlap[s] \cup {d} ELSE overlap[s]
<1> DEFINE x == call[a]  y == call'[a]
           Same == Active(a)' => Active(a) /\ y.dto = x.dto
<1>1. Active(a)' <=> y.pc \in {"options", "read", "list", "append"}  BY DEF Active
<1>2. ASSUME NEW d \in Dtos, Begin(a, d),
             \/ y.pc = "failed"
             \/ y = [pc |-> "options", dto |-> d, left |-> OptionsOf(d.kind)]
      PROVE  /\ config' = config /\ ~Active(a)
             /\ Active(a)' => y.dto = d /\ y.left = OptionsOf(d.kind)
             /\ y.pc \in {"failed", "options"}
             /\ overlap'[a] = {call[b].dto : b \in {e \in Callers : Active(e)}}
             /\ \A s \in Callers : s # a =>
                  overlap'[s] = IF Active(s) THEN overlap[s] \cup {d} ELSE overlap[s]
  <2>1. /\ config' = config /\ ~Active(a)
        /\ overlap'[a] = {call[b].dto : b \in {e \in Callers : Active(e)}}
        /\ \A s \in Callers : s # a =>
             overlap'[s] = IF Active(s) THEN overlap[s] \cup {d} ELSE overlap[s]
    BY <1>2 DEF Begin
  <2> HIDE DEF y
  <2>2. Active(a)' => y.dto = d /\ y.left = OptionsOf(d.kind)  BY <1>1, <1>2
  <2>3. y.pc \in {"failed", "options"}  BY <1>2
  <2> QED  BY <2>1, <2>2, <2>3
<1>3. ASSUME NEW left, Active(a), NEW pc, y = [pc |-> pc, dto |-> x.dto, left |-> left] PROVE Same
  <2> HIDE DEF x, y
  <2> QED  BY <1>3
<1>4. y.pc \in {"failed", "built"} => Same  BY <1>1
<1>7. ListStep(a) => Same
  <2> SUFFICES ASSUME ListStep(a) PROVE Active(a) /\ y.dto = x.dto
    OBVIOUS
  <2>1. Active(a)  BY ReadyOK DEF ListStep, Active
  <2>2. \E pc, n, out : y = Lists(pc, x.dto, n, out)  BY DEF ListStep
  <2> HIDE DEF x, y
  <2>3. y.dto = x.dto  BY <2>2 DEF Lists
  <2> QED  BY <2>1, <2>3
<1>5. \/ \E d \in Dtos :
           /\ Begin(a, d)
           /\ \/ y.pc = "failed"
              \/ y = [pc |-> "options", dto |-> d, left |-> OptionsOf(d.kind)]
      \/ overlap' = overlap /\ Active(a) /\ y = [pc |-> x.pc, dto |-> x.dto, left |-> Tail(x.left)]
      \/ overlap' = overlap /\ Active(a) /\ y = [pc |-> "read", dto |-> x.dto, left |-> x.left]
      \/ overlap' = overlap /\ y.pc \in {"failed", "built"}
      \/ overlap' = overlap /\ ListStep(a)
  BY OwnStep DEF Active
<1> HIDE DEF x, y, Same
<1>6. \/ \E d \in Dtos :
           /\ Begin(a, d)
           /\ \/ y.pc = "failed"
              \/ y = [pc |-> "options", dto |-> d, left |-> OptionsOf(d.kind)]
      \/ overlap' = overlap /\ Same
  BY <1>3, <1>4, <1>5, <1>7
<1> QED  BY <1>2, <1>6 DEF x, y, Same

LEMMA BesideNext == SenderTypes /\ Beside /\ [Next]_vars => Beside'
<1> SUFFICES ASSUME SenderTypes, Beside, [Next]_vars,
                    NEW s \in Callers, NEW t \in Callers, Active(s)', Active(t)', s # t
             PROVE  call'[t].dto \in overlap'[s]
  BY DEF Beside
<1>1. CASE UNCHANGED vars  BY <1>1 DEF vars, Beside, Active
<1>2. ASSUME NEW a \in Callers, Step(a) PROVE call'[t].dto \in overlap'[s]
  <2>1. \A u \in Callers : u # a => call'[u] = call[u]  BY <1>2, Effects
  <2>2. ASSUME NEW u \in Callers, u # a, Active(u)' PROVE Active(u) /\ call'[u].dto = call[u].dto
    BY <2>1, <2>2 DEF Active
  <2>3. CASE overlap' = overlap /\ (Active(a)' => Active(a) /\ call'[a].dto = call[a].dto)
    <3>1. Active(s) /\ Active(t) /\ call'[t].dto = call[t].dto  BY <2>2, <2>3
    <3> QED  BY <2>3, <3>1 DEF Beside
  <2>4. ASSUME NEW d \in Dtos,
               Active(a)' => call'[a].dto = d /\ call'[a].left = OptionsOf(d.kind),
               overlap'[a] = {call[b].dto : b \in {e \in Callers : Active(e)}},
               \A u \in Callers : u # a =>
                 overlap'[u] = IF Active(u) THEN overlap[u] \cup {d} ELSE overlap[u]
        PROVE  call'[t].dto \in overlap'[s]
    <3>1. CASE s = a
      <4>1. Active(t) /\ call'[t].dto = call[t].dto  BY <2>2, <3>1
      <4> QED  BY <2>4, <3>1, <4>1
    <3>2. CASE s # a /\ t = a
      <4>1. Active(s) /\ call'[t].dto = d  BY <2>2, <2>4, <3>2
      <4> QED  BY <2>4, <3>2, <4>1
    <3>3. CASE s # a /\ t # a
      <4>1. Active(s) /\ Active(t) /\ call'[t].dto = call[t].dto  BY <2>2, <3>3
      <4>2. call[t].dto \in overlap[s]  BY <4>1 DEF Beside
      <4> QED  BY <2>4, <3>3, <4>1, <4>2
    <3> QED  BY <3>1, <3>2, <3>3
  <2> QED  BY <1>2, <2>3, <2>4, OverlapStep
<1> QED  BY <1>1, <1>2, NextSteps

(* The token that a listing is at.                                         *)
LEMMA NextToken ==
  ASSUME SenderTypes, NEW s \in Callers, call[s].pc \in {"list", "append"},
         call[s].pc = "list" => MoreTokens(s)
  PROVE  LET d == call[s].dto  n == call[s].next
         IN /\ n \in 1..Len(ALTTokens(d)) /\ Token(s) = ALTTokens(d)[n]
            /\ Token(s) \in Listable(d) /\ Token(s) \in Tokens(d)
<1> DEFINE d == call[s].dto  n == call[s].next  q == ALTTokens(d)
<1>1. /\ d \in Dtos /\ d.kind = "alt_addresses" /\ n \in 1..(Len(q) + 1)
      /\ call[s].pc = "append" => n <= Len(q)
  BY ListingState
<1>2. q \in Seq(Listable(d)) /\ Len(q) \in Nat  BY <1>1, ListedTokens
<1>3. n \in 1..Len(q)  BY <1>1, <1>2 DEF MoreTokens
<1>4. Token(s) = q[n]  BY DEF Token
<1>5. q[n] \in Listable(d)
  <2> HIDE DEF q, n, d
  <2> QED  BY <1>2, <1>3
<1>6. Tokens(d) = DOMAIN d.mints  BY <1>1 DEF Tokens
<1> QED  BY <1>3, <1>4, <1>5, <1>6 DEF Listable

(* A step of one goroutine spoils no field that another one has set.       *)
LEMMA FieldsBeside ==
  ASSUME SenderTypes, Beside, NEW a \in Callers, Step(a), config' # config,
         NEW ds, NEW F \in SUBSET ConfigFields, "program" \in F \/ F = {},
         \A g \in F : FieldOK(g, config[g], ds), call[a].dto \in ds
  PROVE  \A g \in F : FieldOK(g, config'[g], ds)
<1> DEFINE d == call[a].dto
<1>1. DOMAIN config = ConfigFields  BY DEF SenderTypes
<1>2. CASE ApplyOption(a)
  <2> DEFINE all == OptionsOf(d.kind)  left == call[a].left  f == Head(left)
  <2>1. Active(a) /\ left # << >> /\ config' = Option(config, f, d)
    BY <1>2 DEF ApplyOption, Active
  <2>2. d \in Dtos /\ all \in Seq(ConfigFields) /\ Suffix(left, all)  BY <2>1, ActiveOK
  <2>3. f \in ConfigFields /\ f \in ToSet(all)  BY <2>1, <2>2, SuffixTail
  <2>4. f \in {"tokenRegistry", "tokenIDGuard"} => d.token \in Tokens(d)  BY <2>2, <2>3, OwnToken
  <2> HIDE DEF f
  <2> QED  BY <1>1, <2>1, <2>3, <2>4, WriteKeeps
<1>3. CASE ApplyRegistry(a)
  <2> DEFINE t == Token(a)  e == [token |-> t]
  <2>1. call[a].pc = "list" /\ MoreTokens(a) /\ config' = Option(config, "tokenRegistry", e)
    BY <1>3 DEF ApplyRegistry, WithTokenRegistry
  <2>2. t \in Tokens(d)  BY <2>1, NextToken
  <2>3. "tokenRegistry" \in ConfigFields /\ e.token = t  BY DEF ConfigFields
  <2> HIDE DEF e, t
  <2> QED  BY <1>1, <2>1, <2>2, <2>3, WriteKeeps
<1> QED  BY <1>2, <1>3, Writers

LEMMA FieldsNext == SenderTypes /\ Beside /\ Fields /\ [Next]_vars => Fields'
<1> SUFFICES ASSUME SenderTypes, Beside, Fields, [Next]_vars, NEW s \in Callers, Active(s)',
                    NEW f \in Applied(call'[s].left, OptionsOf(call'[s].dto.kind))
             PROVE  FieldOK(f, config'[f], overlap'[s] \cup {call'[s].dto})
  BY DEF Fields, OwnFields, Near
<1>1. CASE UNCHANGED vars  BY <1>1 DEF vars, Fields, OwnFields, Near, Active
<1>2. ASSUME NEW a \in Callers, Step(a)
      PROVE  FieldOK(f, config'[f], overlap'[s] \cup {call'[s].dto})
  <2> DEFINE x == call[s]
             all == OptionsOf(x.dto.kind)
             F == Applied(x.left, all)
             ds == Near(s)
  <2>1. CASE a # s
    <3>1. call'[s] = call[s]  BY <1>2, <2>1, Effects
    <3>2. Active(s)  BY <3>1 DEF Active
    <3>3. f \in F /\ F \in SUBSET ConfigFields /\ ("program" \in F \/ F = {})
      BY <3>1, <3>2, AppliedFields
    <3>4. \A g \in F : FieldOK(g, config[g], ds)  BY <3>2 DEF Fields, OwnFields
    <3>5. FieldOK(f, config'[f], ds)
      <4>1. CASE config' = config  BY <3>3, <3>4, <4>1
      <4>2. CASE config' # config
        <5>1. Active(a)
          <6>1. ApplyOption(a) \/ ApplyRegistry(a)  BY <1>2, <4>2, Writers
          <6> QED  BY <6>1 DEF ApplyOption, ApplyRegistry, Active
        <5>2. call[a].dto \in ds  BY <2>1, <3>2, <5>1 DEF Beside, Near
        <5> HIDE DEF F, ds
        <5>3. \A g \in F : FieldOK(g, config'[g], ds)
          BY <1>2, <3>3, <3>4, <4>2, <5>2, FieldsBeside
        <5> QED  BY <3>3, <5>3
      <4> QED  BY <4>1, <4>2
    <3>6. overlap[s] \subseteq overlap'[s]
      <4>1. CASE overlap' = overlap  BY <4>1
      <4>2. ASSUME NEW d \in Dtos,
                   \A u \in Callers : u # a =>
                     overlap'[u] = IF Active(u) THEN overlap[u] \cup {d} ELSE overlap[u]
            PROVE  overlap[s] \subseteq overlap'[s]
        BY <2>1, <3>2, <4>2
      <4> QED  BY <1>2, <4>1, <4>2, OverlapStep
    <3>7. ds \subseteq overlap'[s] \cup {call'[s].dto}  BY <3>1, <3>6 DEF Near
    <3> HIDE DEF ds
    <3> QED  BY <3>5, <3>7, FieldGrows
  <2>2. CASE a = s
    <3> DEFINE y == call'[s]
    <3>1. CASE ApplyOption(s)
      <4> DEFINE h == Head(x.left)
      <4>1. /\ Active(s) /\ x.left # << >> /\ config' = Option(config, h, x.dto)
            /\ overlap' = overlap
        BY <3>1 DEF ApplyOption, Active
      <4>2. /\ x = [pc |-> x.pc, dto |-> x.dto, left |-> x.left]
            /\ x.dto \in Dtos /\ all \in Seq(ConfigFields) /\ Suffix(x.left, all)
            /\ all # << >> => all[1] = "program"
        BY <3>1, <4>1, ActiveOK DEF ApplyOption
      <4>3. y = [x EXCEPT !.left = Tail(@)]  BY <3>1 DEF ApplyOption, SenderTypes
      <4>4. y.dto = x.dto /\ y.left = Tail(x.left)
        <5> HIDE DEF x, y
        <5>1. y = [pc |-> x.pc, dto |-> x.dto, left |-> Tail(x.left)]  BY <4>2, <4>3
        <5> QED  BY <5>1
      <4>5. /\ h \in ConfigFields /\ h \in ToSet(all)
            /\ Applied(Tail(x.left), all) = F \cup {h}
            /\ h = all[1] \/ all[1] \in F
        BY <4>1, <4>2, SuffixTail
      <4>6. all[1] = "program"
        <5>1. DOMAIN all # {}  BY <4>5 DEF ToSet
        <5>2. all # << >>  BY <5>1
        <5> QED  BY <4>2, <5>2
      <4>7. F \in SUBSET ConfigFields /\ ("program" \in F \/ F = {})  BY <4>1, AppliedFields
      <4>8. \A g \in F : FieldOK(g, config[g], ds)  BY <4>1 DEF Fields, OwnFields
      <4>9. h \in {"tokenRegistry", "tokenIDGuard"} => x.dto.token \in Tokens(x.dto)
        BY <4>2, <4>5, OwnToken
      <4>10. x.dto \in ds /\ DOMAIN config = ConfigFields  BY DEF Near, SenderTypes
      <4>11. ds = overlap'[s] \cup {y.dto}  BY <4>1, <4>4 DEF Near
      <4>12. f \in F \cup {h}  BY <4>4, <4>5
      <4> HIDE DEF F, ds, h, x, y, all
      <4>13. /\ \A g \in F : FieldOK(g, Option(config, h, x.dto)[g], ds)
             /\ h = "program" \/ "program" \in F => FieldOK(h, Option(config, h, x.dto)[h], ds)
        BY <4>5, <4>7, <4>8, <4>9, <4>10, WriteKeeps
      <4>14. FieldOK(f, config'[f], ds)  BY <4>1, <4>5, <4>6, <4>12, <4>13
      <4> QED  BY <4>11, <4>14 DEF y
    <3>2. ASSUME NEW d \in Dtos, y = [pc |-> "options", dto |-> d, left |-> OptionsOf(d.kind)]
          PROVE  FALSE
      <4> HIDE DEF y
      <4>1. y.left = OptionsOf(d.kind) /\ y.dto = d  BY <3>2
      <4>2. OptionsOf(d.kind) \in Seq(ConfigFields)  BY DtosAssumption, OptionFields
      <4>3. Applied(OptionsOf(d.kind), OptionsOf(d.kind)) = {}  BY <4>2, SuffixAll
      <4> QED  BY <4>1, <4>3 DEF y
    <3>3. CASE /\ x.pc = "options" /\ x.left = << >> /\ config' = config /\ overlap' = overlap
               /\ y = [pc |-> "read", dto |-> x.dto, left |-> x.left]
      <4> HIDE DEF y
      <4>1. y.dto = x.dto /\ y.left = x.left  BY <3>3
      <4>2. f \in F  BY <4>1 DEF y
      <4>4. Active(s)  BY <3>3 DEF Active
      <4>3. FieldOK(f, config[f], ds)  BY <4>2, <4>4 DEF Fields, OwnFields
      <4> QED  BY <3>3, <4>1, <4>3 DEF y, Near
    <3>5. CASE ListStep(s) /\ overlap' = overlap
      <4>1. Active(s) /\ x.left = << >>
        BY <3>5, ReadyOK, ActiveOK DEF ListStep, Active
      <4>2. \E pc, n, out : y = Lists(pc, x.dto, n, out)  BY <3>5 DEF ListStep
      <4> HIDE DEF x, y
      <4>3. y.dto = x.dto /\ y.left = << >>  BY <4>2 DEF Lists
      <4>4. f \in F  BY <4>1, <4>3 DEF y
      <4>5. F \in SUBSET ConfigFields /\ ("program" \in F \/ F = {})  BY <4>1, AppliedFields DEF x
      <4>6. \A g \in F : FieldOK(g, config[g], ds)  BY <4>1 DEF Fields, OwnFields, x
      <4>7. call[s].dto \in ds /\ ds = overlap'[s] \cup {y.dto}  BY <3>5, <4>3 DEF Near, x
      <4> HIDE DEF F, ds
      <4>8. FieldOK(f, config'[f], ds)
        <5>1. CASE config' = config  BY <4>4, <4>6, <5>1
        <5>2. CASE config' # config
          <6>1. \A g \in F : FieldOK(g, config'[g], ds)
            BY <1>2, <2>2, <4>5, <4>6, <4>7, <5>2, FieldsBeside
          <6> QED  BY <4>4, <6>1
        <5> QED  BY <5>1, <5>2
      <4> QED  BY <4>7, <4>8 DEF y
    <3>4. y.pc # "failed" /\ y.pc # "built"  BY DEF Active
    <3> HIDE DEF x, y
    <3> QED  BY <1>2, <2>2, <3>1, <3>2, <3>3, <3>4, <3>5, OwnStep DEF x, y
  <2> QED  BY <2>1, <2>2
<1> QED  BY <1>1, <1>2, NextSteps

-----------------------------------------------------------------------------
(* Listings.                                                               *)

(* Three keys per token.                                                   *)
Listed(r, t, d) ==
  CASE r = 1 -> d.mints[t]
    [] r = 2 -> TokenPda("tokenRegistry", t, d.program)
    [] r = 3 -> Ata(Pda("vault", d.program), d.mints[t])

(* The six keys of every batch.                                            *)
FrontKeys(d) ==
  <<Pda("validatorSet", d.program), Pda("vault", d.program), WellKnown("token"),
    WellKnown("system"), WellKnown("ata_program"), WellKnown("instructions_sysvar")>>

(* What a call on its own has listed after n tokens.                       *)
Written(d, n) ==
  [i \in 1..(6 + 3 * n) |->
     IF i <= 6 THEN FrontKeys(d)[i]
     ELSE Listed(((i - 7) % 3) + 1, ALTTokens(d)[((i - 7) \div 3) + 1], d)]

LEMMA EntryPlace ==
  ASSUME NEW n \in Nat, NEW i \in 7..(6 + 3 * n)
  PROVE  LET j == ((i - 7) \div 3) + 1
             r == ((i - 7) % 3) + 1
         IN j \in 1..n /\ r \in 1..3 /\ i = 6 + 3 * (j - 1) + r
OBVIOUS

LEMMA PlaceEntry ==
  ASSUME NEW n \in Nat, NEW j \in 1..n, NEW r \in 1..3, NEW i, i = 6 + 3 * (j - 1) + r
  PROVE  i \in 7..(6 + 3 * n) /\ ((i - 7) \div 3) + 1 = j /\ ((i - 7) % 3) + 1 = r
OBVIOUS

LEMMA WrittenFirst ==
  ASSUME NEW d
  PROVE  Written(d, 0) = FrontKeys(d)
<1> DEFINE f == FrontKeys(d)
           w == Written(d, 0)
<1>1. f = [i \in 1..6 |-> f[i]]  BY DEF FrontKeys
<1> HIDE DEF f
<1>2. w = [i \in 1..6 |-> IF i <= 6 THEN f[i]
                          ELSE Listed(((i - 7) % 3) + 1, ALTTokens(d)[((i - 7) \div 3) + 1], d)]
  BY DEF Written, f
<1>3. \A i \in 1..6 : w[i] = f[i] /\ i <= 6  BY <1>2
<1>4. w = [i \in 1..6 |-> w[i]]  BY <1>2
<1> HIDE DEF w
<1>5. w = f  BY <1>1, <1>3, <1>4
<1> QED  BY <1>5 DEF w, f

LEMMA WrittenNext ==
  ASSUME NEW d, NEW n \in Nat \ {0},
         NEW t, t = ALTTokens(d)[n]
  PROVE  Written(d, n - 1) \o <<Listed(1, t, d), Listed(2, t, d), Listed(3, t, d)>> = Written(d, n)
<1> DEFINE v == Written(d, n - 1)
           w == Written(d, n)
           e == <<Listed(1, t, d), Listed(2, t, d), Listed(3, t, d)>>
           m == 6 + 3 * (n - 1)
           K == ToSet(v) \cup ToSet(e)
           G(i) == IF i <= 6 THEN FrontKeys(d)[i]
                   ELSE Listed(((i - 7) % 3) + 1, ALTTokens(d)[((i - 7) \div 3) + 1], d)
<1>1. m \in Nat /\ m + 3 = 6 + 3 * n  OBVIOUS
<1>2. v = [i \in 1..m |-> G(i)] /\ w = [i \in 1..(m + 3) |-> G(i)]  BY <1>1 DEF Written
<1>3. \A r \in 1..3 : G(m + r) = Listed(r, t, d)
  <2> SUFFICES ASSUME NEW r \in 1..3 PROVE G(m + r) = Listed(r, t, d)
    OBVIOUS
  <2>1. n \in 1..n /\ n \in Nat  OBVIOUS
  <2>2. ((m + r - 7) \div 3) + 1 = n /\ ((m + r - 7) % 3) + 1 = r  BY <2>1, PlaceEntry
  <2>3. ~(m + r <= 6)  BY <1>1
  <2> QED  BY <2>2, <2>3
<1> HIDE DEF G
<1>4. v \in Seq(ToSet(v)) /\ Len(v) = m /\ \A i \in 1..m : v[i] = G(i)
  <2>1. DOMAIN v = 1..m /\ v = [i \in 1..m |-> v[i]] /\ \A i \in 1..m : v[i] = G(i)
    <3> HIDE DEF m, v
    <3> QED  BY <1>2
  <2> HIDE DEF v, m
  <2> QED  BY <1>1, <2>1, ListOf
<1>5. e \in Seq(ToSet(e)) /\ Len(e) = 3 /\ \A r \in 1..3 : e[r] = Listed(r, t, d)
  <2> DEFINE a == Listed(1, t, d)  b == Listed(2, t, d)  c == Listed(3, t, d)
  <2>1. e = <<a, b, c>>  OBVIOUS
  <2> HIDE DEF a, b, c
  <2>2. DOMAIN e = 1..3 /\ e[1] = a /\ e[2] = b /\ e[3] = c /\ e = [i \in 1..3 |-> e[i]]
    BY <2>1
  <2> HIDE DEF e
  <2>3. e \in Seq(ToSet(e)) /\ Len(e) = 3  BY <2>2, ListOf
  <2>4. \A r \in 1..3 : r = 1 \/ r = 2 \/ r = 3  OBVIOUS
  <2> QED  BY <2>2, <2>3, <2>4 DEF a, b, c
<1> HIDE DEF e
<1>6. v \in Seq(K) /\ e \in Seq(K)
  <2>1. ToSet(v) \in SUBSET K /\ ToSet(e) \in SUBSET K  OBVIOUS
  <2> HIDE DEF K, v
  <2> QED  BY <1>4, <1>5, <2>1
<1> DEFINE u == v \o e
<1> HIDE DEF v, m, K
<1>7. /\ u \in Seq(K) /\ Len(u) = m + 3
      /\ \A i \in 1..m : u[i] = v[i]
      /\ \A r \in 1..3 : u[m + r] = e[r]
  <2> DEFINE lv == Len(v)  le == Len(e)
  <2>1. /\ u \in Seq(K) /\ Len(u) = lv + le
        /\ \A i \in 1..lv : u[i] = v[i]
        /\ \A i \in 1..le : u[lv + i] = e[i]
    BY <1>6, ConcatAt
  <2>2. lv = m /\ le = 3  BY <1>4, <1>5
  <2> HIDE DEF lv, le, u
  <2> QED  BY <2>1, <2>2
<1> HIDE DEF u
<1>8. u = [i \in 1..(m + 3) |-> u[i]]  BY <1>1, <1>7
<1>9. \A i \in 1..(m + 3) : u[i] = G(i)
  <2> SUFFICES ASSUME NEW i \in 1..(m + 3) PROVE u[i] = G(i)
    OBVIOUS
  <2>1. CASE i \in 1..m  BY <1>4, <1>7, <2>1
  <2>2. CASE i \notin 1..m
    <3> DEFINE r == i - m
    <3>1. r \in 1..3 /\ m + r = i  BY <1>1, <2>2
    <3> HIDE DEF r
    <3>2. u[m + r] = e[r] /\ e[r] = Listed(r, t, d) /\ G(m + r) = Listed(r, t, d)
      BY <1>3, <1>5, <1>7, <3>1
    <3> QED  BY <3>1, <3>2
  <2> QED  BY <2>1, <2>2
<1>10. u = [i \in 1..(m + 3) |-> G(i)]  BY <1>8, <1>9
<1>11. u = w  BY <1>2, <1>10
<1> QED  BY <1>11 DEF u, v, e, w

(* What a listing that runs on its own finds.                              *)
LEMMA OwnKeys ==
  ASSUME SenderTypes, Fields, NEW s \in Callers, Active(s), call[s].left = << >>,
         call[s].dto.kind = "alt_addresses", overlap[s] = {}
  PROVE  LET d == call[s].dto
         IN /\ config["program"] = d.program
            /\ config["validatorSet"] = Pda("validatorSet", d.program)
            /\ config["vault"] = Pda("vault", d.program)
<1> DEFINE d == call[s].dto
<1>1. OptionsOf(d.kind) = ALTAddressesOptions  BY DEF OptionsOf, Transfers
<1>2. ALTAddressesOptions \in Seq(ConfigFields)  BY <1>1, ActiveOK
<1>3. {"program", "validatorSet", "vault"} \subseteq ToSet(ALTAddressesOptions)
  BY DEF ToSet, ALTAddressesOptions
<1>4. \A f \in ToSet(ALTAddressesOptions) : FieldOK(f, config[f], {d})
  <2>1. Applied(<< >>, ALTAddressesOptions) = ToSet(ALTAddressesOptions)  BY <1>2, SuffixNone
  <2>2. Near(s) = {d}  BY DEF Near
  <2>3. OwnFields(s)  BY DEF Fields
  <2> QED  BY <1>1, <2>1, <2>2, <2>3 DEF OwnFields
<1> HIDE DEF d
<1> DEFINE P == {e.program : e \in {d}}
<1>5. config["program"] \in P
  <2>1. FieldOK("program", config["program"], {d})  BY <1>3, <1>4
  <2> QED  BY <2>1 DEF FieldOK
<1>6. \E p \in P : config["validatorSet"] = Pda("validatorSet", p)
  <2>1. FieldOK("validatorSet", config["validatorSet"], {d})  BY <1>3, <1>4
  <2> QED  BY <2>1 DEF FieldOK
<1>7. \E p \in P : config["vault"] = Pda("vault", p)
  <2>1. FieldOK("vault", config["vault"], {d})  BY <1>3, <1>4
  <2> QED  BY <2>1 DEF FieldOK
<1> QED  BY <1>5, <1>6, <1>7 DEF d

(* A listing that no other call runs beside has listed the keys of its own *)
(* tokens, and its registry field holds that of the token it is at.        *)
ListingOK(s) ==
  LET x == call[s]  d == x.dto
  IN (d.kind = "alt_addresses" /\ overlap[s] = {}) =>
       /\ x.pc \in {"list", "append"} => x.out = Written(d, x.next - 1)
       /\ x.pc = "append" =>
            config["tokenRegistry"] = TokenPda("tokenRegistry", Token(s), d.program)
       /\ x.pc = "built" => x.out = Written(d, Len(ALTTokens(d)))

Listings == \A s \in Callers : ListingOK(s)

(* Nobody writes beside a call that runs on its own.                       *)
LEMMA NobodyWrites ==
  ASSUME SenderTypes, Beside, NEW s \in Callers, Active(s), NEW a \in Callers, a # s, Step(a),
         overlap'[s] = {}
  PROVE  overlap[s] = {} /\ config' = config
<1>1. overlap[s] = {}  BY OverlapStep
<1>2. config' = config
  <2> SUFFICES ASSUME config' # config PROVE FALSE
    OBVIOUS
  <2>1. ApplyOption(a) \/ ApplyRegistry(a)  BY Writers
  <2>2. Active(a)  BY <2>1 DEF ApplyOption, ApplyRegistry, Active
  <2> QED  BY <1>1, <2>2 DEF Beside
<1> QED  BY <1>1, <1>2

(* A step of the listing itself.                                           *)
LEMMA ListingStep ==
  ASSUME SenderTypes, Fields, Listings, NEW s \in Callers, ListStep(s), overlap' = overlap
  PROVE  ListingOK(s)'
<1> DEFINE x == call[s]  y == call'[s]  d == x.dto
<1>1. /\ Active(s) /\ x.left = << >> /\ d.kind = "alt_addresses" /\ d \in Dtos
  BY ReadyOK, ActiveOK, ListingState DEF ListStep, Active
<1> SUFFICES ASSUME overlap[s] = {}
             PROVE  /\ y.pc \in {"list", "append"} => y.out = Written(y.dto, y.next - 1)
                    /\ y.pc = "append" =>
                         config'["tokenRegistry"] = TokenPda("tokenRegistry", Token(s)', y.dto.program)
                    /\ y.pc # "built"
  BY DEF ListingOK
<1>2. /\ config["program"] = d.program
      /\ config["validatorSet"] = Pda("validatorSet", d.program)
      /\ config["vault"] = Pda("vault", d.program)
  BY <1>1, OwnKeys
<1>3. ASSUME NEW pc, NEW n, NEW out, y = Lists(pc, d, n, out)
      PROVE  y.pc = pc /\ y.dto = d /\ y.next = n /\ y.out = out
  BY <1>3 DEF Lists
<1>4. x.pc \in {"list", "append"} => /\ x.out = Written(d, x.next - 1)
                                     /\ x.next \in 1..(Len(ALTTokens(d)) + 1)
  BY <1>1, ListingState DEF Listings, ListingOK
<1>5. CASE y = Lists("list", d, 1, ALTFront(config))
  <2>1. ALTFront(config) = FrontKeys(d)  BY <1>2 DEF ALTFront, FrontKeys
  <2>2. y.pc = "list" /\ y.dto = d /\ y.next = 1 /\ y.out = ALTFront(config)  BY <1>3, <1>5
  <2>3. y.next - 1 = 0  BY <2>2
  <2> QED  BY <2>1, <2>2, <2>3, WrittenFirst
<1>6. CASE ApplyRegistry(s) /\ x.pc = "list" /\ y = Lists("append", d, x.next, x.out)
  <2>1. y.pc = "append" /\ y.dto = d /\ y.next = x.next /\ y.out = x.out  BY <1>3, <1>6
  <2>2. Token(s)' = Token(s)  BY <2>1 DEF Token
  <2>3. config'["tokenRegistry"] = TokenPda("tokenRegistry", Token(s), d.program)
    <3> DEFINE e == [token |-> Token(s)]
    <3>1. config' = Option(config, "tokenRegistry", e)  BY <1>6 DEF ApplyRegistry, WithTokenRegistry
    <3>2. e.token = Token(s)  OBVIOUS
    <3>3. "tokenRegistry" \in ConfigFields /\ DOMAIN config = ConfigFields
      BY DEF ConfigFields, SenderTypes
    <3> HIDE DEF e
    <3>4. config'["tokenRegistry"] = Derived("tokenRegistry", config["program"], e)
      BY <3>1, <3>3, OptionStores
    <3> QED  BY <1>2, <3>2, <3>4, DerivedKeys
  <2> QED  BY <1>4, <1>6, <2>1, <2>2, <2>3
<1>7. CASE /\ x.pc = "append"
           /\ y = Lists("list", d, x.next + 1, x.out \o ALTEntry(config, d, Token(s)))
  <2> DEFINE t == Token(s)  n == x.next  out == x.out \o ALTEntry(config, d, t)
  <2>1. y.pc = "list" /\ y.dto = d /\ y.next = n + 1 /\ y.out = out
    <3>1. y = Lists("list", d, n + 1, out)  BY <1>7
    <3> HIDE DEF t, n, out, x, y, d
    <3> QED  BY <1>3, <3>1
  <2>2. n \in 1..Len(ALTTokens(d)) /\ t = ALTTokens(d)[n]  BY <1>7, NextToken
  <2>3. Len(ALTTokens(d)) \in Nat  BY <1>1, ListedTokens
  <2>4. n \in Nat \ {0} /\ y.next - 1 = n  BY <2>1, <2>2, <2>3
  <2>5. config["tokenRegistry"] = TokenPda("tokenRegistry", t, d.program)
    BY <1>1, <1>7 DEF Listings, ListingOK
  <2>6. ALTEntry(config, d, t) = <<Listed(1, t, d), Listed(2, t, d), Listed(3, t, d)>>
    BY <1>2, <2>5 DEF ALTEntry, Listed
  <2>7. x.out = Written(d, n - 1)  BY <1>4, <1>7
  <2> HIDE DEF t, n, x, y, d
  <2>8. out = Written(d, n)  BY <2>2, <2>4, <2>6, <2>7, WrittenNext
  <2> QED  BY <2>1, <2>4, <2>8
<1> QED  BY <1>5, <1>6, <1>7 DEF ListStep

LEMMA ListingsNext ==
  SenderTypes /\ Beside /\ Fields /\ Listings /\ [Next]_vars => Listings'
<1> SUFFICES ASSUME SenderTypes, Beside, Fields, Listings, [Next]_vars, NEW s \in Callers
             PROVE  ListingOK(s)'
  BY DEF Listings
<1>1. CASE UNCHANGED vars  BY <1>1 DEF vars, Listings, ListingOK, Token
<1>2. ASSUME NEW a \in Callers, Step(a) PROVE ListingOK(s)'
  <2> DEFINE x == call[s]  y == call'[s]
  <2>1. CASE a # s
    <3>1. call'[s] = call[s] /\ Token(s)' = Token(s)  BY <1>2, <2>1, Effects DEF Token
    <3>2. CASE Active(s)
      <4>1. x.pc # "built"  BY <3>2 DEF Active
      <4>2. overlap'[s] = {} => overlap[s] = {} /\ config' = config
        BY <1>2, <2>1, <3>2, NobodyWrites
      <4> QED  BY <3>1, <4>1, <4>2 DEF Listings, ListingOK
    <3>3. CASE ~Active(s)
      <4>1. overlap'[s] = overlap[s]  BY <1>2, <2>1, <3>3, OverlapStep
      <4>2. x.pc \notin {"list", "append"}  BY <3>3 DEF Active
      <4> QED  BY <3>1, <4>1, <4>2 DEF Listings, ListingOK
    <3> QED  BY <3>2, <3>3
  <2>2. CASE a = s
    <3>1. y.pc \notin {"list", "append", "built"} => ListingOK(s)'  BY DEF ListingOK
    <3>2. ASSUME NEW d \in Dtos, y = [pc |-> "options", dto |-> d, left |-> OptionsOf(d.kind)]
          PROVE  y.pc = "options"
      BY <3>2
    <3>3. ASSUME NEW left, NEW pc, y = [pc |-> pc, dto |-> x.dto, left |-> left] PROVE y.pc = pc
      BY <3>3
    <3>4. CASE ListStep(s) /\ overlap' = overlap  BY <3>4, ListingStep
    <3>5. CASE y.pc = "built" /\ y.dto = x.dto /\ (BuildInstruction(s) \/ BuildBatch(s))
      BY <3>5 DEF BuildInstruction, BuildBatch, ListingOK
    <3>6. CASE /\ y.pc = "built" /\ y.dto = x.dto /\ overlap' = overlap
               /\ x.pc = "list" /\ ~MoreTokens(s) /\ y.out = x.out
      <4> DEFINE q == ALTTokens(x.dto)
      <4>1. x.next \in 1..(Len(q) + 1) /\ x.dto \in Dtos /\ x.dto.kind = "alt_addresses"
        BY <3>6, ListingState
      <4>2. Len(q) \in Nat  BY <4>1, ListedTokens
      <4>3. x.next - 1 = Len(q)  BY <3>6, <4>1, <4>2 DEF MoreTokens
      <4>4. overlap[s] = {} => x.out = Written(x.dto, x.next - 1)
        BY <3>6, <4>1 DEF Listings, ListingOK
      <4> HIDE DEF q
      <4>5. overlap[s] = {} => y.out = Written(y.dto, Len(q))  BY <3>6, <4>3, <4>4
      <4> QED  BY <3>6, <4>5 DEF ListingOK, q
    <3> HIDE DEF x, y
    <3> QED
      BY <1>2, <2>2, <3>1, <3>2, <3>3, <3>4, <3>5, <3>6, OwnStep DEF x, y
  <2> QED  BY <2>1, <2>2
<1> QED  BY <1>1, <1>2, NextSteps

-----------------------------------------------------------------------------
(* What was built.                                                         *)

MadeOf(c, d, out) ==
  \/ /\ d.kind = "bridge_transaction" /\ ~Ed25519Refused(d.signers, d.payload)
     /\ \E order \in IterationOrders(d.signers) :
          out = CreateTx(d.kind, BridgeTransaction(c, d, order), d.tables)
  \/ /\ d.kind \notin {"bridge_transaction", "alt_addresses"}
     /\ out = CreateTx(d.kind, <<Instruction(c, d)>>, d.tables)

(* It was made of a configuration that held, in every field the builder    *)
(* reads, a key derived for it or for a call beside it.                    *)
BuiltOK(x, near) ==
  x.pc = "built" =>
    /\ x.dto \in Dtos
    /\ x.dto.kind # "alt_addresses" =>
         \E c : /\ \A f \in ToSet(OptionsOf(x.dto.kind)) : FieldOK(f, c[f], near)
               /\ MadeOf(c, x.dto, x.out)

BuiltAll == \A s \in Callers : BuiltOK(call[s], Near(s))

SenderInv == SenderTypes /\ Beside /\ Fields /\ Listings /\ BuiltAll

LEMMA BuiltNext == SenderInv /\ [Next]_vars => BuiltAll'
<1> SUFFICES ASSUME SenderInv, [Next]_vars, NEW s \in Callers, call'[s].pc = "built"
             PROVE  BuiltOK(call'[s], overlap'[s] \cup {call'[s].dto})
  BY DEF BuiltAll, BuiltOK, Near
<1>0. SenderTypes /\ Beside /\ Fields /\ BuiltAll  BY DEF SenderInv
<1>1. CASE UNCHANGED vars  BY <1>0, <1>1 DEF vars, BuiltAll, Near
<1>2. ASSUME NEW a \in Callers, Step(a)
      PROVE  BuiltOK(call'[s], overlap'[s] \cup {call'[s].dto})
  <2>1. CASE a # s
    <3>1. call'[s] = call[s]  BY <1>0, <1>2, <2>1, Effects
    <3>2. ~Active(s)  BY <3>1 DEF Active
    <3>3. overlap'[s] = overlap[s]  BY <1>0, <1>2, <2>1, <3>2, OverlapStep
    <3> QED  BY <1>0, <3>1, <3>3 DEF BuiltAll, Near
  <2>2. CASE a = s
    <3> DEFINE x == call[s]  y == call'[s]  d == x.dto
    <3>1. DOMAIN call = Callers  BY <1>0 DEF SenderTypes
    <3>2. /\ y.dto = x.dto /\ overlap' = overlap
          /\ \/ Ready(s) /\ (BuildInstruction(s) \/ BuildBatch(s))
             \/ EndListing(s) /\ x.pc = "list"
      <4>1. ASSUME NEW e \in Dtos, y = [pc |-> "options", dto |-> e, left |-> OptionsOf(e.kind)]
            PROVE  FALSE
        <5>1. y.pc = "options"  BY <4>1
        <5> QED  BY <5>1
      <4>2. ASSUME NEW left, y = [pc |-> "read", dto |-> x.dto, left |-> left] PROVE FALSE
        <5>1. y.pc = "read"  BY <4>2
        <5> QED  BY <5>1
      <4>3. ASSUME NEW left, x.pc = "options", y = [pc |-> x.pc, dto |-> x.dto, left |-> left]
            PROVE  FALSE
        <5>1. y.pc = x.pc  BY <4>3
        <5> QED  BY <4>3, <5>1
      <4>4. ~ListStep(s)
        <5> SUFFICES ASSUME ListStep(s) PROVE FALSE
          OBVIOUS
        <5>1. \E pc \in {"list", "append"} : \E n, out : y = Lists(pc, x.dto, n, out)  BY DEF ListStep
        <5>2. y.pc \in {"list", "append"}  BY <5>1 DEF Lists
        <5> QED  BY <5>2
      <4> QED  BY <1>0, <1>2, <2>2, <4>1, <4>2, <4>3, <4>4, OwnStep
    <3>10. CASE EndListing(s) /\ x.pc = "list"
      <4>1. x.dto \in Dtos /\ x.dto.kind = "alt_addresses"  BY <1>0, <3>10, ListingState
      <4> QED  BY <3>2, <4>1 DEF BuiltOK
    <3> SUFFICES ASSUME Ready(s), BuildInstruction(s) \/ BuildBatch(s)
                 PROVE  BuiltOK(call'[s], overlap'[s] \cup {call'[s].dto})
      BY <3>2, <3>10
    <3>3. /\ Active(s) /\ x.left = << >> /\ d \in Dtos /\ OptionsOf(d.kind) \in Seq(ConfigFields)
      BY <1>0, <3>2, ReadyOK, ActiveOK
    <3>4. \A f \in ToSet(OptionsOf(d.kind)) : FieldOK(f, config[f], Near(s))
      <4>1. Applied(x.left, OptionsOf(d.kind)) = ToSet(OptionsOf(d.kind))  BY <3>3, SuffixNone
      <4> QED  BY <1>0, <3>3, <4>1 DEF Fields, OwnFields
    <3>5. ASSUME NEW out, Built(s, out) PROVE y.out = out
      BY <3>1, <3>5 DEF Built
    <3>6. MadeOf(config, d, y.out)
      <4>1. CASE BuildInstruction(s)
        <5>1. y.out = CreateTx(d.kind, <<Instruction(config, d)>>, d.tables)
              /\ d.kind \notin {"bridge_transaction", "alt_addresses"}
          BY <3>5, <4>1 DEF BuildInstruction
        <5> QED  BY <5>1 DEF MadeOf
      <4>2. CASE BuildBatch(s)
        <5>1. d.kind = "bridge_transaction"  BY <4>2 DEF BuildBatch
        <5>2. ~Ed25519Refused(d.signers, d.payload)
          <6> SUFFICES ASSUME Ed25519Refused(d.signers, d.payload) PROVE FALSE
            OBVIOUS
          <6>1. y = [x EXCEPT !.pc = "failed"]  BY <3>1, <4>2 DEF BuildBatch
          <6>2. x = [pc |-> x.pc, dto |-> x.dto, left |-> x.left]  BY <1>0, <3>3, ReadyOK, ActiveOK
          <6> HIDE DEF x, y
          <6>3. y.pc = "failed"  BY <6>1, <6>2
          <6> QED  BY <6>3 DEF y
        <5>3. \E order \in IterationOrders(d.signers) :
                y.out = CreateTx(d.kind, BridgeTransaction(config, d, order), d.tables)
          <6>1. PICK order \in IterationOrders(d.signers) :
                  Built(s, CreateTx(d.kind, BridgeTransaction(config, d, order), d.tables))
            BY <4>2, <5>2 DEF BuildBatch
          <6> QED  BY <3>5, <6>1
        <5> QED  BY <5>1, <5>2, <5>3 DEF MadeOf
      <4> QED  BY <4>1, <4>2
    <3>7. overlap'[s] \cup {y.dto} = Near(s)  BY <3>2 DEF Near
    <3> HIDE DEF x, y, d
    <3>8. y.dto = d  BY <3>2 DEF d
    <3> QED  BY <3>3, <3>4, <3>6, <3>7, <3>8 DEF BuiltOK, y
  <2> QED  BY <2>1, <2>2
<1> QED  BY <1>1, <1>2, NextSteps

LEMMA SenderInvariant == Spec => []SenderInv
<1>1. SenderInit => SenderInv
  <2> SUFFICES ASSUME SenderInit PROVE SenderInv
    OBVIOUS
  <2>1. /\ DOMAIN call = Callers /\ DOMAIN overlap = Callers
        /\ \A s \in Callers : call[s].pc = "idle"
        /\ call = [s \in Callers |-> call[s]]
    BY DEF SenderInit
  <2>2. DOMAIN config = ConfigFields  BY DEF SenderInit, NewInstructionConfig
  <2>3. \A s \in Callers : ~Active(s)  BY <2>1 DEF Active
  <2> QED  BY <2>1, <2>2, <2>3 DEF SenderInv, SenderTypes, CallOK, Beside, Fields, Listings, ListingOK,
                                   BuiltAll, BuiltOK
<1>2. SenderInv /\ [Next]_vars => SenderInv'
  BY SenderTypesNext, BesideNext, FieldsNext, ListingsNext, BuiltNext DEF SenderInv
<1> QED  BY <1>1, <1>2, PTL DEF Spec

-----------------------------------------------------------------------------
(* Batches.                                                                *)

LEMMA SomeOrder ==
  ASSUME NEW U, NEW signers \in Seq(U), NEW order \in IterationOrders(signers)
  PROVE  Len(order) \in Nat /\ Len(order) = Len(signers)
<1> DEFINE n == Len(signers)  r == Reverse(signers)
<1>1. n \in Nat  OBVIOUS
<1>2. r = [i \in 1..n |-> signers[(n - i) + 1]]  BY DEF Reverse
<1>3. Len(r) = n
  <2>1. DOMAIN r = 1..n /\ r = [i \in 1..n |-> r[i]]
    <3> HIDE DEF r
    <3> QED  BY <1>2
  <2> HIDE DEF r, n
  <2> QED  BY <1>1, <2>1, ListOf
<1> QED  BY <1>1, <1>3 DEF IterationOrders

(* A built batch, with the configuration and the order it was made of.     *)
BatchOf(s, c, signers, n) ==
  LET d == call[s].dto
  IN /\ d \in Dtos /\ n \in 2..3
     /\ \A f \in ToSet(BridgeTransactionOptions) : FieldOK(f, c[f], Near(s))
     /\ Len(signers) \in Nat /\ ~Ed25519Refused(signers, d.payload)
     /\ BatchTx(call[s].out, c, d, signers, n)

LEMMA BuiltBatchForm ==
  ASSUME SenderInv, NEW s \in Callers, BuiltBatch(s)
  PROVE  \E c, signers, n : BatchOf(s, c, signers, n)
<1> DEFINE d == call[s].dto  out == call[s].out
<1>1. d.kind = "bridge_transaction" /\ BuiltOK(call[s], Near(s)) /\ call[s].pc = "built"
  BY DEF BuiltBatch, SenderInv, BuiltAll
<1>2. d \in Dtos  BY <1>1 DEF BuiltOK
<1>3. PICK c : /\ \A f \in ToSet(OptionsOf(d.kind)) : FieldOK(f, c[f], Near(s))
               /\ MadeOf(c, d, out)
  BY <1>1 DEF BuiltOK
<1>4. OptionsOf(d.kind) = BridgeTransactionOptions  BY <1>1 DEF OptionsOf, Transfers
<1>5. ~Ed25519Refused(d.signers, d.payload)  BY <1>1, <1>3 DEF MadeOf
<1>6. PICK order \in IterationOrders(d.signers) :
        out = CreateTx(d.kind, BridgeTransaction(c, d, order), d.tables)
  BY <1>1, <1>3 DEF MadeOf
<1>7. /\ d.signers \in Seq(ToSet(d.signers)) /\ d.receivers \in Seq(ToSet(d.receivers))
      /\ d.program # ComputeBudget
  BY <1>2, DtosAssumption
<1>8. Len(order) \in Nat /\ Len(order) = Len(d.signers)
  BY <1>6, <1>7, SomeOrder
<1>9. ~Ed25519Refused(order, d.payload)  BY <1>5, <1>8 DEF Ed25519Refused
<1> HIDE DEF d, out
<1>10. PICK n \in 2..3 :
         BatchTx(CreateTx("bridge_transaction", BridgeTransaction(c, d, order), d.tables),
                 c, d, order, n)
  BY <1>7, BatchTxForm
<1>11. BatchTx(out, c, d, order, n)  BY <1>1, <1>6, <1>10
<1>12. \A f \in ToSet(BridgeTransactionOptions) : FieldOK(f, c[f], Near(s))  BY <1>3, <1>4
<1>13. BatchOf(s, c, order, n)
  BY <1>2, <1>8, <1>9, <1>11, <1>12 DEF BatchOf, d, out
<1> QED  BY <1>13

(* Whatever calls share the sender, in whatever order the map of           *)
(* signatures is iterated and whichever message format is chosen, the      *)
(* tracker finds in a built batch the payload that was signed              *)
(* (tx_sender.go:731, payload_parser.go:49).                               *)
THEOREM PayloadRead == Spec => []PayloadFound
<1>1. SenderInv => PayloadFound
  <2> SUFFICES ASSUME SenderInv, NEW s \in Callers, BuiltBatch(s)
               PROVE  LET d == call[s].dto
                          ixs == call[s].out.instructions
                          keys == [i \in DOMAIN ixs |-> ixs[i].program]
                          compiled == [i \in DOMAIN ixs |->
                                         [program |-> i,
                                          data |-> IF i < Len(ixs) THEN ixs[i].data ELSE << >>]]
                      IN FindBatchPayload(compiled, keys, Len(ixs), d.payload.batch) = d.payload
    BY DEF PayloadFound
  <2> DEFINE d == call[s].dto
             ixs == call[s].out.instructions
             keys == [i \in DOMAIN ixs |-> ixs[i].program]
             compiled == [i \in DOMAIN ixs |->
                            [program |-> i,
                             data |-> IF i < Len(ixs) THEN ixs[i].data ELSE << >>]]
  <2>1. PICK c, signers, n : BatchOf(s, c, signers, n)  BY BuiltBatchForm
  <2>2. /\ d \in Dtos /\ n \in 2..3 /\ Len(signers) \in Nat /\ ~Ed25519Refused(signers, d.payload)
        /\ DOMAIN ixs = 1..n /\ Len(ixs) = n
        /\ ixs[n - 1] = BuildBatchedEd25519(signers, d.payload)
    BY <2>1 DEF BatchOf, BatchTx
  <2>3. /\ d.payload.size \in Nat /\ U16(d.payload.size) = d.payload.size
        /\ d.payload # NoPayload
    BY <2>2, DtosAssumption
  <2> HIDE DEF ixs, d
  <2>4. /\ n \in Nat /\ n >= 2 /\ n - 1 \in 1..n /\ n - 1 < n  BY <2>2
  <2>5. /\ DOMAIN compiled = 1..n /\ DOMAIN keys = 1..n
        /\ compiled[n - 1] = [program |-> n - 1, data |-> ixs[n - 1].data]
        /\ keys[n - 1] = ixs[n - 1].program
    BY <2>2, <2>4
  <2> HIDE DEF compiled, keys
  <2>6. ixs[n - 1].program = Ed25519Program  BY <2>2 DEF BuildBatchedEd25519
  <2>7. compiled[n - 1].program = n - 1 /\ compiled[n - 1].data = ixs[n - 1].data  BY <2>5
  <2>8. InstructionProgramEquals(compiled, keys, n - 1, Ed25519Program)
    BY <2>4, <2>5, <2>6, <2>7 DEF InstructionProgramEquals
  <2>9. SignedBefore(compiled, n, keys, signers, d.payload)
    BY <2>2, <2>3, <2>4, <2>5, <2>7, <2>8 DEF SignedBefore
  <2>10. FindBatchPayload(compiled, keys, n, d.payload.batch) = d.payload
    BY <2>9, PayloadBefore
  <2> QED  BY <2>2, <2>10 DEF compiled, keys, ixs, d
<1> QED  BY <1>1, SenderInvariant, PTL

(* A built batch is granted the same compute units in every message        *)
(* format, and a v1 message holds no budget instruction                    *)
(* (tx_sender.go:124-128).                                                 *)
THEOREM BudgetExact == Spec => []BudgetKept
<1>1. SenderInv => BudgetKept
  <2> SUFFICES ASSUME SenderInv, NEW s \in Callers, BuiltBatch(s)
               PROVE  LET d == call[s].dto
                          tx == call[s].out
                      IN /\ Granted(tx) = IF Len(d.receivers) = MaxReceivers
                                          THEN MaxReceiversUnits ELSE DefaultComputeUnitLimit(2)
                         /\ tx.version = "v1" =>
                              \A ix \in ToSet(tx.instructions) : ix.program # ComputeBudget
    BY DEF BudgetKept
  <2> DEFINE d == call[s].dto
             tx == call[s].out
             ixs == tx.instructions
             full == Len(d.receivers) = MaxReceivers
             budget == {i \in DOMAIN ixs : ixs[i].program = ComputeBudget}
             bridge(c) == BridgeInstruction(c, d)
             signed(signers) == BuildBatchedEd25519(signers, d.payload)
             limit == SetComputeUnitLimit(MaxReceiversUnits)
  <2>1. PICK c, signers, n : BatchOf(s, c, signers, n)  BY BuiltBatchForm
  <2>2. /\ d \in Dtos /\ n \in 2..3
        /\ DOMAIN ixs = 1..n /\ Len(ixs) = n
        /\ ixs[n] = bridge(c) /\ ixs[n - 1] = signed(signers)
        /\ n = 3 => ixs[1] = limit
        /\ \/ tx.version = "v0" /\ n = IF full THEN 3 ELSE 2
           \/ /\ tx.version = "v1" /\ n = 2
              /\ tx.units = IF full THEN MaxReceiversUnits ELSE DefaultComputeUnitLimit(2)
    BY <2>1 DEF BatchOf, BatchTx
  <2>3. /\ bridge(c).program # ComputeBudget /\ signed(signers).program # ComputeBudget
        /\ limit.program = ComputeBudget /\ limit.data.units = MaxReceiversUnits
    <3>1. d.receivers \in Seq(ToSet(d.receivers)) /\ d.program # ComputeBudget
      BY <2>2, DtosAssumption
    <3>2. bridge(c).program = d.program
      <4> HIDE DEF d
      <4>1. BridgeLaid(BridgeInstruction(c, d), c, d)  BY <3>1, BridgeForm
      <4> QED  BY <4>1 DEF BridgeLaid
    <3>3. signed(signers).program = Ed25519Program  BY DEF BuildBatchedEd25519
    <3>4. Ed25519Program # ComputeBudget  BY DEF Ed25519Program, ComputeBudget, WellKnown
    <3>5. limit.program = ComputeBudget /\ limit.data.units = MaxReceiversUnits
      BY DEF SetComputeUnitLimit
    <3> QED  BY <3>1, <3>2, <3>3, <3>4, <3>5
  <2>4. Granted(tx) = IF tx.version = "v1" THEN tx.units
                      ELSE IF budget # {} THEN ixs[Min(budget)].data.units
                      ELSE DefaultComputeUnitLimit(Len(ixs))
    BY DEF Granted
  <2> HIDE DEF bridge, signed, limit, ixs, tx, full
  <2>5. n = 2 => \A i \in DOMAIN ixs : ixs[i].program # ComputeBudget
    <3>1. \A i \in 1..2 : i = 1 \/ i = 2  OBVIOUS
    <3> QED  BY <2>2, <2>3, <3>1
  <2>6. CASE tx.version = "v1"
    <3>1. n = 2 /\ Granted(tx) = IF full THEN MaxReceiversUnits ELSE DefaultComputeUnitLimit(2)
      <4> HIDE DEF budget
      <4> QED  BY <2>2, <2>4, <2>6
    <3>2. \A ix \in ToSet(ixs) : ix.program # ComputeBudget  BY <2>5, <3>1 DEF ToSet
    <3> QED  BY <3>1, <3>2 DEF tx, ixs, full, d
  <2>7. CASE tx.version # "v1" /\ full
    <3>1. n = 3 /\ ixs[1] = limit /\ ixs[2] = signed(signers) /\ ixs[3] = bridge(c)
      BY <2>2, <2>7
    <3>2. budget = {1}
      <4>1. \A i \in 1..3 : i = 1 \/ i = 2 \/ i = 3  OBVIOUS
      <4> QED  BY <2>2, <2>3, <3>1, <4>1
    <3>3. Min({1}) = 1
      <4>1. \E x \in {1} : \A y \in {1} : x <= y  OBVIOUS
      <4> QED  BY <4>1 DEF Min
    <3> HIDE DEF budget
    <3>4. Granted(tx) = MaxReceiversUnits  BY <2>3, <2>4, <2>7, <3>1, <3>2, <3>3
    <3> QED  BY <2>7, <3>4 DEF tx, full, d
  <2>8. CASE tx.version # "v1" /\ ~full
    <3>1. n = 2 /\ Len(ixs) = 2  BY <2>2, <2>8
    <3>2. budget = {}  BY <2>5, <3>1
    <3> HIDE DEF budget
    <3>3. Granted(tx) = DefaultComputeUnitLimit(2)  BY <2>4, <2>8, <3>1, <3>2
    <3> QED  BY <2>8, <3>3 DEF tx, full, d
  <2> QED  BY <2>6, <2>7, <2>8
<1> QED  BY <1>1, SenderInvariant, PTL

-----------------------------------------------------------------------------
(* The accounts of a batch.                                                *)

(* What follows the first nine.                                            *)
LEMMA Behind ==
  ASSUME NEW K, NEW s \in Seq(K), NEW t, NEW m \in Nat, Len(t) = m, Len(s) = 9 + m,
         \A i \in 1..m : s[9 + i] = t[i]
  PROVE  LET r == SubSeq(s, 9 + 1, Len(s))
         IN Len(r) = m /\ \A i \in 1..m : r[i] = t[i]
<1>1. \A i \in 1..m : 10 + i - 1 = 9 + i  OBVIOUS
<1>2. LET r == SubSeq(s, 10, 9 + m)
      IN Len(r) = m /\ \A i \in 1..m : r[i] = s[10 + i - 1]
  OBVIOUS
<1> QED  BY <1>1, <1>2

(* The vault of a call that ran on its own.                                *)
LEMMA OwnVault ==
  ASSUME NEW c, NEW d, NEW ds, ds = {d},
         \A f \in ToSet(BridgeTransactionOptions) : FieldOK(f, c[f], ds)
  PROVE  c["vault"] = Pda("vault", d.program)
<1>1. "vault" \in ToSet(BridgeTransactionOptions)
  <2>1. 3 \in DOMAIN BridgeTransactionOptions /\ BridgeTransactionOptions[3] = "vault"
    BY DEF BridgeTransactionOptions
  <2> QED  BY <2>1 DEF ToSet
<1>2. \E p \in {e.program : e \in ds} : c["vault"] = Pda("vault", p)
  <2>1. FieldOK("vault", c["vault"], ds)  BY <1>1
  <2> QED  BY <2>1 DEF FieldOK
<1> QED  BY <1>2

(* In a batch that no other call ran beside, the accounts behind the fixed *)
(* ones lie where the program looks for them: each mint once, the          *)
(* receivers, a registry per mint, a token account per receiver and the    *)
(* vault's per mint (tx_sender.go:504-506).                                *)
THEOREM LayoutExact == Spec => []BatchLayout
<1>1. SenderInv => BatchLayout
  <2> SUFFICES ASSUME SenderInv, NEW s \in Callers, BuiltBatch(s), overlap[s] = {}
               PROVE  LET d == call[s].dto
                          ixs == call[s].out.instructions
                          rest == SubSeq(ixs[Len(ixs)].accounts,
                                         Len(BridgeTransactionAccounts) + 1,
                                         Len(ixs[Len(ixs)].accounts))
                          wanted == {MintOf(d.program, r.token) : r \in ToSet(d.receivers)}
                          nm == Cardinality(wanted)
                          nr == Len(d.receivers)
                          Key(i) == rest[i].key
                      IN /\ Len(rest) = 3 * nm + 2 * nr
                         /\ {Key(i) : i \in 1..nm} = wanted
                         /\ \A i \in 1..nr :
                              /\ Key(nm + i) = d.receivers[i].wallet
                              /\ Key(2 * nm + nr + i) =
                                   Ata(d.receivers[i].wallet,
                                       MintOf(d.program, d.receivers[i].token))
                         /\ \A i \in 1..nm :
                              /\ \E r \in ToSet(d.receivers) :
                                   /\ MintOf(d.program, r.token) = Key(i)
                                   /\ Key(nm + nr + i) =
                                        TokenPda("tokenRegistry", r.token, d.program)
                              /\ Key(2 * nm + 2 * nr + i) = Ata(Pda("vault", d.program), Key(i))
    BY DEF BatchLayout
  <2> DEFINE d == call[s].dto
             ixs == call[s].out.instructions
             rest == SubSeq(ixs[Len(ixs)].accounts, Len(BridgeTransactionAccounts) + 1,
                            Len(ixs[Len(ixs)].accounts))
             wanted == {MintOf(d.program, r.token) : r \in ToSet(d.receivers)}
             nm == Cardinality(wanted)
             nr == Len(d.receivers)
             Key(i) == rest[i].key
             m == DeriveMints(d.program, d.receivers)
  <2>1. PICK c, signers, n : BatchOf(s, c, signers, n)  BY BuiltBatchForm
  <2> DEFINE behind == RemainingAccounts(c, d)
  <2>2. /\ d \in Dtos /\ Len(ixs) = n /\ ixs[n] = BridgeInstruction(c, d)
        /\ \A f \in ToSet(BridgeTransactionOptions) : FieldOK(f, c[f], Near(s))
    BY <2>1 DEF BatchOf, BatchTx
  <2>3. Near(s) = {d}  BY DEF Near
  <2>4. d.receivers \in Seq(ToSet(d.receivers))  BY <2>2, DtosAssumption
  <2> HIDE DEF ixs, d
  <2>5. c["vault"] = Pda("vault", d.program)  BY <2>2, <2>3, OwnVault
  <2>6. BridgeLaid(ixs[n], c, d)
    <3>1. BridgeLaid(BridgeInstruction(c, d), c, d)  BY <2>4, BridgeForm
    <3> QED  BY <2>2, <3>1
  <2>7. Len(BridgeTransactionAccounts) = 9  BY DEF BridgeTransactionAccounts
  <2>8. Len(rest) = Len(behind) /\ \A i \in 1..Len(behind) : rest[i] = behind[i]
    <3> DEFINE a == ixs[n].accounts
    <3>1. /\ a \in Seq(ToSet(a)) /\ Len(behind) \in Nat /\ Len(a) = 9 + Len(behind)
          /\ \A i \in 1..Len(behind) : a[9 + i] = behind[i]
      BY <2>6 DEF BridgeLaid
    <3>2. rest = SubSeq(a, 9 + 1, Len(a))  BY <2>2, <2>7
    <3> HIDE DEF a, rest, behind
    <3> QED  BY <3>1, <3>2, Behind
  <2>9. /\ Len(m.mints) = nm /\ ToSet(m.mints) = wanted
        /\ \A k \in DOMAIN m.mints : \E r \in ToSet(d.receivers) :
             m.mints[k] = MintOf(d.program, r.token) /\ m.tokens[k] = r.token
        /\ \A i \in DOMAIN d.receivers :
             m.mints[m.index[i]] = MintOf(d.program, d.receivers[i].token)
    <3> DEFINE Mint(i) == MintOf(d.program, d.receivers[i].token)
               W == {Mint(i) : i \in DOMAIN d.receivers}
    <3>0. MintsDerived(m, d.program, d.receivers)  BY <2>4, DerivedMints
    <3>1. /\ ToSet(m.mints) = W /\ Len(m.mints) = Cardinality(W)
          /\ \A k \in DOMAIN m.mints : \E i \in DOMAIN d.receivers :
               m.mints[k] = Mint(i) /\ m.tokens[k] = d.receivers[i].token
          /\ \A i \in DOMAIN d.receivers : m.mints[m.index[i]] = Mint(i)
      BY <3>0 DEF MintsDerived
    <3>2. W = wanted  BY DEF ToSet
    <3> HIDE DEF m, wanted, W
    <3>3. \A i \in DOMAIN d.receivers : d.receivers[i] \in ToSet(d.receivers)  BY DEF ToSet
    <3>4. \A k \in DOMAIN m.mints : \E r \in ToSet(d.receivers) :
             m.mints[k] = MintOf(d.program, r.token) /\ m.tokens[k] = r.token
      BY <3>1, <3>3
    <3> QED  BY <3>1, <3>2, <3>4
  <2>10. /\ nm \in Nat /\ nr \in Nat
         /\ DOMAIN m.mints = 1..nm /\ DOMAIN d.receivers = 1..nr
         /\ Len(behind) = 3 * nm + 2 * nr
         /\ \A i \in 1..nm :
              /\ behind[i] = Remaining(m.mints[i], "mint", {"w"})
              /\ behind[nm + nr + i] =
                   Remaining(TokenPda("tokenRegistry", m.tokens[i], d.program), "registry", {})
              /\ behind[2 * nm + 2 * nr + i] =
                   Remaining(Ata(c["vault"], m.mints[i]), "vault_ata", {"w"})
         /\ \A i \in 1..nr :
              /\ behind[nm + i] = Remaining(d.receivers[i].wallet, "recipient", {})
              /\ behind[2 * nm + nr + i] =
                   Remaining(Ata(d.receivers[i].wallet, m.mints[m.index[i]]),
                             "recipient_ata", {"w"})
    <3> DEFINE k == Len(m.mints)
    <3>1. RemainingLaid(behind, m, c, d, k, nr)  BY <2>4, RemainingForm
    <3>2. k = nm  BY <2>9
    <3> HIDE DEF m, behind, nm, nr, k
    <3> QED  BY <3>1, <3>2 DEF RemainingLaid
  <2> HIDE DEF rest, behind, wanted, nm, nr, m
  <2>11. \A key, role, flags : Remaining(key, role, flags).key = key  BY DEF Remaining
  <2>12. ASSUME NEW i \in 1..nm
         PROVE  /\ Key(i) = m.mints[i]
                /\ Key(nm + nr + i) = TokenPda("tokenRegistry", m.tokens[i], d.program)
                /\ Key(2 * nm + 2 * nr + i) = Ata(Pda("vault", d.program), m.mints[i])
    <3> DEFINE last == Len(behind)
    <3>0. nm \in Nat /\ nr \in Nat /\ last = 3 * nm + 2 * nr  BY <2>10
    <3> HIDE DEF last
    <3>1. i \in 1..last /\ nm + nr + i \in 1..last /\ 2 * nm + 2 * nr + i \in 1..last
      BY <3>0
    <3>2. /\ rest[i] = behind[i] /\ rest[nm + nr + i] = behind[nm + nr + i]
          /\ rest[2 * nm + 2 * nr + i] = behind[2 * nm + 2 * nr + i]
      BY <2>8, <3>1 DEF last
    <3>3. /\ behind[i] = Remaining(m.mints[i], "mint", {"w"})
          /\ behind[nm + nr + i] =
               Remaining(TokenPda("tokenRegistry", m.tokens[i], d.program), "registry", {})
          /\ behind[2 * nm + 2 * nr + i] =
               Remaining(Ata(c["vault"], m.mints[i]), "vault_ata", {"w"})
      BY <2>10
    <3> QED  BY <2>5, <2>11, <3>2, <3>3
  <2>13. ASSUME NEW i \in 1..nr
         PROVE  /\ Key(nm + i) = d.receivers[i].wallet
                /\ Key(2 * nm + nr + i) =
                     Ata(d.receivers[i].wallet, MintOf(d.program, d.receivers[i].token))
    <3>1. nm + i \in 1..Len(behind) /\ 2 * nm + nr + i \in 1..Len(behind)  BY <2>10
    <3>2. /\ rest[nm + i] = behind[nm + i]
          /\ rest[2 * nm + nr + i] = behind[2 * nm + nr + i]
      BY <2>8, <3>1
    <3>3. m.mints[m.index[i]] = MintOf(d.program, d.receivers[i].token)  BY <2>9, <2>10
    <3>4. /\ behind[nm + i] = Remaining(d.receivers[i].wallet, "recipient", {})
          /\ behind[2 * nm + nr + i] =
               Remaining(Ata(d.receivers[i].wallet, m.mints[m.index[i]]), "recipient_ata", {"w"})
      BY <2>10
    <3>5. behind[nm + i].key = d.receivers[i].wallet  BY <2>11, <3>4
    <3>6. behind[2 * nm + nr + i].key = Ata(d.receivers[i].wallet, m.mints[m.index[i]])
      BY <2>11, <3>4
    <3> QED  BY <3>2, <3>3, <3>5, <3>6
  <2>14. {Key(i) : i \in 1..nm} = wanted
    <3>1. ToSet(m.mints) = {m.mints[i] : i \in 1..nm}  BY <2>10 DEF ToSet
    <3>2. {Key(i) : i \in 1..nm} = {m.mints[i] : i \in 1..nm}  BY <2>12
    <3> QED  BY <2>9, <3>1, <3>2
  <2>15. ASSUME NEW i \in 1..nm
         PROVE  \E r \in ToSet(d.receivers) :
                  /\ MintOf(d.program, r.token) = Key(i)
                  /\ Key(nm + nr + i) = TokenPda("tokenRegistry", r.token, d.program)
    <3>1. PICK r \in ToSet(d.receivers) :
            m.mints[i] = MintOf(d.program, r.token) /\ m.tokens[i] = r.token
      BY <2>9, <2>10
    <3> QED  BY <2>12, <3>1
  <2>16. Len(rest) = 3 * nm + 2 * nr  BY <2>8, <2>10
  <2>17. /\ Len(rest) = 3 * nm + 2 * nr
         /\ {Key(i) : i \in 1..nm} = wanted
         /\ \A i \in 1..nr :
              /\ Key(nm + i) = d.receivers[i].wallet
              /\ Key(2 * nm + nr + i) =
                   Ata(d.receivers[i].wallet, MintOf(d.program, d.receivers[i].token))
         /\ \A i \in 1..nm :
              /\ \E r \in ToSet(d.receivers) :
                   /\ MintOf(d.program, r.token) = Key(i)
                   /\ Key(nm + nr + i) = TokenPda("tokenRegistry", r.token, d.program)
              /\ Key(2 * nm + 2 * nr + i) = Ata(Pda("vault", d.program), Key(i))
    <3> HIDE DEF Key
    <3> QED  BY <2>12, <2>13, <2>14, <2>15, <2>16
  <2> QED  BY <2>17 DEF rest, wanted, nm, nr, ixs, d
<1> QED  BY <1>1, SenderInvariant, PTL

-----------------------------------------------------------------------------
(* The accounts of every instruction.                                      *)

(* What a call beside the requests ds may mix.                             *)
MixedOf(ds) ==
  [program : {d.program : d \in ds}, token : UNION {Tokens(d) : d \in ds},
   mint : {d.mint : d \in ds}]

(* The key is one that the role stands for.                                *)
Fits(role, key, d, ds) == \E x \in MixedOf(ds) : key = Wanted(role, d, x)

LEMMA MixedMember ==
  ASSUME NEW ds, NEW p \in {d.program : d \in ds}, NEW t \in UNION {Tokens(d) : d \in ds},
         NEW m \in {d.mint : d \in ds}
  PROVE  LET x == [program |-> p, token |-> t, mint |-> m]
         IN x \in MixedOf(ds) /\ x.program = p /\ x.token = t /\ x.mint = m
<1> DEFINE P == {d.program : d \in ds}  T == UNION {Tokens(d) : d \in ds}
           M == {d.mint : d \in ds}
<1>1. p \in P /\ t \in T /\ m \in M  OBVIOUS
<1>2. MixedOf(ds) = [program : P, token : T, mint : M]  BY DEF MixedOf
<1> HIDE DEF P, T, M
<1> QED  BY <1>1, <1>2

(* The mint of a request.                                                  *)
MintFor(d) == IF d.kind = "bridge_request" THEN MintOf(d.program, d.token) ELSE d.mint

LEMMA WantedFixed ==
  ASSUME NEW d, NEW x
  PROVE  /\ Wanted("signer", d, x) = d.sender
         /\ Wanted("payer", d, x) = d.sender
         /\ Wanted("authority", d, x) = d.sender
         /\ Wanted("mint", d, x) = MintFor(d)
         /\ Wanted("signers_ata", d, x) = Ata(d.sender, MintFor(d))
         /\ Wanted("receiver", d, x) = d.receiver
         /\ Wanted("receiver_ata", d, x) = Ata(d.receiver, MintFor(d))
         /\ Wanted("treasury", d, x) = Treasury
         /\ Wanted("new_treasury", d, x) = d.newTreasury
         /\ Wanted("token_program", d, x) = WellKnown("token")
         /\ Wanted("metadata_program", d, x) = WellKnown("token_metadata")
         /\ Wanted("system_program", d, x) = WellKnown("system")
         /\ Wanted("associated_token_program", d, x) = WellKnown("ata_program")
         /\ Wanted("rent", d, x) = WellKnown("rent")
         /\ Wanted("instructions", d, x) = WellKnown("instructions_sysvar")
BY DEF Wanted, MintFor

LEMMA WantedDerived ==
  ASSUME NEW d, NEW x
  PROVE  /\ Wanted("validator_set", d, x) = Pda("validatorSet", x.program)
         /\ Wanted("vault", d, x) = Pda("vault", x.program)
         /\ Wanted("fee_config", d, x) = Pda("feeConfig", x.program)
         /\ Wanted("program_config", d, x) = Pda("programConfig", x.program)
         /\ Wanted("program_data", d, x) = Pda("programData", x.program)
         /\ Wanted("event_authority", d, x) = Pda("eventAuthority", x.program)
         /\ Wanted("token_registry", d, x) = TokenPda("tokenRegistry", x.token, x.program)
         /\ Wanted("token_id_guard", d, x) = TokenPda("tokenIDGuard", x.token, x.program)
         /\ Wanted("metadata", d, x) = <<"metadata", x.mint>>
         /\ Wanted("program", d, x) = x.program
         /\ Wanted("vault_ata", d, x) = Ata(Pda("vault", x.program), MintFor(d))
BY DEF Wanted, MintFor

(* Roles that the request itself settles.                                  *)
LEMMA FixedFit ==
  ASSUME NEW ds, NEW d \in ds, d.token \in Tokens(d)
  PROVE  /\ Fits("signer", d.sender, d, ds)
         /\ Fits("payer", d.sender, d, ds)
         /\ Fits("authority", d.sender, d, ds)
         /\ Fits("mint", MintFor(d), d, ds)
         /\ Fits("signers_ata", Ata(d.sender, MintFor(d)), d, ds)
         /\ Fits("receiver", d.receiver, d, ds)
         /\ Fits("receiver_ata", Ata(d.receiver, MintFor(d)), d, ds)
         /\ Fits("treasury", Treasury, d, ds)
         /\ Fits("new_treasury", d.newTreasury, d, ds)
         /\ Fits("token_program", WellKnown("token"), d, ds)
         /\ Fits("metadata_program", WellKnown("token_metadata"), d, ds)
         /\ Fits("system_program", WellKnown("system"), d, ds)
         /\ Fits("associated_token_program", WellKnown("ata_program"), d, ds)
         /\ Fits("rent", WellKnown("rent"), d, ds)
         /\ Fits("instructions", WellKnown("instructions_sysvar"), d, ds)
         /\ Fits("program", d.program, d, ds)
<1> DEFINE x == [program |-> d.program, token |-> d.token, mint |-> d.mint]
<1>1. x \in MixedOf(ds) /\ x.program = d.program
  <2>1. /\ d.program \in {e.program : e \in ds} /\ d.mint \in {e.mint : e \in ds}
        /\ d.token \in UNION {Tokens(e) : e \in ds}
    OBVIOUS
  <2> QED  BY <2>1, MixedMember
<1> HIDE DEF x
<1> QED  BY <1>1, WantedFixed, WantedDerived DEF Fits

(* Roles whose key stands in the configuration.                            *)
LEMMA DerivedFit ==
  ASSUME NEW ds, NEW d \in ds, d.token \in Tokens(d), NEW v
  PROVE  /\ FieldOK("program", v, ds) => Fits("program", v, d, ds)
         /\ FieldOK("validatorSet", v, ds) => Fits("validator_set", v, d, ds)
         /\ FieldOK("vault", v, ds) => Fits("vault", v, d, ds)
         /\ FieldOK("vault", v, ds) => Fits("vault_ata", Ata(v, MintFor(d)), d, ds)
         /\ FieldOK("feeConfig", v, ds) => Fits("fee_config", v, d, ds)
         /\ FieldOK("programConfig", v, ds) => Fits("program_config", v, d, ds)
         /\ FieldOK("programData", v, ds) => Fits("program_data", v, d, ds)
         /\ FieldOK("eventAuthority", v, ds) => Fits("event_authority", v, d, ds)
         /\ FieldOK("tokenRegistry", v, ds) => Fits("token_registry", v, d, ds)
         /\ FieldOK("tokenIDGuard", v, ds) => Fits("token_id_guard", v, d, ds)
         /\ FieldOK("metadata", v, ds) => Fits("metadata", v, d, ds)
<1> DEFINE P == {e.program : e \in ds}  T == UNION {Tokens(e) : e \in ds}
           M == {e.mint : e \in ds}
<1>1. d.program \in P /\ d.token \in T /\ d.mint \in M  OBVIOUS
<1>2. ASSUME NEW p \in P
      PROVE  \E x \in MixedOf(ds) : x.program = p
  <2> DEFINE x == [program |-> p, token |-> d.token, mint |-> d.mint]
  <2>1. x \in MixedOf(ds) /\ x.program = p  BY <1>1, MixedMember
  <2> HIDE DEF x
  <2> QED  BY <2>1
<1>3. ASSUME NEW p \in P, NEW t \in T
      PROVE  \E x \in MixedOf(ds) : x.program = p /\ x.token = t
  <2> DEFINE x == [program |-> p, token |-> t, mint |-> d.mint]
  <2>1. x \in MixedOf(ds) /\ x.program = p /\ x.token = t  BY <1>1, MixedMember
  <2> HIDE DEF x
  <2> QED  BY <2>1
<1>4. ASSUME NEW m \in M
      PROVE  \E x \in MixedOf(ds) : x.mint = m
  <2> DEFINE x == [program |-> d.program, token |-> d.token, mint |-> m]
  <2>1. x \in MixedOf(ds) /\ x.mint = m  BY <1>1, MixedMember
  <2> HIDE DEF x
  <2> QED  BY <2>1
<1> HIDE DEF P, T, M
<1>5. ASSUME NEW f, f \in {"validatorSet", "vault", "feeConfig", "programConfig", "programData",
                           "eventAuthority"}, FieldOK(f, v, ds)
      PROVE  \E x \in MixedOf(ds) : v = Pda(f, x.program)
  <2>1. PICK p \in P : v = Pda(f, p)  BY <1>5 DEF FieldOK, P
  <2> QED  BY <1>2, <2>1
<1>6. ASSUME NEW f, f \in {"tokenRegistry", "tokenIDGuard"}, FieldOK(f, v, ds)
      PROVE  \E x \in MixedOf(ds) : v = TokenPda(f, x.token, x.program)
  <2>1. PICK p \in P, t \in T : v = TokenPda(f, t, p)  BY <1>6 DEF FieldOK, P, T
  <2> QED  BY <1>3, <2>1
<1>7. FieldOK("program", v, ds) => Fits("program", v, d, ds)
  <2> SUFFICES ASSUME FieldOK("program", v, ds) PROVE Fits("program", v, d, ds)
    OBVIOUS
  <2>1. v \in P  BY DEF FieldOK, P
  <2> QED  BY <1>2, <2>1, WantedDerived DEF Fits
<1>8. FieldOK("metadata", v, ds) => Fits("metadata", v, d, ds)
  <2> SUFFICES ASSUME FieldOK("metadata", v, ds) PROVE Fits("metadata", v, d, ds)
    OBVIOUS
  <2>1. \E m \in M : v = <<"metadata", m>>  BY DEF FieldOK, M
  <2> QED  BY <1>4, <2>1, WantedDerived DEF Fits
<1>9. /\ FieldOK("validatorSet", v, ds) => Fits("validator_set", v, d, ds)
      /\ FieldOK("vault", v, ds) => Fits("vault", v, d, ds)
      /\ FieldOK("vault", v, ds) => Fits("vault_ata", Ata(v, MintFor(d)), d, ds)
      /\ FieldOK("feeConfig", v, ds) => Fits("fee_config", v, d, ds)
      /\ FieldOK("programConfig", v, ds) => Fits("program_config", v, d, ds)
      /\ FieldOK("programData", v, ds) => Fits("program_data", v, d, ds)
      /\ FieldOK("eventAuthority", v, ds) => Fits("event_authority", v, d, ds)
  BY <1>5, WantedDerived DEF Fits
<1>10. /\ FieldOK("tokenRegistry", v, ds) => Fits("token_registry", v, d, ds)
       /\ FieldOK("tokenIDGuard", v, ds) => Fits("token_id_guard", v, d, ds)
  BY <1>6, WantedDerived DEF Fits
<1> QED  BY <1>7, <1>8, <1>9, <1>10

AllFit(ix, d, ds) ==
  \A i \in DOMAIN ix.accounts : Fits(ix.accounts[i].role, ix.accounts[i].key, d, ds)

(* A constructor that is given, role by role, keys that fit.               *)
LEMMA ConstructorFits ==
  ASSUME NEW program, NEW accounts, NEW keys, NEW d, NEW ds,
         \A i \in DOMAIN accounts : Fits(accounts[i][1], keys[i], d, ds)
  PROVE  AllFit(NewInstruction(program, accounts, keys), d, ds)
<1> DEFINE ix == NewInstruction(program, accounts, keys)
<1>1. ix.accounts = [i \in DOMAIN accounts |->
                       [key |-> keys[i], role |-> accounts[i][1], flags |-> accounts[i][2]]]
  BY DEF NewInstruction
<1> HIDE DEF ix
<1>2. DOMAIN ix.accounts = DOMAIN accounts  BY <1>1
<1>3. \A i \in DOMAIN accounts : ix.accounts[i].role = accounts[i][1] /\ ix.accounts[i].key = keys[i]
  BY <1>1
<1>4. AllFit(ix, d, ds)  BY <1>2, <1>3 DEF AllFit
<1> QED  BY <1>4 DEF ix

(* What a builder may rely on when it reads the configuration.             *)
Found(c, d, ds) ==
  /\ d \in ds /\ d.token \in Tokens(d)
  /\ \A f \in ToSet(OptionsOf(d.kind)) : FieldOK(f, c[f], ds)

LEMMA BridgingRequestFits ==
  ASSUME NEW c, NEW d, NEW ds, Found(c, d, ds), d.kind = "bridge_request"
  PROVE  AllFit(BridgingRequest(c, d), d, ds)
<1> DEFINE mint == MintOf(d.program, d.token)
           keys == <<d.sender, c["validatorSet"], Ata(d.sender, mint), c["vault"],
                     Ata(c["vault"], mint), mint, c["tokenRegistry"], WellKnown("token"),
                     WellKnown("system"), WellKnown("ata_program"), c["feeConfig"], Treasury,
                     c["eventAuthority"], d.program>>
<1>1. MintFor(d) = mint  BY DEF MintFor
<1>2. /\ FieldOK("validatorSet", c["validatorSet"], ds) /\ FieldOK("vault", c["vault"], ds)
      /\ FieldOK("tokenRegistry", c["tokenRegistry"], ds)
      /\ FieldOK("feeConfig", c["feeConfig"], ds)
      /\ FieldOK("eventAuthority", c["eventAuthority"], ds)
  <2>1. OptionsOf(d.kind) = BridgingRequestOptions  BY DEF OptionsOf, Transfers
  <2>2. {"validatorSet", "vault", "tokenRegistry", "feeConfig", "eventAuthority"}
          \subseteq ToSet(BridgingRequestOptions)
    BY DEF ToSet, BridgingRequestOptions
  <2> QED  BY <2>1, <2>2 DEF Found
<1>3. d \in ds /\ d.token \in Tokens(d)  BY DEF Found
<1> HIDE DEF mint
<1>4. /\ Fits("signer", d.sender, d, ds) /\ Fits("signers_ata", Ata(d.sender, mint), d, ds)
      /\ Fits("mint", mint, d, ds) /\ Fits("token_program", WellKnown("token"), d, ds)
      /\ Fits("system_program", WellKnown("system"), d, ds)
      /\ Fits("associated_token_program", WellKnown("ata_program"), d, ds)
      /\ Fits("treasury", Treasury, d, ds) /\ Fits("program", d.program, d, ds)
  BY <1>1, <1>3, FixedFit
<1>5. /\ Fits("validator_set", c["validatorSet"], d, ds) /\ Fits("vault", c["vault"], d, ds)
      /\ Fits("vault_ata", Ata(c["vault"], mint), d, ds)
      /\ Fits("token_registry", c["tokenRegistry"], d, ds)
      /\ Fits("fee_config", c["feeConfig"], d, ds)
      /\ Fits("event_authority", c["eventAuthority"], d, ds)
  BY <1>1, <1>2, <1>3, DerivedFit
<1>6. \A i \in DOMAIN BridgeRequestAccounts : Fits(BridgeRequestAccounts[i][1], keys[i], d, ds)
  <2>1. DOMAIN BridgeRequestAccounts = 1..14  BY DEF BridgeRequestAccounts
  <2> QED  BY <1>4, <1>5, <2>1 DEF BridgeRequestAccounts
<1> HIDE DEF keys
<1>7. AllFit(NewInstruction(d.program, BridgeRequestAccounts, keys), d, ds)
  BY <1>6, ConstructorFits
<1> QED  BY <1>7 DEF BridgingRequest, keys, mint

LEMMA BridgeVSUFits ==
  ASSUME NEW c, NEW d, NEW ds, Found(c, d, ds), d.kind = "bridge_vsu"
  PROVE  AllFit(BridgeVSU(c, d), d, ds)
<1> DEFINE keys == <<d.sender, c["validatorSet"], WellKnown("system")>>
<1>1. d \in ds /\ d.token \in Tokens(d)  BY DEF Found
<1>2. /\ FieldOK("validatorSet", c["validatorSet"], ds)
  <2>1. OptionsOf(d.kind) = BridgeVSUOptions  BY DEF OptionsOf, Transfers
  <2>2. {"validatorSet"} \subseteq ToSet(BridgeVSUOptions)
    BY DEF ToSet, BridgeVSUOptions
  <2> QED  BY <2>1, <2>2 DEF Found
<1>3. /\ Fits("payer", d.sender, d, ds) /\ Fits("system_program", WellKnown("system"), d, ds)
  BY <1>1, FixedFit
<1>4. /\ Fits("validator_set", c["validatorSet"], d, ds)
  BY <1>1, <1>2, DerivedFit
<1>5. \A i \in DOMAIN BridgeVsuAccounts : Fits(BridgeVsuAccounts[i][1], keys[i], d, ds)
  <2>1. DOMAIN BridgeVsuAccounts = 1..3  BY DEF BridgeVsuAccounts
  <2> QED  BY <1>3, <1>4, <2>1 DEF BridgeVsuAccounts
<1> HIDE DEF keys
<1>6. AllFit(NewInstruction(d.program, BridgeVsuAccounts, keys), d, ds)
  BY <1>5, ConstructorFits
<1> QED  BY <1>6 DEF BridgeVSU, keys

LEMMA HotWalletIncrementFits ==
  ASSUME NEW c, NEW d, NEW ds, Found(c, d, ds), d.kind = "hot_wallet_increment"
  PROVE  AllFit(HotWalletIncrement(c, d), d, ds)
<1> DEFINE keys == <<d.sender, Ata(d.sender, d.mint), c["vault"], Ata(c["vault"], d.mint),
                     d.mint, WellKnown("token"), WellKnown("system"), WellKnown("ata_program"),
                     c["eventAuthority"], d.program>>
<1>1. d \in ds /\ d.token \in Tokens(d) /\ MintFor(d) = d.mint  BY DEF Found, MintFor
<1>2. /\ FieldOK("vault", c["vault"], ds) /\ FieldOK("eventAuthority", c["eventAuthority"], ds)
  <2>1. OptionsOf(d.kind) = HotWalletIncrementOptions  BY DEF OptionsOf, Transfers
  <2>2. {"vault", "eventAuthority"} \subseteq ToSet(HotWalletIncrementOptions)
    BY DEF ToSet, HotWalletIncrementOptions
  <2> QED  BY <2>1, <2>2 DEF Found
<1>3. /\ Fits("signer", d.sender, d, ds) /\ Fits("signers_ata", Ata(d.sender, d.mint), d, ds)
      /\ Fits("mint", d.mint, d, ds) /\ Fits("token_program", WellKnown("token"), d, ds)
      /\ Fits("system_program", WellKnown("system"), d, ds)
      /\ Fits("associated_token_program", WellKnown("ata_program"), d, ds)
      /\ Fits("program", d.program, d, ds)
  BY <1>1, FixedFit
<1>4. /\ Fits("vault", c["vault"], d, ds) /\ Fits("vault_ata", Ata(c["vault"], d.mint), d, ds)
      /\ Fits("event_authority", c["eventAuthority"], d, ds)
  BY <1>1, <1>2, DerivedFit
<1>5. \A i \in DOMAIN HotWalletIncrementAccounts :
        Fits(HotWalletIncrementAccounts[i][1], keys[i], d, ds)
  <2>1. DOMAIN HotWalletIncrementAccounts = 1..10  BY DEF HotWalletIncrementAccounts
  <2> QED  BY <1>3, <1>4, <2>1 DEF HotWalletIncrementAccounts
<1> HIDE DEF keys
<1>6. AllFit(NewInstruction(d.program, HotWalletIncrementAccounts, keys), d, ds)
  BY <1>5, ConstructorFits
<1> QED  BY <1>6 DEF HotWalletIncrement, keys

LEMMA InitializeFits ==
  ASSUME NEW c, NEW d, NEW ds, Found(c, d, ds), d.kind = "bridge_initialize"
  PROVE  AllFit(Initialize(c, d), d, ds)
<1> DEFINE keys == <<d.sender, c["validatorSet"], c["vault"], c["feeConfig"], c["programConfig"],
                     Treasury, c["program"], c["programData"], WellKnown("system")>>
<1>1. d \in ds /\ d.token \in Tokens(d)  BY DEF Found
<1>2. /\ FieldOK("validatorSet", c["validatorSet"], ds) /\ FieldOK("vault", c["vault"], ds)
      /\ FieldOK("feeConfig", c["feeConfig"], ds)
      /\ FieldOK("programConfig", c["programConfig"], ds) /\ FieldOK("program", c["program"], ds)
      /\ FieldOK("programData", c["programData"], ds)
  <2>1. OptionsOf(d.kind) = InitializeOptions  BY DEF OptionsOf, Transfers
  <2>2. {"validatorSet", "vault", "feeConfig", "programConfig", "program", "programData"}
          \subseteq ToSet(InitializeOptions)
    BY DEF ToSet, InitializeOptions
  <2> QED  BY <2>1, <2>2 DEF Found
<1>3. /\ Fits("signer", d.sender, d, ds) /\ Fits("treasury", Treasury, d, ds)
      /\ Fits("system_program", WellKnown("system"), d, ds)
  BY <1>1, FixedFit
<1>4. /\ Fits("validator_set", c["validatorSet"], d, ds) /\ Fits("vault", c["vault"], d, ds)
      /\ Fits("fee_config", c["feeConfig"], d, ds)
      /\ Fits("program_config", c["programConfig"], d, ds) /\ Fits("program", c["program"], d, ds)
      /\ Fits("program_data", c["programData"], d, ds)
  BY <1>1, <1>2, DerivedFit
<1>5. \A i \in DOMAIN InitializeAccounts : Fits(InitializeAccounts[i][1], keys[i], d, ds)
  <2>1. DOMAIN InitializeAccounts = 1..9  BY DEF InitializeAccounts
  <2> QED  BY <1>3, <1>4, <2>1 DEF InitializeAccounts
<1> HIDE DEF keys
<1>6. AllFit(NewInstruction(d.program, InitializeAccounts, keys), d, ds)
  BY <1>5, ConstructorFits
<1> QED  BY <1>6 DEF Initialize, keys

LEMMA RegisterTokenLockUnlockFits ==
  ASSUME NEW c, NEW d, NEW ds, Found(c, d, ds), d.kind = "register_tokens_lock_unlock"
  PROVE  AllFit(RegisterTokenLockUnlock(c, d), d, ds)
<1> DEFINE keys == <<d.sender, c["feeConfig"], d.mint, c["tokenRegistry"], c["tokenIDGuard"],
                     WellKnown("system")>>
<1>1. d \in ds /\ d.token \in Tokens(d) /\ MintFor(d) = d.mint  BY DEF Found, MintFor
<1>2. /\ FieldOK("feeConfig", c["feeConfig"], ds)
      /\ FieldOK("tokenRegistry", c["tokenRegistry"], ds)
      /\ FieldOK("tokenIDGuard", c["tokenIDGuard"], ds)
  <2>1. OptionsOf(d.kind) = RegisterLockUnlockOptions  BY DEF OptionsOf, Transfers
  <2>2. {"feeConfig", "tokenRegistry", "tokenIDGuard"}
          \subseteq ToSet(RegisterLockUnlockOptions)
    BY DEF ToSet, RegisterLockUnlockOptions
  <2> QED  BY <2>1, <2>2 DEF Found
<1>3. /\ Fits("authority", d.sender, d, ds) /\ Fits("mint", d.mint, d, ds)
      /\ Fits("system_program", WellKnown("system"), d, ds)
  BY <1>1, FixedFit
<1>4. /\ Fits("fee_config", c["feeConfig"], d, ds)
      /\ Fits("token_registry", c["tokenRegistry"], d, ds)
      /\ Fits("token_id_guard", c["tokenIDGuard"], d, ds)
  BY <1>1, <1>2, DerivedFit
<1>5. \A i \in DOMAIN RegisterLockUnlockTokenAccounts :
        Fits(RegisterLockUnlockTokenAccounts[i][1], keys[i], d, ds)
  <2>1. DOMAIN RegisterLockUnlockTokenAccounts = 1..6  BY DEF RegisterLockUnlockTokenAccounts
  <2> QED  BY <1>3, <1>4, <2>1 DEF RegisterLockUnlockTokenAccounts
<1> HIDE DEF keys
<1>6. AllFit(NewInstruction(d.program, RegisterLockUnlockTokenAccounts, keys), d, ds)
  BY <1>5, ConstructorFits
<1> QED  BY <1>6 DEF RegisterTokenLockUnlock, keys

LEMMA RegisterTokenMintBurnFits ==
  ASSUME NEW c, NEW d, NEW ds, Found(c, d, ds), d.kind = "register_tokens_mint_burn"
  PROVE  AllFit(RegisterTokenMintBurn(c, d), d, ds)
<1> DEFINE keys == <<d.sender, c["feeConfig"], c["vault"], d.mint, c["metadata"],
                     c["tokenRegistry"], c["tokenIDGuard"], WellKnown("token"),
                     WellKnown("token_metadata"), WellKnown("system"), WellKnown("rent")>>
<1>1. d \in ds /\ d.token \in Tokens(d) /\ MintFor(d) = d.mint  BY DEF Found, MintFor
<1>2. /\ FieldOK("feeConfig", c["feeConfig"], ds) /\ FieldOK("vault", c["vault"], ds)
      /\ FieldOK("metadata", c["metadata"], ds)
      /\ FieldOK("tokenRegistry", c["tokenRegistry"], ds)
      /\ FieldOK("tokenIDGuard", c["tokenIDGuard"], ds)
  <2>1. OptionsOf(d.kind) = RegisterMintBurnOptions  BY DEF OptionsOf, Transfers
  <2>2. {"feeConfig", "vault", "metadata", "tokenRegistry", "tokenIDGuard"}
          \subseteq ToSet(RegisterMintBurnOptions)
    BY DEF ToSet, RegisterMintBurnOptions
  <2> QED  BY <2>1, <2>2 DEF Found
<1>3. /\ Fits("authority", d.sender, d, ds) /\ Fits("mint", d.mint, d, ds)
      /\ Fits("token_program", WellKnown("token"), d, ds)
      /\ Fits("metadata_program", WellKnown("token_metadata"), d, ds)
      /\ Fits("system_program", WellKnown("system"), d, ds)
      /\ Fits("rent", WellKnown("rent"), d, ds)
  BY <1>1, FixedFit
<1>4. /\ Fits("fee_config", c["feeConfig"], d, ds) /\ Fits("vault", c["vault"], d, ds)
      /\ Fits("metadata", c["metadata"], d, ds)
      /\ Fits("token_registry", c["tokenRegistry"], d, ds)
      /\ Fits("token_id_guard", c["tokenIDGuard"], d, ds)
  BY <1>1, <1>2, DerivedFit
<1>5. \A i \in DOMAIN RegisterMintBurnTokenAccounts :
        Fits(RegisterMintBurnTokenAccounts[i][1], keys[i], d, ds)
  <2>1. DOMAIN RegisterMintBurnTokenAccounts = 1..11  BY DEF RegisterMintBurnTokenAccounts
  <2> QED  BY <1>3, <1>4, <2>1 DEF RegisterMintBurnTokenAccounts
<1> HIDE DEF keys
<1>6. AllFit(NewInstruction(d.program, RegisterMintBurnTokenAccounts, keys), d, ds)
  BY <1>5, ConstructorFits
<1> QED  BY <1>6 DEF RegisterTokenMintBurn, keys

LEMMA UpdateFeeConfigFits ==
  ASSUME NEW c, NEW d, NEW ds, Found(c, d, ds), d.kind = "update_fee_config"
  PROVE  AllFit(UpdateFeeConfig(c, d), d, ds)
<1> DEFINE keys == <<d.sender, c["feeConfig"], d.newTreasury>>
<1>1. d \in ds /\ d.token \in Tokens(d)  BY DEF Found
<1>2. /\ FieldOK("feeConfig", c["feeConfig"], ds)
  <2>1. OptionsOf(d.kind) = UpdateFeeConfigOptions  BY DEF OptionsOf, Transfers
  <2>2. {"feeConfig"} \subseteq ToSet(UpdateFeeConfigOptions)
    BY DEF ToSet, UpdateFeeConfigOptions
  <2> QED  BY <2>1, <2>2 DEF Found
<1>3. /\ Fits("authority", d.sender, d, ds) /\ Fits("new_treasury", d.newTreasury, d, ds)
  BY <1>1, FixedFit
<1>4. /\ Fits("fee_config", c["feeConfig"], d, ds)
  BY <1>1, <1>2, DerivedFit
<1>5. \A i \in DOMAIN UpdateFeeConfigAccounts :
        Fits(UpdateFeeConfigAccounts[i][1], keys[i], d, ds)
  <2>1. DOMAIN UpdateFeeConfigAccounts = 1..3  BY DEF UpdateFeeConfigAccounts
  <2> QED  BY <1>3, <1>4, <2>1 DEF UpdateFeeConfigAccounts
<1> HIDE DEF keys
<1>6. AllFit(NewInstruction(d.program, UpdateFeeConfigAccounts, keys), d, ds)
  BY <1>5, ConstructorFits
<1> QED  BY <1>6 DEF UpdateFeeConfig, keys

LEMMA UpdateProgramVersionFits ==
  ASSUME NEW c, NEW d, NEW ds, Found(c, d, ds), d.kind = "update_program_version"
  PROVE  AllFit(UpdateProgramVersion(c, d), d, ds)
<1> DEFINE keys == <<d.sender, c["programConfig"]>>
<1>1. d \in ds /\ d.token \in Tokens(d)  BY DEF Found
<1>2. /\ FieldOK("programConfig", c["programConfig"], ds)
  <2>1. OptionsOf(d.kind) = UpdateProgramVersionOptions  BY DEF OptionsOf, Transfers
  <2>2. {"programConfig"} \subseteq ToSet(UpdateProgramVersionOptions)
    BY DEF ToSet, UpdateProgramVersionOptions
  <2> QED  BY <2>1, <2>2 DEF Found
<1>3. /\ Fits("authority", d.sender, d, ds)
  BY <1>1, FixedFit
<1>4. /\ Fits("program_config", c["programConfig"], d, ds)
  BY <1>1, <1>2, DerivedFit
<1>5. \A i \in DOMAIN UpdateProgramVersionAccounts :
        Fits(UpdateProgramVersionAccounts[i][1], keys[i], d, ds)
  <2>1. DOMAIN UpdateProgramVersionAccounts = 1..2  BY DEF UpdateProgramVersionAccounts
  <2> QED  BY <1>3, <1>4, <2>1 DEF UpdateProgramVersionAccounts
<1> HIDE DEF keys
<1>6. AllFit(NewInstruction(d.program, UpdateProgramVersionAccounts, keys), d, ds)
  BY <1>5, ConstructorFits
<1> QED  BY <1>6 DEF UpdateProgramVersion, keys

LEMMA UpdateMinBridgingAmountFits ==
  ASSUME NEW c, NEW d, NEW ds, Found(c, d, ds), d.kind = "update_min_bridging_amount"
  PROVE  AllFit(UpdateMinBridgingAmount(c, d), d, ds)
<1> DEFINE keys == <<d.sender, c["feeConfig"], c["tokenRegistry"]>>
<1>1. d \in ds /\ d.token \in Tokens(d)  BY DEF Found
<1>2. /\ FieldOK("feeConfig", c["feeConfig"], ds)
      /\ FieldOK("tokenRegistry", c["tokenRegistry"], ds)
  <2>1. OptionsOf(d.kind) = UpdateMinBridgingAmountOptions  BY DEF OptionsOf, Transfers
  <2>2. {"feeConfig", "tokenRegistry"} \subseteq ToSet(UpdateMinBridgingAmountOptions)
    BY DEF ToSet, UpdateMinBridgingAmountOptions
  <2> QED  BY <2>1, <2>2 DEF Found
<1>3. /\ Fits("authority", d.sender, d, ds)
  BY <1>1, FixedFit
<1>4. /\ Fits("fee_config", c["feeConfig"], d, ds)
      /\ Fits("token_registry", c["tokenRegistry"], d, ds)
  BY <1>1, <1>2, DerivedFit
<1>5. \A i \in DOMAIN UpdateMinBridgingAmountAccounts :
        Fits(UpdateMinBridgingAmountAccounts[i][1], keys[i], d, ds)
  <2>1. DOMAIN UpdateMinBridgingAmountAccounts = 1..3  BY DEF UpdateMinBridgingAmountAccounts
  <2> QED  BY <1>3, <1>4, <2>1 DEF UpdateMinBridgingAmountAccounts
<1> HIDE DEF keys
<1>6. AllFit(NewInstruction(d.program, UpdateMinBridgingAmountAccounts, keys), d, ds)
  BY <1>5, ConstructorFits
<1> QED  BY <1>6 DEF UpdateMinBridgingAmount, keys

(* Transfers read nothing of the configuration.                            *)
LEMMA TransferFits ==
  ASSUME NEW d, NEW ds, d \in ds, d.token \in Tokens(d), d.kind # "bridge_request"
  PROVE  AllFit(SOLTransfer(d), d, ds) /\ AllFit(SPLTransfer(d), d, ds) /\ AllFit(CreateAta(d), d, ds)
<1>1. MintFor(d) = d.mint  BY DEF MintFor
<1>2. /\ Fits("signer", d.sender, d, ds) /\ Fits("receiver", d.receiver, d, ds)
      /\ Fits("signers_ata", Ata(d.sender, d.mint), d, ds) /\ Fits("mint", d.mint, d, ds)
      /\ Fits("receiver_ata", Ata(d.receiver, d.mint), d, ds)
  BY <1>1, FixedFit
<1>3. AllFit(SOLTransfer(d), d, ds)
  <2> DEFINE accounts == << <<"signer", {"w", "s"}>>, <<"receiver", {"w"}>> >>
             keys == <<d.sender, d.receiver>>
  <2>1. DOMAIN accounts = 1..2 /\ \A i \in 1..2 : Fits(accounts[i][1], keys[i], d, ds)
    BY <1>2
  <2> HIDE DEF accounts, keys
  <2>2. AllFit(NewInstruction(WellKnown("system"), accounts, keys), d, ds)
    BY <2>1, ConstructorFits
  <2> QED  BY <2>2 DEF SOLTransfer, accounts, keys
<1>4. AllFit(SPLTransfer(d), d, ds)
  <2> DEFINE accounts == << <<"signers_ata", {"w"}>>, <<"receiver_ata", {"w"}>>, <<"signer", {"s"}>> >>
             keys == <<Ata(d.sender, d.mint), Ata(d.receiver, d.mint), d.sender>>
  <2>1. DOMAIN accounts = 1..3 /\ \A i \in 1..3 : Fits(accounts[i][1], keys[i], d, ds)
    BY <1>2
  <2> HIDE DEF accounts, keys
  <2>2. AllFit(NewInstruction(WellKnown("token"), accounts, keys), d, ds)
    BY <2>1, ConstructorFits
  <2> QED  BY <2>2 DEF SPLTransfer, accounts, keys
<1>5. AllFit(CreateAta(d), d, ds)
  <2> DEFINE accounts == << <<"signer", {"w", "s"}>>, <<"receiver_ata", {"w"}>>,
                            <<"receiver", {}>>, <<"mint", {}>> >>
             keys == <<d.sender, Ata(d.receiver, d.mint), d.receiver, d.mint>>
  <2>1. DOMAIN accounts = 1..4 /\ \A i \in 1..4 : Fits(accounts[i][1], keys[i], d, ds)
    BY <1>2
  <2> HIDE DEF accounts, keys
  <2>2. AllFit(NewInstruction(WellKnown("ata_program"), accounts, keys), d, ds)
    BY <2>1, ConstructorFits
  <2> QED  BY <2>2 DEF CreateAta, accounts, keys
<1> QED  BY <1>3, <1>4, <1>5

(* The nine fixed accounts of a batch.                                     *)
LEMMA BridgeFits ==
  ASSUME NEW c, NEW d, NEW ds, Found(c, d, ds), d.kind = "bridge_transaction"
  PROVE  \A i \in 1..9 : Fits(BridgeTransactionAccounts[i][1], BridgeKeys(c, d)[i], d, ds)
<1>1. d \in ds /\ d.token \in Tokens(d)  BY DEF Found
<1>2. /\ FieldOK("validatorSet", c["validatorSet"], ds) /\ FieldOK("vault", c["vault"], ds)
      /\ FieldOK("eventAuthority", c["eventAuthority"], ds)
  <2>1. OptionsOf(d.kind) = BridgeTransactionOptions  BY DEF OptionsOf, Transfers
  <2>2. {"validatorSet", "vault", "eventAuthority"} \subseteq ToSet(BridgeTransactionOptions)
    BY DEF ToSet, BridgeTransactionOptions
  <2> QED  BY <2>1, <2>2 DEF Found
<1>3. /\ Fits("payer", d.sender, d, ds) /\ Fits("token_program", WellKnown("token"), d, ds)
      /\ Fits("system_program", WellKnown("system"), d, ds)
      /\ Fits("associated_token_program", WellKnown("ata_program"), d, ds)
      /\ Fits("instructions", WellKnown("instructions_sysvar"), d, ds)
      /\ Fits("program", d.program, d, ds)
  BY <1>1, FixedFit
<1>4. /\ Fits("validator_set", c["validatorSet"], d, ds) /\ Fits("vault", c["vault"], d, ds)
      /\ Fits("event_authority", c["eventAuthority"], d, ds)
  BY <1>1, <1>2, DerivedFit
<1> QED  BY <1>3, <1>4 DEF BridgeTransactionAccounts, BridgeKeys

(* Every instruction but the batch's.                                      *)
LEMMA InstructionFits ==
  ASSUME NEW c, NEW d, NEW ds, Found(c, d, ds), d.kind \in Kinds,
         d.kind \notin {"bridge_transaction", "alt_addresses"}
  PROVE  AllFit(Instruction(c, d), d, ds)
<1> DEFINE ix == Instruction(c, d)
<1>1. CASE d.kind = "bridge_request"
  <2>1. ix = BridgingRequest(c, d)  BY <1>1 DEF Instruction
  <2> QED  BY <1>1, <2>1, BridgingRequestFits
<1>2. CASE d.kind = "bridge_vsu"
  <2>1. ix = BridgeVSU(c, d)  BY <1>2 DEF Instruction
  <2> QED  BY <1>2, <2>1, BridgeVSUFits
<1>3. CASE d.kind = "hot_wallet_increment"
  <2>1. ix = HotWalletIncrement(c, d)  BY <1>3 DEF Instruction
  <2> QED  BY <1>3, <2>1, HotWalletIncrementFits
<1>4. CASE d.kind = "bridge_initialize"
  <2>1. ix = Initialize(c, d)  BY <1>4 DEF Instruction
  <2> QED  BY <1>4, <2>1, InitializeFits
<1>5. CASE d.kind = "register_tokens_lock_unlock"
  <2>1. ix = RegisterTokenLockUnlock(c, d)  BY <1>5 DEF Instruction
  <2> QED  BY <1>5, <2>1, RegisterTokenLockUnlockFits
<1>6. CASE d.kind = "register_tokens_mint_burn"
  <2>1. ix = RegisterTokenMintBurn(c, d)  BY <1>6 DEF Instruction
  <2> QED  BY <1>6, <2>1, RegisterTokenMintBurnFits
<1>7. CASE d.kind = "update_fee_config"
  <2>1. ix = UpdateFeeConfig(c, d)  BY <1>7 DEF Instruction
  <2> QED  BY <1>7, <2>1, UpdateFeeConfigFits
<1>8. CASE d.kind = "update_program_version"
  <2>1. ix = UpdateProgramVersion(c, d)  BY <1>8 DEF Instruction
  <2> QED  BY <1>8, <2>1, UpdateProgramVersionFits
<1>9. CASE d.kind = "update_min_bridging_amount"
  <2>1. ix = UpdateMinBridgingAmount(c, d)  BY <1>9 DEF Instruction
  <2> QED  BY <1>9, <2>1, UpdateMinBridgingAmountFits
<1>10. CASE d.kind \in Transfers
  <2>1. ix \in {SOLTransfer(d), SPLTransfer(d), CreateAta(d)} /\ d.kind # "bridge_request"
    BY <1>10 DEF Instruction, Transfers
  <2>2. d \in ds /\ d.token \in Tokens(d)  BY DEF Found
  <2> HIDE DEF ix
  <2> QED  BY <2>1, <2>2, TransferFits DEF ix
<1> HIDE DEF ix
<1>11. AllFit(ix, d, ds)
  BY <1>1, <1>2, <1>3, <1>4, <1>5, <1>6, <1>7, <1>8, <1>9, <1>10 DEF Kinds, ix
<1> QED  BY <1>11 DEF ix

(* Every account of every built transaction is the one its role asks for,  *)
(* derived for the program, the token and the mint of the call or of calls *)
(* that ran beside it; what an earlier call left in the configuration of   *)
(* the sender never shows (tx_sender.go:412, :441).                        *)
THEOREM AccountsOwn == Spec => []OwnAccounts
<1>1. SenderInv => OwnAccounts
  <2> SUFFICES ASSUME SenderInv, NEW s \in Callers, BuiltTx(s),
                      NEW ix \in ToSet(call[s].out.instructions), NEW i \in DOMAIN ix.accounts,
                      call[s].dto.kind = "bridge_transaction" => i <= Len(BridgeTransactionAccounts)
               PROVE  \E x \in Mixed(s) :
                        ix.accounts[i].key = Wanted(ix.accounts[i].role, call[s].dto, x)
    BY DEF OwnAccounts
  <2> DEFINE d == call[s].dto  ds == Near(s)  ixs == call[s].out.instructions
  <2>1. Mixed(s) = MixedOf(ds)  BY DEF Mixed, MixedOf, Near
  <2> SUFFICES Fits(ix.accounts[i].role, ix.accounts[i].key, d, ds)
    BY <2>1 DEF Fits
  <2>2. d.kind # "alt_addresses" /\ BuiltOK(call[s], ds) /\ call[s].pc = "built"
    BY DEF BuiltTx, SenderInv, BuiltAll
  <2>3. d \in Dtos /\ d \in ds /\ d.token \in Tokens(d)  BY <2>2 DEF BuiltOK, Near, Tokens
  <2>4. d.kind \in Kinds /\ d.receivers \in Seq(ToSet(d.receivers))  BY <2>3, DtosAssumption
  <2>5. CASE d.kind = "bridge_transaction"
    <3>1. BuiltBatch(s)  BY <2>2, <2>5 DEF BuiltBatch
    <3>2. PICK c, signers, n : BatchOf(s, c, signers, n)  BY <3>1, BuiltBatchForm
    <3>3. /\ \A f \in ToSet(BridgeTransactionOptions) : FieldOK(f, c[f], ds)
          /\ n \in 2..3 /\ DOMAIN ixs = 1..n
          /\ ixs[n] = BridgeInstruction(c, d)
          /\ ixs[n - 1] = BuildBatchedEd25519(signers, d.payload)
          /\ n = 3 => ixs[1] = SetComputeUnitLimit(MaxReceiversUnits)
      BY <3>2 DEF BatchOf, BatchTx
    <3>4. Found(c, d, ds)
      <4>1. OptionsOf(d.kind) = BridgeTransactionOptions  BY <2>5 DEF OptionsOf, Transfers
      <4> QED  BY <2>3, <3>3, <4>1 DEF Found
    <3> HIDE DEF d, ds, ixs
    <3>5. \A j \in 1..9 : Fits(BridgeTransactionAccounts[j][1], BridgeKeys(c, d)[j], d, ds)
      BY <2>5, <3>4, BridgeFits
    <3>6. PICK k \in 1..n : ix = ixs[k]  BY <3>3 DEF ToSet, ixs
    <3>7. CASE k = n
      <4>1. ix = BridgeInstruction(c, d)  BY <3>3, <3>6, <3>7
      <4>2. BridgeLaid(BridgeInstruction(c, d), c, d)  BY <2>4, BridgeForm
      <4>3. BridgeLaid(ix, c, d)  BY <4>1, <4>2
      <4>4. ix.accounts \in Seq(ToSet(ix.accounts))  BY <4>3 DEF BridgeLaid
      <4>5. i \in 1..9
        <5>1. Len(BridgeTransactionAccounts) = 9  BY DEF BridgeTransactionAccounts
        <5>2. i <= 9  BY <2>5, <5>1 DEF d
        <5>3. i \in Nat /\ i >= 1  BY <4>4
        <5> QED  BY <5>2, <5>3
      <4>6. ix.accounts[i] = [key   |-> BridgeKeys(c, d)[i],
                              role  |-> BridgeTransactionAccounts[i][1],
                              flags |-> BridgeTransactionAccounts[i][2]]
        BY <4>3, <4>5 DEF BridgeLaid
      <4>7. /\ ix.accounts[i].key = BridgeKeys(c, d)[i]
            /\ ix.accounts[i].role = BridgeTransactionAccounts[i][1]
        BY <4>6
      <4> QED  BY <3>5, <4>5, <4>7
    <3>8. CASE k # n
      <4>1. k = n - 1 \/ (n = 3 /\ k = 1)  BY <3>3, <3>8
      <4>2. \/ ix = BuildBatchedEd25519(signers, d.payload)
            \/ ix = SetComputeUnitLimit(MaxReceiversUnits)
        BY <3>3, <3>6, <4>1
      <4>3. /\ BuildBatchedEd25519(signers, d.payload).accounts = << >>
            /\ SetComputeUnitLimit(MaxReceiversUnits).accounts = << >>
        BY DEF BuildBatchedEd25519, SetComputeUnitLimit
      <4>4. ix.accounts = << >>  BY <4>2, <4>3
      <4> QED  BY <4>4
    <3> QED  BY <3>7, <3>8
  <2>6. CASE d.kind # "bridge_transaction"
    <3>1. PICK c : /\ \A f \in ToSet(OptionsOf(d.kind)) : FieldOK(f, c[f], ds)
                   /\ MadeOf(c, d, call[s].out)
      BY <2>2 DEF BuiltOK
    <3>2. Found(c, d, ds)  BY <2>3, <3>1 DEF Found
    <3>3. call[s].out = CreateTx(d.kind, <<Instruction(c, d)>>, d.tables)
      BY <2>2, <2>6, <3>1 DEF MadeOf
    <3>4. ixs = <<Instruction(c, d)>>
      <4>1. ~UsesV1Message(d.kind)  BY <2>6 DEF UsesV1Message
      <4>2. CreateTx(d.kind, <<Instruction(c, d)>>, d.tables).instructions = <<Instruction(c, d)>>
        BY <4>1 DEF CreateTx
      <4> QED  BY <3>3, <4>2
    <3> HIDE DEF d, ds
    <3>5. AllFit(Instruction(c, d), d, ds)  BY <2>2, <2>4, <2>6, <3>2, InstructionFits
    <3>6. ix = Instruction(c, d)  BY <3>4 DEF ToSet
    <3> QED  BY <3>5, <3>6 DEF AllFit
  <2> QED  BY <2>5, <2>6
<1> QED  BY <1>1, SenderInvariant, PTL

-----------------------------------------------------------------------------
(* The keys proposed for a lookup table.                                   *)

LEMMA FrontForm ==
  ASSUME NEW d
  PROVE  LET f == FrontKeys(d)
         IN /\ f \in Seq(ToSet(f)) /\ IsInjective(f)
            /\ \A x \in ToSet(f) : \/ x[1] = "known"
                                   \/ x[1] = "pda" /\ x[2] \in {"validatorSet", "vault"}
<1> DEFINE f == FrontKeys(d)
<1>1. /\ DOMAIN f = 1..6 /\ f = [i \in 1..6 |-> f[i]]
      /\ f[1] = Pda("validatorSet", d.program) /\ f[2] = Pda("vault", d.program)
      /\ f[3] = WellKnown("token") /\ f[4] = WellKnown("system")
      /\ f[5] = WellKnown("ata_program") /\ f[6] = WellKnown("instructions_sysvar")
  BY DEF FrontKeys
<1> HIDE DEF f
<1>2. /\ f[1][1] = "pda" /\ f[2][1] = "pda" /\ f[3][1] = "known" /\ f[4][1] = "known"
      /\ f[5][1] = "known" /\ f[6][1] = "known"
      /\ f[1][2] = "validatorSet" /\ f[2][2] = "vault" /\ f[3][2] = "token"
      /\ f[4][2] = "system" /\ f[5][2] = "ata_program" /\ f[6][2] = "instructions_sysvar"
  BY <1>1 DEF Pda, WellKnown
<1>3. \A i \in 1..6 : i = 1 \/ i = 2 \/ i = 3 \/ i = 4 \/ i = 5 \/ i = 6  OBVIOUS
<1>4. \A i, j \in 1..6 : f[i][2] = f[j][2] => i = j  BY <1>2, <1>3
<1>5. IsInjective(f)  BY <1>1, <1>4 DEF IsInjective
<1>6. f \in Seq(ToSet(f))  BY <1>1, ListOf
<1>7. \A x \in ToSet(f) : x[1] = "known" \/ (x[1] = "pda" /\ x[2] \in {"validatorSet", "vault"})
  BY <1>1, <1>2, <1>3 DEF ToSet
<1> QED  BY <1>5, <1>6, <1>7 DEF f

(* The keys a batch names for one of its mints, with the token that        *)
(* brought the mint in.                                                    *)
Paid(r, mint, token, program) ==
  CASE r = 1 -> mint
    [] r = 2 -> TokenPda("tokenRegistry", token, program)
    [] r = 3 -> Ata(Pda("vault", program), mint)

PaidKeys(program, receivers) ==
  LET m == DeriveMints(program, receivers)
  IN {Paid(r, m.mints[k], m.tokens[k], program) : r \in 1..3, k \in DOMAIN m.mints}

(* A batch looks up the six keys and three for each mint, and no other.    *)
LEMMA LookupExact ==
  ASSUME NEW d, {"program", "receivers"} \subseteq DOMAIN d, NEW R, NEW receivers \in Seq(R)
  PROVE  LookupKeys(d, receivers) = ToSet(FrontKeys(d)) \cup PaidKeys(d.program, receivers)
<1> DEFINE c == ApplyOptions(NewInstructionConfig, BridgeTransactionOptions, d)
           b == [d EXCEPT !.receivers = receivers]
           as == BridgeInstruction(c, b).accounts
           m == DeriveMints(b.program, b.receivers)
           rest == RemainingAccounts(c, b)
           nm == Len(m.mints)
           nr == Len(b.receivers)
           n == 3 * nm + 2 * nr
           F == FrontKeys(d)
           static == {"recipient", "recipient_ata", "program", "event_authority"}
           Held(a) == "s" \notin a.flags /\ a.role \notin static
           keys == {as[i].key : i \in {j \in DOMAIN as : Held(as[j])}}
           P(r, k) == Paid(r, m.mints[k], m.tokens[k], d.program)
           K == {P(r, k) : r \in 1..3, k \in DOMAIN m.mints}
<1>1. b.program = d.program /\ b.receivers = receivers  OBVIOUS
<1>2. /\ c["validatorSet"] = Pda("validatorSet", d.program)
      /\ c["vault"] = Pda("vault", d.program)
  BY BatchConfig
<1>3. BridgeLaid(BridgeInstruction(c, b), c, b)
  <2> HIDE DEF b, c
  <2> QED  BY <1>1, BridgeForm
<1>4. RemainingLaid(rest, m, c, b, nm, nr)
  <2> HIDE DEF b, c
  <2> QED  BY <1>1, RemainingForm
<1>5. LookupKeys(d, receivers) = keys  BY DEF LookupKeys
<1>6. PaidKeys(d.program, receivers) = K
  BY <1>1 DEF PaidKeys
<1>7. /\ nm \in Nat /\ nr \in Nat /\ DOMAIN m.mints = 1..nm
      /\ DOMAIN as = 1..(9 + n)
      /\ \A i \in 1..9 : as[i] = [key   |-> BridgeKeys(c, b)[i],
                                  role  |-> BridgeTransactionAccounts[i][1],
                                  flags |-> BridgeTransactionAccounts[i][2]]
      /\ \A i \in 1..n : as[9 + i] = rest[i]
  <2> HIDE DEF b, c, as, m, nm, nr, rest
  <2>1. nm \in Nat /\ nr \in Nat /\ DOMAIN m.mints = 1..nm /\ Len(rest) = n
    BY <1>4 DEF RemainingLaid
  <2>2. /\ as \in Seq(ToSet(as)) /\ Len(as) = 9 + Len(rest)
        /\ \A i \in 1..9 : as[i] = [key   |-> BridgeKeys(c, b)[i],
                                    role  |-> BridgeTransactionAccounts[i][1],
                                    flags |-> BridgeTransactionAccounts[i][2]]
        /\ \A i \in 1..Len(rest) : as[9 + i] = rest[i]
    BY <1>3 DEF BridgeLaid, as, rest
  <2> HIDE DEF n
  <2>3. DOMAIN as = 1..(9 + n)  BY <2>1, <2>2
  <2> QED  BY <2>1, <2>2, <2>3
<1>8. ASSUME NEW i \in 1..9
      PROVE  /\ as[i].key = BridgeKeys(c, b)[i]
             /\ as[i].role = BridgeTransactionAccounts[i][1]
             /\ as[i].flags = BridgeTransactionAccounts[i][2]
  <2> HIDE DEF b, c, as, m, nm, nr, rest, n
  <2>1. as[i] = [key   |-> BridgeKeys(c, b)[i],
                 role  |-> BridgeTransactionAccounts[i][1],
                 flags |-> BridgeTransactionAccounts[i][2]]
    BY <1>7
  <2> QED  BY <2>1
<1>9. ASSUME NEW k \in 1..nm
      PROVE  /\ Held(rest[k]) /\ rest[k].key = P(1, k)
             /\ Held(rest[nm + nr + k]) /\ rest[nm + nr + k].key = P(2, k)
             /\ Held(rest[2 * nm + 2 * nr + k]) /\ rest[2 * nm + 2 * nr + k].key = P(3, k)
  <2> HIDE DEF b, c, as, m, nm, nr, rest, n
  <2>1. /\ rest[k] = Remaining(m.mints[k], "mint", {"w"})
        /\ rest[nm + nr + k] =
             Remaining(TokenPda("tokenRegistry", m.tokens[k], b.program), "registry", {})
        /\ rest[2 * nm + 2 * nr + k] =
             Remaining(Ata(c["vault"], m.mints[k]), "vault_ata", {"w"})
    BY <1>4, <1>9 DEF RemainingLaid
  <2>2. /\ P(1, k) = m.mints[k]
        /\ P(2, k) = TokenPda("tokenRegistry", m.tokens[k], d.program)
        /\ P(3, k) = Ata(Pda("vault", d.program), m.mints[k])
    BY DEF Paid
  <2>3. /\ rest[k] = Remaining(P(1, k), "mint", {"w"})
        /\ rest[nm + nr + k] = Remaining(P(2, k), "registry", {})
        /\ rest[2 * nm + 2 * nr + k] = Remaining(P(3, k), "vault_ata", {"w"})
    BY <1>1, <1>2, <2>1, <2>2
  <2> HIDE DEF P
  <2>4. Held(rest[k]) /\ rest[k].key = P(1, k)  BY <2>3 DEF Remaining
  <2>5. Held(rest[nm + nr + k]) /\ rest[nm + nr + k].key = P(2, k)  BY <2>3 DEF Remaining
  <2>6. Held(rest[2 * nm + 2 * nr + k]) /\ rest[2 * nm + 2 * nr + k].key = P(3, k)
    BY <2>3 DEF Remaining
  <2> QED  BY <2>4, <2>5, <2>6
<1>10. ASSUME NEW i \in 1..nr
       PROVE  /\ rest[nm + i].role = "recipient"
              /\ rest[2 * nm + nr + i].role = "recipient_ata"
  <2> HIDE DEF b, c, as, m, nm, nr, rest, n
  <2>1. /\ rest[nm + i] = Remaining(b.receivers[i].wallet, "recipient", {})
        /\ rest[2 * nm + nr + i] =
             Remaining(Ata(b.receivers[i].wallet, m.mints[m.index[i]]), "recipient_ata", {"w"})
    BY <1>4, <1>10 DEF RemainingLaid
  <2> QED  BY <2>1 DEF Remaining
<1>11. /\ ~Held(as[1]) /\ ~Held(as[8]) /\ ~Held(as[9])
       /\ \A i \in 2..7 : Held(as[i])
  <2> HIDE DEF b, c, as, m, nm, nr, rest, n
  <2>1. ~Held(as[1]) /\ ~Held(as[8]) /\ ~Held(as[9])
    <3>1. /\ as[1].flags = BridgeTransactionAccounts[1][2]
          /\ as[8].role = BridgeTransactionAccounts[8][1]
          /\ as[9].role = BridgeTransactionAccounts[9][1]
      <4>1. 1 \in 1..9 /\ 8 \in 1..9 /\ 9 \in 1..9  OBVIOUS
      <4> QED  BY <1>8, <4>1
    <3>2. /\ "s" \in BridgeTransactionAccounts[1][2]
          /\ BridgeTransactionAccounts[8][1] = "event_authority"
          /\ BridgeTransactionAccounts[9][1] = "program"
      BY DEF BridgeTransactionAccounts
    <3> QED  BY <3>1, <3>2
  <2>2. ASSUME NEW i \in 2..7 PROVE Held(as[i])
    <3>1. i \in 1..9  OBVIOUS
    <3>2. "s" \notin BridgeTransactionAccounts[i][2] /\ BridgeTransactionAccounts[i][1] \notin static
      BY DEF BridgeTransactionAccounts
    <3> QED  BY <1>8, <3>1, <3>2
  <2> QED  BY <2>1, <2>2
<1>12. DOMAIN F = 1..6 /\ \A i \in 2..7 : as[i].key = F[i - 1]
  <2>1. DOMAIN F = 1..6  BY DEF FrontKeys
  <2> HIDE DEF b, c, as, m, nm, nr, rest, n
  <2>2. ASSUME NEW i \in 2..7 PROVE as[i].key = F[i - 1]
    <3>1. BridgeKeys(c, b)[i] = F[i - 1]  BY <1>2 DEF BridgeKeys, FrontKeys
    <3>2. i \in 1..9  OBVIOUS
    <3> QED  BY <1>8, <3>1, <3>2
  <2> QED  BY <2>1, <2>2
<1>13. nm \in Nat /\ nr \in Nat  BY <1>7
<1> HIDE DEF b, c, as, m, nm, nr, rest, F, Held, P, K
<1>14. ASSUME NEW i \in DOMAIN as, Held(as[i])
       PROVE  as[i].key \in ToSet(F) \cup K
  <2>1. CASE i \in 1..9
    <3>1. i # 1 /\ i # 8 /\ i # 9  BY <1>11, <1>14
    <3>2. i \in 2..7 /\ i - 1 \in 1..6  BY <2>1, <3>1
    <3>3. F[i - 1] \in ToSet(F)  BY <1>12, <3>2 DEF ToSet
    <3> QED  BY <1>12, <3>2, <3>3
  <2>2. CASE i \notin 1..9
    <3> DEFINE p == i - 9
    <3>1. p \in 1..n /\ as[i] = rest[p]
      <4>1. p \in 1..n /\ 9 + p = i  BY <1>7, <2>2
      <4> HIDE DEF p, n
      <4> QED  BY <1>7, <4>1
    <3>2. \/ p \in 1..nm
          \/ p - nm \in 1..nr
          \/ p - nm - nr \in 1..nm
          \/ p - 2 * nm - nr \in 1..nr
          \/ p - 2 * nm - 2 * nr \in 1..nm
      <4>1. p \in 1..n  BY <3>1
      <4> HIDE DEF p
      <4> QED  BY <1>13, <4>1
    <3>3. p - nm \notin 1..nr
      <4> SUFFICES ASSUME p - nm \in 1..nr PROVE FALSE
        OBVIOUS
      <4> DEFINE k == p - nm
      <4>1. k \in 1..nr /\ nm + k = p  BY <1>7
      <4> HIDE DEF k, p, n
      <4>2. as[i].role = "recipient"  BY <1>10, <3>1, <4>1
      <4> QED  BY <1>14, <4>2 DEF Held
    <3>4. p - 2 * nm - nr \notin 1..nr
      <4> SUFFICES ASSUME p - 2 * nm - nr \in 1..nr PROVE FALSE
        OBVIOUS
      <4> DEFINE k == p - 2 * nm - nr
      <4>1. k \in 1..nr /\ 2 * nm + nr + k = p  BY <1>7
      <4> HIDE DEF k, p, n
      <4>2. as[i].role = "recipient_ata"  BY <1>10, <3>1, <4>1
      <4> QED  BY <1>14, <4>2 DEF Held
    <3>5. \E r \in 1..3, k \in 1..nm : as[i].key = P(r, k)
      <4>1. CASE p \in 1..nm
        <5> HIDE DEF p, n
        <5>1. as[i].key = P(1, p)  BY <1>9, <3>1, <4>1
        <5> QED  BY <4>1, <5>1
      <4>2. CASE p - nm - nr \in 1..nm
        <5> DEFINE k == p - nm - nr
        <5>1. k \in 1..nm /\ nm + nr + k = p  BY <1>7, <4>2
        <5> HIDE DEF k, p, n
        <5>2. as[i].key = P(2, k)  BY <1>9, <3>1, <5>1
        <5> QED  BY <5>1, <5>2
      <4>3. CASE p - 2 * nm - 2 * nr \in 1..nm
        <5> DEFINE k == p - 2 * nm - 2 * nr
        <5>1. k \in 1..nm /\ 2 * nm + 2 * nr + k = p  BY <1>7, <4>3
        <5> HIDE DEF k, p, n
        <5>2. as[i].key = P(3, k)  BY <1>9, <3>1, <5>1
        <5> QED  BY <5>1, <5>2
      <4> QED  BY <3>2, <3>3, <3>4, <4>1, <4>2, <4>3
    <3>6. DOMAIN m.mints = 1..nm  BY <1>7
    <3>7. as[i].key \in K  BY <3>5, <3>6 DEF K
    <3> QED  BY <3>7
  <2> QED  BY <2>1, <2>2
<1>15. ToSet(F) \subseteq keys
  <2> SUFFICES ASSUME NEW x \in ToSet(F) PROVE x \in keys
    OBVIOUS
  <2>1. PICK j \in 1..6 : x = F[j]  BY <1>12 DEF ToSet
  <2> DEFINE i == j + 1
  <2>2. i \in 2..7 /\ i - 1 = j /\ i \in 1..(9 + n)  BY <1>13
  <2> HIDE DEF i, n
  <2>3. i \in DOMAIN as  BY <1>7, <2>2
  <2>4. Held(as[i])  BY <1>11, <2>2
  <2>5. as[i].key = x  BY <1>12, <2>1, <2>2
  <2> QED  BY <2>3, <2>4, <2>5
<1>16. ASSUME NEW r \in 1..3, NEW k \in DOMAIN m.mints PROVE P(r, k) \in keys
  <2>1. k \in 1..nm  BY <1>7
  <2>2. ASSUME NEW p \in 1..n, Held(rest[p]), rest[p].key = P(r, k)
        PROVE  P(r, k) \in keys
    <3> DEFINE i == 9 + p
    <3>1. i \in 1..(9 + n)  BY <1>13
    <3> HIDE DEF n
    <3>2. as[i] = rest[p] /\ i \in DOMAIN as  BY <1>7, <3>1
    <3>3. Held(as[i]) /\ as[i].key = P(r, k)  BY <2>2, <3>2
    <3> HIDE DEF i
    <3> QED  BY <3>2, <3>3
  <2>3. r = 1 \/ r = 2 \/ r = 3  OBVIOUS
  <2>4. k \in 1..n /\ nm + nr + k \in 1..n /\ 2 * nm + 2 * nr + k \in 1..n  BY <1>13, <2>1
  <2> HIDE DEF n
  <2>5. CASE r = 1  BY <1>9, <2>1, <2>2, <2>4, <2>5
  <2>6. CASE r = 2  BY <1>9, <2>1, <2>2, <2>4, <2>6
  <2>7. CASE r = 3  BY <1>9, <2>1, <2>2, <2>4, <2>7
  <2> QED  BY <2>3, <2>5, <2>6, <2>7
<1> HIDE DEF n
<1>17. K \subseteq keys
  <2> HIDE DEF keys
  <2> QED  BY <1>16 DEF K
<1>18. keys \subseteq ToSet(F) \cup K  BY <1>14
<1> HIDE DEF keys
<1> QED  BY <1>5, <1>6, <1>15, <1>17, <1>18 DEF F

(* The keys for its mints are those of its tokens; a batch that pays one   *)
(* token names all three of that token.                                    *)
LEMMA PaidTokens ==
  ASSUME NEW program, NEW R, NEW receivers \in Seq(R)
  PROVE  \A x \in PaidKeys(program, receivers) : \E r \in 1..3, i \in DOMAIN receivers :
           LET t == receivers[i].token IN x = Paid(r, MintOf(program, t), t, program)
<1> DEFINE m == DeriveMints(program, receivers)
<1>1. MintsDerived(m, program, receivers)  BY DerivedMints
<1> SUFFICES ASSUME NEW r \in 1..3, NEW k \in DOMAIN m.mints
             PROVE  \E i \in DOMAIN receivers :
                      LET t == receivers[i].token
                      IN Paid(r, m.mints[k], m.tokens[k], program) = Paid(r, MintOf(program, t), t, program)
  BY DEF PaidKeys
<1> HIDE DEF m
<1>2. PICK i \in DOMAIN receivers :
        /\ m.mints[k] = MintOf(program, receivers[i].token)
        /\ m.tokens[k] = receivers[i].token
  BY <1>1 DEF MintsDerived
<1> QED  BY <1>2

LEMMA PaidOne ==
  ASSUME NEW program, NEW t, NEW wallet, NEW r \in 1..3
  PROVE  Paid(r, MintOf(program, t), t, program)
           \in PaidKeys(program, <<[wallet |-> wallet, token |-> t]>>)
<1> DEFINE e == [wallet |-> wallet, token |-> t]
           receivers == <<e>>
           m == DeriveMints(program, receivers)
<1>1. e.token = t  OBVIOUS
<1> HIDE DEF e
<1>2. receivers \in Seq({e}) /\ DOMAIN receivers = {1} /\ receivers[1] = e  OBVIOUS
<1> HIDE DEF receivers
<1>3. MintsDerived(m, program, receivers)  BY <1>2, DerivedMints
<1> HIDE DEF m
<1>4. PICK k \in DOMAIN m.mints : m.mints[k] = MintOf(program, t)
  BY <1>1, <1>2, <1>3 DEF MintsDerived
<1>5. m.tokens[k] = t  BY <1>1, <1>2, <1>3 DEF MintsDerived
<1>6. Paid(r, m.mints[k], m.tokens[k], program) \in PaidKeys(program, receivers)
  BY DEF PaidKeys, m
<1> QED  BY <1>4, <1>5, <1>6 DEF receivers, e

(* A listed mint that is on chain is the account of a mint.                *)
LEMMA ListedMint ==
  ASSUME NEW d, FromChain(d), NEW t \in Listable(d)
  PROVE  /\ d.mints[t] = MintOf(d.program, t)
         /\ \E name : d.mints[t] = MintKey(name)
<1>1. d.mints[t] = MintOf(d.program, t) /\ d.mints[t] # NativeSolMint  BY DEF FromChain, Listable
<1>2. t \in DOMAIN Registered[d.program] /\ d.mints[t] = Registered[d.program][t]
  BY <1>1 DEF MintOf, NativeSolMint, ZeroKey
<1>3. d.program \in DOMAIN Registered  BY DEF FromChain
<1> QED  BY <1>1, <1>2, <1>3, RegistryAssumption

(* Keys of listed tokens: the same only in the same place, and then for    *)
(* the same token or the same mint.                                        *)
LEMMA ListedDiffer ==
  ASSUME NEW d, FromChain(d), NEW t \in Listable(d), NEW u \in Listable(d),
         NEW r \in 1..3, NEW k \in 1..3, Listed(r, t, d) = Listed(k, u, d)
  PROVE  r = k /\ (t = u \/ d.mints[t] = d.mints[u])
<1> DEFINE mt == d.mints[t]  mu == d.mints[u]
<1>1. PICK nt : mt = MintKey(nt)  BY ListedMint
<1>2. PICK nu : mu = MintKey(nu)  BY ListedMint
<1> HIDE DEF mt, mu
<1>4. /\ Listed(1, t, d) = mt /\ Listed(1, u, d) = mu
      /\ Listed(2, t, d) = TokenPda("tokenRegistry", t, d.program)
      /\ Listed(2, u, d) = TokenPda("tokenRegistry", u, d.program)
      /\ Listed(3, t, d) = Ata(Pda("vault", d.program), mt)
      /\ Listed(3, u, d) = Ata(Pda("vault", d.program), mu)
  BY DEF Listed, mt, mu
<1>5. /\ Listed(1, t, d)[1] = "mint" /\ Listed(1, u, d)[1] = "mint"
      /\ Listed(2, t, d)[1] = "pda" /\ Listed(2, u, d)[1] = "pda"
      /\ Listed(3, t, d)[1] = "ata" /\ Listed(3, u, d)[1] = "ata"
  BY <1>1, <1>2, <1>4 DEF MintKey, TokenPda, Ata
<1>6. (r = 1 \/ r = 2 \/ r = 3) /\ (k = 1 \/ k = 2 \/ k = 3)  OBVIOUS
<1>7. r = k  BY <1>5, <1>6
<1>8. CASE r = 1
  <2>1. mt = mu  BY <1>4, <1>7, <1>8
  <2> QED  BY <1>7, <2>1 DEF mt, mu
<1>9. CASE r = 2
  <2>1. TokenPda("tokenRegistry", t, d.program)[3] = TokenPda("tokenRegistry", u, d.program)[3]
    BY <1>4, <1>7, <1>9
  <2> QED  BY <1>7, <2>1 DEF TokenPda
<1>10. CASE r = 3
  <2>1. Ata(Pda("vault", d.program), mt)[3] = Ata(Pda("vault", d.program), mu)[3]
    BY <1>4, <1>7, <1>10
  <2>2. mt = mu  BY <2>1 DEF Ata
  <2> QED  BY <1>7, <2>2 DEF mt, mu
<1> QED  BY <1>6, <1>8, <1>9, <1>10

(* What stands where in a listing.                                         *)
Place(j, r) == 6 + 3 * (j - 1) + r

ListingLaid(w, d, n) ==
  /\ DOMAIN w = 1..(6 + 3 * n)
  /\ \A i \in 1..6 : i \in DOMAIN w /\ w[i] = FrontKeys(d)[i]
  /\ \A j \in 1..n, r \in 1..3 :
       Place(j, r) \in DOMAIN w /\ w[Place(j, r)] = Listed(r, ALTTokens(d)[j], d)
  /\ \A i \in DOMAIN w : i \in 1..6 \/ \E j \in 1..n, r \in 1..3 : i = Place(j, r)

LEMMA WrittenAt ==
  ASSUME NEW d, NEW n \in Nat
  PROVE  ListingLaid(Written(d, n), d, n)
<1> DEFINE w == Written(d, n)
           last == 6 + 3 * n
           J(i) == ((i - 7) \div 3) + 1
           R(i) == ((i - 7) % 3) + 1
<1>1. /\ DOMAIN w = 1..last
      /\ \A i \in 1..last : w[i] = IF i <= 6 THEN FrontKeys(d)[i]
                                   ELSE Listed(R(i), ALTTokens(d)[J(i)], d)
  BY DEF Written
<1> HIDE DEF w
<1>2. ASSUME NEW i \in 1..6 PROVE i \in DOMAIN w /\ w[i] = FrontKeys(d)[i]
  <2>1. i \in 1..last /\ i <= 6  OBVIOUS
  <2> HIDE DEF last, J, R
  <2> QED  BY <1>1, <2>1
<1>3. ASSUME NEW j \in 1..n, NEW r \in 1..3, NEW i, i = Place(j, r)
      PROVE  i \in DOMAIN w /\ w[i] = Listed(r, ALTTokens(d)[j], d)
  <2>1. i \in 7..last /\ J(i) = j /\ R(i) = r  BY <1>3, PlaceEntry DEF Place
  <2>2. i \in 1..last /\ ~(i <= 6)  BY <2>1
  <2> HIDE DEF last, J, R
  <2> QED  BY <1>1, <2>1, <2>2
<1>4. ASSUME NEW i \in DOMAIN w, i \notin 1..6
      PROVE  \E j \in 1..n, r \in 1..3 : i = Place(j, r)
  <2>1. i \in 7..last  BY <1>1, <1>4
  <2>2. J(i) \in 1..n /\ R(i) \in 1..3 /\ i = Place(J(i), R(i))  BY <2>1, EntryPlace DEF Place
  <2> HIDE DEF J, R
  <2> QED  BY <2>2
<1>5. ListingLaid(w, d, n)  BY <1>1, <1>2, <1>3, <1>4 DEF ListingLaid
<1> QED  BY <1>5 DEF w

(* A whole listing, and when it repeats a key.                             *)
LEMMA ListingSet ==
  ASSUME NEW d \in Dtos, d.kind = "alt_addresses"
  PROVE  ToSet(Written(d, Len(ALTTokens(d)))) =
           ToSet(FrontKeys(d)) \cup {Listed(r, t, d) : r \in 1..3, t \in Listable(d)}
<1> DEFINE q == ALTTokens(d)
           n == Len(q)
           w == Written(d, n)
           K == {Listed(r, t, d) : r \in 1..3, t \in Listable(d)}
<1>1. n \in Nat /\ DOMAIN q = 1..n /\ ToSet(q) = Listable(d)  BY ListedTokens
<1> HIDE DEF n
<1>2. /\ \A i \in 1..6 : i \in DOMAIN w /\ w[i] = FrontKeys(d)[i]
      /\ \A j \in 1..n, r \in 1..3 : Place(j, r) \in DOMAIN w /\ w[Place(j, r)] = Listed(r, q[j], d)
      /\ \A i \in DOMAIN w : i \in 1..6 \/ \E j \in 1..n, r \in 1..3 : i = Place(j, r)
  <2>1. ListingLaid(w, d, n)  BY <1>1, WrittenAt
  <2> HIDE DEF w
  <2> QED  BY <2>1 DEF ListingLaid
<1>3. DOMAIN FrontKeys(d) = 1..6  BY DEF FrontKeys
<1>4. /\ \A j \in 1..n : q[j] \in Listable(d)
      /\ \A t \in Listable(d) : \E j \in 1..n : t = q[j]
  BY <1>1 DEF ToSet
<1> HIDE DEF w, q
<1>5. ToSet(w) \subseteq ToSet(FrontKeys(d)) \cup K
  <2> SUFFICES ASSUME NEW i \in DOMAIN w PROVE w[i] \in ToSet(FrontKeys(d)) \cup K
    BY DEF ToSet
  <2>1. CASE i \in 1..6  BY <1>2, <1>3, <2>1 DEF ToSet
  <2>2. CASE i \notin 1..6
    <3>1. PICK j \in 1..n, r \in 1..3 : i = Place(j, r)  BY <1>2, <2>2
    <3>2. w[i] = Listed(r, q[j], d) /\ q[j] \in Listable(d)  BY <1>2, <1>4, <3>1
    <3> QED  BY <3>2
  <2> QED  BY <2>1, <2>2
<1>6. ToSet(FrontKeys(d)) \subseteq ToSet(w)  BY <1>2, <1>3 DEF ToSet
<1>7. ASSUME NEW r \in 1..3, NEW t \in Listable(d) PROVE Listed(r, t, d) \in ToSet(w)
  <2>1. PICK j \in 1..n : t = q[j]  BY <1>4
  <2>2. Place(j, r) \in DOMAIN w /\ w[Place(j, r)] = Listed(r, t, d)  BY <1>2, <2>1
  <2> QED  BY <2>2 DEF ToSet
<1> QED  BY <1>5, <1>6, <1>7 DEF w, n, q

LEMMA ListingRepeats ==
  ASSUME NEW d \in Dtos, d.kind = "alt_addresses", FromChain(d)
  PROVE  IsInjective(Written(d, Len(ALTTokens(d)))) <=>
           \A t, u \in Listable(d) : d.mints[t] = d.mints[u] => t = u
<1> DEFINE q == ALTTokens(d)
           n == Len(q)
           w == Written(d, n)
           F == FrontKeys(d)
<1>1. /\ n \in Nat /\ DOMAIN q = 1..n /\ ToSet(q) = Listable(d)
      /\ \A k, l \in DOMAIN q : q[k] = q[l] => k = l
  BY ListedTokens
<1> HIDE DEF n
<1>2. /\ \A i \in 1..6 : i \in DOMAIN w /\ w[i] = F[i]
      /\ \A j \in 1..n, r \in 1..3 : Place(j, r) \in DOMAIN w /\ w[Place(j, r)] = Listed(r, q[j], d)
      /\ \A i \in DOMAIN w : i \in 1..6 \/ \E j \in 1..n, r \in 1..3 : i = Place(j, r)
  <2>1. ListingLaid(w, d, n)  BY <1>1, WrittenAt
  <2> HIDE DEF w, F, q
  <2> QED  BY <2>1 DEF ListingLaid, F, q
<1>3. /\ \A j \in 1..n : q[j] \in Listable(d)
      /\ \A t \in Listable(d) : \E j \in 1..n : t = q[j]
  BY <1>1 DEF ToSet
<1>4. DOMAIN F = 1..6  BY DEF FrontKeys
<1>5. /\ IsInjective(F)
      /\ \A x \in ToSet(F) : x[1] = "known" \/ (x[1] = "pda" /\ x[2] \in {"validatorSet", "vault"})
  BY FrontForm
<1> HIDE DEF w, q, F
<1>6. ASSUME IsInjective(w), NEW t \in Listable(d), NEW u \in Listable(d), d.mints[t] = d.mints[u]
      PROVE  t = u
  <2>1. PICK k \in 1..n : t = q[k]  BY <1>3
  <2>2. PICK l \in 1..n : u = q[l]  BY <1>3
  <2>3. Listed(1, t, d) = Listed(1, u, d)  BY <1>6 DEF Listed
  <2>4. /\ Place(k, 1) \in DOMAIN w /\ Place(l, 1) \in DOMAIN w
        /\ w[Place(k, 1)] = Listed(1, t, d) /\ w[Place(l, 1)] = Listed(1, u, d)
    <3>1. 1 \in 1..3  OBVIOUS
    <3> QED  BY <1>2, <2>1, <2>2, <3>1
  <2>5. Place(k, 1) = Place(l, 1)
    <3> QED  BY <1>6, <2>3, <2>4 DEF IsInjective
  <2>6. k = l  BY <1>1, <2>5 DEF Place
  <2> QED  BY <2>1, <2>2, <2>6
<1>7. ASSUME NEW i \in 1..6, NEW j \in 1..n, NEW r \in 1..3 PROVE F[i] # Listed(r, q[j], d)
  <2> DEFINE t == q[j]
  <2>1. t \in Listable(d)  BY <1>3
  <2> HIDE DEF t
  <2>2. PICK name : d.mints[t] = MintKey(name)  BY <2>1, ListedMint
  <2>3. r = 1 \/ r = 2 \/ r = 3  OBVIOUS
  <2>4. /\ Listed(1, t, d)[1] = "mint"
        /\ Listed(2, t, d)[1] = "pda" /\ Listed(2, t, d)[2] = "tokenRegistry"
        /\ Listed(3, t, d)[1] = "ata"
    BY <2>2 DEF Listed, MintKey, TokenPda, Ata
  <2>5. F[i] \in ToSet(F)  BY <1>4 DEF ToSet
  <2>6. F[i] # Listed(r, t, d)  BY <1>5, <2>3, <2>4, <2>5
  <2> QED  BY <2>6 DEF t
<1>8. ASSUME \A t, u \in Listable(d) : d.mints[t] = d.mints[u] => t = u,
             NEW i \in DOMAIN w, NEW l \in DOMAIN w, w[i] = w[l]
      PROVE  i = l
  <2>1. CASE i \in 1..6 /\ l \in 1..6  BY <1>2, <1>4, <1>5, <1>8, <2>1 DEF IsInjective
  <2>2. CASE i \in 1..6 /\ l \notin 1..6
    <3>1. PICK j \in 1..n, r \in 1..3 : l = Place(j, r)  BY <1>2, <2>2
    <3> QED  BY <1>2, <1>7, <1>8, <2>2, <3>1
  <2>3. CASE i \notin 1..6 /\ l \in 1..6
    <3>1. PICK j \in 1..n, r \in 1..3 : i = Place(j, r)  BY <1>2, <2>3
    <3> QED  BY <1>2, <1>7, <1>8, <2>3, <3>1
  <2>4. CASE i \notin 1..6 /\ l \notin 1..6
    <3>1. PICK j \in 1..n, r \in 1..3 : i = Place(j, r)  BY <1>2, <2>4
    <3>2. PICK k \in 1..n, p \in 1..3 : l = Place(k, p)  BY <1>2, <2>4
    <3>3. Listed(r, q[j], d) = Listed(p, q[k], d)  BY <1>2, <1>8, <3>1, <3>2
    <3>4. q[j] \in Listable(d) /\ q[k] \in Listable(d)  BY <1>3
    <3>5. r = p /\ (q[j] = q[k] \/ d.mints[q[j]] = d.mints[q[k]])
      BY <3>3, <3>4, ListedDiffer
    <3>6. q[j] = q[k]  BY <1>8, <3>4, <3>5
    <3>7. j = k  BY <1>1, <3>6
    <3> QED  BY <3>1, <3>2, <3>5, <3>7
  <2> QED  BY <2>1, <2>2, <2>3, <2>4
<1>9. (\A t, u \in Listable(d) : d.mints[t] = d.mints[u] => t = u) => IsInjective(w)
  BY <1>8 DEF IsInjective
<1>10. IsInjective(w) <=> \A t, u \in Listable(d) : d.mints[t] = d.mints[u] => t = u
  BY <1>6, <1>9
<1> QED  BY <1>10 DEF w, n, q

(* Given what the chain has for its tokens, a listing that no other call   *)
(* ran beside proposes only keys that batches over these tokens look up,   *)
(* leaves out none that any such batch does, and names a key twice exactly *)
(* when two of the tokens have one mint (alt.go:13-28,                     *)
(* alt_test.go:105-128).                                                   *)
THEOREM ListingExact == Spec => []ALTAddressesUsed
<1>1. SenderInv => ALTAddressesUsed
  <2> SUFFICES ASSUME SenderInv, NEW s \in Callers, call[s].pc = "built",
                      call[s].dto.kind = "alt_addresses", overlap[s] = {},
                      FromChain(call[s].dto)
               PROVE  LET d == call[s].dto
                          out == call[s].out
                          tokens == Listable(d)
                          Paying(t) == <<[wallet |-> Wallet("r"), token |-> t]>>
                      IN /\ ToSet(out) \subseteq LookupKeys(d, << >>)
                                                 \cup UNION {LookupKeys(d, Paying(t)) : t \in tokens}
                         /\ \A b \in Dtos :
                              (/\ b.kind = "bridge_transaction" /\ b.program = d.program
                               /\ \A r \in ToSet(b.receivers) : r.token \in tokens) =>
                                LookupKeys(b, b.receivers) \subseteq ToSet(out)
                         /\ IsInjective(out) <=>
                              \A t, u \in tokens : d.mints[t] = d.mints[u] => t = u
    BY DEF ALTAddressesUsed, Listable
  <2> DEFINE d == call[s].dto
             out == call[s].out
             tokens == Listable(d)
             Paying(t) == <<[wallet |-> Wallet("r"), token |-> t]>>
             F == ToSet(FrontKeys(d))
             K == {Listed(r, t, d) : r \in 1..3, t \in tokens}
  <2>1. d \in Dtos /\ d.kind = "alt_addresses" /\ FromChain(d)
    BY DEF SenderInv, BuiltAll, BuiltOK
  <2>2. out = Written(d, Len(ALTTokens(d)))  BY DEF SenderInv, Listings, ListingOK
  <2> HIDE DEF d, out
  <2>3. ToSet(out) = F \cup K  BY <2>1, <2>2, ListingSet
  <2>4. \A b \in Dtos : \A R : \A receivers \in Seq(R) :
          LookupKeys(b, receivers) = ToSet(FrontKeys(b)) \cup PaidKeys(b.program, receivers)
    BY DtosAssumption, LookupExact
  <2>5. ASSUME NEW r \in 1..3, NEW t \in tokens
        PROVE  Listed(r, t, d) = Paid(r, MintOf(d.program, t), t, d.program)
    <3>1. d.mints[t] = MintOf(d.program, t)  BY <2>1, ListedMint
    <3> QED  BY <3>1 DEF Listed, Paid
  <2> HIDE DEF tokens
  <2>6. ToSet(out) \subseteq LookupKeys(d, << >>) \cup UNION {LookupKeys(d, Paying(t)) : t \in tokens}
    <3>1. F \subseteq LookupKeys(d, << >>)
      <4>1. << >> \in Seq({})  OBVIOUS
      <4> QED  BY <2>1, <2>4, <4>1
    <3>2. ASSUME NEW r \in 1..3, NEW t \in tokens PROVE Listed(r, t, d) \in LookupKeys(d, Paying(t))
      <4>1. Paid(r, MintOf(d.program, t), t, d.program) \in PaidKeys(d.program, Paying(t))
        BY PaidOne
      <4>2. Paying(t) \in Seq(ToSet(Paying(t)))
        <5> DEFINE e == [wallet |-> Wallet("r"), token |-> t]
        <5>1. Paying(t) = <<e>>  OBVIOUS
        <5> HIDE DEF e
        <5>2. <<e>> \in Seq(ToSet(<<e>>))  BY DEF ToSet
        <5> QED  BY <5>1, <5>2
      <4> HIDE DEF Paying
      <4>3. LookupKeys(d, Paying(t)) = F \cup PaidKeys(d.program, Paying(t))
        BY <2>1, <2>4, <4>2
      <4> QED  BY <2>5, <4>1, <4>3
    <3> HIDE DEF F, Paying
    <3>3. K \subseteq UNION {LookupKeys(d, Paying(t)) : t \in tokens}  BY <3>2
    <3> QED  BY <2>3, <3>1, <3>3
  <2>7. ASSUME NEW b \in Dtos, b.program = d.program,
               \A r \in ToSet(b.receivers) : r.token \in tokens
        PROVE  LookupKeys(b, b.receivers) \subseteq ToSet(out)
    <3>1. b.receivers \in Seq(ToSet(b.receivers))  BY DtosAssumption
    <3>2. LookupKeys(b, b.receivers) = ToSet(FrontKeys(b)) \cup PaidKeys(b.program, b.receivers)
      BY <2>4, <3>1
    <3>3. ToSet(FrontKeys(b)) = F  BY <2>7 DEF FrontKeys
    <3>4. ASSUME NEW x \in PaidKeys(b.program, b.receivers) PROVE x \in K
      <4>1. PICK r \in 1..3, i \in DOMAIN b.receivers :
              LET t == b.receivers[i].token IN x = Paid(r, MintOf(b.program, t), t, b.program)
        BY <3>1, PaidTokens
      <4> DEFINE t == b.receivers[i].token
      <4>2. t \in tokens  BY <2>7 DEF ToSet
      <4>3. x = Paid(r, MintOf(d.program, t), t, d.program)  BY <2>7, <4>1
      <4> HIDE DEF t
      <4>4. x = Listed(r, t, d)  BY <2>5, <4>2, <4>3
      <4> QED  BY <4>2, <4>4
    <3> HIDE DEF F, K
    <3> QED  BY <2>3, <3>2, <3>3, <3>4
  <2>8. IsInjective(out) <=> \A t, u \in tokens : d.mints[t] = d.mints[u] => t = u
    BY <2>1, <2>2, ListingRepeats DEF tokens
  <2> HIDE DEF Paying
  <2>9. \A b \in Dtos :
          (/\ b.kind = "bridge_transaction" /\ b.program = d.program
           /\ \A r \in ToSet(b.receivers) : r.token \in tokens) =>
            LookupKeys(b, b.receivers) \subseteq ToSet(out)
    BY <2>7
  <2> QED  BY <2>6, <2>8, <2>9 DEF d, out, tokens, Paying
<1> QED  BY <1>1, SenderInvariant, PTL
=============================================================================
