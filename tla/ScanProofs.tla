----------------------------- MODULE ScanProofs -----------------------------
(***************************************************************************)
(* The safety of a scan, proved for every set of addresses, every chain    *)
(* and every size of batch.                                                *)
(***************************************************************************)
EXTENDS Scan, FiniteSetTheorems, TLAPS

-----------------------------------------------------------------------------
(* Sorting *)

\* A finite set of numbers has an increasing enumeration, and Sorted is one
\* that leaves nobody out: the place of each is how many are not above it.
LEMMA SortedSorts ==
  ASSUME NEW S \in SUBSET Nat, IsFiniteSet(S)
  PROVE  /\ Cardinality(S) \in Nat
         /\ Sorted(S) \in [1 .. Cardinality(S) -> S]
         /\ ToSet(Sorted(S)) = S
         /\ \A j, k \in 1 .. Cardinality(S) : j < k => Sorted(S)[j] < Sorted(S)[k]
  <1> DEFINE n == Cardinality(S)
             Below(x) == {y \in S : y <= x}
             rank == [x \in S |-> Cardinality(Below(x))]
             Rises(s) == \A j, k \in 1 .. n : j < k => s[j] < s[k]
  <1>1. n \in Nat
    BY FS_CardinalityType
  <1>2. IsFiniteSet(1 .. n) /\ Cardinality(1 .. n) = n
    BY <1>1, FS_Interval
  <1>3. \A x \in S : IsFiniteSet(Below(x)) /\ Cardinality(Below(x)) \in 1 .. n
    <2>1. SUFFICES ASSUME NEW x \in S
                   PROVE  IsFiniteSet(Below(x)) /\ Cardinality(Below(x)) \in 1 .. n
      OBVIOUS
    <2>2. IsFiniteSet(Below(x)) /\ Cardinality(Below(x)) <= n
      <3>1. Below(x) \in SUBSET S
        OBVIOUS
      <3>2. QED
        BY <3>1, FS_Subset
    <2>3. Cardinality(Below(x)) \in Nat
      BY <2>2, FS_CardinalityType
    <2>4. Cardinality(Below(x)) # 0
      <3>1. x \in Below(x)
        OBVIOUS
      <3>2. QED
        BY <2>2, <3>1, FS_EmptySet
    <2>5. QED
      BY <1>1, <2>2, <2>3, <2>4
  <1>4. \A x, z \in S : x < z => rank[x] < rank[z]
    <2>1. SUFFICES ASSUME NEW x \in S, NEW z \in S, x < z
                   PROVE  Cardinality(Below(x)) < Cardinality(Below(z))
      OBVIOUS
    <2>2. Below(x) \in SUBSET Below(z)
      <3>1. \A y \in S : y <= x => y <= z
        BY <2>1
      <3>2. QED
        BY <3>1
    <2>3. Below(x) # Below(z)
      <3>1. z \in Below(z) /\ z \notin Below(x)
        BY <2>1
      <3>2. QED
        BY <3>1
    <2>4. Cardinality(Below(x)) <= Cardinality(Below(z)) /\ Cardinality(Below(x)) # Cardinality(Below(z))
      BY <1>3, <2>2, <2>3, FS_Subset
    <2>5. QED
      BY <1>3, <2>4
  <1>5. rank \in Surjection(S, 1 .. n)
    <2>1. rank \in [S -> 1 .. n]
      BY <1>3
    <2>2. \A x, z \in S : rank[x] = rank[z] => x = z
      <3>1. SUFFICES ASSUME NEW x \in S, NEW z \in S, rank[x] = rank[z]
                     PROVE  x = z
        OBVIOUS
      <3>2. x \in Nat /\ z \in Nat /\ rank[x] \in Nat /\ rank[z] \in Nat
        BY <1>1, <2>1
      <3>3. ~(x < z) /\ ~(z < x)
        BY <1>4, <3>1, <3>2
      <3>4. QED
        BY <3>2, <3>3
    <2>3. rank \in Injection(S, 1 .. n)
      BY <2>1, <2>2 DEF Injection, IsInjective
    <2>4. QED
      BY <1>2, <2>3, FS_Injection
  <1>6. \E s \in [1 .. n -> S] : Rises(s)
    <2> DEFINE s == [j \in 1 .. n |-> CHOOSE x \in S : rank[x] = j]
    <2> HIDE DEF rank
    <2>1. \A j \in 1 .. n : s[j] \in S /\ rank[s[j]] = j
      <3>1. \A j \in 1 .. n : \E x \in S : rank[x] = j
        BY <1>5 DEF Surjection
      <3>2. QED
        BY <3>1
    <2>2. s \in [1 .. n -> S]
      BY <2>1
    <2> HIDE DEF s
    <2>3. Rises(s)
      <3>1. SUFFICES ASSUME NEW j \in 1 .. n, NEW k \in 1 .. n, j < k
                     PROVE  s[j] < s[k]
        OBVIOUS
      <3>2. s[j] \in Nat /\ s[k] \in Nat /\ j \in Nat /\ k \in Nat
        <4>1. s[j] \in S /\ s[k] \in S
          BY <2>1
        <4>2. \A x \in S : x \in Nat
          OBVIOUS
        <4>3. j \in Nat /\ k \in Nat
          BY <1>1
        <4>4. QED
          BY <4>1, <4>2, <4>3
      <3>3. s[j] # s[k] /\ ~(s[k] < s[j])
        BY <1>4, <2>1, <3>1, <3>2
      <3>4. QED
        BY <3>2, <3>3
    <2>4. QED
      BY <2>2, <2>3
  <1>7. Sorted(S) \in [1 .. n -> S] /\ Rises(Sorted(S))
    BY <1>6 DEF Sorted
  <1>8. ToSet(Sorted(S)) = S
    <2> DEFINE t == Sorted(S)
    <2>1. t \in [1 .. n -> S] /\ Rises(t)
      BY <1>7
    <2> HIDE DEF t
    <2>2. \A j, k \in 1 .. n : t[j] = t[k] => j = k
      <3>1. SUFFICES ASSUME NEW j \in 1 .. n, NEW k \in 1 .. n, t[j] = t[k]
                     PROVE  j = k
        OBVIOUS
      <3>2. j \in Nat /\ k \in Nat /\ t[j] \in Nat /\ t[k] \in Nat
        <4>1. t[j] \in S /\ t[k] \in S
          BY <2>1
        <4>2. \A x \in S : x \in Nat
          OBVIOUS
        <4>3. j \in Nat /\ k \in Nat
          BY <1>1
        <4>4. QED
          BY <4>1, <4>2, <4>3
      <3>3. ~(j < k) /\ ~(k < j)
        BY <2>1, <3>1, <3>2
      <3>4. QED
        BY <3>2, <3>3
    <2>3. t \in Injection(1 .. n, S)
      BY <2>1, <2>2 DEF Injection, IsInjective
    <2>4. t \in Surjection(1 .. n, S)
      BY <1>2, <2>3, FS_Injection
    <2>5. ToSet(t) = S
      BY <2>1, <2>4 DEF Surjection, ToSet
    <2>6. QED
      BY <2>5 DEF t
  <1>9. QED
    BY <1>1, <1>7, <1>8

-----------------------------------------------------------------------------
(* The blocks of a range *)

\* Blocks come from finite sets, so a momentum holds finitely many.
LEMMA FewBlocks ==
  ASSUME NEW m \in 1 .. MaxHeight, history \in Histories
  PROVE  history[m] \subseteq Block /\ IsFiniteSet(history[m])
  <1> DEFINE Authors == Users \union Contracts
             Pairs == Authors \X Addresses
             f == [p \in Pairs |-> [by |-> p[1], to |-> p[2]]]
  <1>1. IsFiniteSet(Authors)
    BY ScanAssumption, FS_Union
  <1>2. IsFiniteSet(Addresses)
    <2>1. IsFiniteSet({Zero})
      BY FS_Singleton
    <2>2. QED
      BY <1>1, <2>1, FS_Union DEF Addresses
  <1>3. IsFiniteSet(Pairs)
    BY <1>1, <1>2, FS_Product
  <1>4. f \in Surjection(Pairs, Block)
    <2>1. f \in [Pairs -> Block]
      BY DEF Block
    <2>2. \A b \in Block : \E p \in Pairs : f[p] = b
      <3>1. SUFFICES ASSUME NEW b \in Block
                     PROVE  \E p \in Pairs : f[p] = b
        OBVIOUS
      <3>2. <<b.by, b.to>> \in Pairs /\ f[<<b.by, b.to>>] = b
        BY DEF Block
      <3>3. QED
        BY <3>2
    <2>3. QED
      BY <2>1, <2>2 DEF Surjection
  <1>5. IsFiniteSet(Block)
    BY <1>3, <1>4, FS_Surjection
  <1>6. history[m] \in SUBSET Block
    BY ScanAssumption
  <1>7. QED
    BY <1>5, <1>6, FS_Subset

\* So does any range the chain may reach.
LEMMA FewBlocksInRange ==
  ASSUME NEW from \in 1 .. MaxHeight, NEW to \in 0 .. MaxHeight, history \in Histories
  PROVE  IsFiniteSet(BlocksOf(from .. to))
  <1> DEFINE Of(m) == {m} \X history[m]
             f == [m \in from .. to |-> Of(m)]
             T == {Of(m) : m \in from .. to}
  <1>1. MaxHeight \in Nat
    BY ScanAssumption
  <1>2. \A m \in from .. to : m \in 1 .. MaxHeight
    BY <1>1
  <1>3. \A m \in from .. to : IsFiniteSet(Of(m))
    <2>1. SUFFICES ASSUME NEW m \in from .. to
                   PROVE  IsFiniteSet(Of(m))
      OBVIOUS
    <2>2. IsFiniteSet(history[m])
      BY <1>2, FewBlocks
    <2>3. IsFiniteSet({m})
      BY FS_Singleton
    <2>4. QED
      BY <2>2, <2>3, FS_Product
  <1>4. f \in Surjection(from .. to, T)
    BY DEF Surjection
  <1>5. IsFiniteSet(T)
    <2>1. IsFiniteSet(from .. to)
      BY <1>1, FS_Interval
    <2>2. QED
      BY <1>4, <2>1, FS_Surjection
  <1>6. \A U \in T : IsFiniteSet(U)
    BY <1>3
  <1>7. IsFiniteSet(UNION T)
    BY <1>5, <1>6, FS_UNION
  <1>8. QED
    BY <1>7 DEF BlocksOf

\* What a block of a range is.
LEMMA BlocksOfRange ==
  ASSUME NEW heights
  PROVE  \A p : p \in BlocksOf(heights) <=>
                  \E m \in heights : \E b \in history[m] : p = <<m, b>>
  BY DEF BlocksOf

\* A range and the one that follows it share no block, and make up the whole.
LEMMA RangesAdd ==
  ASSUME NEW from \in 1 .. MaxHeight, NEW mid \in from .. MaxHeight + 1, NEW to \in mid - 1 .. MaxHeight
  PROVE  /\ BlocksOf(from .. to) = BlocksOf(from .. mid - 1) \union BlocksOf(mid .. to)
         /\ BlocksOf(from .. mid - 1) \intersect BlocksOf(mid .. to) = {}
  <1>1. MaxHeight \in Nat
    BY ScanAssumption
  <1>2. from .. to = (from .. mid - 1) \union (mid .. to)
    BY <1>1
  <1>3. \A m \in from .. mid - 1 : m \notin mid .. to
    BY <1>1
  <1>4. BlocksOf(from .. to) = BlocksOf(from .. mid - 1) \union BlocksOf(mid .. to)
    BY <1>2 DEF BlocksOf
  <1>5. ASSUME NEW p \in BlocksOf(from .. mid - 1), p \in BlocksOf(mid .. to)
        PROVE  FALSE
    <2>1. PICK m \in from .. mid - 1 : \E b \in history[m] : p = <<m, b>>
      BY BlocksOfRange
    <2>2. PICK k \in mid .. to : \E b \in history[k] : p = <<k, b>>
      BY <1>5, BlocksOfRange
    <2>3. m = k
      BY <2>1, <2>2
    <2>4. QED
      BY <1>3, <2>3
  <1>6. QED
    BY <1>4, <1>5

LEMMA UsersInMeans ==
  ASSUME NEW blocks
  PROVE  \A u : u \in UsersIn(blocks) <=>
           u \notin Contracts \union {Zero} /\ \E p \in blocks : u \in Named(p[2])
  <1> DEFINE All == UNION {Named(p[2]) : p \in blocks}
  <1>1. \A u : u \in All <=> \E p \in blocks : u \in Named(p[2])
    OBVIOUS
  <1>2. UsersIn(blocks) = All \ (Contracts \union {Zero})
    BY DEF UsersIn
  <1> HIDE DEF All
  <1>3. QED
    BY <1>1, <1>2

\* The users in the blocks of a range are those who acted in it.
LEMMA UsersInAct ==
  ASSUME history \in Histories, NEW from \in 1 .. MaxHeight, NEW to \in 0 .. MaxHeight
  PROVE  UsersIn(BlocksOf(from .. to)) = Acting(from, to, asked.include)
  <1> DEFINE blocks == BlocksOf(from .. to)
  <1>1. \A u : u \in UsersIn(blocks) <=>
          u \notin Contracts \union {Zero} /\ \E p \in blocks : u \in Named(p[2])
    BY UsersInMeans
  <1>2. MaxHeight \in Nat /\ Users \intersect (Contracts \union {Zero}) = {}
    BY ScanAssumption DEF Zero
  <1>3. \A m \in from .. to : history[m] \subseteq Block
    BY <1>2, FewBlocks
  <1>4. \A u : u \in UsersIn(blocks) =>
          u \in Users /\ \E m \in from .. to : \E b \in history[m] : u \in Named(b)
    <2>1. SUFFICES ASSUME NEW u \in UsersIn(blocks)
                   PROVE  u \in Users /\ \E m \in from .. to : \E b \in history[m] : u \in Named(b)
      OBVIOUS
    <2>2. u \notin Contracts \union {Zero} /\ \E p \in blocks : u \in Named(p[2])
      BY <1>1
    <2>3. PICK p \in blocks : u \in Named(p[2])
      BY <2>2
    <2>4. PICK m \in from .. to : \E b \in history[m] : p = <<m, b>>
      BY BlocksOfRange
    <2>5. PICK b \in history[m] : p = <<m, b>>
      BY <2>4
    <2>6. u \in Named(b) /\ b \in Block
      BY <1>3, <2>3, <2>5
    <2>7. u \in Addresses
      BY <2>6 DEF Named, Block, Addresses
    <2>8. QED
      BY <2>2, <2>6, <2>7 DEF Addresses
  <1>5. \A u \in Users, m \in from .. to : \A b \in history[m] : u \in Named(b) => u \in UsersIn(blocks)
    <2>1. SUFFICES ASSUME NEW u \in Users, NEW m \in from .. to, NEW b \in history[m], u \in Named(b)
                   PROVE  u \in UsersIn(blocks)
      OBVIOUS
    <2>2. <<m, b>> \in blocks /\ <<m, b>>[2] = b
      BY BlocksOfRange
    <2>3. \E p \in blocks : u \in Named(p[2])
      BY <2>1, <2>2
    <2>4. QED
      BY <1>1, <1>2, <2>3
  <1>6. \A u, b : u \in Named(b) <=> (u = b.by \/ (asked.include /\ u = b.to))
    BY DEF Named
  <1>7. QED
    BY <1>4, <1>5, <1>6 DEF Acting

\* Who acted in a range acted in its beginning or in the rest.
LEMMA ActingAdds ==
  ASSUME NEW from \in 1 .. MaxHeight, NEW mid \in from .. MaxHeight + 1,
         NEW to \in mid - 1 .. MaxHeight, NEW include
  PROVE  Acting(from, to, include) = Acting(from, mid - 1, include) \union Acting(mid, to, include)
  <1>1. MaxHeight \in Nat
    BY ScanAssumption
  <1>2. from .. to = (from .. mid - 1) \union (mid .. to)
    BY <1>1
  <1>3. QED
    BY <1>2 DEF Acting

\* Those blocks of a set that an embedded contract authored.
Authored(blocks) == {p \in blocks : p[2].by \in Contracts}

\* They add up as a range grows.
LEMMA AuthoredAdds ==
  ASSUME history \in Histories, NEW from \in 1 .. MaxHeight, NEW mid \in from .. MaxHeight + 1,
         NEW to \in mid - 1 .. MaxHeight
  PROVE  /\ Cardinality(Authored(BlocksOf(mid .. to))) \in Nat
         /\ Cardinality(Authored(BlocksOf(from .. to))) =
              Cardinality(Authored(BlocksOf(from .. mid - 1))) + Cardinality(Authored(BlocksOf(mid .. to)))
  <1> DEFINE A == BlocksOf(from .. mid - 1)
             B == BlocksOf(mid .. to)
  <1>1. MaxHeight \in Nat
    BY ScanAssumption
  <1>2. IsFiniteSet(A)
    <2>1. mid - 1 \in 0 .. MaxHeight
      BY <1>1
    <2>2. QED
      BY <2>1, FewBlocksInRange
  <1>3. IsFiniteSet(B)
    <2>1. CASE mid \in 1 .. MaxHeight
      <3>1. to \in 0 .. MaxHeight
        BY <1>1
      <3>2. QED
        BY <2>1, <3>1, FewBlocksInRange
    <2>2. CASE mid \notin 1 .. MaxHeight
      <3>1. mid .. to = {}
        BY <1>1, <2>2
      <3>2. B = {}
        BY <3>1 DEF BlocksOf
      <3>3. QED
        BY <3>2, FS_EmptySet
    <2>3. QED
      BY <2>1, <2>2
  <1>4. IsFiniteSet(Authored(A)) /\ IsFiniteSet(Authored(B))
    <2>1. Authored(A) \in SUBSET A /\ Authored(B) \in SUBSET B
      BY DEF Authored
    <2>2. QED
      BY <1>2, <1>3, <2>1, FS_Subset
  <1>5. Cardinality(Authored(A)) \in Nat /\ Cardinality(Authored(B)) \in Nat
    BY <1>4, FS_CardinalityType
  <1>6. Authored(BlocksOf(from .. to)) = Authored(A) \union Authored(B)
    BY RangesAdd DEF Authored
  <1>7. Authored(A) \intersect Authored(B) = {}
    BY RangesAdd DEF Authored
  <1>8. Cardinality(Authored(A) \union Authored(B)) =
          Cardinality(Authored(A)) + Cardinality(Authored(B)) - 0
    BY <1>4, <1>7, FS_Union, FS_EmptySet
  <1>9. QED
    <2> HIDE DEF A, B
    <2>1. Cardinality(Authored(A) \union Authored(B)) = Cardinality(Authored(A)) + Cardinality(Authored(B))
      BY <1>5, <1>8
    <2>2. QED
      BY <1>5, <1>6, <2>1 DEF A, B

-----------------------------------------------------------------------------
(* A batch *)

\* What a call asks for lies in the range.
LEMMA CountFits ==
  ASSUME ScanInv, phase = "scan"
  PROVE  /\ Count \in Nat \ {0} /\ height + Count - 1 <= hi
         /\ lo \in 1 .. MaxHeight /\ hi \in lo .. MaxHeight /\ height \in lo .. hi
         /\ hi <= tip /\ MaxHeight \in Nat
  <1>1. MaxHeight \in Nat /\ LightBatch \in Nat \ {0} /\ DetailBatch \in Nat \ {0}
    BY ScanAssumption
  <1>2. Batch \in Nat \ {0}
    BY <1>1 DEF Batch
  <1>3. 1 <= lo /\ lo <= height /\ lo <= hi /\ hi <= tip /\ height <= hi
    BY DEF ScanInv, ScanSound
  <1>4. lo \in Int /\ hi \in Int /\ height \in Int /\ tip \in 1 .. MaxHeight
    BY <1>1 DEF ScanInv, TypeOK
  <1>5. lo \in 1 .. MaxHeight /\ hi \in lo .. MaxHeight /\ height \in lo .. hi
    BY <1>1, <1>3, <1>4
  <1>6. Count \in Nat \ {0} /\ height + Count - 1 <= hi
    BY <1>2, <1>3, <1>4 DEF Count
  <1>7. QED
    BY <1>1, <1>3, <1>5, <1>6

\* A batch, in full or short, keeps the invariant, if cutShort tells which.
LEMMA FoldKeeps ==
  ASSUME ScanInv, phase = "scan", NEW got \in 0 .. Count, Fold(got),
         cutShort' \in BOOLEAN, cutShort => cutShort', got < Count => cutShort'
  PROVE  ScanInv'
  <1> DEFINE blocks == BlocksOf(height .. height + got - 1)
  <1>1. /\ found' = found \union UsersIn(blocks)
        /\ totals' = [momentums |-> totals.momentums + got,
                      blocks |-> totals.blocks + Cardinality(blocks),
                      contracts |-> totals.contracts + ContractHits(blocks)]
        /\ height' = height + got
        /\ phase' = IF got = 0 \/ height' > hi THEN "found" ELSE "scan"
        /\ request' = IF phase' = "scan" THEN 1 - request ELSE 0
        /\ history' = history /\ tip' = tip /\ asked' = asked /\ lo' = lo /\ hi' = hi
        /\ recipients' = recipients /\ log' = log /\ outcome' = outcome
    BY DEF Fold
  <1>2. /\ Count \in Nat \ {0} /\ height + Count - 1 <= hi
        /\ lo \in 1 .. MaxHeight /\ hi \in lo .. MaxHeight /\ height \in lo .. hi
        /\ hi <= tip /\ MaxHeight \in Nat
    BY CountFits
  <1>3. got \in Nat /\ got <= Count
    BY <1>2
  <1>4. height + got \in height .. hi + 1 /\ height + got - 1 \in height - 1 .. MaxHeight
    BY <1>2, <1>3
  <1>5. history \in Histories
    BY DEF ScanInv, TypeOK
  <1>6. UsersIn(blocks) = Acting(height, height + got - 1, asked.include)
    <2>1. height \in 1 .. MaxHeight /\ height + got - 1 \in 0 .. MaxHeight
      BY <1>2, <1>4
    <2>2. QED
      BY <1>5, <2>1, UsersInAct
  <1>7. IsFiniteSet(blocks) /\ Cardinality(blocks) \in Nat
    <2>1. height \in 1 .. MaxHeight /\ height + got - 1 \in 0 .. MaxHeight
      BY <1>2, <1>4
    <2>2. IsFiniteSet(blocks)
      BY <1>5, <2>1, FewBlocksInRange
    <2>3. QED
      BY <2>2, FS_CardinalityType
  <1>8. found' = Acting(lo, height + got - 1, asked.include)
    <2>1. height \in lo .. MaxHeight + 1 /\ height + got - 1 \in height - 1 .. MaxHeight
      BY <1>2, <1>4
    <2>2. Acting(lo, height + got - 1, asked.include) =
            Acting(lo, height - 1, asked.include) \union Acting(height, height + got - 1, asked.include)
      BY <1>2, <2>1, ActingAdds
    <2>3. found = Acting(lo, height - 1, asked.include)
      BY DEF ScanInv, FoundWhatActed
    <2>4. QED
      BY <1>1, <1>6, <2>2, <2>3
  <1>9. (lo .. height - 1)' = lo .. height + got - 1
    BY <1>1, <1>2, <1>3
  <1>10. ContractHits(blocks) \in Nat
    <2> DEFINE P == {p \in blocks : p[2].by \in Contracts}
               Q == {p \in blocks : asked.include /\ p[2].to \in Contracts}
    <2>1. P \in SUBSET blocks /\ Q \in SUBSET blocks
      OBVIOUS
    <2>2. IsFiniteSet(P) /\ IsFiniteSet(Q)
      BY <1>7, <2>1, FS_Subset
    <2>3. Cardinality(P) \in Nat /\ Cardinality(Q) \in Nat
      BY <2>2, FS_CardinalityType
    <2>4. ContractHits(blocks) = Cardinality(P) + Cardinality(Q)
      BY DEF ContractHits
    <2>5. QED
      BY <2>3, <2>4
  <1>11. TypeOK'
    <2>1. totals' \in Totals
      <3>1. totals.momentums \in Nat /\ totals.blocks \in Nat /\ totals.contracts \in Nat
        BY DEF ScanInv, TypeOK, Totals
      <3>2. QED
        BY <1>1, <1>3, <1>7, <1>10, <3>1, SMTT(30) DEF Totals
    <2>2. found' \subseteq Users
      BY <1>8 DEF Acting
    <2>3. height' \in 0 .. MaxHeight + 1
      BY <1>1, <1>2, <1>4
    <2>4. request' \in {0, 1} /\ phase' \in {"idle", "scan", "found", "listed"}
      BY <1>1 DEF ScanInv, TypeOK
    <2>5. QED
      BY <1>1, <2>1, <2>2, <2>3, <2>4 DEF ScanInv, TypeOK
  <1>12. ScanSound'
    <2>1. phase' = "scan" => height' <= hi
      BY <1>1, <1>2, <1>4
    <2>2. phase' # "scan" /\ ~cutShort' => height' = hi + 1
      BY <1>1, <1>2, <1>3, <1>4
    <2>3. 1 <= lo /\ lo <= height' /\ lo <= hi /\ hi <= tip /\ height' <= hi + 1
      BY <1>1, <1>2, <1>4
    <2>4. QED
      BY <1>1, <2>1, <2>2, <2>3 DEF ScanSound
  <1>13. FoundWhatActed'
    <2>1. Acting(lo, height - 1, asked.include)' = Acting(lo, height + got - 1, asked.include)
      BY <1>1, <1>9 DEF Acting
    <2>2. totals'.momentums = height' - lo
      <3>1. totals.momentums = height - lo
        BY DEF ScanInv, FoundWhatActed
      <3>2. QED
        BY <1>1, <1>2, <1>3, <3>1
    <2>3. QED
      BY <1>1, <1>8, <2>1, <2>2 DEF FoundWhatActed
  <1>14. CountSound'
    <2>1. SUFFICES ASSUME ~asked.include
                   PROVE  totals'.contracts = Cardinality(Authored(BlocksOf(lo .. height - 1)))'
      BY <1>1 DEF CountSound, Authored
    <2>2. totals.contracts = Cardinality(Authored(BlocksOf(lo .. height - 1)))
      BY <2>1 DEF ScanInv, CountSound, Authored
    <2>3. ContractHits(blocks) = Cardinality(Authored(blocks))
      <3>1. {p \in blocks : asked.include /\ p[2].to \in Contracts} = {}
        BY <2>1
      <3>2. ContractHits(blocks) = Cardinality(Authored(blocks)) + Cardinality({})
        BY <3>1 DEF ContractHits, Authored
      <3>3. Cardinality(Authored(blocks)) \in Nat
        <4>1. Authored(blocks) \in SUBSET blocks
          BY DEF Authored
        <4>2. QED
          BY <1>7, <4>1, FS_Subset, FS_CardinalityType
      <3>4. QED
        BY <3>2, <3>3, FS_EmptySet
    <2>4. Cardinality(Authored(BlocksOf(lo .. height + got - 1))) =
            Cardinality(Authored(BlocksOf(lo .. height - 1))) + Cardinality(Authored(blocks))
      <3>1. height \in lo .. MaxHeight + 1
        BY <1>2
      <3>2. QED
        BY <1>2, <1>4, <1>5, <3>1, AuthoredAdds
    <2>5. Cardinality(Authored(BlocksOf(lo .. height - 1)))' =
            Cardinality(Authored(BlocksOf(lo .. height + got - 1)))
      BY <1>1, <1>9 DEF Authored, BlocksOf
    <2>6. QED
      BY <1>1, <2>2, <2>3, <2>4, <2>5
  <1>15. RangeAsAsked'
    BY <1>1 DEF ScanInv, RangeAsAsked
  <1>16. RecipientsSound' /\ VerifySound' /\ LoggedScanReproduces'
    BY <1>1 DEF ScanInv, RecipientsSound, VerifySound, LoggedScanReproduces
  <1>17. LogSound'
    BY <1>1 DEF ScanInv, LogSound, LogIsItsRange, Acting
  <1>18. QED
    BY <1>11, <1>12, <1>13, <1>14, <1>15, <1>16, <1>17 DEF ScanInv

-----------------------------------------------------------------------------
(* The other steps *)

\* A scan that begins has found nobody and counted nothing yet.
LEMMA BeginKeeps ==
  ASSUME ScanInv, NEW from \in 1 .. tip, NEW to \in from .. tip, BeginScan(from, to),
         history' = history, tip' = tip, recipients' = recipients, log' = log, cutShort' = cutShort,
         asked' \in Flags, RangeAsAsked',
         asked'.verify => log # NoLog /\ from = log.lo /\ to = log.hi /\ asked'.include = log.include
  PROVE  ScanInv'
  <1>1. /\ lo' = from /\ hi' = to /\ height' = from /\ request' = 0
        /\ found' = {} /\ totals' = NoTotals /\ phase' = "scan" /\ outcome' = "none"
    BY DEF BeginScan
  <1>2. /\ MaxHeight \in Nat /\ tip \in 1 .. MaxHeight
        /\ from \in 1 .. MaxHeight /\ to \in 1 .. MaxHeight /\ from <= to /\ to <= tip
    BY ScanAssumption DEF ScanInv, TypeOK
  <1>3. TypeOK'
    <2>1. NoTotals \in Totals
      BY DEF NoTotals, Totals
    <2>2. QED
      BY <1>1, <1>2, <2>1 DEF ScanInv, TypeOK
  <1>4. ScanSound'
    BY <1>1, <1>2 DEF ScanSound
  <1>5. (lo .. height - 1)' = {}
    BY <1>1, <1>2
  <1>6. FoundWhatActed'
    <2>1. Acting(lo, height - 1, asked.include)' = {}
      BY <1>5 DEF Acting
    <2>2. totals'.momentums = height' - lo'
      BY <1>1, <1>2 DEF NoTotals
    <2>3. QED
      BY <1>1, <2>1, <2>2 DEF FoundWhatActed
  <1>7. CountSound'
    <2>1. BlocksOf(lo .. height - 1)' = {}
      BY <1>5 DEF BlocksOf
    <2>2. {p \in BlocksOf(lo .. height - 1) : p[2].by \in Contracts}' = {}
      BY <2>1
    <2>3. totals'.contracts = 0
      BY <1>1 DEF NoTotals
    <2>4. QED
      BY <2>2, <2>3, FS_EmptySet DEF CountSound
  <1>8. RecipientsSound' /\ LoggedScanReproduces'
    BY <1>1 DEF RecipientsSound, LoggedScanReproduces
  <1>9. LogSound'
    BY DEF ScanInv, LogSound, LogIsItsRange, Acting
  <1>10. VerifySound'
    BY <1>1 DEF VerifySound
  <1>11. QED
    BY <1>3, <1>4, <1>6, <1>7, <1>8, <1>9, <1>10 DEF ScanInv

\* The range of a command is one the chain has reached, and the one asked for.
LEMMA ScanCommandKeeps ==
  ASSUME ScanInv, NEW f \in Flags, ScanCommand(f)
  PROVE  ScanInv'
  <1> DEFINE from == StartOf(f, tip)
             to == EndOf(f, tip)
  <1>1. /\ ~f.verify /\ Resolvable(f, tip) /\ BeginScan(from, to) /\ asked' = f
        /\ history' = history /\ tip' = tip /\ recipients' = recipients /\ log' = log /\ cutShort' = cutShort
    BY DEF ScanCommand
  <1>2. MaxHeight \in Nat /\ tip \in 1 .. MaxHeight
    BY ScanAssumption DEF ScanInv, TypeOK
  <1>3. f.from \in Nat /\ f.last \in Nat /\ f.to \in Nat
    BY <1>2 DEF Flags
  <1>4. to \in 1 .. tip /\ (f.to > 0 => to = f.to)
    BY <1>1, <1>2, <1>3 DEF Resolvable, EndOf
  <1>5. from <= to /\ (f.from > 0 \/ f.last > 0)
    BY <1>1 DEF Resolvable
  <1>6. /\ f.from > 0 => from = f.from
        /\ f.from = 0 => from = IF f.last >= to THEN 1 ELSE to - f.last + 1
    BY <1>3 DEF StartOf
  <1>7. from \in 1 .. tip /\ to \in from .. tip
    <2> HIDE DEF from, to
    <2>1. from \in Nat \ {0}
      BY <1>2, <1>3, <1>4, <1>5, <1>6
    <2>2. QED
      BY <1>2, <1>4, <1>5, <2>1
  <1>8. f.from = 0 => from .. to = {m \in 1 .. to : Cardinality(m .. to) <= f.last}
    <2> HIDE DEF from, to
    <2>1. SUFFICES ASSUME f.from = 0
                   PROVE  from .. to = {m \in 1 .. to : Cardinality(m .. to) <= f.last}
      OBVIOUS
    <2>2. \A m \in 1 .. to : Cardinality(m .. to) = to - m + 1
      BY <1>2, <1>4, FS_Interval
    <2>3. \A m \in 1 .. to : Cardinality(m .. to) <= f.last <=> m >= from
      BY <1>2, <1>3, <1>4, <1>5, <1>6, <2>1, <2>2
    <2>4. from .. to = {m \in 1 .. to : m >= from}
      BY <1>2, <1>4, <1>7
    <2>5. QED
      BY <2>3, <2>4
  <1>9. lo' = from /\ hi' = to
    BY <1>1 DEF BeginScan
  <1>10. RangeAsAsked'
    <2>1. 1 <= from /\ from <= to /\ to <= tip
      BY <1>2, <1>7
    <2>2. QED
      BY <1>1, <1>4, <1>6, <1>8, <1>9, <2>1 DEF RangeAsAsked
  <1>11. QED
    BY <1>1, <1>7, <1>10, BeginKeeps

LEMMA VerifyCommandKeeps ==
  ASSUME ScanInv, VerifyCommand
  PROVE  ScanInv'
  <1>1. /\ log # NoLog /\ BeginScan(log.lo, log.hi)
        /\ asked' = [NoFlags EXCEPT !.include = log.include, !.verify = TRUE]
        /\ history' = history /\ tip' = tip /\ recipients' = recipients /\ log' = log /\ cutShort' = cutShort
    BY DEF VerifyCommand
  <1>2. log.lo \in 1 .. MaxHeight /\ log.hi \in log.lo .. tip /\ log.include \in BOOLEAN
    BY <1>1 DEF ScanInv, LogSound
  <1>3. MaxHeight \in Nat /\ tip \in 1 .. MaxHeight
    BY ScanAssumption DEF ScanInv, TypeOK
  <1>4. log.lo \in 1 .. tip
    BY <1>2, <1>3
  <1>5. asked' \in Flags /\ asked'.verify /\ asked'.include = log.include
    <2>1. asked' = [from |-> 0, last |-> 0, to |-> 0,
                    include |-> log.include, excludeSelf |-> FALSE, verify |-> TRUE]
      BY <1>1 DEF NoFlags
    <2>2. 0 \in 0 .. MaxHeight + 1
      BY <1>3
    <2>3. QED
      BY <1>2, <2>1, <2>2 DEF Flags
  <1>6. RangeAsAsked'
    BY <1>5 DEF RangeAsAsked
  <1>7. QED
    BY <1>1, <1>2, <1>4, <1>5, <1>6, BeginKeeps

\* A command that leaves a sound log behind ends in a sound state.
LEMMA ExitKeeps ==
  ASSUME ScanInv, NEW how \in {"error", "empty", "listed", "reproduced", "different"}, Exit(how),
         cutShort' = cutShort, LogSound', log'.addresses \in Seq(Users),
         how = "different" => cutShort
  PROVE  ScanInv'
  <1>1. /\ phase' = "idle" /\ outcome' = how /\ asked' = NoFlags
        /\ lo' = 0 /\ hi' = 0 /\ height' = 0 /\ request' = 0 /\ found' = {} /\ totals' = NoTotals
        /\ recipients' = <<>> /\ history' = history /\ tip' = tip
    BY DEF Exit
  <1>2. TypeOK'
    <2>1. MaxHeight \in Nat
      BY ScanAssumption
    <2>2. NoTotals \in Totals /\ NoFlags \in Flags
      BY <2>1 DEF NoTotals, Totals, NoFlags, Flags
    <2>3. <<>> \in Seq(Users)
      OBVIOUS
    <2>4. QED
      BY <1>1, <2>1, <2>2, <2>3 DEF ScanInv, TypeOK
  <1>3. ScanSound' /\ FoundWhatActed' /\ CountSound' /\ RangeAsAsked' /\ RecipientsSound' /\ VerifySound'
    BY <1>1 DEF ScanSound, FoundWhatActed, CountSound, RangeAsAsked, RecipientsSound, VerifySound
  <1>4. LoggedScanReproduces'
    BY <1>1 DEF LoggedScanReproduces
  <1>5. QED
    BY <1>2, <1>3, <1>4 DEF ScanInv

\* The log a scan leaves is sound.
LEMMA WrittenLogIsSound ==
  ASSUME ScanInv, phase \in {"found", "listed"}, WriteLog,
         history' = history, tip' = tip, cutShort' = cutShort
  PROVE  LogSound' /\ log'.addresses \in Seq(Users)
  <1>1. log' = [lo |-> lo, hi |-> hi, include |-> asked.include, addresses |-> Sorted(found)]
    BY DEF WriteLog
  <1>2. found \subseteq Users /\ IsFiniteSet(found) /\ found \in SUBSET Nat
    <2>1. Users \subseteq Nat /\ IsFiniteSet(Users) /\ found \in SUBSET Users
      BY ScanAssumption DEF ScanInv, TypeOK
    <2>2. QED
      BY <2>1, FS_Subset
  <1>3. /\ Cardinality(found) \in Nat /\ Sorted(found) \in [1 .. Cardinality(found) -> found]
        /\ ToSet(Sorted(found)) = found
    BY <1>2, SortedSorts
  <1>4. Sorted(found) \in Seq(Users)
    <2>1. Sorted(found) \in [1 .. Cardinality(found) -> Users]
      BY <1>2, <1>3
    <2>2. QED
      BY <1>3, <2>1
  <1>5. lo \in 1 .. MaxHeight /\ hi \in lo .. tip /\ asked.include \in BOOLEAN
    <2>1. MaxHeight \in Nat
      BY ScanAssumption
    <2>2. 1 <= lo /\ lo <= hi /\ hi <= tip
      BY DEF ScanInv, ScanSound
    <2>3. lo \in 0 .. MaxHeight /\ hi \in 0 .. MaxHeight /\ tip \in 1 .. MaxHeight
      BY DEF ScanInv, TypeOK
    <2>4. asked \in Flags
      BY DEF ScanInv, TypeOK
    <2>5. QED
      BY <2>1, <2>2, <2>3, <2>4 DEF Flags
  <1>6. ~cutShort => found = Acting(lo, hi, asked.include)
    <2>1. SUFFICES ASSUME ~cutShort
                   PROVE  found = Acting(lo, hi, asked.include)
      OBVIOUS
    <2>2. found = Acting(lo, height - 1, asked.include)
      BY DEF ScanInv, FoundWhatActed
    <2>3. height = hi + 1
      BY <2>1 DEF ScanInv, ScanSound
    <2>4. height - 1 = hi
      BY <2>3, <1>5
    <2>5. QED
      BY <2>2, <2>4
  <1>7. Acting(log.lo, log.hi, log.include)' = Acting(lo, hi, asked.include)
    BY <1>1 DEF Acting
  <1>8. LogSound'
    BY <1>1, <1>3, <1>5, <1>6, <1>7 DEF LogSound, LogIsItsRange
  <1>9. QED
    BY <1>1, <1>4, <1>8

\* The recipients are sorted, and among those found.
LEMMA ListKeeps ==
  ASSUME ScanInv, ListRecipients
  PROVE  ScanInv'
  <1>1. /\ phase = "found" /\ ~asked.verify /\ phase' = "listed"
        /\ \E holders \in SUBSET found :
             recipients' = Sorted({a \in holders : ~(asked.excludeSelf /\ a = Self)})
        /\ history' = history /\ tip' = tip /\ asked' = asked /\ log' = log
        /\ lo' = lo /\ hi' = hi /\ height' = height /\ request' = request
        /\ found' = found /\ totals' = totals /\ outcome' = outcome /\ cutShort' = cutShort
    BY DEF ListRecipients, scanVars
  <1>2. PICK holders \in SUBSET found :
          recipients' = Sorted({a \in holders : ~(asked.excludeSelf /\ a = Self)})
    BY <1>1
  <1> DEFINE S == {a \in holders : ~(asked.excludeSelf /\ a = Self)}
  <1>3. S \in SUBSET Nat /\ S \in SUBSET found /\ S \subseteq Users /\ IsFiniteSet(S)
    <2>1. Users \subseteq Nat /\ IsFiniteSet(Users) /\ found \in SUBSET Users
      BY ScanAssumption DEF ScanInv, TypeOK
    <2>2. S \in SUBSET Users
      BY <2>1
    <2>3. QED
      BY <2>1, <2>2, FS_Subset
  <1>4. /\ Cardinality(S) \in Nat /\ recipients' \in [1 .. Cardinality(S) -> S]
        /\ \A j, k \in 1 .. Cardinality(S) : j < k => recipients'[j] < recipients'[k]
    BY <1>2, <1>3, SortedSorts
  <1>5. DOMAIN recipients' = 1 .. Cardinality(S) /\ \A j \in DOMAIN recipients' : recipients'[j] \in S
    BY <1>4
  <1>6. recipients' \in Seq(Users)
    <2>1. recipients' \in [1 .. Cardinality(S) -> Users]
      BY <1>3, <1>4
    <2>2. QED
      BY <1>4, <2>1
  <1>7. found \subseteq Acting(lo, hi, asked.include)
    <2>1. found = Acting(lo, height - 1, asked.include)
      BY <1>1 DEF ScanInv, FoundWhatActed
    <2>2. lo .. height - 1 \subseteq lo .. hi
      <3>1. height <= hi + 1
        BY <1>1 DEF ScanInv, ScanSound
      <3>2. lo \in Int /\ hi \in Int /\ height \in Int
        <4>1. MaxHeight \in Nat
          BY ScanAssumption
        <4>2. QED
          BY <4>1 DEF ScanInv, TypeOK
      <3>3. QED
        BY <3>1, <3>2
    <2>3. QED
      BY <2>1, <2>2 DEF Acting
  <1>8. RecipientsSound'
    <2>1. Acting(lo, hi, asked.include)' = Acting(lo, hi, asked.include)
      BY <1>1 DEF Acting
    <2>2. \A j \in DOMAIN recipients' :
             /\ recipients'[j] \in Acting(lo, hi, asked.include)
             /\ asked.excludeSelf => recipients'[j] # Self
      BY <1>3, <1>5, <1>7
    <2>3. QED
      BY <1>1, <1>4, <1>5, <2>1, <2>2 DEF RecipientsSound
  <1>9. TypeOK'
    BY <1>1, <1>6 DEF ScanInv, TypeOK
  <1>10. ScanSound' /\ RangeAsAsked' /\ LoggedScanReproduces' /\ VerifySound'
    BY <1>1 DEF ScanInv, ScanSound, RangeAsAsked, LoggedScanReproduces, VerifySound
  <1>11. FoundWhatActed'
    BY <1>1 DEF ScanInv, FoundWhatActed, Acting
  <1>12. CountSound'
    BY <1>1 DEF ScanInv, CountSound, BlocksOf
  <1>13. LogSound'
    BY <1>1 DEF ScanInv, LogSound, LogIsItsRange, Acting
  <1>14. QED
    BY <1>8, <1>9, <1>10, <1>11, <1>12, <1>13 DEF ScanInv

-----------------------------------------------------------------------------
(* The invariant *)

LEMMA InitKeeps ==
  ASSUME Init
  PROVE  ScanInv
  <1>1. MaxHeight \in Nat
    BY ScanAssumption
  <1>2. TypeOK
    <2>1. NoTotals \in Totals /\ NoFlags \in Flags
      BY <1>1 DEF NoTotals, Totals, NoFlags, Flags
    <2>2. <<>> \in Seq(Users) /\ log.addresses = <<>>
      BY DEF Init, NoLog
    <2>3. lo \in 0 .. MaxHeight /\ hi \in 0 .. MaxHeight /\ height \in 0 .. MaxHeight + 1
      BY <1>1 DEF Init
    <2>4. recipients \in Seq(Users) /\ log.addresses \in Seq(Users)
      BY <2>2 DEF Init
    <2>5. found \subseteq Users /\ totals \in Totals /\ asked \in Flags
      BY <2>1 DEF Init
    <2>6. QED
      BY <2>3, <2>4, <2>5 DEF Init, TypeOK
  <1>3. ScanSound /\ FoundWhatActed /\ CountSound /\ RangeAsAsked /\ RecipientsSound
    BY DEF Init, ScanSound, FoundWhatActed, CountSound, RangeAsAsked, RecipientsSound
  <1>4. LogSound /\ VerifySound /\ LoggedScanReproduces
    BY DEF Init, LogSound, VerifySound, LoggedScanReproduces
  <1>5. QED
    BY <1>2, <1>3, <1>4 DEF ScanInv

\* One step per action: the clauses it can disturb are those of the lemma named.
LEMMA NextKeeps ==
  ASSUME ScanInv, [Next]_vars
  PROVE  ScanInv'
  <1>1. ASSUME NEW f \in Flags, ScanCommand(f)
        PROVE  ScanInv'
    BY <1>1, ScanCommandKeeps
  <1>2. ASSUME NEW f \in Flags, RefusedCommand(f)
        PROVE  ScanInv'
    <2>1. /\ phase = "idle" /\ outcome' = "refused"
          /\ history' = history /\ tip' = tip /\ phase' = phase /\ asked' = asked
          /\ lo' = lo /\ hi' = hi /\ height' = height /\ request' = request
          /\ found' = found /\ totals' = totals
          /\ recipients' = recipients /\ log' = log /\ cutShort' = cutShort
      BY <1>2 DEF RefusedCommand, scanVars
    <2>2. TypeOK'
      BY <2>1 DEF ScanInv, TypeOK
    <2>3. ScanSound' /\ FoundWhatActed' /\ CountSound' /\ RangeAsAsked' /\ RecipientsSound' /\ VerifySound'
      BY <2>1 DEF ScanSound, FoundWhatActed, CountSound, RangeAsAsked, RecipientsSound, VerifySound
    <2>4. LogSound' /\ LoggedScanReproduces'
      BY <2>1 DEF ScanInv, LogSound, LogIsItsRange, Acting, LoggedScanReproduces
    <2>5. QED
      BY <2>2, <2>3, <2>4 DEF ScanInv
  <1>3. CASE VerifyCommand
    BY <1>3, VerifyCommandKeeps
  <1>4. CASE FetchBatch
    <2>1. phase = "scan" /\ Fold(Count) /\ cutShort' = cutShort
      BY <1>4 DEF FetchBatch
    <2>2. Count \in Nat \ {0}
      BY <2>1, CountFits
    <2>3. Count \in 0 .. Count /\ ~(Count < Count)
      BY <2>2
    <2>4. cutShort \in BOOLEAN
      BY DEF ScanInv, TypeOK
    <2>5. QED
      BY <2>1, <2>3, <2>4, FoldKeeps
  <1>5. CASE FetchShort
    <2>1. phase = "scan" /\ cutShort' = TRUE /\ \E got \in 0 .. Count - 1 : Fold(got)
      BY <1>5 DEF FetchShort
    <2>2. PICK got \in 0 .. Count - 1 : Fold(got)
      BY <2>1
    <2>3. Count \in Nat \ {0}
      BY <2>1, CountFits
    <2>4. got \in 0 .. Count
      BY <2>3
    <2>5. QED
      BY <2>1, <2>2, <2>4, FoldKeeps
  <1>6. CASE ListRecipients
    BY <1>6, ListKeeps
  <1>7. CASE LeaveWithoutList
    <2>1. /\ phase = "found" /\ WriteLog /\ cutShort' = cutShort
          /\ \E how \in {"listed", "error"} : Exit(how)
      BY <1>7 DEF LeaveWithoutList
    <2>2. PICK how \in {"listed", "error"} : Exit(how)
      BY <2>1
    <2>3. history' = history /\ tip' = tip
      BY <2>2 DEF Exit
    <2>4. LogSound' /\ log'.addresses \in Seq(Users)
      BY <2>1, <2>3, WrittenLogIsSound
    <2>5. QED
      BY <2>1, <2>2, <2>4, ExitKeeps
  <1>8. CASE HandOver
    <2> DEFINE how == IF recipients = <<>> THEN "empty" ELSE "listed"
    <2>1. phase = "listed" /\ WriteLog /\ cutShort' = cutShort /\ Exit(how)
      BY <1>8 DEF HandOver
    <2>2. history' = history /\ tip' = tip
      BY <2>1 DEF Exit
    <2>3. LogSound' /\ log'.addresses \in Seq(Users)
      BY <2>1, <2>2, WrittenLogIsSound
    <2>4. how \in {"empty", "listed"}
      OBVIOUS
    <2> HIDE DEF how
    <2>5. QED
      BY <2>1, <2>3, <2>4, ExitKeeps
  <1>9. CASE Compare
    <2> DEFINE how == IF found = ToSet(log.addresses) THEN "reproduced" ELSE "different"
    <2>1. phase = "found" /\ asked.verify /\ Exit(how) /\ log' = log /\ cutShort' = cutShort
      BY <1>9 DEF Compare
    <2>2. history' = history /\ tip' = tip
      BY <2>1 DEF Exit
    <2>3. LogSound' /\ log'.addresses \in Seq(Users)
      BY <2>1, <2>2 DEF ScanInv, TypeOK, LogSound, LogIsItsRange, Acting
    <2>4. ~cutShort => found = ToSet(log.addresses)
      <3>1. SUFFICES ASSUME ~cutShort
                     PROVE  found = ToSet(log.addresses)
        OBVIOUS
      <3>2. log # NoLog /\ lo = log.lo /\ hi = log.hi /\ asked.include = log.include
        BY <2>1 DEF ScanInv, VerifySound
      <3>3. ToSet(log.addresses) = Acting(lo, hi, asked.include)
        BY <3>1, <3>2 DEF ScanInv, LogSound, LogIsItsRange
      <3>4. height = hi + 1
        BY <2>1, <3>1 DEF ScanInv, ScanSound
      <3>5. height - 1 = hi
        <4>1. MaxHeight \in Nat
          BY ScanAssumption
        <4>2. hi \in Int
          BY <4>1 DEF ScanInv, TypeOK
        <4>3. QED
          BY <3>4, <4>2
      <3>6. found = Acting(lo, height - 1, asked.include)
        BY <2>1 DEF ScanInv, FoundWhatActed
      <3>7. QED
        BY <3>3, <3>5, <3>6
    <2>5. how \in {"reproduced", "different"} /\ (how = "different" => cutShort)
      BY <2>4
    <2> HIDE DEF how
    <2>6. QED
      BY <2>1, <2>3, <2>5, ExitKeeps
  <1>10. CASE Fail
    <2>1. Exit("error") /\ log' = log /\ cutShort' = cutShort
      BY <1>10 DEF Fail
    <2>2. history' = history /\ tip' = tip
      BY <2>1 DEF Exit
    <2>3. LogSound' /\ log'.addresses \in Seq(Users)
      BY <2>1, <2>2 DEF ScanInv, TypeOK, LogSound, LogIsItsRange, Acting
    <2>4. QED
      BY <2>1, <2>3, ExitKeeps
  <1>11. CASE NewMomentum
    <2>1. /\ tip < MaxHeight /\ tip' = tip + 1
          /\ history' = history /\ phase' = phase /\ asked' = asked
          /\ lo' = lo /\ hi' = hi /\ height' = height /\ request' = request
          /\ found' = found /\ totals' = totals
          /\ recipients' = recipients /\ log' = log /\ outcome' = outcome /\ cutShort' = cutShort
      BY <1>11 DEF NewMomentum, scanVars
    <2>2. MaxHeight \in Nat /\ tip \in 1 .. MaxHeight /\ hi \in 0 .. MaxHeight
      BY ScanAssumption DEF ScanInv, TypeOK
    <2>3. tip' \in 1 .. MaxHeight /\ (hi <= tip => hi <= tip')
      BY <2>1, <2>2
    <2>4. TypeOK'
      BY <2>1, <2>3 DEF ScanInv, TypeOK
    <2>5. ScanSound' /\ RangeAsAsked' /\ LoggedScanReproduces' /\ VerifySound'
      BY <2>1, <2>3 DEF ScanInv, ScanSound, RangeAsAsked, LoggedScanReproduces, VerifySound
    <2>6. FoundWhatActed' /\ RecipientsSound'
      BY <2>1 DEF ScanInv, FoundWhatActed, RecipientsSound, Acting
    <2>7. CountSound'
      BY <2>1 DEF ScanInv, CountSound, BlocksOf
    <2>8. LogSound'
      <3>1. \A h : h \in log.lo .. tip => h \in log.lo .. tip'
        BY <2>1, <2>2
      <3>2. QED
        BY <2>1, <3>1 DEF ScanInv, LogSound, LogIsItsRange, Acting
    <2>9. QED
      BY <2>4, <2>5, <2>6, <2>7, <2>8 DEF ScanInv
  <1>12. CASE UNCHANGED vars
    <2>1. /\ history' = history /\ tip' = tip /\ phase' = phase /\ asked' = asked
          /\ lo' = lo /\ hi' = hi /\ height' = height /\ request' = request
          /\ found' = found /\ totals' = totals
          /\ recipients' = recipients /\ log' = log /\ outcome' = outcome /\ cutShort' = cutShort
      BY <1>12 DEF vars, scanVars
    <2>2. TypeOK' /\ ScanSound' /\ RangeAsAsked' /\ LoggedScanReproduces' /\ VerifySound'
      BY <2>1 DEF ScanInv, TypeOK, ScanSound, RangeAsAsked, LoggedScanReproduces, VerifySound
    <2>3. FoundWhatActed' /\ RecipientsSound' /\ LogSound'
      BY <2>1 DEF ScanInv, FoundWhatActed, RecipientsSound, LogSound, LogIsItsRange, Acting
    <2>4. CountSound'
      BY <2>1 DEF ScanInv, CountSound, BlocksOf
    <2>5. QED
      BY <2>2, <2>3, <2>4 DEF ScanInv
  <1>13. QED
    BY <1>1, <1>2, <1>3, <1>4, <1>5, <1>6, <1>7, <1>8, <1>9, <1>10, <1>11, <1>12 DEF Next, Program

\* The invariant of scans, logs and verifications, in whatever order they are
\* run and however the chain grows meanwhile.
THEOREM ScanInvariant == Spec => []ScanInv
  BY InitKeeps, NextKeeps, PTL DEF Spec

\* Every value stays in its set: only users are found, listed or logged, and no
\* height leaves the chain.
THEOREM ScanTypeCorrect == Spec => []TypeOK
  <1>1. ScanInv => TypeOK
    BY DEF ScanInv
  <1>2. QED
    BY <1>1, ScanInvariant, PTL

\* Whatever the sizes of the batches and of the replies, no momentum of a scan
\* is left out or counted twice, and who is found is who acted in them.
THEOREM BatchesTile == Spec => []FoundWhatActed
  <1>1. ScanInv => FoundWhatActed
    BY DEF ScanInv
  <1>2. QED
    BY <1>1, ScanInvariant, PTL

\* A scan the node answered in full went through its whole range.
THEOREM FullAnswersFullRange == Spec => []WholeRange
  <1>1. ScanInv => WholeRange
    <2>1. SUFFICES ASSUME ScanInv, phase = "found", ~cutShort
                   PROVE  height = hi + 1 /\ totals.momentums = hi - lo + 1
      BY DEF WholeRange
    <2>2. height = hi + 1 /\ totals.momentums = height - lo
      BY <2>1 DEF ScanInv, ScanSound, FoundWhatActed
    <2>3. lo \in Int /\ hi \in Int
      <3>1. MaxHeight \in Nat
        BY ScanAssumption
      <3>2. QED
        BY <2>1, <3>1 DEF ScanInv, TypeOK
    <2>4. QED
      BY <2>2, <2>3
  <1>2. QED
    BY <1>1, ScanInvariant, PTL

\* The three flags name the range the documentation says they name, whatever
\* the tip is and however far it moves on.
THEOREM FlagsNameTheRange == Spec => []RangeAsAsked
  <1>1. ScanInv => RangeAsAsked
    BY DEF ScanInv
  <1>2. QED
    BY <1>1, ScanInvariant, PTL

\* Nobody is handed to the airdrop twice, or without having acted in the range.
THEOREM RecipientsActed == Spec => []RecipientsSound
  <1>1. ScanInv => RecipientsSound
    BY DEF ScanInv
  <1>2. QED
    BY <1>1, ScanInvariant, PTL

\* A verification never finds a difference in an honest log, if the node has
\* answered every call in full.
THEOREM VerificationReproduces == Spec => []LoggedScanReproduces
  <1>1. ScanInv => LoggedScanReproduces
    BY DEF ScanInv
  <1>2. QED
    BY <1>1, ScanInvariant, PTL

\* The count of contract blocks, summed over the batches, is that of the range.
THEOREM ContractBlocksAddUp == Spec => []ContractsCounted
  <1>1. ScanInv => ContractsCounted
    BY DEF ScanInv, CountSound, ContractsCounted
  <1>2. QED
    BY <1>1, ScanInvariant, PTL
=============================================================================
