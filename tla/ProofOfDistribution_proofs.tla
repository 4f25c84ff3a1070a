---------------------- MODULE ProofOfDistribution_proofs ----------------------
(***************************************************************************)
(* Proofs about ProofOfDistribution, for any wallets, transfers, locks,    *)
(* eligibility rows and assets, any length of the epoch and any lock       *)
(* tiers: the shares first, then the integration behind the weights.       *)
(***************************************************************************)
EXTENDS ProofOfDistribution, SequenceTheorems, Sums_proofs

(* Elements that add nothing can be left out. *)
LEMMA SumSupport ==
    ASSUME NEW f, NEW S, IsFiniteSet(S), \A x \in S : f[x] \in Int,
           NEW T \in SUBSET S, \A x \in S \ T : f[x] = 0
    PROVE  SumFunctionOnSet(f, S) = SumFunctionOnSet(f, T)
<1> DEFINE Good == {U \in SUBSET S :
               SumFunctionOnSet(f, U) = SumFunctionOnSet(f, U \cap T)}
<1>1. ASSUME NEW U \in SUBSET S, \A x \in U : U \ {x} \in Good
      PROVE  U \in Good
  <2>1. CASE U \subseteq T
    <3>1. U \cap T = U
      BY <2>1
    <3> QED  BY <3>1
  <2>2. ASSUME NEW x \in U, x \notin T PROVE U \in Good
    <3>1. IsFiniteSet(U) /\ IsFiniteSet(U \ {x})
      BY FS_Subset
    <3>2. \A y \in U : f[y] \in Int
      OBVIOUS
    <3>3. SumFunctionOnSet(f, U) = f[x] + SumFunctionOnSet(f, U \ {x})
      BY <3>1, <3>2, SumRemove
    <3>4. SumFunctionOnSet(f, U \ {x}) \in Int
      BY <3>1, <3>2, SumType
    <3>5. (U \ {x}) \cap T = U \cap T
      BY <2>2
    <3>6. SumFunctionOnSet(f, U \ {x}) = SumFunctionOnSet(f, U \cap T)
      BY <1>1, <3>5
    <3>7. f[x] = 0
      BY <2>2
    <3> QED  BY <3>3, <3>4, <3>6, <3>7
  <2> QED  BY <2>1, <2>2
<1> HIDE DEF Good
<1>2. \A U \in SUBSET S : (\A x \in U : U \ {x} \in Good) => U \in Good
  BY <1>1
<1>3. \A U \in SUBSET S : U \in Good
  BY <1>2, SetInduction
<1>4. S \cap T = T
  OBVIOUS
<1> QED  BY <1>3, <1>4 DEF Good

(* A set of natural numbers has a least element. *)
LEMMA Least ==
    ASSUME NEW S \in SUBSET Nat, S # {}
    PROVE  \E m \in S : \A n \in S : m <= n
<1>1. PICK m \in S : \A n \in S : ~(<<n, m>> \in OpToRel(<, Nat))
  BY NatLessThanWellFounded, WFMin
<1>2. ASSUME NEW n \in S PROVE m <= n
  <2>1. n \in Nat /\ m \in Nat /\ <<n, m>> \in Nat \X Nat
    OBVIOUS
  <2>2. ~(n < m)
    BY <1>1, <2>1 DEF OpToRel
  <2> QED  BY <2>1, <2>2
<1> QED  BY <1>2

(* Integer division *)
LEMMA FloorBounds ==
    ASSUME NEW a \in Nat, NEW b \in Nat \ {0}
    PROVE  /\ a \div b \in Nat
           /\ (a \div b) * b <= a
           /\ a < (a \div b + 1) * b
<1> DEFINE q == a \div b
           r == a % b
<1>1. a = b * q + r /\ 0 <= r /\ r < b /\ q \in Nat /\ r \in Nat
  OBVIOUS
<1> HIDE DEF q, r
<1>2. b * q = q * b /\ q * b \in Nat /\ (q + 1) * b = q * b + b
  BY <1>1
<1>3. q \in Nat /\ q * b <= a /\ a < (q + 1) * b
  BY <1>1, <1>2
<1> QED  BY <1>3 DEF q

(* A sequence has finitely many members. *)
LEMMA RangeFinite ==
    ASSUME NEW S, NEW s \in Seq(S)
    PROVE  IsFiniteSet(Range(s))
<1>1. Len(s) \in Nat /\ DOMAIN s = 1..Len(s)
  BY LenProperties
<1>2. IsFiniteSet(1..Len(s))
  BY <1>1, FS_Interval
<1>3. s \in [1..Len(s) -> Range(s)]
  BY <1>1 DEF Range
<1>4. s \in Surjection(1..Len(s), Range(s))
  BY <1>1, <1>3 DEF Surjection, Range
<1> QED  BY <1>2, <1>4, FS_Surjection

----------------------------------------------------------------------------
(* THE SHARES                                                              *)

(* What every run starts from *)
InputRight ==
    /\ fixture \in Fixtures
    /\ stage \notin {"load", "failed"} => FixtureOk(fixture)

(* computeWeights gave every wallet a weight *)
Weighed ==
    stage \in {"resolve", "allocate", "done"} =>
        \A w \in Wallets : WeightOf(w) \in Nat

(* What was allocated so far is what the rows and the weights say, and no  *)
(* asset's allocation exceeded its pool.                                   *)
SharesRight ==
    /\ stage \in {"load", "canonicalize", "integrate", "resolve"} =>
           allocations = << >>
    /\ stage \in {"allocate", "done"} =>
           /\ eligible = {i \in DOMAIN fixture.eligibility :
                             Eligible(fixture.eligibility[i])}
           /\ allocations \in Seq({AllocateAsset(a) : a \in Range(fixture.assets)})
           /\ Len(allocations) <= Len(fixture.assets)
           /\ \A k \in DOMAIN allocations :
                  /\ allocations[k] = AllocateAsset(fixture.assets[k])
                  /\ allocations[k].allocated <= allocations[k].pool
    /\ stage = "done" =>
           /\ Len(allocations) = Len(fixture.assets)
           /\ leaves = {Leaf(e[1], e[2]) : e \in Entitlements}

(* What is known of the rows once they were resolved: one wallet a row.    *)
LEMMA RowsRight ==
    ASSUME InputRight, SharesRight, stage \in {"allocate", "done"}
    PROVE  /\ IsFiniteSet(eligible)
           /\ \A i \in eligible : Holder(i) \in Wallets
           /\ \A i, j \in eligible : Holder(i) = Holder(j) => i = j
           /\ Members \subseteq Wallets /\ IsFiniteSet(Members)
<1> DEFINE rows == fixture.eligibility
<1>1. rows \in Seq(Range(rows)) /\ \A r \in Range(rows) : r.wallet \in Wallets
  BY PodAssumption DEF InputRight
<1>2. Len(rows) \in Nat /\ DOMAIN rows = 1..Len(rows)
  BY <1>1, LenProperties
<1>3. IsFiniteSet(DOMAIN rows)
  BY <1>2, FS_Interval
<1>4. eligible \subseteq DOMAIN rows
  BY DEF SharesRight
<1>5. IsFiniteSet(eligible)
  BY <1>3, <1>4, FS_Subset
<1>6. ASSUME NEW i \in eligible PROVE Holder(i) \in Wallets
  BY <1>1, <1>4 DEF Holder, Range
<1>7. OneRowEach([i \in DOMAIN rows |-> rows[i].wallet])
  BY DEF InputRight, FixtureOk
<1>8. \A i, j \in eligible : Holder(i) = Holder(j) => i = j
  BY <1>4, <1>7 DEF OneRowEach, Holder
<1>9. Members \subseteq Wallets
  BY <1>6 DEF Members
<1>10. IsFiniteSet(Members)
  BY <1>9, FS_Subset, PodAssumption
<1> QED  BY <1>5, <1>6, <1>8, <1>9, <1>10

(* One share: the largest whole amount within the exact one                *)
LEMMA ShareBounds ==
    ASSUME TotalEffectiveWeight \in Nat, NEW pool \in Nat,
           NEW w, WeightOf(w) \in Nat
    PROVE  LET T == TotalEffectiveWeight
               s == Share(pool, w)
           IN  /\ s \in Nat
               /\ T = 0 => s = 0
               /\ s * T <= pool * WeightOf(w)
               /\ T > 0 => pool * WeightOf(w) < (s + 1) * T
<1> DEFINE T == TotalEffectiveWeight
           a == pool * WeightOf(w)
           s == Share(pool, w)
<1>1. a \in Nat
  OBVIOUS
<1>2. CASE T = 0
  <2>1. s = 0
    BY <1>2 DEF Share
  <2> QED  BY <1>1, <1>2, <2>1
<1>3. CASE T # 0
  <2>1. s = a \div T /\ T \in Nat \ {0}
    BY <1>3 DEF Share, mulDivFloor
  <2> HIDE DEF a, s, T
  <2>2. a \div T \in Nat /\ (a \div T) * T <= a /\ a < (a \div T + 1) * T
    BY <1>1, <2>1, FloorBounds
  <2>3. s \in Nat /\ s * T <= a /\ a < (s + 1) * T /\ T # 0
    BY <2>1, <2>2
  <2> QED  BY <2>3 DEF a, s, T
<1> QED  BY <1>2, <1>3

LEMMA TotalsAgree ==
    ASSUME InputRight, SharesRight, Weighed, stage \in {"allocate", "done"}
    PROVE  /\ TotalEffectiveWeight
                = SumFunctionOnSet([w \in Members |-> WeightOf(w)], Members)
           /\ TotalEffectiveWeight \in Nat
<1> DEFINE f == [i \in eligible |-> WeightOf(Holder(i))]
           g == [w \in Members |-> WeightOf(w)]
           h == [i \in eligible |-> Holder(i)]
<1>1. /\ IsFiniteSet(eligible)
      /\ \A i \in eligible : Holder(i) \in Wallets
      /\ \A i, j \in eligible : Holder(i) = Holder(j) => i = j
  BY RowsRight
<1>2. \A i \in eligible : f[i] \in Nat
  BY <1>1 DEF Weighed
<1>3. \A i \in eligible : g[h[i]] = f[i]
  BY DEF Members
<1>4. \A i, j \in eligible : h[i] = h[j] => i = j
  BY <1>1
<1>5. Members = {h[i] : i \in eligible}
  BY DEF Members
<1>6. TotalEffectiveWeight = SumFunctionOnSet(f, eligible)
  BY DEF TotalEffectiveWeight
<1> HIDE DEF f, g, h
<1>7. \A i \in eligible : f[i] \in Int
  BY <1>2
<1>8. SumFunctionOnSet(g, Members) = SumFunctionOnSet(f, eligible)
  BY <1>1, <1>3, <1>4, <1>5, <1>7, SumReindex
<1>9. SumFunctionOnSet(f, eligible) \in Nat
  BY <1>1, <1>2, SumBound
<1> QED  BY <1>6, <1>8, <1>9 DEF g

(* An allocation adds up its shares, those of nothing included.            *)
LEMMA AllocationAdds ==
    ASSUME InputRight, SharesRight, Weighed, stage \in {"allocate", "done"},
           NEW asset \in Range(fixture.assets)
    PROVE  LET a == AllocateAsset(asset)
               pool == ParticipantPool(asset)
           IN  /\ pool = (4 * asset.acquired) \div 5 /\ pool \in Nat
               /\ a.pool = pool /\ a.token = asset.token
               /\ DOMAIN a.amounts = {i \in eligible : Share(pool, Holder(i)) > 0}
               /\ \A i \in DOMAIN a.amounts : a.amounts[i] = Share(pool, Holder(i))
               /\ a.allocated = SumFunctionOnSet(
                     [i \in eligible |-> Share(pool, Holder(i))], eligible)
<1> DEFINE pool == ParticipantPool(asset)
           f == [i \in eligible |-> Share(pool, Holder(i))]
           paid == {i \in eligible : Share(pool, Holder(i)) > 0}
           amounts == [i \in paid |-> Share(pool, Holder(i))]
<1>1. asset.acquired \in Nat
  BY PodAssumption DEF InputRight
<1>2. pool = (4 * asset.acquired) \div 5 /\ pool \in Nat
  BY <1>1 DEF ParticipantPool, mulDivFloor, PARTICIPANT_POOL_BPS, BPS_DENOMINATOR
<1>3. /\ IsFiniteSet(eligible)
      /\ \A i \in eligible : Holder(i) \in Wallets
  BY RowsRight
<1>4. \A i \in eligible : f[i] \in Nat
  BY <1>2, <1>3, TotalsAgree, ShareBounds DEF Weighed
<1>5. /\ AllocateAsset(asset).pool = pool
      /\ AllocateAsset(asset).token = asset.token
      /\ AllocateAsset(asset).amounts = amounts
      /\ AllocateAsset(asset).allocated = SumFunctionOnSet(amounts, paid)
  BY DEF AllocateAsset
<1>6. paid \in SUBSET eligible /\ \A i \in eligible \ paid : f[i] = 0
  BY <1>4
<1>7. \A i \in paid : amounts[i] = f[i]
  OBVIOUS
<1>8. DOMAIN amounts = paid
  OBVIOUS
<1>9. SumFunctionOnSet(f, eligible) = SumFunctionOnSet(f, paid)
  <2>1. \A i \in eligible : f[i] \in Int
    BY <1>4
  <2> HIDE DEF f, paid
  <2> QED  BY <1>3, <1>6, <2>1, SumSupport
<1>10. SumFunctionOnSet(amounts, paid) = SumFunctionOnSet(f, paid)
  <2>1. IsFiniteSet(paid)
    BY <1>3, <1>6, FS_Subset
  <2> HIDE DEF f, paid, amounts
  <2> QED  BY <1>7, <2>1, SumSame
<1> QED  BY <1>2, <1>5, <1>7, <1>8, <1>9, <1>10

(* What the leaves grant is the share of the row, if there is one.         *)
LEMMA GrantedIsShare ==
    ASSUME InputRight, SharesRight, Weighed, stage = "done",
           NEW k \in DOMAIN fixture.assets, NEW w
    PROVE  LET asset == fixture.assets[k]
           IN  Granted(w, asset.token)
                 = IF w \in Members THEN Share(ParticipantPool(asset), w) ELSE 0
<1> DEFINE asset == fixture.assets[k]
           pool == ParticipantPool(asset)
           own == {e \in leaves : e.wallet = w /\ e.asset = asset.token}
           f == [e \in own |-> e.amount]
<1>1. /\ fixture.assets \in Seq(Range(fixture.assets))
      /\ DOMAIN fixture.assets = 1..Len(fixture.assets)
      /\ asset \in Range(fixture.assets)
  BY PodAssumption, LenProperties DEF InputRight, Range
<1>2. DOMAIN allocations = DOMAIN fixture.assets
  <2>1. DOMAIN allocations = 1..Len(allocations)
    BY LenProperties DEF SharesRight
  <2> QED  BY <1>1, <2>1 DEF SharesRight
<1>3. \A m \in DOMAIN allocations : allocations[m] = AllocateAsset(fixture.assets[m])
  BY DEF SharesRight
<1>4. \A m \in DOMAIN allocations : allocations[m].token = fixture.assets[m].token
  <2>1. ASSUME NEW a PROVE AllocateAsset(a).token = a.token
    BY DEF AllocateAsset
  <2> QED  BY <1>3, <2>1
<1>5. \A m \in DOMAIN allocations :
          fixture.assets[m].token = asset.token => m = k
  BY <1>1, <1>2 DEF InputRight, FixtureOk, OneRowEach
<1>6. /\ DOMAIN allocations[k].amounts
             = {i \in eligible : Share(pool, Holder(i)) > 0}
      /\ \A i \in DOMAIN allocations[k].amounts :
             allocations[k].amounts[i] = Share(pool, Holder(i))
  <2>1. k \in DOMAIN allocations /\ allocations[k] = AllocateAsset(asset)
    BY <1>2, <1>3
  <2> HIDE DEF asset
  <2>2. LET a == AllocateAsset(asset)
        IN  /\ DOMAIN a.amounts = {i \in eligible : Share(pool, Holder(i)) > 0}
            /\ \A i \in DOMAIN a.amounts : a.amounts[i] = Share(pool, Holder(i))
    BY <1>1, AllocationAdds
  <2> QED  BY <2>1, <2>2
<1>7. /\ \A i \in eligible : Holder(i) \in Wallets
      /\ \A i, j \in eligible : Holder(i) = Holder(j) => i = j
  BY RowsRight
<1>8. ASSUME NEW e \in own
      PROVE  \E i \in DOMAIN allocations[k].amounts :
                 Holder(i) = w /\ e = Leaf(i, k)
  <2>1. PICK p \in Entitlements : e = Leaf(p[1], p[2])
    BY DEF SharesRight
  <2>2. p[1] \in DOMAIN allocations[p[2]].amounts /\ p[2] \in DOMAIN allocations
    BY DEF Entitlements
  <2>3. Holder(p[1]) = w /\ allocations[p[2]].token = asset.token
    BY <2>1 DEF Leaf
  <2>4. p[2] = k
    BY <1>4, <1>5, <2>2, <2>3
  <2> QED  BY <2>1, <2>2, <2>3, <2>4
<1>9. ASSUME NEW i \in DOMAIN allocations[k].amounts
      PROVE  Leaf(i, k) \in leaves
  <2>1. i \in eligible
    BY <1>6
  <2>2. <<i, k>> \in Entitlements
    BY <1>2, <2>1 DEF Entitlements
  <2> QED  BY <2>2 DEF SharesRight
<1>10. Granted(w, asset.token) = SumFunctionOnSet(f, own)
  BY DEF Granted
<1>11. CASE own = {}
  <2>1. SumFunctionOnSet(f, own) = 0
    BY <1>11, SumEmpty
  <2>2. ASSUME w \in Members PROVE Share(pool, w) = 0
    <3>1. PICK i \in eligible : Holder(i) = w
      BY <2>2 DEF Members
    <3>2. i \notin DOMAIN allocations[k].amounts
      <4>1. i \in DOMAIN allocations[k].amounts => Leaf(i, k) \in own
        BY <1>2, <1>4, <1>9, <3>1 DEF Leaf
      <4> QED  BY <1>11, <4>1
    <3>3. ~(Share(pool, w) > 0)
      BY <1>6, <3>1, <3>2
    <3>4. Share(pool, w) \in Nat
      BY <1>1, <1>7, <3>1, TotalsAgree, ShareBounds, AllocationAdds DEF Weighed
    <3> QED  BY <3>3, <3>4
  <2> QED  BY <1>10, <2>1, <2>2
<1>12. CASE own # {}
  <2>1. PICK e \in own : TRUE
    BY <1>12
  <2>2. PICK i \in DOMAIN allocations[k].amounts : Holder(i) = w /\ e = Leaf(i, k)
    BY <1>8, <2>1
  <2>3. own = {e}
    <3>1. ASSUME NEW d \in own PROVE d = e
      <4>1. PICK j \in DOMAIN allocations[k].amounts : Holder(j) = w /\ d = Leaf(j, k)
        BY <1>8
      <4>2. j = i
        BY <1>6, <1>7, <2>2, <4>1
      <4> QED  BY <2>2, <4>1, <4>2
    <3> QED  BY <2>1, <3>1
  <2>4. f[e] = Share(pool, w)
    BY <1>6, <2>1, <2>2 DEF Leaf
  <2>5. w \in Members /\ w \in Wallets
    BY <1>6, <1>7, <2>2 DEF Members
  <2>6. Share(pool, w) \in Nat
    BY <1>1, <2>5, TotalsAgree, ShareBounds, AllocationAdds DEF Weighed
  <2>7. SumFunctionOnSet(f, own) = f[e]
    <3> HIDE DEF f, own, pool
    <3>1. IsFiniteSet(own) /\ own \ {e} = {}
      BY <2>3, FS_Singleton
    <3>2. SumFunctionOnSet(f, own) = f[e] + SumFunctionOnSet(f, own \ {e})
      BY <2>1, <2>3, <2>4, <2>6, <3>1, SumRemove
    <3>3. SumFunctionOnSet(f, own \ {e}) = 0
      BY <3>1, SumEmpty
    <3> QED  BY <2>4, <2>6, <3>2, <3>3
  <2> QED  BY <1>10, <2>4, <2>5, <2>7
<1> QED  BY <1>11, <1>12

(* All that the leaves grant of an asset is what was allocated of it.      *)
LEMMA GrantsAddUp ==
    ASSUME InputRight, SharesRight, Weighed, stage = "done",
           NEW k \in DOMAIN fixture.assets
    PROVE  LET asset == fixture.assets[k]
               pool == ParticipantPool(asset)
               granted == [w \in Wallets |-> Granted(w, asset.token)]
               paid == SumFunctionOnSet(granted, Wallets)
           IN  /\ \A w \in Wallets : granted[w] \in Nat
               /\ paid = SumFunctionOnSet(granted, Members)
               /\ paid \in Nat /\ paid <= pool
<1> DEFINE asset == fixture.assets[k]
           pool == ParticipantPool(asset)
           granted == [w \in Wallets |-> Granted(w, asset.token)]
           f == [i \in eligible |-> Share(pool, Holder(i))]
           h == [i \in eligible |-> Holder(i)]
<1>1. /\ fixture.assets \in Seq(Range(fixture.assets))
      /\ asset \in Range(fixture.assets)
      /\ k \in 1..Len(fixture.assets)
  BY PodAssumption, LenProperties DEF InputRight, Range
<1>2. /\ IsFiniteSet(eligible)
      /\ \A i \in eligible : Holder(i) \in Wallets
      /\ \A i, j \in eligible : Holder(i) = Holder(j) => i = j
      /\ Members \subseteq Wallets /\ IsFiniteSet(Members)
  BY RowsRight
<1>3. TotalEffectiveWeight \in Nat
  BY TotalsAgree
<1>4. /\ pool \in Nat /\ AllocateAsset(asset).pool = pool
      /\ AllocateAsset(asset).allocated = SumFunctionOnSet(f, eligible)
  <2> HIDE DEF asset
  <2> QED  BY <1>1, AllocationAdds
<1>5. \A w \in Wallets :
          granted[w] = IF w \in Members THEN Share(pool, w) ELSE 0
  BY GrantedIsShare
<1>6. \A w \in Wallets : Share(pool, w) \in Nat
  BY <1>3, <1>4, ShareBounds DEF Weighed
<1>7. \A w \in Wallets : granted[w] \in Nat
  BY <1>5, <1>6
<1>8. SumFunctionOnSet(granted, Wallets) = SumFunctionOnSet(granted, Members)
  <2>1. /\ \A w \in Wallets : granted[w] \in Int
        /\ \A w \in Wallets \ Members : granted[w] = 0
    BY <1>5, <1>7
  <2>2. IsFiniteSet(Wallets)
    BY PodAssumption
  <2> HIDE DEF granted
  <2> QED  BY <1>2, <2>1, <2>2, SumSupport
<1>9. SumFunctionOnSet(granted, Members) = SumFunctionOnSet(f, eligible)
  <2>1. \A i \in eligible : f[i] \in Int
    BY <1>2, <1>6
  <2>2. \A i \in eligible : granted[h[i]] = f[i]
    BY <1>2, <1>5 DEF Members
  <2>3. Members = {h[i] : i \in eligible}
    BY DEF Members
  <2>4. \A i, j \in eligible : h[i] = h[j] => i = j
    BY <1>2
  <2> HIDE DEF granted, f, h
  <2> QED  BY <1>2, <2>1, <2>2, <2>3, <2>4, SumReindex
<1>10. SumFunctionOnSet(granted, Wallets) \in Nat
  <2>1. IsFiniteSet(Wallets)
    BY PodAssumption
  <2> HIDE DEF granted
  <2> QED  BY <1>7, <2>1, SumBound
<1>11. AllocateAsset(asset).allocated <= AllocateAsset(asset).pool
  <2>1. k \in DOMAIN allocations
    BY <1>1, LenProperties DEF SharesRight
  <2> QED  BY <2>1 DEF SharesRight
<1> QED  BY <1>4, <1>7, <1>8, <1>9, <1>10, <1>11

(* Floors of shares of a positive total lose less than one unit a member.  *)
LEMMA LittleIsLeft ==
    ASSUME NEW S, IsFiniteSet(S), NEW g, NEW W, NEW pool \in Nat,
           \A x \in S : g[x] \in Nat /\ W[x] \in Nat,
           SumFunctionOnSet(W, S) > 0,
           \A x \in S : pool * W[x] < (g[x] + 1) * SumFunctionOnSet(W, S)
    PROVE  pool - SumFunctionOnSet(g, S) < Cardinality(S)
<1> DEFINE T == SumFunctionOnSet(W, S)
           G == SumFunctionOnSet(g, S)
           n == Cardinality(S)
           exact == [x \in S |-> pool * W[x]]
           one == [x \in S |-> 1]
           up == [x \in S |-> g[x] + 1]
           most == [x \in S |-> T * up[x]]
           below == [x \in S |-> exact[x] + one[x]]
<1>1. T \in Nat /\ G \in Nat /\ n \in Nat
  BY SumBound, FS_CardinalityType
<1>2. SumFunctionOnSet(one, S) = n
  BY SumOnes
<1>3. SumFunctionOnSet(exact, S) = pool * T
  <2>1. \A x \in S : W[x] \in Int /\ exact[x] = pool * W[x]
    OBVIOUS
  <2> HIDE DEF exact
  <2> QED  BY <2>1, SumTimes
<1>4. SumFunctionOnSet(up, S) = G + n
  <2>1. \A x \in S : g[x] \in Int /\ one[x] \in Int /\ up[x] = g[x] + one[x]
    OBVIOUS
  <2> HIDE DEF up, one
  <2> QED  BY <1>2, <2>1, SumPlus
<1>5. SumFunctionOnSet(most, S) = T * (G + n)
  <2>1. \A x \in S : up[x] \in Int /\ most[x] = T * up[x]
    OBVIOUS
  <2>2. T \in Int
    BY <1>1
  <2> HIDE DEF up, most, T
  <2>3. SumFunctionOnSet(most, S) = T * SumFunctionOnSet(up, S)
    BY <2>1, <2>2, SumTimes
  <2> QED  BY <1>4, <2>3
<1>6. SumFunctionOnSet(below, S) = pool * T + n
  <2>1. \A x \in S : /\ exact[x] \in Int /\ one[x] \in Int
                     /\ below[x] = exact[x] + one[x]
    OBVIOUS
  <2> HIDE DEF exact, one, below
  <2> QED  BY <1>2, <1>3, <2>1, SumPlus
<1>7. SumFunctionOnSet(below, S) <= SumFunctionOnSet(most, S)
  <2>1. ASSUME NEW x \in S
        PROVE  below[x] \in Int /\ most[x] \in Int /\ below[x] <= most[x]
    <3>1. /\ below[x] = pool * W[x] + 1 /\ most[x] = T * (g[x] + 1)
          /\ W[x] \in Nat /\ g[x] \in Nat
      OBVIOUS
    <3> HIDE DEF below, most, T
    <3>2. T * (g[x] + 1) = (g[x] + 1) * T /\ (g[x] + 1) * T \in Int
          /\ pool * W[x] \in Int
      BY <1>1, <3>1
    <3>3. pool * W[x] < (g[x] + 1) * T
      BY DEF T
    <3> QED  BY <3>1, <3>2, <3>3
  <2> HIDE DEF below, most
  <2> QED  BY <2>1, SumMonotone
<1>8. n > 0
  <2>1. S # {}
    <3>1. S = {} => T = 0
      BY SumEmpty
    <3> QED  BY <3>1
  <2>2. n # 0
    BY <2>1, FS_EmptySet
  <2> QED  BY <1>1, <2>2
<1>9. T > 0
  OBVIOUS
<1>10. pool * T + n <= T * (G + n)
  BY <1>5, <1>6, <1>7
<1> HIDE DEF T, G, n
<1>11. pool * T < (G + n) * T
  <2>1. T * (G + n) = (G + n) * T /\ (G + n) * T \in Int /\ pool * T \in Int
    BY <1>1
  <2> QED  BY <1>1, <1>8, <1>10, <2>1
<1>12. ASSUME G + n <= pool PROVE FALSE
  <2>1. (G + n) * T <= pool * T
    <3>1. \A a, b, t \in Nat : a <= b => a * t <= b * t
      OBVIOUS
    <3> QED  BY <1>1, <1>12, <3>1
  <2>2. (G + n) * T \in Int /\ pool * T \in Int
    BY <1>1
  <2> QED  BY <1>11, <2>1, <2>2
<1> QED  BY <1>1, <1>12 DEF G, n

LEMMA FairShares ==
    ASSUME InputRight, SharesRight, Weighed
    PROVE  EntitlementsAreFairShares
<1> SUFFICES ASSUME stage = "done"
             PROVE  LET total == SumFunctionOnSet([w \in Members |-> WeightOf(w)], Members)
                    IN  /\ \A e \in leaves : e.wallet \in Members /\ e.amount > 0
                        /\ \A e, f \in leaves :
                               e.wallet = f.wallet /\ e.asset = f.asset => e = f
                        /\ \A i \in DOMAIN fixture.assets :
                               LET token == fixture.assets[i].token
                                   pool == (4 * fixture.assets[i].acquired) \div 5
                                   paid == SumFunctionOnSet([w \in Wallets |-> Granted(w, token)],
                                                            Wallets)
                               IN  /\ paid <= pool
                                   /\ total > 0 => pool - paid < Cardinality(Members)
                                   /\ \A w \in Members :
                                        /\ Granted(w, token) * total <= pool * WeightOf(w)
                                        /\ total > 0 => pool * WeightOf(w)
                                                          < (Granted(w, token) + 1) * total
  BY DEF EntitlementsAreFairShares
<1> DEFINE W == [w \in Members |-> WeightOf(w)]
           T == SumFunctionOnSet(W, Members)
<1>1. TotalEffectiveWeight = T /\ T \in Nat
  BY TotalsAgree
<1>2. /\ IsFiniteSet(eligible)
      /\ \A i \in eligible : Holder(i) \in Wallets
      /\ \A i, j \in eligible : Holder(i) = Holder(j) => i = j
      /\ Members \subseteq Wallets /\ IsFiniteSet(Members)
  BY RowsRight
<1>3. /\ fixture.assets \in Seq(Range(fixture.assets))
      /\ DOMAIN fixture.assets = 1..Len(fixture.assets)
      /\ \A k \in DOMAIN fixture.assets : fixture.assets[k] \in Range(fixture.assets)
  BY PodAssumption, LenProperties DEF InputRight, Range
<1>4. DOMAIN allocations = DOMAIN fixture.assets
  <2>1. DOMAIN allocations = 1..Len(allocations)
    BY LenProperties DEF SharesRight
  <2> QED  BY <1>3, <2>1 DEF SharesRight
<1>5. ASSUME NEW k \in DOMAIN fixture.assets
      PROVE  /\ allocations[k].token = fixture.assets[k].token
             /\ DOMAIN allocations[k].amounts
                  = {i \in eligible : Share(ParticipantPool(fixture.assets[k]), Holder(i)) > 0}
             /\ \A i \in DOMAIN allocations[k].amounts :
                    allocations[k].amounts[i]
                      = Share(ParticipantPool(fixture.assets[k]), Holder(i))
  <2> DEFINE asset == fixture.assets[k]
  <2>1. allocations[k] = AllocateAsset(asset) /\ asset \in Range(fixture.assets)
    BY <1>3, <1>4, <1>5 DEF SharesRight
  <2> HIDE DEF asset
  <2>2. LET a == AllocateAsset(asset)
            pool == ParticipantPool(asset)
        IN  /\ a.token = asset.token
            /\ DOMAIN a.amounts = {i \in eligible : Share(pool, Holder(i)) > 0}
            /\ \A i \in DOMAIN a.amounts : a.amounts[i] = Share(pool, Holder(i))
    BY <2>1, AllocationAdds
  <2>3. /\ allocations[k].token = asset.token
        /\ DOMAIN allocations[k].amounts
             = {i \in eligible : Share(ParticipantPool(asset), Holder(i)) > 0}
        /\ \A i \in DOMAIN allocations[k].amounts :
               allocations[k].amounts[i] = Share(ParticipantPool(asset), Holder(i))
    BY <2>1, <2>2
  <2> QED  BY <2>3 DEF asset
<1>6. ASSUME NEW e \in leaves
      PROVE  \E k \in DOMAIN fixture.assets, i \in eligible :
               /\ i \in DOMAIN allocations[k].amounts
               /\ e = Leaf(i, k)
  <2>1. PICK p \in Entitlements : e = Leaf(p[1], p[2])
    BY DEF SharesRight
  <2>2. /\ p[1] \in eligible /\ p[2] \in DOMAIN allocations
        /\ p[1] \in DOMAIN allocations[p[2]].amounts
    BY DEF Entitlements
  <2> QED  BY <1>4, <2>1, <2>2
<1>7. ASSUME NEW e \in leaves PROVE e.wallet \in Members /\ e.amount > 0
  <2>1. PICK k \in DOMAIN fixture.assets, i \in eligible :
               i \in DOMAIN allocations[k].amounts /\ e = Leaf(i, k)
    BY <1>6
  <2>2. allocations[k].amounts[i] > 0
    BY <1>5, <2>1
  <2>3. e.wallet = Holder(i) /\ e.amount = allocations[k].amounts[i]
    BY <2>1 DEF Leaf
  <2> QED  BY <2>2, <2>3 DEF Members
<1>8. ASSUME NEW e \in leaves, NEW d \in leaves,
             e.wallet = d.wallet, e.asset = d.asset
      PROVE  e = d
  <2>1. PICK k \in DOMAIN fixture.assets, i \in eligible : e = Leaf(i, k)
    BY <1>6
  <2>2. PICK m \in DOMAIN fixture.assets, j \in eligible : d = Leaf(j, m)
    BY <1>6
  <2>3. i = j
    BY <1>2, <1>8, <2>1, <2>2 DEF Leaf
  <2>4. allocations[k].token = allocations[m].token
    BY <1>8, <2>1, <2>2 DEF Leaf
  <2>5. fixture.assets[k].token = fixture.assets[m].token
    BY <1>5, <2>4
  <2>6. k = m
    BY <2>5 DEF InputRight, FixtureOk, OneRowEach
  <2> QED  BY <2>1, <2>2, <2>3, <2>6
<1>9. ASSUME NEW k \in DOMAIN fixture.assets
      PROVE  LET token == fixture.assets[k].token
                 pool == (4 * fixture.assets[k].acquired) \div 5
                 paid == SumFunctionOnSet([w \in Wallets |-> Granted(w, token)], Wallets)
             IN  /\ paid <= pool
                 /\ T > 0 => pool - paid < Cardinality(Members)
                 /\ \A w \in Members :
                      /\ Granted(w, token) * T <= pool * WeightOf(w)
                      /\ T > 0 => pool * WeightOf(w) < (Granted(w, token) + 1) * T
  <2> DEFINE asset == fixture.assets[k]
             pool == ParticipantPool(asset)
             granted == [w \in Wallets |-> Granted(w, asset.token)]
             paid == SumFunctionOnSet(granted, Wallets)
  <2>1. /\ \A w \in Wallets : granted[w] \in Nat
        /\ paid = SumFunctionOnSet(granted, Members)
        /\ paid \in Nat /\ paid <= pool
    BY GrantsAddUp
  <2>2. \A w \in Members : granted[w] = Share(pool, w)
    BY <1>2, GrantedIsShare
  <2>3. pool = (4 * asset.acquired) \div 5 /\ pool \in Nat
    <3>1. asset \in Range(fixture.assets)
      BY <1>3
    <3> HIDE DEF asset
    <3> QED  BY <3>1, AllocationAdds
  <2>4. \A w \in Members : WeightOf(w) \in Nat
    BY <1>2 DEF Weighed
  <2> HIDE DEF granted, pool, T, W
  <2>5. ASSUME NEW w \in Members
        PROVE  /\ granted[w] * T <= pool * WeightOf(w)
               /\ T > 0 => pool * WeightOf(w) < (granted[w] + 1) * T
    <3>1. /\ Share(pool, w) * T <= pool * WeightOf(w)
          /\ T > 0 => pool * WeightOf(w) < (Share(pool, w) + 1) * T
      BY <1>1, <2>3, <2>4, <2>5, ShareBounds
    <3> QED  BY <2>2, <2>5, <3>1
  <2>6. ASSUME T > 0 PROVE pool - paid < Cardinality(Members)
    <3>1. \A w \in Members : granted[w] \in Nat /\ W[w] \in Nat
      BY <1>2, <2>1, <2>4 DEF W
    <3>2. \A w \in Members : pool * W[w] < (granted[w] + 1) * SumFunctionOnSet(W, Members)
      BY <2>5, <2>6 DEF W, T
    <3>3. SumFunctionOnSet(W, Members) > 0
      BY <2>6 DEF T
    <3>4. pool - SumFunctionOnSet(granted, Members) < Cardinality(Members)
      BY <1>2, <2>3, <3>1, <3>2, <3>3, LittleIsLeft
    <3> QED  BY <2>1, <3>4
  <2>7. \A w \in Members : granted[w] = Granted(w, asset.token)
    BY <1>2 DEF granted
  <2>8. \A w \in Members :
            /\ Granted(w, asset.token) * T <= pool * WeightOf(w)
            /\ T > 0 => pool * WeightOf(w) < (Granted(w, asset.token) + 1) * T
    BY <2>5, <2>7
  <2>9. paid = SumFunctionOnSet([w \in Wallets |-> Granted(w, asset.token)], Wallets)
    BY DEF granted
  <2> QED  BY <2>1, <2>3, <2>6, <2>8, <2>9
<1> QED  BY <1>7, <1>8, <1>9

----------------------------------------------------------------------------
(* THE WEIGHTS                                                             *)

Moves == Range(fixture.transfers)

(* What the checks of loadCycleFixture leave of a fixture                  *)
LEMMA InputFacts ==
    ASSUME InputRight, stage \notin {"load", "failed"}
    PROVE  /\ E0 \in Int /\ E1 \in Int /\ E1 = E0 + EPOCH_SECONDS /\ E0 < E1
           /\ fixture.startBalances \in [Wallets -> Nat]
           /\ IsFiniteSet(Moves)
           /\ \A tr \in Moves :
                /\ tr.timestamp \in Int /\ E0 <= tr.timestamp /\ tr.timestamp <= E1
                /\ tr.amount \in Nat
                /\ tr.from \in Wallets \cup {Zero} /\ tr.to \in Wallets \cup {Zero}
           /\ IsFiniteSet(fixture.locks)
           /\ \A l \in fixture.locks :
                /\ l.wallet \in Wallets /\ l.principal \in Nat
                /\ l.start \in Int /\ l.unlock \in Int /\ l.withdrawal \in Int
<1>1. fixture \in Fixtures /\ FixtureOk(fixture)
  BY DEF InputRight
<1>2. E0 \in Int /\ E1 \in Int /\ E1 = E0 + EPOCH_SECONDS /\ EPOCH_SECONDS \in Nat \ {0}
  BY <1>1, PodAssumption DEF FixtureOk, CycleOk, E0, E1
<1>3. fixture.transfers \in Seq(Moves)
  BY <1>1, PodAssumption DEF Moves
<1>4. DOMAIN fixture.transfers = 1..Len(fixture.transfers)
  BY <1>3, LenProperties
<1>5. ASSUME NEW tr \in Moves
      PROVE  tr.timestamp \in Int /\ E0 <= tr.timestamp /\ tr.timestamp <= E1
  <2>1. PICK i \in DOMAIN fixture.transfers : tr = fixture.transfers[i]
    BY DEF Moves, Range
  <2>2. TransferOk(fixture.transfers[i], fixture.cycle)
    BY <1>1 DEF FixtureOk
  <2>3. tr.timestamp \in Int
    BY <1>1, PodAssumption DEF Moves
  <2> QED  BY <2>1, <2>2, <2>3 DEF TransferOk, E0, E1
<1>6. IsFiniteSet(Moves)
  BY <1>3, RangeFinite DEF Moves
<1>7. \A tr \in Moves : /\ tr.amount \in Nat
                        /\ tr.from \in Wallets \cup {Zero}
                        /\ tr.to \in Wallets \cup {Zero}
  BY <1>1, PodAssumption DEF Moves
<1>8. /\ fixture.startBalances \in [Wallets -> Nat]
      /\ IsFiniteSet(fixture.locks)
      /\ \A l \in fixture.locks :
                /\ l.wallet \in Wallets /\ l.principal \in Nat
                /\ l.start \in Int /\ l.unlock \in Int /\ l.withdrawal \in Int
  BY <1>1, PodAssumption
<1> QED  BY <1>2, <1>5, <1>6, <1>7, <1>8

LEMMA TransferredType ==
    ASSUME NEW S, IsFiniteSet(S), \A tr \in S : tr.amount \in Nat
    PROVE  Transferred(S) \in Nat
<1> DEFINE f == [tr \in S |-> tr.amount]
<1>1. \A tr \in S : f[tr] \in Nat
  OBVIOUS
<1>2. SumFunctionOnSet(f, S) \in Nat
  <2> HIDE DEF f
  <2> QED  BY <1>1, SumBound
<1> QED  BY <1>2 DEF Transferred

LEMMA TransferredNext ==
    ASSUME NEW S, IsFiniteSet(S), \A tr \in S : tr.amount \in Nat,
           NEW x, x \notin S, x.amount \in Nat
    PROVE  Transferred(S \cup {x}) = Transferred(S) + x.amount
<1> DEFINE f == [tr \in S |-> tr.amount]
           g == [tr \in S \cup {x} |-> tr.amount]
<1>1. \A tr \in S \cup {x} : g[tr] \in Int
  OBVIOUS
<1>2. \A tr \in S : f[tr] = g[tr]
  OBVIOUS
<1>3. g[x] = x.amount
  OBVIOUS
<1>4. Transferred(S) = SumFunctionOnSet(f, S)
      /\ Transferred(S \cup {x}) = SumFunctionOnSet(g, S \cup {x})
  BY DEF Transferred
<1> HIDE DEF f, g
<1>5. SumFunctionOnSet(f, S) = SumFunctionOnSet(g, S)
  BY <1>2, SumSame
<1>6. SumFunctionOnSet(g, S \cup {x}) = SumFunctionOnSet(g, S) + g[x]
  BY <1>1, SumInsert
<1> QED  BY <1>3, <1>4, <1>5, <1>6

LEMMA HeldType ==
    ASSUME InputRight, stage \notin {"load", "failed"},
           NEW S \in SUBSET Moves, NEW w \in Wallets
    PROVE  HeldAfter(w, S) \in Int
<1>1. \A T \in SUBSET Moves : Transferred(T) \in Nat
  <2> SUFFICES ASSUME NEW T \in SUBSET Moves PROVE Transferred(T) \in Nat
    OBVIOUS
  <2>1. IsFiniteSet(T) /\ \A tr \in T : tr.amount \in Nat
    BY InputFacts, FS_Subset
  <2> QED  BY <2>1, TransferredType
<1>2. {tr \in S : tr.to = w} \in SUBSET Moves /\ {tr \in S : tr.from = w} \in SUBSET Moves
  OBVIOUS
<1>3. fixture.startBalances[w] \in Nat
  BY InputFacts
<1> QED  BY <1>1, <1>2, <1>3 DEF HeldAfter

(* One more transfer                                                       *)
LEMMA HeldNext ==
    ASSUME InputRight, stage \notin {"load", "failed"},
           NEW S \in SUBSET Moves, NEW x \in Moves, x \notin S, NEW w \in Wallets
    PROVE  HeldAfter(w, S \cup {x})
             = HeldAfter(w, S) + (IF x.to = w THEN x.amount ELSE 0)
                               - (IF x.from = w THEN x.amount ELSE 0)
<1> DEFINE In(T) == {tr \in T : tr.to = w}
           Out(T) == {tr \in T : tr.from = w}
<1>1. IsFiniteSet(Moves) /\ \A tr \in Moves : tr.amount \in Nat
  BY InputFacts
<1>2. In(S) \in SUBSET Moves /\ Out(S) \in SUBSET Moves
  OBVIOUS
<1>3. IsFiniteSet(In(S)) /\ IsFiniteSet(Out(S))
  BY <1>1, <1>2, FS_Subset
<1>4. Transferred(In(S)) \in Nat /\ Transferred(Out(S)) \in Nat
  BY <1>1, <1>2, <1>3, TransferredType
<1>5. Transferred(In(S \cup {x})) = Transferred(In(S)) + (IF x.to = w THEN x.amount ELSE 0)
  <2>1. CASE x.to = w
    <3>1. In(S \cup {x}) = In(S) \cup {x} /\ x \notin In(S)
      BY <2>1
    <3>2. \A tr \in In(S) : tr.amount \in Nat
      BY <1>1
    <3> HIDE DEF In
    <3> QED  BY <1>1, <1>3, <2>1, <3>1, <3>2, TransferredNext
  <2>2. CASE x.to # w
    <3>1. In(S \cup {x}) = In(S)
      BY <2>2
    <3> HIDE DEF In
    <3> QED  BY <1>4, <2>2, <3>1
  <2> QED  BY <2>1, <2>2
<1>6. Transferred(Out(S \cup {x})) = Transferred(Out(S)) + (IF x.from = w THEN x.amount ELSE 0)
  <2>1. CASE x.from = w
    <3>1. Out(S \cup {x}) = Out(S) \cup {x} /\ x \notin Out(S)
      BY <2>1
    <3>2. \A tr \in Out(S) : tr.amount \in Nat
      BY <1>1
    <3> HIDE DEF Out
    <3> QED  BY <1>1, <1>3, <2>1, <3>1, <3>2, TransferredNext
  <2>2. CASE x.from # w
    <3>1. Out(S \cup {x}) = Out(S)
      BY <2>2
    <3> HIDE DEF Out
    <3> QED  BY <1>4, <2>2, <3>1
  <2> QED  BY <2>1, <2>2
<1>7. fixture.startBalances[w] \in Nat /\ x.amount \in Nat
  BY <1>1, InputFacts
<1>8. \A T : HeldAfter(w, T) = fixture.startBalances[w] + Transferred(In(T))
                                                        - Transferred(Out(T))
  BY DEF HeldAfter
<1> HIDE DEF In, Out
<1> QED  BY <1>4, <1>5, <1>6, <1>7, <1>8

LEMMA PrincipalType ==
    ASSUME InputRight, stage \notin {"load", "failed"},
           NEW S \in SUBSET fixture.locks
    PROVE  Principal(S) \in Nat
<1> DEFINE f == [l \in S |-> l.principal]
<1>1. IsFiniteSet(S) /\ \A l \in S : f[l] \in Nat
  BY InputFacts, FS_Subset
<1>2. SumFunctionOnSet(f, S) \in Nat
  <2> HIDE DEF f
  <2> QED  BY <1>1, SumBound
<1> QED  BY <1>2 DEF Principal

LEMMA LockedType ==
    ASSUME InputRight, stage \notin {"load", "failed"}, NEW w, NEW t
    PROVE  /\ \A tier : LockedAt(w, tier, t) \in Nat
           /\ \A tier : ActiveLocked(w, tier, t) \in Nat
           /\ TotalLockedAt(w, t) \in Nat
           /\ ActiveTotal(w, t) \in Nat
<1>1. ASSUME NEW tier
      PROVE  LockedAt(w, tier, t) \in Nat /\ ActiveLocked(w, tier, t) \in Nat
  BY PrincipalType DEF LockedAt, ActiveLocked
<1>2. IsFiniteSet(Tiers)
  BY PodAssumption DEF Tiers
<1> DEFINE f == [tier \in Tiers |-> LockedAt(w, tier, t)]
           g == [tier \in Tiers |-> ActiveLocked(w, tier, t)]
<1>3. (\A tier \in Tiers : f[tier] \in Nat) /\ (\A tier \in Tiers : g[tier] \in Nat)
  BY <1>1
<1>4. SumFunctionOnSet(f, Tiers) \in Nat /\ SumFunctionOnSet(g, Tiers) \in Nat
  <2> HIDE DEF f, g
  <2> QED  BY <1>2, <1>3, SumBound
<1> QED  BY <1>1, <1>4 DEF TotalLockedAt, ActiveTotal

(* The logs in canonical order: every transfer once, in time order         *)
OrderRight ==
    /\ logs \in Seq(Moves)
    /\ \A tr \in Moves : \E i \in DOMAIN logs : logs[i] = tr
    /\ \A i, j \in DOMAIN logs :
           i < j => logs[i] # logs[j] /\ logs[i].timestamp <= logs[j].timestamp

(* what was applied *)
Seen == {logs[i] : i \in 1..cursor}

(* The cursor divides the logs at the instant of the integration; a log of *)
(* the epoch's end is never applied.                                       *)
CursorRight ==
    /\ tCur \in E0..E1
    /\ cursor \in 0..Len(logs)
    /\ \A i \in DOMAIN logs :
           IF i <= cursor THEN logs[i].timestamp <= tCur /\ logs[i].timestamp < E1
                          ELSE logs[i].timestamp >= tCur

BalancesRight ==
    /\ balances \in [Wallets -> Int]
    /\ \A w \in Wallets : balances[w] = HeldAfter(w, Seen)

(* A sum over the seconds that were integrated                             *)
Until(f) == SumFunctionOnSet(f, E0..(tCur - 1))

SumsRight ==
    /\ baseSeconds = [w \in Wallets |-> Until([t \in Seconds |-> BalanceAt(w, t)])]
    /\ unlockedSeconds = [w \in Wallets |->
          Until([t \in Seconds |-> BalanceAt(w, t) - TotalLockedAt(w, t)])]
    /\ lockedSeconds = [w \in Wallets |-> [tier \in Tiers |->
          Until([t \in Seconds |-> LockedAt(w, tier, t)])]]
    /\ \A w \in Wallets, t \in E0..(tCur - 1) : TotalLockedAt(w, t) <= BalanceAt(w, t)

IntegralRight ==
    stage = "integrate" => OrderRight /\ CursorRight /\ BalancesRight /\ SumsRight

(* Where the next segment ends: after the present, with no breakpoint in   *)
(* between                                                                 *)
LEMMA NextBreakpoint ==
    ASSUME InputRight, stage = "integrate", OrderRight, CursorRight, tCur < E1
    PROVE  LET tNext == Min({t \in Breakpoints : t > tCur})
           IN  /\ tNext \in Int /\ tCur < tNext /\ tNext <= E1
               /\ \A t \in Breakpoints : t > tCur => t >= tNext
<1> DEFINE B == {t \in Breakpoints : t > tCur}
           N == {t - tCur : t \in B}
<1>1. E0 \in Int /\ E1 \in Int /\ tCur \in Int
  BY InputFacts DEF CursorRight
<1>2. \A t \in Breakpoints : t \in Int
  <2>1. \A i \in DOMAIN logs : logs[i].timestamp \in Int
    <3>1. \A i \in DOMAIN logs : logs[i] \in Moves
      BY LenProperties, ElementOfSeq DEF OrderRight
    <3> QED  BY <3>1, InputFacts
  <2>2. \A l \in fixture.locks : l.start \in Int /\ l.unlock \in Int
                                  /\ l.withdrawal \in Int /\ BonusEnd(l) \in Int
    BY InputFacts DEF BonusEnd
  <2> QED  BY <1>1, <2>1, <2>2 DEF Breakpoints
<1>3. E1 \in B
  BY DEF Breakpoints
<1>4. N \in SUBSET Nat /\ N # {}
  BY <1>1, <1>2, <1>3
<1>5. PICK m \in N : \A n \in N : m <= n
  <2> HIDE DEF N
  <2> QED  BY <1>4, Least
<1>6. PICK b \in B : m = b - tCur
  OBVIOUS
<1>7. ASSUME NEW t \in B PROVE b <= t
  <2>1. t - tCur \in N
    OBVIOUS
  <2>2. b - tCur <= t - tCur
    BY <1>5, <1>6, <2>1
  <2>3. b \in Int /\ t \in Int
    BY <1>2
  <2> QED  BY <1>1, <2>2, <2>3
<1>8. Min(B) \in B /\ \A t \in B : Min(B) <= t
  <2> HIDE DEF B
  <2> QED  BY <1>6, <1>7 DEF Min
<1> QED  BY <1>1, <1>2, <1>3, <1>8

(* A log that is not applied yet comes in a later segment.                 *)
LEMMA LogsBeyond ==
    ASSUME InputRight, stage = "integrate", OrderRight, CursorRight, tCur < E1,
           ~Due, NEW tNext \in Int,
           \A b \in Breakpoints : b > tCur => b >= tNext,
           NEW i \in DOMAIN logs, i > cursor
    PROVE  logs[i].timestamp \in Int /\ logs[i].timestamp >= tNext
<1>1. /\ tCur \in Int /\ cursor \in Nat /\ cursor <= Len(logs)
      /\ Len(logs) \in Nat /\ DOMAIN logs = 1..Len(logs)
  BY InputFacts, LenProperties DEF OrderRight, CursorRight
<1>2. \A j \in DOMAIN logs : logs[j].timestamp \in Int
  BY <1>1, InputFacts, ElementOfSeq DEF OrderRight
<1>3. cursor + 1 \in DOMAIN logs /\ cursor + 1 <= i
  BY <1>1
<1>4. logs[cursor + 1].timestamp > tCur
  <2>1. logs[cursor + 1].timestamp # tCur
    BY <1>1, <1>3 DEF Due
  <2>2. logs[cursor + 1].timestamp >= tCur
    BY <1>1, <1>3 DEF CursorRight
  <2> QED  BY <1>1, <1>2, <1>3, <2>1, <2>2
<1>5. logs[cursor + 1].timestamp <= logs[i].timestamp
  <2>1. CASE cursor + 1 = i
    BY <1>2, <2>1
  <2>2. CASE cursor + 1 < i
    BY <1>3, <2>2 DEF OrderRight
  <2> QED  BY <1>1, <1>3, <2>1, <2>2
<1>6. logs[i].timestamp \in Breakpoints
  BY DEF Breakpoints
<1> QED  BY <1>1, <1>2, <1>3, <1>4, <1>5, <1>6

(* Between breakpoints nothing changes: what is applied and locked now is  *)
(* what is in every second of the segment.                                 *)
LEMMA SegmentConstant ==
    ASSUME InputRight, stage = "integrate", OrderRight, CursorRight, BalancesRight,
           tCur < E1, ~Due, NEW tNext \in Int, tNext <= E1,
           \A b \in Breakpoints : b > tCur => b >= tNext,
           NEW t \in tCur..(tNext - 1)
    PROVE  /\ t \in Seconds
           /\ \A w \in Wallets : BalanceAt(w, t) = balances[w]
           /\ \A w, tier : LockedAt(w, tier, t) = ActiveLocked(w, tier, tCur)
           /\ \A w : TotalLockedAt(w, t) = ActiveTotal(w, tCur)
<1>1. /\ E0 \in Int /\ E1 \in Int /\ tCur \in Int /\ E0 <= tCur /\ t \in Int
      /\ tCur <= t /\ t < tNext
  BY InputFacts DEF CursorRight
<1>2. t \in Seconds
  BY <1>1 DEF Seconds
<1>3. /\ Len(logs) \in Nat /\ DOMAIN logs = 1..Len(logs)
      /\ \A i \in DOMAIN logs : logs[i] \in Moves /\ logs[i].timestamp \in Int
  <2>1. Len(logs) \in Nat /\ DOMAIN logs = 1..Len(logs)
    BY LenProperties DEF OrderRight
  <2>2. \A i \in DOMAIN logs : logs[i] \in Moves
    BY <2>1, ElementOfSeq DEF OrderRight
  <2> QED  BY <2>1, <2>2, InputFacts
<1>4. cursor \in Nat /\ cursor <= Len(logs)
  BY <1>3 DEF CursorRight
<1>5. ASSUME NEW i \in DOMAIN logs, i > cursor PROVE logs[i].timestamp >= tNext
  BY <1>5, LogsBeyond
<1>6. {tr \in Moves : tr.timestamp <= t} = Seen
  <2>1. ASSUME NEW tr \in Moves, tr.timestamp <= t PROVE tr \in Seen
    <3>1. PICK i \in DOMAIN logs : logs[i] = tr
      BY DEF OrderRight
    <3>2. i <= cursor
      BY <1>1, <1>3, <1>4, <1>5, <2>1, <3>1
    <3> QED  BY <1>3, <1>4, <3>1, <3>2 DEF Seen
  <2>2. ASSUME NEW tr \in Seen PROVE tr \in Moves /\ tr.timestamp <= t
    <3>1. PICK i \in 1..cursor : tr = logs[i]
      BY DEF Seen
    <3>2. i \in DOMAIN logs /\ i <= cursor
      BY <1>3, <1>4
    <3>3. logs[i].timestamp <= tCur
      BY <3>2 DEF CursorRight
    <3> QED  BY <1>1, <1>3, <3>1, <3>2, <3>3
  <2> QED  BY <2>1, <2>2
<1>7. ASSUME NEW w \in Wallets PROVE BalanceAt(w, t) = balances[w]
  BY <1>6 DEF BalanceAt, BalancesRight, Moves
<1>8. ASSUME NEW l \in fixture.locks
      PROVE  (/\ t \in l.start..(l.unlock - 1)
              /\ (l.withdrawal = None \/ t < l.withdrawal))
               <=> (l.start <= tCur /\ tCur < BonusEnd(l))
  <2>1. l.start \in Int /\ l.unlock \in Int /\ l.withdrawal \in Int
    BY InputFacts
  <2>2. ASSUME NEW b \in {l.start, BonusEnd(l)}, tCur < b PROVE t < b
    <3>1. b \in Int
      BY <2>1 DEF BonusEnd
    <3>2. CASE b < E1
      <4>1. b \in Breakpoints
        BY <1>1, <2>1, <2>2, <3>1, <3>2 DEF Breakpoints
      <4> QED  BY <1>1, <2>2, <3>1, <4>1
    <3> QED  BY <1>1, <3>1, <3>2
  <2>3. BonusEnd(l) \in Int
    BY <2>1 DEF BonusEnd
  <2>4. l.start <= tCur <=> l.start <= t
    BY <1>1, <2>1, <2>2
  <2>5. tCur < BonusEnd(l) <=> t < BonusEnd(l)
    BY <1>1, <2>2, <2>3
  <2>6. t < BonusEnd(l)
          <=> t < l.unlock /\ (l.withdrawal = None \/ t < l.withdrawal)
    BY <1>1, <2>1 DEF BonusEnd
  <2> QED  BY <1>1, <2>1, <2>4, <2>5, <2>6
<1>9. ASSUME NEW w, NEW tier
      PROVE  LockedAt(w, tier, t) = ActiveLocked(w, tier, tCur)
  <2>1. {l \in fixture.locks : /\ l.wallet = w /\ l.tier = tier
                               /\ t \in l.start..(l.unlock - 1)
                               /\ (l.withdrawal = None \/ t < l.withdrawal)}
          = {l \in fixture.locks : /\ l.wallet = w /\ l.tier = tier
                                   /\ l.start <= tCur /\ tCur < BonusEnd(l)}
    BY <1>8
  <2> QED  BY <2>1 DEF LockedAt, ActiveLocked
<1>10. ASSUME NEW w PROVE TotalLockedAt(w, t) = ActiveTotal(w, tCur)
  <2>1. [tier \in Tiers |-> LockedAt(w, tier, t)]
          = [tier \in Tiers |-> ActiveLocked(w, tier, tCur)]
    BY <1>9
  <2> QED  BY <2>1 DEF TotalLockedAt, ActiveTotal
<1> QED  BY <1>2, <1>7, <1>9, <1>10

(* Logs that are in order one by one are in order altogether; since their  *)
(* positions grow, none comes twice.                                       *)
LEMMA OrderEstablished ==
    ASSUME InputRight, stage = "canonicalize",
           NEW s \in Canonical(fixture.transfers),
           \A i \in 2..Len(s) : InOrder(s[i-1], s[i])
    PROVE  /\ s \in Seq(Moves)
           /\ \A tr \in Moves : \E i \in DOMAIN s : s[i] = tr
           /\ \A i, j \in DOMAIN s :
                  i < j => s[i] # s[j] /\ s[i].timestamp <= s[j].timestamp
<1> DEFINE n == Cardinality(Moves)
<1>1. n \in Nat
  BY InputFacts, FS_CardinalityType
<1>2. s \in [1..n -> Moves] /\ Range(s) = Moves
  BY DEF Canonical, Moves
<1>3. s \in Seq(Moves) /\ Len(s) = n /\ DOMAIN s = 1..n
  <2> HIDE DEF n
  <2> QED  BY <1>1, <1>2
<1> HIDE DEF n
<1>4. \A tr \in Moves : \E i \in DOMAIN s : s[i] = tr
  BY <1>2 DEF Range
<1>5. \A i \in 1..n : s[i].pos \in Int /\ s[i].timestamp \in Int
  BY <1>2, PodAssumption DEF InputRight, Moves
<1>6. ASSUME NEW i \in 1..n, NEW j \in 1..n, i < j
      PROVE  s[i].pos < s[j].pos /\ s[i].timestamp <= s[j].timestamp
  <2> DEFINE Wrong == {k \in (i+1)..n : ~(/\ s[i].pos < s[k].pos
                                          /\ s[i].timestamp <= s[k].timestamp)}
  <2>1. SUFFICES ASSUME Wrong # {} PROVE FALSE
    BY <1>1, <1>6
  <2>2. Wrong \in SUBSET Nat
    BY <1>1
  <2>3. PICK k \in Wrong : \A m \in Wrong : k <= m
    BY <2>1, <2>2, Least
  <2>4. k \in (i+1)..n /\ k - 1 \in 1..n /\ k \in 2..Len(s) /\ k \in 1..n /\ i \in Int
    BY <1>1, <1>3, <2>3
  <2>5. s[k-1].pos < s[k].pos /\ s[k-1].timestamp <= s[k].timestamp
    BY <2>4 DEF InOrder
  <2>6. s[i].pos <= s[k-1].pos /\ s[i].timestamp <= s[k-1].timestamp
    <3>1. CASE k - 1 = i
      BY <1>5, <2>4, <3>1
    <3>2. CASE k - 1 # i
      <4>1. k - 1 \in (i+1)..n /\ k - 1 \notin Wrong
        BY <2>3, <2>4, <3>2
      <4>2. s[i].pos < s[k-1].pos /\ s[i].timestamp <= s[k-1].timestamp
        BY <4>1
      <4> QED  BY <1>5, <2>4, <4>2
    <3> QED  BY <3>1, <3>2
  <2>7. s[i].pos < s[k].pos /\ s[i].timestamp <= s[k].timestamp
    BY <1>5, <2>4, <2>5, <2>6
  <2> QED  BY <2>3, <2>7
<1>7. ASSUME NEW i \in DOMAIN s, NEW j \in DOMAIN s, i < j
      PROVE  s[i] # s[j] /\ s[i].timestamp <= s[j].timestamp
  <2>1. s[i].pos < s[j].pos /\ s[i].timestamp <= s[j].timestamp
    BY <1>3, <1>6, <1>7
  <2>2. s[i].pos \in Int
    BY <1>3, <1>5
  <2> QED  BY <2>1, <2>2
<1> QED  BY <1>3, <1>4, <1>7

LEMMA NothingHeld ==
    ASSUME InputRight, stage \notin {"load", "failed"}, NEW w \in Wallets
    PROVE  HeldAfter(w, {}) = fixture.startBalances[w]
<1>1. Transferred({}) = 0
  BY SumEmpty DEF Transferred
<1>2. {tr \in {} : tr.to = w} = {} /\ {tr \in {} : tr.from = w} = {}
  OBVIOUS
<1>3. fixture.startBalances[w] \in Nat
  BY InputFacts
<1> QED  BY <1>1, <1>2, <1>3 DEF HeldAfter

(* Before the integration *)
Fresh ==
    stage \in {"load", "canonicalize"} =>
        /\ cursor = 0
        /\ baseSeconds = ZeroEach
        /\ unlockedSeconds = ZeroEach
        /\ lockedSeconds = [w \in Wallets |-> [tier \in Tiers |-> 0]]

LEMMA CanonicalizeIntegral ==
    ASSUME InputRight, Fresh, CanonicalizeTransfers
    PROVE  IntegralRight'
<1>1. CASE stage' = "failed"
  BY <1>1 DEF IntegralRight
<1>2. CASE stage' # "failed"
  <2>1. PICK s \in Canonical(fixture.transfers) :
            /\ \A i \in 2..Len(s) : InOrder(s[i-1], s[i])
            /\ stage' = "integrate" /\ logs' = s
            /\ balances' = fixture.startBalances
            /\ tCur' = E0
            /\ fixture' = fixture /\ cursor' = cursor
            /\ baseSeconds' = baseSeconds
            /\ unlockedSeconds' = unlockedSeconds
            /\ lockedSeconds' = lockedSeconds
    BY <1>2 DEF CanonicalizeTransfers, Throw, inputVars
  <2>2. stage = "canonicalize"
    BY DEF CanonicalizeTransfers
  <2>3. /\ cursor = 0
        /\ baseSeconds = ZeroEach
        /\ unlockedSeconds = ZeroEach
        /\ lockedSeconds = [w \in Wallets |-> [tier \in Tiers |-> 0]]
    BY <2>2 DEF Fresh
  <2>4. OrderRight'
    <3>1. /\ s \in Seq(Moves)
          /\ \A tr \in Moves : \E i \in DOMAIN s : s[i] = tr
          /\ \A i, j \in DOMAIN s :
                 i < j => s[i] # s[j] /\ s[i].timestamp <= s[j].timestamp
      BY <2>1, <2>2, OrderEstablished
    <3>2. Moves' = Moves
      BY <2>1 DEF Moves
    <3> QED  BY <2>1, <3>1, <3>2 DEF OrderRight
  <2>5. /\ E0 \in Int /\ E1 \in Int /\ E0 < E1
        /\ \A tr \in Moves : tr.timestamp \in Int /\ E0 <= tr.timestamp
        /\ E0' = E0 /\ E1' = E1
    BY <2>1, <2>2, InputFacts DEF E0, E1
  <2>6. CursorRight'
    <3>1. s \in Seq(Moves)
      BY <2>1, <2>2, OrderEstablished
    <3>2. Len(s) \in Nat /\ DOMAIN s = 1..Len(s) /\ \A i \in DOMAIN s : s[i] \in Moves
      BY <3>1, LenProperties, ElementOfSeq
    <3>3. \A i \in DOMAIN s : i > 0 /\ ~(i <= 0) /\ s[i].timestamp >= E0
      BY <2>5, <3>2
    <3>4. tCur' = E0 /\ cursor' = 0 /\ logs' = s
      BY <2>1, <2>3
    <3> QED  BY <2>5, <3>2, <3>3, <3>4 DEF CursorRight
  <2>7. BalancesRight'
    <3>1. Seen' = {}
      BY <2>1, <2>3 DEF Seen
    <3>2. \A w \in Wallets : HeldAfter(w, {}) = fixture.startBalances[w]
      BY <2>2, NothingHeld
    <3>3. ASSUME NEW w \in Wallets PROVE HeldAfter(w, Seen)' = HeldAfter(w, {})
      BY <2>1, <3>1 DEF HeldAfter
    <3>4. fixture.startBalances \in [Wallets -> Nat]
      BY <2>2, InputFacts
    <3> QED  BY <2>1, <3>2, <3>3, <3>4 DEF BalancesRight
  <2>8. SumsRight'
    <3>1. E0'..(tCur' - 1) = {}
      BY <2>1, <2>5
    <3>2. \A f : SumFunctionOnSet(f, E0'..(tCur' - 1)) = 0
      BY <3>1, SumEmpty
    <3>3. /\ baseSeconds' = [w \in Wallets |-> 0]
          /\ unlockedSeconds' = [w \in Wallets |-> 0]
          /\ lockedSeconds' = [w \in Wallets |-> [tier \in Tiers |-> 0]]
      BY <2>1, <2>3 DEF ZeroEach
    <3> QED  BY <3>1, <3>2, <3>3 DEF SumsRight, Until
  <2> QED  BY <2>4, <2>6, <2>7, <2>8 DEF IntegralRight
<1> QED  BY <1>1, <1>2

LEMMA ApplyIntegral ==
    ASSUME InputRight, IntegralRight, ApplyTransfer
    PROVE  IntegralRight'
<1>1. CASE stage' = "failed"
  BY <1>1 DEF IntegralRight
<1>2. CASE stage' # "failed"
  <2> DEFINE x == logs[cursor + 1]
             After == Credit(Debit(balances, x.from, x.amount), x.to, x.amount)
  <2>1. /\ stage = "integrate" /\ Due
        /\ balances' = After /\ cursor' = cursor + 1
        /\ fixture' = fixture /\ logs' = logs /\ tCur' = tCur
        /\ baseSeconds' = baseSeconds /\ unlockedSeconds' = unlockedSeconds
        /\ lockedSeconds' = lockedSeconds
    BY <1>2 DEF ApplyTransfer, Throw, inputVars
  <2>2. OrderRight /\ CursorRight /\ BalancesRight /\ SumsRight
    BY <2>1 DEF IntegralRight
  <2>3. /\ Moves' = Moves /\ E0' = E0 /\ E1' = E1 /\ Seconds' = Seconds
        /\ E0 \in Int /\ E1 \in Int /\ tCur \in Int
    BY <2>1, <2>2, InputFacts DEF Moves, E0, E1, Seconds, CursorRight
  <2>4. OrderRight'
    BY <2>1, <2>2, <2>3 DEF OrderRight
  <2>5. /\ Len(logs) \in Nat /\ DOMAIN logs = 1..Len(logs)
        /\ cursor \in 0..Len(logs) /\ cursor < Len(logs) /\ cursor + 1 \in DOMAIN logs
        /\ x \in Moves /\ x.timestamp = tCur /\ tCur < E1
    <3>1. Len(logs) \in Nat /\ DOMAIN logs = 1..Len(logs)
      BY <2>2, LenProperties DEF OrderRight
    <3>2. /\ cursor \in 0..Len(logs) /\ cursor < Len(logs)
          /\ x.timestamp = tCur /\ tCur < E1
      BY <2>1, <2>2 DEF CursorRight, Due
    <3>3. cursor + 1 \in DOMAIN logs
      BY <3>1, <3>2
    <3> QED  BY <2>2, <3>1, <3>2, <3>3, ElementOfSeq DEF OrderRight
  <2>6. CursorRight'
    <3>1. ASSUME NEW i \in DOMAIN logs
          PROVE  IF i <= cursor + 1
                 THEN logs[i].timestamp <= tCur /\ logs[i].timestamp < E1
                 ELSE logs[i].timestamp >= tCur
      <4>1. CASE i = cursor + 1
        BY <2>3, <2>5, <4>1
      <4>2. CASE i # cursor + 1
        <5>1. i <= cursor + 1 <=> i <= cursor
          BY <2>5, <4>2
        <5> QED  BY <2>2, <5>1 DEF CursorRight
      <4> QED  BY <4>1, <4>2
    <3>2. tCur \in E0..E1 /\ cursor + 1 \in 0..Len(logs)
      BY <2>2, <2>5 DEF CursorRight
    <3> QED  BY <2>1, <2>3, <3>1, <3>2 DEF CursorRight
  <2>7. BalancesRight'
    <3>1. Seen' = Seen \cup {x}
      <4>1. 1..(cursor + 1) = (1..cursor) \cup {cursor + 1}
        BY <2>5
      <4> QED  BY <2>1, <4>1 DEF Seen
    <3>2. x \notin Seen
      <4>1. ASSUME NEW i \in 1..cursor PROVE logs[i] # x
        <5>1. i \in DOMAIN logs /\ i < cursor + 1
          BY <2>5
        <5> QED  BY <2>2, <2>5, <5>1 DEF OrderRight
      <4> QED  BY <4>1 DEF Seen
    <3>3. Seen \in SUBSET Moves
      <4>1. ASSUME NEW i \in 1..cursor PROVE logs[i] \in Moves
        <5>1. i \in 1..Len(logs)
          BY <2>5
        <5> QED  BY <2>2, <5>1, ElementOfSeq DEF OrderRight
      <4> QED  BY <4>1 DEF Seen
    <3>4. ASSUME NEW w \in Wallets
          PROVE  HeldAfter(w, Seen)' = HeldAfter(w, Seen \cup {x})
      BY <2>1, <3>1 DEF HeldAfter
    <3>5. ASSUME NEW w \in Wallets
          PROVE  HeldAfter(w, Seen \cup {x})
                   = balances[w] + (IF x.to = w THEN x.amount ELSE 0)
                                 - (IF x.from = w THEN x.amount ELSE 0)
      <4>1. balances[w] = HeldAfter(w, Seen)
        BY <2>2 DEF BalancesRight
      <4>2. stage \notin {"load", "failed"}
        BY <2>1
      <4> HIDE DEF x
      <4> QED  BY <2>5, <3>2, <3>3, <4>1, <4>2, HeldNext
    <3>6. /\ x.amount \in Nat /\ x.from \in Wallets \cup {Zero}
          /\ x.to \in Wallets \cup {Zero} /\ Zero \notin Wallets
      BY <2>1, <2>5, InputFacts, PodAssumption
    <3>7. balances \in [Wallets -> Int]
      BY <2>2 DEF BalancesRight
    <3> HIDE DEF x
    <3>8. /\ After \in [Wallets -> Int]
          /\ \A w \in Wallets :
                After[w] = balances[w] + (IF x.to = w THEN x.amount ELSE 0)
                                       - (IF x.from = w THEN x.amount ELSE 0)
      <4> DEFINE D == Debit(balances, x.from, x.amount)
      <4>1. /\ D \in [Wallets -> Int]
            /\ \A w \in Wallets : D[w] = balances[w] - (IF x.from = w THEN x.amount ELSE 0)
        BY <3>6, <3>7 DEF Debit
      <4>2. After = Credit(D, x.to, x.amount)
        OBVIOUS
      <4> HIDE DEF D, After
      <4>3. /\ After \in [Wallets -> Int]
            /\ \A w \in Wallets : After[w] = D[w] + (IF x.to = w THEN x.amount ELSE 0)
        BY <3>6, <4>1, <4>2 DEF Credit
      <4>4. ASSUME NEW w \in Wallets
            PROVE  After[w] = balances[w] + (IF x.to = w THEN x.amount ELSE 0)
                                          - (IF x.from = w THEN x.amount ELSE 0)
        <5>1. balances[w] \in Int
          BY <3>7
        <5> QED  BY <3>6, <4>1, <4>3, <5>1
      <4> QED  BY <4>3, <4>4
    <3> HIDE DEF After
    <3> QED  BY <2>1, <3>4, <3>5, <3>8 DEF BalancesRight
  <2>8. SumsRight'
    BY <2>1, <2>2, <2>3 DEF SumsRight, Until, BalanceAt, HeldAfter, TotalLockedAt,
                            LockedAt
  <2> QED  BY <2>4, <2>6, <2>7, <2>8 DEF IntegralRight
<1> QED  BY <1>1, <1>2

(* The arithmetic of a segment                                             *)
LEMMA SumGoesOn ==
    ASSUME InputRight, stage = "integrate", CursorRight,
           NEW tNext \in Int, tCur < tNext, tNext <= E1, NEW c \in Int,
           NEW f, \A t \in Seconds : f[t] \in Int,
           \A t \in tCur..(tNext - 1) : f[t] = c
    PROVE  SumFunctionOnSet(f, E0..(tNext - 1)) = Until(f) + c * (tNext - tCur)
<1>1. /\ E0 \in Int /\ E1 \in Int /\ tCur \in Int /\ E0 <= tCur /\ tCur <= tNext
  BY InputFacts DEF CursorRight
<1>2. \A t \in E0..(tNext - 1) : f[t] \in Int
  BY <1>1 DEF Seconds
<1> QED  BY <1>1, <1>2, SumSegment DEF Until

LEMMA BalanceType ==
    ASSUME InputRight, stage \notin {"load", "failed"}, NEW w \in Wallets, NEW t
    PROVE  BalanceAt(w, t) \in Int
<1>1. {tr \in Moves : tr.timestamp <= t} \in SUBSET Moves
  OBVIOUS
<1> QED  BY <1>1, HeldType DEF BalanceAt, Moves

(* A segment either throws, for a lock above a balance at its start, or    *)
(* goes on to the next breakpoint.                                         *)
LEMMA SegmentStep ==
    ASSUME InputRight, IntegralRight, Accumulate
    PROVE  /\ stage' = "failed" => \E w \in Wallets, t \in Seconds :
                                       TotalLockedAt(w, t) > BalanceAt(w, t)
           /\ IntegralRight'
<1> DEFINE tNext == Min({t \in Breakpoints : t > tCur})
           dur == tNext - tCur
<1>1. /\ stage = "integrate" /\ ~Due /\ tCur < E1
      /\ OrderRight /\ CursorRight /\ BalancesRight /\ SumsRight
  BY DEF Accumulate, IntegralRight
<1>2. /\ tNext \in Int /\ tCur < tNext /\ tNext <= E1
      /\ \A t \in Breakpoints : t > tCur => t >= tNext
  BY <1>1, NextBreakpoint
<1>3. \/ /\ \E w \in Wallets : balances[w] - ActiveTotal(w, tCur) < 0
         /\ Throw("LOCK_EXCEEDS_BALANCE")
      \/ /\ \A w \in Wallets : balances[w] - ActiveTotal(w, tCur) >= 0
         /\ baseSeconds' = [w \in Wallets |-> baseSeconds[w] + balances[w] * dur]
         /\ unlockedSeconds' = [w \in Wallets |-> unlockedSeconds[w]
                                   + (balances[w] - ActiveTotal(w, tCur)) * dur]
         /\ lockedSeconds' = [w \in Wallets |-> [tier \in Tiers |->
                lockedSeconds[w][tier] + ActiveLocked(w, tier, tCur) * dur]]
         /\ tCur' = tNext
         /\ stage' = stage /\ fixture' = fixture /\ logs' = logs
         /\ balances' = balances /\ cursor' = cursor
  BY DEF Accumulate, inputVars
<1> HIDE DEF tNext
<1>4. ASSUME NEW t \in tCur..(tNext - 1)
      PROVE  /\ t \in Seconds
             /\ \A w \in Wallets : BalanceAt(w, t) = balances[w]
             /\ \A w, tier : LockedAt(w, tier, t) = ActiveLocked(w, tier, tCur)
             /\ \A w : TotalLockedAt(w, t) = ActiveTotal(w, tCur)
  BY <1>1, <1>2, SegmentConstant
<1>5. /\ E0 \in Int /\ E1 \in Int /\ tCur \in Int /\ E0 <= tCur
      /\ tCur \in tCur..(tNext - 1)
  BY <1>1, <1>2, InputFacts DEF CursorRight
<1>6. \A w \in Wallets : balances[w] \in Int /\ ActiveTotal(w, tCur) \in Nat
  BY <1>1, LockedType DEF BalancesRight
<1>7. CASE \E w \in Wallets : balances[w] - ActiveTotal(w, tCur) < 0
  <2>1. PICK w \in Wallets : balances[w] - ActiveTotal(w, tCur) < 0
    BY <1>7
  <2>2. tCur \in Seconds /\ TotalLockedAt(w, tCur) > BalanceAt(w, tCur)
    BY <1>4, <1>5, <1>6, <2>1
  <2>3. stage' = "failed"
    BY <1>3, <1>6, <2>1 DEF Throw
  <2> QED  BY <2>2, <2>3 DEF IntegralRight
<1>8. CASE ~\E w \in Wallets : balances[w] - ActiveTotal(w, tCur) < 0
  <2>1. /\ \A w \in Wallets : balances[w] - ActiveTotal(w, tCur) >= 0
        /\ baseSeconds' = [w \in Wallets |-> baseSeconds[w] + balances[w] * dur]
        /\ unlockedSeconds' = [w \in Wallets |-> unlockedSeconds[w]
                                   + (balances[w] - ActiveTotal(w, tCur)) * dur]
        /\ lockedSeconds' = [w \in Wallets |-> [tier \in Tiers |->
                lockedSeconds[w][tier] + ActiveLocked(w, tier, tCur) * dur]]
        /\ tCur' = tNext
        /\ stage' = stage /\ fixture' = fixture /\ logs' = logs
        /\ balances' = balances /\ cursor' = cursor
    BY <1>3, <1>8
  <2>2. /\ Moves' = Moves /\ E0' = E0 /\ E1' = E1 /\ Seconds' = Seconds
        /\ Seen' = Seen
    BY <2>1 DEF Moves, E0, E1, Seconds, Seen
  <2>3. OrderRight'
    BY <1>1, <2>1, <2>2 DEF OrderRight
  <2>4. CursorRight'
    <3>1. ASSUME NEW i \in DOMAIN logs
          PROVE  IF i <= cursor
                 THEN logs[i].timestamp <= tNext /\ logs[i].timestamp < E1
                 ELSE logs[i].timestamp >= tNext
      <4>1. logs[i].timestamp \in Int
        BY <1>1, InputFacts, ElementOfSeq, LenProperties DEF OrderRight
      <4>2. CASE i <= cursor
        <5>1. logs[i].timestamp <= tCur /\ logs[i].timestamp < E1
          BY <1>1, <4>2 DEF CursorRight
        <5> QED  BY <1>2, <1>5, <4>1, <4>2, <5>1
      <4>3. CASE ~(i <= cursor)
        <5>1. i > cursor
          BY <1>1, <4>3, LenProperties DEF OrderRight, CursorRight
        <5> QED  BY <1>1, <1>2, <4>3, <5>1, LogsBeyond
      <4> QED  BY <4>2, <4>3
    <3>2. tNext \in E0..E1 /\ cursor \in 0..Len(logs)
      BY <1>1, <1>2, <1>5 DEF CursorRight
    <3> QED  BY <2>1, <2>2, <3>1, <3>2 DEF CursorRight
  <2>5. BalancesRight'
    <3>1. \A w \in Wallets : HeldAfter(w, Seen)' = HeldAfter(w, Seen)
      BY <2>1, <2>2 DEF HeldAfter
    <3> QED  BY <1>1, <2>1, <3>1 DEF BalancesRight
  <2>6. /\ \A w, t : (BalanceAt(w, t))' = BalanceAt(w, t)
        /\ \A w, tier, t : (LockedAt(w, tier, t))' = LockedAt(w, tier, t)
        /\ \A w, t : (TotalLockedAt(w, t))' = TotalLockedAt(w, t)
    BY <2>1 DEF BalanceAt, HeldAfter, LockedAt, TotalLockedAt
  <2>7. /\ \A w \in Wallets : \A t : BalanceAt(w, t) \in Int
        /\ \A w, t : TotalLockedAt(w, t) \in Nat
        /\ \A w, tier, t : LockedAt(w, tier, t) \in Nat
    BY <1>1, BalanceType, LockedType
  <2> DEFINE Held(w) == [t \in Seconds |-> BalanceAt(w, t)]
             Free(w) == [t \in Seconds |-> BalanceAt(w, t) - TotalLockedAt(w, t)]
             Locked(w, tier) == [t \in Seconds |-> LockedAt(w, tier, t)]
             Upto(f) == SumFunctionOnSet(f, E0..(tNext - 1))
  <2>8. ASSUME NEW w \in Wallets
        PROVE  /\ Upto(Held(w)) = Until(Held(w)) + balances[w] * dur
               /\ Upto(Free(w)) = Until(Free(w))
                                    + (balances[w] - ActiveTotal(w, tCur)) * dur
               /\ \A tier \in Tiers : Upto(Locked(w, tier))
                     = Until(Locked(w, tier)) + ActiveLocked(w, tier, tCur) * dur
    <3>1. /\ \A t \in Seconds : Held(w)[t] \in Int /\ Free(w)[t] \in Int
          /\ \A tier : \A t \in Seconds : Locked(w, tier)[t] \in Int
      BY <2>7
    <3>2. /\ \A t \in tCur..(tNext - 1) :
                 /\ Held(w)[t] = balances[w]
                 /\ Free(w)[t] = balances[w] - ActiveTotal(w, tCur)
          /\ \A tier : \A t \in tCur..(tNext - 1) :
                 Locked(w, tier)[t] = ActiveLocked(w, tier, tCur)
      BY <1>4
    <3>3. /\ balances[w] \in Int /\ balances[w] - ActiveTotal(w, tCur) \in Int
          /\ \A tier : ActiveLocked(w, tier, tCur) \in Int
      BY <1>1, <1>6, LockedType
    <3> HIDE DEF Held, Free, Locked
    <3>4. Upto(Held(w)) = Until(Held(w)) + balances[w] * dur
      BY <1>1, <1>2, <3>1, <3>2, <3>3, SumGoesOn
    <3>5. Upto(Free(w)) = Until(Free(w)) + (balances[w] - ActiveTotal(w, tCur)) * dur
      BY <1>1, <1>2, <3>1, <3>2, <3>3, SumGoesOn
    <3>6. ASSUME NEW tier \in Tiers
          PROVE  Upto(Locked(w, tier))
                   = Until(Locked(w, tier)) + ActiveLocked(w, tier, tCur) * dur
      BY <1>1, <1>2, <3>1, <3>2, <3>3, SumGoesOn
    <3> QED  BY <3>4, <3>5, <3>6
  <2>9. /\ baseSeconds' = [w \in Wallets |-> Upto(Held(w))]
        /\ unlockedSeconds' = [w \in Wallets |-> Upto(Free(w))]
        /\ lockedSeconds' = [w \in Wallets |-> [tier \in Tiers |-> Upto(Locked(w, tier))]]
    <3>1. /\ baseSeconds = [w \in Wallets |-> Until(Held(w))]
          /\ unlockedSeconds = [w \in Wallets |-> Until(Free(w))]
          /\ lockedSeconds = [w \in Wallets |-> [tier \in Tiers |-> Until(Locked(w, tier))]]
      BY <1>1 DEF SumsRight
    <3> HIDE DEF Held, Free, Locked, Upto, dur
    <3> QED  BY <2>1, <2>8, <3>1
  <2>10. ASSUME NEW w \in Wallets, NEW t \in E0..(tNext - 1)
         PROVE  TotalLockedAt(w, t) <= BalanceAt(w, t)
    <3>1. CASE t < tCur
      <4>1. t \in E0..(tCur - 1)
        BY <1>2, <1>5, <3>1
      <4> QED  BY <1>1, <4>1 DEF SumsRight
    <3>2. CASE t >= tCur
      <4>1. t \in tCur..(tNext - 1)
        BY <1>2, <1>5, <3>2
      <4> QED  BY <1>4, <1>6, <2>1, <4>1
    <3> QED  BY <1>2, <1>5, <3>1, <3>2
  <2>11. SumsRight'
    BY <2>1, <2>2, <2>6, <2>9, <2>10 DEF SumsRight, Until
  <2> QED  BY <1>1, <2>1, <2>3, <2>4, <2>5, <2>11 DEF IntegralRight
<1> QED  BY <1>7, <1>8

(* The weights of the end of the epoch                                     *)
LEMMA WeighRight ==
    ASSUME InputRight, IntegralRight, Weigh,
           error # "LOCK_EXCEEDS_BALANCE" \/
             \E w \in Wallets, t \in Seconds : TotalLockedAt(w, t) > BalanceAt(w, t)
    PROVE  WeightsAreTheIntegral' /\ Weighed'
<1>1. /\ stage = "integrate" /\ tCur = E1 /\ stage' = "resolve"
      /\ fixture' = fixture /\ error' = error
      /\ OrderRight /\ CursorRight /\ BalancesRight /\ SumsRight
  BY DEF Weigh, IntegralRight, inputVars
<1>2. weights' = [w \in Wallets |->
          [snapshot |-> balances[w],
           baseTwab |-> baseSeconds[w] \div EPOCH_SECONDS,
           unlockedTwab |-> unlockedSeconds[w] \div EPOCH_SECONDS,
           lockedTwab |-> [tier \in Tiers |->
                             lockedSeconds[w][tier] \div EPOCH_SECONDS],
           effectiveWeight |-> EffectiveWeight(w)]]
  BY DEF Weigh
<1>3. /\ E0 \in Int /\ E1 \in Int /\ E0 < E1
      /\ E0' = E0 /\ E1' = E1 /\ Seconds' = Seconds /\ Seconds = E0..(tCur - 1)
  BY <1>1, InputFacts DEF E0, E1, Seconds
<1>4. \A f : Whole(f) = Until(f)
  BY <1>3 DEF Whole, Until
<1>5. /\ \A w : \A t : (BalanceAt(w, t))' = BalanceAt(w, t)
      /\ \A w : \A tier : \A t : (LockedAt(w, tier, t))' = LockedAt(w, tier, t)
      /\ \A w : \A t : (TotalLockedAt(w, t))' = TotalLockedAt(w, t)
  BY <1>1 DEF BalanceAt, HeldAfter, LockedAt, TotalLockedAt
<1>6. /\ Len(logs) \in Nat /\ DOMAIN logs = 1..Len(logs)
      /\ \A i \in DOMAIN logs : logs[i] \in Moves /\ logs[i].timestamp \in Int
      /\ cursor \in 0..Len(logs)
  BY <1>1, InputFacts, LenProperties, ElementOfSeq DEF OrderRight, CursorRight
<1>7. {tr \in Moves : tr.timestamp <= E1 - 1} = Seen
  <2>1. ASSUME NEW tr \in Moves, tr.timestamp <= E1 - 1 PROVE tr \in Seen
    <3>1. PICK i \in DOMAIN logs : logs[i] = tr
      BY <1>1 DEF OrderRight
    <3>2. i <= cursor
      <4>1. ~(i <= cursor) => logs[i].timestamp >= E1
        BY <1>1 DEF CursorRight
      <4> QED  BY <1>3, <1>6, <2>1, <3>1, <4>1
    <3> QED  BY <1>6, <3>1, <3>2 DEF Seen
  <2>2. ASSUME NEW tr \in Seen PROVE tr \in Moves /\ tr.timestamp <= E1 - 1
    <3>1. PICK i \in 1..cursor : tr = logs[i]
      BY DEF Seen
    <3>2. i \in DOMAIN logs /\ i <= cursor
      BY <1>6
    <3>3. logs[i].timestamp < E1
      BY <1>1, <3>2 DEF CursorRight
    <3> QED  BY <1>3, <1>6, <3>1, <3>2, <3>3
  <2> QED  BY <2>1, <2>2
<1>8. \A w \in Wallets : balances[w] = BalanceAt(w, E1 - 1)
  BY <1>1, <1>7 DEF BalancesRight, BalanceAt, Moves
<1>9. ASSUME NEW w \in Wallets
      PROVE  /\ \A t \in Seconds : TotalLockedAt(w, t) <= BalanceAt(w, t)
             /\ weights'[w].snapshot = BalanceAt(w, E1 - 1)
             /\ weights'[w].baseTwab =
                  Whole([t \in Seconds |-> BalanceAt(w, t)]) \div EPOCH_SECONDS
             /\ weights'[w].unlockedTwab =
                  Whole([t \in Seconds |-> BalanceAt(w, t) - TotalLockedAt(w, t)])
                    \div EPOCH_SECONDS
             /\ \A tier \in Tiers : weights'[w].lockedTwab[tier] =
                  Whole([t \in Seconds |-> LockedAt(w, tier, t)])
                    \div EPOCH_SECONDS
  <2>1. \A t \in Seconds : TotalLockedAt(w, t) <= BalanceAt(w, t)
    BY <1>1, <1>3 DEF SumsRight
  <2>2. /\ weights'[w].snapshot = balances[w]
        /\ weights'[w].baseTwab = baseSeconds[w] \div EPOCH_SECONDS
        /\ weights'[w].unlockedTwab = unlockedSeconds[w] \div EPOCH_SECONDS
        /\ \A tier \in Tiers : weights'[w].lockedTwab[tier]
                                 = lockedSeconds[w][tier] \div EPOCH_SECONDS
    BY <1>2
  <2>3. /\ baseSeconds[w] = Until([t \in Seconds |-> BalanceAt(w, t)])
        /\ unlockedSeconds[w] =
             Until([t \in Seconds |-> BalanceAt(w, t) - TotalLockedAt(w, t)])
        /\ \A tier \in Tiers : lockedSeconds[w][tier] =
             Until([t \in Seconds |-> LockedAt(w, tier, t)])
    BY <1>1 DEF SumsRight
  <2> QED  BY <1>4, <1>8, <2>1, <2>2, <2>3
<1>11. WeightsAreTheIntegral'
  BY <1>1, <1>3, <1>5, <1>9 DEF WeightsAreTheIntegral, Whole
<1>12. ASSUME NEW w \in Wallets PROVE EffectiveWeight(w) \in Nat
  <2> DEFINE free == [t \in Seconds |-> BalanceAt(w, t) - TotalLockedAt(w, t)]
             locked(tier) == [t \in Seconds |-> LockedAt(w, tier, t)]
             bonus == [tier \in Tiers |->
                mulDivFloor(lockedSeconds[w][tier] \div EPOCH_SECONDS,
                            TIER_SPECS[tier].multiplierBps, BPS_DENOMINATOR)]
  <2>1. EPOCH_SECONDS \in Nat \ {0} /\ IsFiniteSet(Tiers)
        /\ \A tier \in Tiers : TIER_SPECS[tier].multiplierBps \in Nat
    BY PodAssumption DEF Tiers
  <2>2. IsFiniteSet(Seconds)
    <3>1. E1 - 1 \in Int
      BY <1>3
    <3> QED  BY <1>3, <3>1, FS_Interval DEF Seconds
  <2>3. \A t \in Seconds : free[t] \in Nat
    <3>1. ASSUME NEW t \in Seconds PROVE BalanceAt(w, t) - TotalLockedAt(w, t) \in Nat
      <4>1. BalanceAt(w, t) \in Int /\ TotalLockedAt(w, t) \in Nat
        BY <1>1, BalanceType, LockedType
      <4>2. TotalLockedAt(w, t) <= BalanceAt(w, t)
        BY <1>9
      <4> QED  BY <4>1, <4>2
    <3> QED  BY <3>1
  <2>4. \A tier : \A t \in Seconds : locked(tier)[t] \in Nat
    BY <1>1, LockedType
  <2>5. unlockedSeconds[w] = Until(free)
        /\ \A tier \in Tiers : lockedSeconds[w][tier] = Until(locked(tier))
    BY <1>1 DEF SumsRight
  <2>6. EffectiveWeight(w) = unlockedSeconds[w] \div EPOCH_SECONDS
                               + SumFunctionOnSet(bonus, Tiers)
    BY DEF EffectiveWeight
  <2>7. unlockedSeconds[w] \in Nat
    <3> HIDE DEF free
    <3>1. SumFunctionOnSet(free, Seconds) \in Nat
      BY <2>2, <2>3, SumBound
    <3> QED  BY <1>4, <2>5, <3>1 DEF Whole
  <2>8. \A tier \in Tiers : lockedSeconds[w][tier] \in Nat
    <3> HIDE DEF locked
    <3> QED  BY <1>3, <2>2, <2>4, <2>5, SumBound DEF Until
  <2>9. ASSUME NEW n \in Nat, NEW d \in Nat \ {0} PROVE n \div d \in Nat
    OBVIOUS
  <2>10. \A tier \in Tiers : bonus[tier] \in Nat
    <3>1. ASSUME NEW tier \in Tiers
          PROVE  mulDivFloor(lockedSeconds[w][tier] \div EPOCH_SECONDS,
                             TIER_SPECS[tier].multiplierBps, BPS_DENOMINATOR) \in Nat
      <4> DEFINE n == lockedSeconds[w][tier] \div EPOCH_SECONDS
                 m == TIER_SPECS[tier].multiplierBps
      <4>1. n \in Nat /\ m \in Nat
        BY <2>1, <2>8, <2>9
      <4> HIDE DEF n, m
      <4>2. n * m \in Nat /\ 10000 \in Nat \ {0}
        BY <4>1
      <4>3. (n * m) \div 10000 \in Nat
        BY <2>9, <4>2
      <4> QED  BY <4>3 DEF n, m, mulDivFloor, BPS_DENOMINATOR
    <3> QED  BY <3>1
  <2>11. SumFunctionOnSet(bonus, Tiers) \in Nat
    <3> HIDE DEF bonus
    <3> QED  BY <2>1, <2>10, SumBound
  <2>12. unlockedSeconds[w] \div EPOCH_SECONDS \in Nat
    BY <2>1, <2>7, <2>9
  <2> HIDE DEF bonus
  <2> QED  BY <2>6, <2>11, <2>12
<1>13. Weighed'
  BY <1>1, <1>2, <1>12 DEF Weighed, WeightOf
<1> QED  BY <1>11, <1>13

----------------------------------------------------------------------------
(* THE INDUCTIVE INVARIANT                                                 *)

PodInv ==
    /\ InputRight
    /\ Fresh
    /\ IntegralRight
    /\ Weighed
    /\ WeightsAreTheIntegral
    /\ SharesRight

LEMMA PodStart == PodInit => PodInv
BY DEF PodInit, PodInv, InputRight, Fresh, IntegralRight, Weighed,
       WeightsAreTheIntegral, SharesRight

(* A step that leaves the input and the weights alone says the same of     *)
(* them.                                                                   *)
LEMMA WeightsKept ==
    ASSUME WeightsAreTheIntegral, Weighed,
           fixture' = fixture, error' = error, weights' = weights,
           stage' \in {"resolve", "allocate", "done"}
             => stage \in {"resolve", "allocate", "done"}
    PROVE  WeightsAreTheIntegral' /\ Weighed'
<1>1. /\ E0' = E0 /\ E1' = E1 /\ Seconds' = Seconds
      /\ \A w : \A t : (BalanceAt(w, t))' = BalanceAt(w, t)
      /\ \A w : \A tier : \A t : (LockedAt(w, tier, t))' = LockedAt(w, tier, t)
      /\ \A w : \A t : (TotalLockedAt(w, t))' = TotalLockedAt(w, t)
  BY DEF E0, E1, Seconds, BalanceAt, HeldAfter, LockedAt, TotalLockedAt
<1>2. WeightsAreTheIntegral'
  BY <1>1 DEF WeightsAreTheIntegral, Whole
<1>3. Weighed'
  BY DEF Weighed, WeightOf
<1> QED  BY <1>2, <1>3

(* The pipeline throws: nothing is published, and only a lock above a      *)
(* balance is blamed on a lock.                                            *)
LEMMA ThrowKeeps ==
    ASSUME PodInv, NEW code, Throw(code),
           code # "LOCK_EXCEEDS_BALANCE" \/
             \E w \in Wallets, t \in Seconds : TotalLockedAt(w, t) > BalanceAt(w, t)
    PROVE  PodInv'
<1>1. fixture' = fixture /\ stage' = "failed" /\ error' = code
  BY DEF Throw, inputVars
<1>2. /\ Seconds' = Seconds
      /\ \A w : \A t : (BalanceAt(w, t))' = BalanceAt(w, t)
      /\ \A w : \A t : (TotalLockedAt(w, t))' = TotalLockedAt(w, t)
  BY <1>1 DEF E0, E1, Seconds, BalanceAt, HeldAfter, LockedAt, TotalLockedAt
<1>3. WeightsAreTheIntegral'
  BY <1>1, <1>2 DEF WeightsAreTheIntegral
<1>4. InputRight' /\ Fresh' /\ IntegralRight' /\ Weighed' /\ SharesRight'
  BY <1>1 DEF PodInv, InputRight, Fresh, IntegralRight, Weighed, SharesRight
<1> QED  BY <1>3, <1>4 DEF PodInv

LEMMA LoadKeeps ==
    ASSUME PodInv, LoadCycleFixture
    PROVE  PodInv'
<1>1. CASE Throw("INVALID_FIXTURE")
  BY <1>1, ThrowKeeps
<1>2. CASE ~Throw("INVALID_FIXTURE")
  <2>1. /\ stage = "load" /\ FixtureOk(fixture) /\ stage' = "canonicalize"
        /\ UNCHANGED <<inputVars, error, logs, integral, results>>
    BY <1>2 DEF LoadCycleFixture
  <2>2. WeightsAreTheIntegral' /\ Weighed'
    BY <2>1, WeightsKept DEF PodInv, inputVars, results
  <2> QED  BY <2>1, <2>2 DEF PodInv, InputRight, Fresh, IntegralRight, SharesRight,
                             inputVars, integral, results
<1> QED  BY <1>1, <1>2

LEMMA CanonicalizeKeeps ==
    ASSUME PodInv, CanonicalizeTransfers
    PROVE  PodInv'
<1>1. CASE Throw("CONFLICTING_LOG") \/ Throw("BAD_ORDER")
  BY <1>1, ThrowKeeps
<1>2. CASE ~(Throw("CONFLICTING_LOG") \/ Throw("BAD_ORDER"))
  <2>1. /\ stage = "canonicalize" /\ stage' = "integrate"
        /\ UNCHANGED <<inputVars, error, results>>
    BY <1>2 DEF CanonicalizeTransfers
  <2>2. WeightsAreTheIntegral' /\ Weighed'
    BY <2>1, WeightsKept DEF PodInv, inputVars, results
  <2>3. IntegralRight'
    BY CanonicalizeIntegral DEF PodInv
  <2> QED  BY <2>1, <2>2, <2>3 DEF PodInv, InputRight, Fresh, SharesRight,
                                   inputVars, results
<1> QED  BY <1>1, <1>2

LEMMA ApplyKeeps ==
    ASSUME PodInv, ApplyTransfer
    PROVE  PodInv'
<1>1. CASE Throw("NEGATIVE_BALANCE")
  BY <1>1, ThrowKeeps
<1>2. CASE ~Throw("NEGATIVE_BALANCE")
  <2>1. stage = "integrate" /\ UNCHANGED <<inputVars, stage, error, results>>
    BY <1>2 DEF ApplyTransfer, results
  <2>2. WeightsAreTheIntegral' /\ Weighed'
    BY <2>1, WeightsKept DEF PodInv, inputVars, results
  <2>3. IntegralRight'
    BY ApplyIntegral DEF PodInv
  <2> QED  BY <2>1, <2>2, <2>3 DEF PodInv, InputRight, Fresh, SharesRight,
                                   inputVars, results
<1> QED  BY <1>1, <1>2

LEMMA AccumulateKeeps ==
    ASSUME PodInv, Accumulate
    PROVE  PodInv'
<1>1. CASE Throw("LOCK_EXCEEDS_BALANCE")
  <2>1. \E w \in Wallets, t \in Seconds : TotalLockedAt(w, t) > BalanceAt(w, t)
    <3>1. stage' = "failed"
      BY <1>1 DEF Throw
    <3>2. InputRight /\ IntegralRight
      BY DEF PodInv
    <3> QED  BY <1>1, <3>1, <3>2, SegmentStep
  <2> QED  BY <1>1, <2>1, ThrowKeeps
<1>2. CASE ~Throw("LOCK_EXCEEDS_BALANCE")
  <2>1. stage = "integrate" /\ UNCHANGED <<inputVars, stage, error, results>>
    BY <1>2 DEF Accumulate, results
  <2>2. WeightsAreTheIntegral' /\ Weighed'
    BY <2>1, WeightsKept DEF PodInv, inputVars, results
  <2>3. IntegralRight'
    BY <1>2, SegmentStep DEF PodInv
  <2> QED  BY <2>1, <2>2, <2>3 DEF PodInv, InputRight, Fresh, SharesRight,
                                   inputVars, results
<1> QED  BY <1>1, <1>2

LEMMA WeighKeeps ==
    ASSUME PodInv, Weigh
    PROVE  PodInv'
<1>1. /\ stage = "integrate" /\ stage' = "resolve"
      /\ UNCHANGED <<inputVars, error, eligible, allocations, leaves>>
  BY DEF Weigh
<1>2. error # "LOCK_EXCEEDS_BALANCE" \/
        \E w \in Wallets, t \in Seconds : TotalLockedAt(w, t) > BalanceAt(w, t)
  BY DEF PodInv, WeightsAreTheIntegral
<1>3. WeightsAreTheIntegral' /\ Weighed'
  BY <1>2, WeighRight DEF PodInv
<1> QED  BY <1>1, <1>3 DEF PodInv, InputRight, Fresh, IntegralRight, SharesRight,
                           inputVars

LEMMA ResolveKeeps ==
    ASSUME PodInv, ResolveEligibility
    PROVE  PodInv'
<1>1. /\ stage = "resolve" /\ stage' = "allocate"
      /\ fixture' = fixture /\ error' = error /\ weights' = weights
      /\ allocations' = allocations
      /\ eligible' = {i \in DOMAIN fixture.eligibility :
                         Eligible(fixture.eligibility[i])}
  BY DEF ResolveEligibility, inputVars
<1>2. WeightsAreTheIntegral' /\ Weighed'
  BY <1>1, WeightsKept DEF PodInv
<1>3. allocations = << >>
  BY <1>1 DEF PodInv, SharesRight
<1>4. \A r : Eligible(r)' = Eligible(r)
  BY <1>1 DEF Eligible, E1
<1>5. Len(fixture.assets) \in Nat
  <2>1. fixture.assets \in Seq(Range(fixture.assets))
    BY PodAssumption DEF PodInv, InputRight
  <2> QED  BY <2>1, LenProperties
<1>6. SharesRight'
  BY <1>1, <1>3, <1>4, <1>5 DEF SharesRight
<1> QED  BY <1>1, <1>2, <1>6 DEF PodInv, InputRight, Fresh, IntegralRight

LEMMA AllocationTyped ==
    ASSUME InputRight, SharesRight, Weighed, stage \in {"allocate", "done"},
           NEW asset \in Range(fixture.assets)
    PROVE  AllocateAsset(asset).allocated \in Nat /\ AllocateAsset(asset).pool \in Nat
<1> DEFINE pool == ParticipantPool(asset)
           f == [i \in eligible |-> Share(pool, Holder(i))]
<1>1. /\ pool \in Nat /\ AllocateAsset(asset).pool = pool
      /\ AllocateAsset(asset).allocated = SumFunctionOnSet(f, eligible)
  BY AllocationAdds
<1>2. IsFiniteSet(eligible) /\ \A i \in eligible : Holder(i) \in Wallets
  BY RowsRight
<1>3. \A i \in eligible : f[i] \in Nat
  BY <1>1, <1>2, TotalsAgree, ShareBounds DEF Weighed
<1>4. SumFunctionOnSet(f, eligible) \in Nat
  <2> HIDE DEF f
  <2> QED  BY <1>2, <1>3, SumBound
<1> QED  BY <1>1, <1>4

LEMMA AllocateKeeps ==
    ASSUME PodInv, Allocate
    PROVE  PodInv'
<1> DEFINE n == Len(allocations) + 1
           a == AllocateAsset(fixture.assets[n])
<1>1. CASE Throw("ALLOC_OVERFLOW")
  BY <1>1, ThrowKeeps
<1>2. CASE ~Throw("ALLOC_OVERFLOW")
  <2>1. /\ stage = "allocate" /\ Len(allocations) < Len(fixture.assets)
        /\ ~(a.allocated > a.pool)
        /\ allocations' = Append(allocations, a)
        /\ stage' = stage /\ fixture' = fixture /\ error' = error
        /\ weights' = weights /\ eligible' = eligible /\ leaves' = leaves
    BY <1>2 DEF Allocate, inputVars
  <2>2. WeightsAreTheIntegral' /\ Weighed'
    BY <2>1, WeightsKept DEF PodInv
  <2>3. \A asset : AllocateAsset(asset)' = AllocateAsset(asset)
    BY <2>1 DEF AllocateAsset, ParticipantPool, Share, TotalEffectiveWeight, WeightOf,
                Holder
  <2> DEFINE All == {AllocateAsset(asset) : asset \in Range(fixture.assets)}
  <2>4. /\ allocations \in Seq(All) /\ Len(allocations) <= Len(fixture.assets)
        /\ fixture.assets \in Seq(Range(fixture.assets))
        /\ \A k \in DOMAIN allocations :
               /\ allocations[k] = AllocateAsset(fixture.assets[k])
               /\ allocations[k].allocated <= allocations[k].pool
        /\ eligible = {i \in DOMAIN fixture.eligibility :
                         Eligible(fixture.eligibility[i])}
    BY <2>1, PodAssumption DEF PodInv, InputRight, SharesRight
  <2>5. /\ Len(allocations) \in Nat /\ DOMAIN allocations = 1..Len(allocations)
        /\ Len(fixture.assets) \in Nat /\ DOMAIN fixture.assets = 1..Len(fixture.assets)
    BY <2>4, LenProperties
  <2>6. fixture.assets[n] \in Range(fixture.assets)
    <3>1. n \in DOMAIN fixture.assets
      BY <2>1, <2>5
    <3> QED  BY <3>1 DEF Range
  <2>7. a \in All
    BY <2>6
  <2>8. a.allocated <= a.pool
    <3>1. a.allocated \in Int /\ a.pool \in Int
      BY <2>1, <2>6, AllocationTyped DEF PodInv
    <3> QED  BY <2>1, <3>1
  <2> HIDE DEF a, All
  <2>9. /\ allocations' \in Seq(All) /\ Len(allocations') = n
        /\ DOMAIN allocations' = 1..n
        /\ \A k \in 1..Len(allocations) : allocations'[k] = allocations[k]
        /\ allocations'[n] = a
    BY <2>1, <2>4, <2>5, <2>7, AppendProperties
  <2>10. ASSUME NEW k \in DOMAIN allocations'
         PROVE  /\ allocations'[k] = AllocateAsset(fixture.assets[k])
                /\ allocations'[k].allocated <= allocations'[k].pool
    <3>1. CASE k = n
      BY <2>8, <2>9, <3>1 DEF a
    <3>2. CASE k # n
      <4>1. k \in DOMAIN allocations /\ allocations'[k] = allocations[k]
        BY <2>5, <2>9, <3>2
      <4> QED  BY <2>4, <4>1
    <3> QED  BY <3>1, <3>2
  <2>11. \A r : Eligible(r)' = Eligible(r)
    BY <2>1 DEF Eligible, E1
  <2>12. All' = All
    BY <2>1, <2>3 DEF All
  <2>13. SharesRight'
    <3>1. Len(allocations') <= Len(fixture.assets)
      BY <2>1, <2>5, <2>9
    <3> QED  BY <2>1, <2>3, <2>4, <2>9, <2>10, <2>11, <2>12, <3>1 DEF SharesRight, All
  <2> QED  BY <2>1, <2>2, <2>13 DEF PodInv, InputRight, Fresh, IntegralRight
<1> QED  BY <1>1, <1>2

LEMMA PublishKeeps ==
    ASSUME PodInv, Publish
    PROVE  PodInv'
<1>1. CASE Throw("DUPLICATE_ENTITLEMENT") \/ Throw("RECON_CONSERVATION")
  BY <1>1, ThrowKeeps
<1>2. CASE ~(Throw("DUPLICATE_ENTITLEMENT") \/ Throw("RECON_CONSERVATION"))
  <2>1. /\ stage = "allocate" /\ Len(allocations) = Len(fixture.assets)
        /\ stage' = "done" /\ leaves' = {Leaf(e[1], e[2]) : e \in Entitlements}
        /\ fixture' = fixture /\ error' = error /\ weights' = weights
        /\ eligible' = eligible /\ allocations' = allocations
    BY <1>2 DEF Publish, inputVars
  <2>2. WeightsAreTheIntegral' /\ Weighed'
    BY <2>1, WeightsKept DEF PodInv
  <2>3. /\ \A asset : AllocateAsset(asset)' = AllocateAsset(asset)
        /\ \A r : Eligible(r)' = Eligible(r)
        /\ Entitlements' = Entitlements
        /\ \A i : \A k : Leaf(i, k)' = Leaf(i, k)
    BY <2>1 DEF AllocateAsset, ParticipantPool, Share, TotalEffectiveWeight, WeightOf,
                Holder, Eligible, E1, Entitlements, Leaf
  <2>4. SharesRight'
    BY <2>1, <2>3 DEF PodInv, SharesRight
  <2> QED  BY <2>1, <2>2, <2>4 DEF PodInv, InputRight, Fresh, IntegralRight
<1> QED  BY <1>1, <1>2

LEMMA PodStutter ==
    ASSUME PodInv, UNCHANGED podVars
    PROVE  PodInv'
<1>1. /\ fixture' = fixture /\ stage' = stage /\ error' = error /\ logs' = logs
      /\ balances' = balances /\ cursor' = cursor /\ tCur' = tCur
      /\ baseSeconds' = baseSeconds /\ unlockedSeconds' = unlockedSeconds
      /\ lockedSeconds' = lockedSeconds /\ weights' = weights
      /\ eligible' = eligible /\ allocations' = allocations /\ leaves' = leaves
  BY DEF podVars, inputVars, integral, results
<1>2. WeightsAreTheIntegral' /\ Weighed'
  BY <1>1, WeightsKept DEF PodInv
<1>3. InputRight' /\ Fresh'
  BY <1>1 DEF PodInv, InputRight, Fresh
<1>4. IntegralRight'
  <2>1. /\ E0' = E0 /\ E1' = E1 /\ Seconds' = Seconds /\ Moves' = Moves /\ Seen' = Seen
        /\ \A w : \A S : HeldAfter(w, S)' = HeldAfter(w, S)
        /\ \A w : \A t : (BalanceAt(w, t))' = BalanceAt(w, t)
        /\ \A w : \A tier : \A t : (LockedAt(w, tier, t))' = LockedAt(w, tier, t)
        /\ \A w : \A t : (TotalLockedAt(w, t))' = TotalLockedAt(w, t)
    BY <1>1 DEF E0, E1, Seconds, Moves, Seen, BalanceAt, HeldAfter, TotalLockedAt,
                LockedAt
  <2>2. OrderRight' = OrderRight /\ CursorRight' = CursorRight
    BY <1>1, <2>1 DEF OrderRight, CursorRight
  <2>3. BalancesRight' = BalancesRight
    BY <1>1, <2>1 DEF BalancesRight
  <2>4. SumsRight' = SumsRight
    BY <1>1, <2>1 DEF SumsRight, Until
  <2> QED  BY <1>1, <2>2, <2>3, <2>4 DEF PodInv, IntegralRight
<1>5. SharesRight'
  <2>1. /\ \A asset : AllocateAsset(asset)' = AllocateAsset(asset)
        /\ \A r : Eligible(r)' = Eligible(r)
        /\ Entitlements' = Entitlements
        /\ \A i : \A k : Leaf(i, k)' = Leaf(i, k)
    BY <1>1 DEF AllocateAsset, ParticipantPool, Share, TotalEffectiveWeight, WeightOf,
                Holder, Eligible, E1, Entitlements, Leaf
  <2> QED  BY <1>1, <2>1 DEF PodInv, SharesRight
<1> QED  BY <1>2, <1>3, <1>4, <1>5 DEF PodInv

LEMMA PodInductive == PodSpec => []PodInv
<1>1. ASSUME PodInv, [PodNext]_podVars PROVE PodInv'
  BY <1>1, LoadKeeps, CanonicalizeKeeps, ApplyKeeps, AccumulateKeeps, WeighKeeps,
     ResolveKeeps, AllocateKeeps, PublishKeeps, PodStutter DEF PodNext
<1> QED  BY <1>1, PodStart, PTL DEF PodSpec

(* Whatever order and multiplicity the logs came in, the weights are what  *)
(* each wallet held and had locked, second by second, and computeWeights   *)
(* refuses for a lock only if a lock exceeds a balance.                    *)
THEOREM WeightsExact == PodSpec => []WeightsAreTheIntegral
<1>1. PodInv => WeightsAreTheIntegral
  BY DEF PodInv
<1> QED  BY <1>1, PodInductive, PTL

(* The leaves buildMerkle commits to grant every eligible wallet the       *)
(* largest whole amount within its exact share of each pool, and nobody    *)
(* else anything.                                                          *)
THEOREM SharesAreFair == PodSpec => []EntitlementsAreFairShares
<1>1. PodInv => EntitlementsAreFairShares
  BY FairShares DEF PodInv
<1> QED  BY <1>1, PodInductive, PTL

----------------------------------------------------------------------------
(* THE LAST CHECKS                                                         *)

(* Floors of shares of a total are together within it. *)
LEMMA NeverTooMuch ==
    ASSUME NEW S, IsFiniteSet(S), NEW g, NEW W, NEW pool \in Nat,
           \A x \in S : g[x] \in Nat /\ W[x] \in Nat,
           SumFunctionOnSet(W, S) = 0 => \A x \in S : g[x] = 0,
           \A x \in S : g[x] * SumFunctionOnSet(W, S) <= pool * W[x]
    PROVE  SumFunctionOnSet(g, S) <= pool
<1> DEFINE T == SumFunctionOnSet(W, S)
           G == SumFunctionOnSet(g, S)
           exact == [x \in S |-> pool * W[x]]
           part == [x \in S |-> T * g[x]]
<1>1. T \in Nat /\ G \in Nat
  BY SumBound
<1>2. SumFunctionOnSet(exact, S) = pool * T
  <2>1. \A x \in S : W[x] \in Int /\ exact[x] = pool * W[x]
    OBVIOUS
  <2> HIDE DEF exact
  <2> QED  BY <2>1, SumTimes
<1>3. SumFunctionOnSet(part, S) = T * G
  <2>1. \A x \in S : g[x] \in Int /\ part[x] = T * g[x]
    OBVIOUS
  <2>2. T \in Int
    BY <1>1
  <2> HIDE DEF part, T
  <2> QED  BY <2>1, <2>2, SumTimes
<1>4. SumFunctionOnSet(part, S) <= SumFunctionOnSet(exact, S)
  <2>1. ASSUME NEW x \in S
        PROVE  part[x] \in Int /\ exact[x] \in Int /\ part[x] <= exact[x]
    <3>1. part[x] = T * g[x] /\ exact[x] = pool * W[x] /\ g[x] \in Nat /\ W[x] \in Nat
      OBVIOUS
    <3>2. g[x] * T <= pool * W[x]
      OBVIOUS
    <3> HIDE DEF part, exact, T
    <3>3. T * g[x] = g[x] * T /\ T * g[x] \in Int /\ pool * W[x] \in Int
      BY <1>1, <3>1
    <3> QED  BY <3>1, <3>2, <3>3
  <2> HIDE DEF part, exact
  <2> QED  BY <2>1, SumMonotone
<1>5. CASE T = 0
  <2>1. \A x \in S : g[x] \in Int /\ g[x] <= 0
    BY <1>5
  <2>2. \A x \in S : g[x] = 0 * g[x]
    BY <1>5
  <2>3. G = 0 * G
    BY <2>1, <2>2, SumTimes
  <2> QED  BY <1>1, <2>3
<1>6. CASE T > 0
  <2>1. T * G <= pool * T
    BY <1>2, <1>3, <1>4
  <2> HIDE DEF T, G
  <2>2. ASSUME pool + 1 <= G PROVE FALSE
    <3>1. \A a, b, t \in Nat : a <= b => a * t <= b * t
      OBVIOUS
    <3>2. (pool + 1) * T <= G * T
      BY <1>1, <2>2, <3>1
    <3>3. (pool + 1) * T = pool * T + T /\ G * T = T * G /\ pool * T \in Int /\ T * G \in Int
      BY <1>1
    <3> QED  BY <1>1, <1>6, <2>1, <3>2, <3>3
  <2>3. G <= pool
    BY <1>1, <2>2
  <2> QED  BY <2>3 DEF G
<1> QED  BY <1>1, <1>5, <1>6

LEMMA PoolCovers ==
    ASSUME InputRight, SharesRight, Weighed, stage \in {"allocate", "done"},
           NEW asset \in Range(fixture.assets)
    PROVE  AllocateAsset(asset).allocated <= AllocateAsset(asset).pool
<1> DEFINE pool == ParticipantPool(asset)
           f == [i \in eligible |-> Share(pool, Holder(i))]
           W == [i \in eligible |-> WeightOf(Holder(i))]
<1>1. /\ pool \in Nat /\ AllocateAsset(asset).pool = pool
      /\ AllocateAsset(asset).allocated = SumFunctionOnSet(f, eligible)
  BY AllocationAdds
<1>2. IsFiniteSet(eligible) /\ \A i \in eligible : Holder(i) \in Wallets
  BY RowsRight
<1>3. TotalEffectiveWeight \in Nat /\ TotalEffectiveWeight = SumFunctionOnSet(W, eligible)
  BY TotalsAgree DEF TotalEffectiveWeight
<1>4. ASSUME NEW i \in eligible
      PROVE  /\ f[i] \in Nat /\ W[i] \in Nat
             /\ TotalEffectiveWeight = 0 => f[i] = 0
             /\ f[i] * TotalEffectiveWeight <= pool * W[i]
  BY <1>1, <1>2, <1>3, ShareBounds DEF Weighed
<1>5. SumFunctionOnSet(f, eligible) <= pool
  <2> HIDE DEF f, W, pool
  <2> QED  BY <1>1, <1>2, <1>3, <1>4, NeverTooMuch
<1> QED  BY <1>1, <1>5

(* One row a wallet and one entry a token: one entitlement of a tuple      *)
LEMMA OneEntitlement ==
    ASSUME InputRight, SharesRight, stage = "allocate",
           Len(allocations) = Len(fixture.assets),
           NEW e \in Entitlements, NEW d \in Entitlements,
           Holder(e[1]) = Holder(d[1]),
           allocations[e[2]].token = allocations[d[2]].token
    PROVE  e = d
<1>1. /\ e = <<e[1], e[2]>> /\ e[1] \in eligible /\ e[2] \in DOMAIN allocations
      /\ d = <<d[1], d[2]>> /\ d[1] \in eligible /\ d[2] \in DOMAIN allocations
  BY DEF Entitlements
<1>2. e[1] = d[1]
  BY <1>1, RowsRight
<1>3. DOMAIN allocations = DOMAIN fixture.assets
  <2>1. DOMAIN allocations = 1..Len(allocations)
    BY LenProperties DEF SharesRight
  <2>2. DOMAIN fixture.assets = 1..Len(fixture.assets)
    BY PodAssumption, LenProperties DEF InputRight
  <2> QED  BY <2>1, <2>2
<1>4. \A k \in DOMAIN allocations : allocations[k].token = fixture.assets[k].token
  <2>1. ASSUME NEW a PROVE AllocateAsset(a).token = a.token
    BY DEF AllocateAsset
  <2> QED  BY <2>1 DEF SharesRight
<1>5. OneRowEach([i \in DOMAIN fixture.assets |-> fixture.assets[i].token])
  BY DEF InputRight, FixtureOk
<1>6. e[2] = d[2]
  <2> DEFINE j == e[2]
             k == d[2]
  <2>1. j \in DOMAIN fixture.assets /\ k \in DOMAIN fixture.assets
    BY <1>1, <1>3
  <2>2. fixture.assets[j].token = fixture.assets[k].token
    BY <1>3, <1>4, <2>1
  <2> HIDE DEF j, k
  <2>3. j = k
    BY <1>5, <2>1, <2>2 DEF OneRowEach
  <2> QED  BY <2>3 DEF j, k
<1> QED  BY <1>1, <1>2, <1>6

(* the codes of the checks that look back at what was computed *)
LastChecks == {"ALLOC_OVERFLOW", "DUPLICATE_ENTITLEMENT", "RECON_CONSERVATION"}

LEMMA AllocationsFit == PodInv /\ Allocate => ~Throw("ALLOC_OVERFLOW")
<1> SUFFICES ASSUME PodInv, Allocate, Throw("ALLOC_OVERFLOW") PROVE FALSE
  OBVIOUS
<1> DEFINE n == Len(allocations) + 1
           a == AllocateAsset(fixture.assets[n])
<1>1. stage = "allocate" /\ Len(allocations) < Len(fixture.assets)
  BY DEF Allocate
<1>2. a.allocated > a.pool
  <2>1. stage' = "failed"
    BY DEF Throw
  <2> QED  BY <1>1, <2>1 DEF Allocate
<1>3. fixture.assets[n] \in Range(fixture.assets)
  <2>1. Len(allocations) \in Nat
    BY <1>1, LenProperties DEF PodInv, SharesRight
  <2>2. Len(fixture.assets) \in Nat /\ DOMAIN fixture.assets = 1..Len(fixture.assets)
    BY PodAssumption, LenProperties DEF PodInv, InputRight
  <2>3. n \in DOMAIN fixture.assets
    BY <1>1, <2>1, <2>2
  <2> QED  BY <2>3 DEF Range
<1>4. a.allocated <= a.pool /\ a.allocated \in Nat /\ a.pool \in Nat
  BY <1>1, <1>3, PoolCovers, AllocationTyped DEF PodInv
<1> HIDE DEF a
<1> QED  BY <1>2, <1>4

LEMMA PublicationFits ==
    PodInv /\ Publish
      => ~Throw("DUPLICATE_ENTITLEMENT") /\ ~Throw("RECON_CONSERVATION")
<1> SUFFICES ASSUME PodInv, Publish PROVE stage' = "done"
  BY DEF Throw
<1>1. stage = "allocate" /\ Len(allocations) = Len(fixture.assets)
  BY DEF Publish
<1>2. InputRight /\ SharesRight
  BY DEF PodInv
<1>3. \A e, d \in Entitlements :
          /\ Holder(e[1]) = Holder(d[1])
          /\ allocations[e[2]].token = allocations[d[2]].token
          => e = d
  BY <1>1, <1>2, OneEntitlement
<1>4. ASSUME NEW k \in DOMAIN allocations
      PROVE  allocations[k].acquired = allocations[k].reserve
                                         + allocations[k].allocated + allocations[k].dust
  <2> DEFINE asset == fixture.assets[k]
             a == AllocateAsset(asset)
  <2>1. allocations[k] = a
    BY <1>1, <1>2 DEF SharesRight
  <2>2. asset \in Range(fixture.assets)
    <3>1. DOMAIN allocations = 1..Len(allocations)
      BY <1>1, <1>2, LenProperties DEF SharesRight
    <3>2. DOMAIN fixture.assets = 1..Len(fixture.assets)
      BY <1>2, PodAssumption, LenProperties DEF InputRight
    <3> QED  BY <1>1, <3>1, <3>2 DEF Range
  <2>3. a.allocated \in Nat /\ a.pool \in Nat
    BY <1>1, <2>2, AllocationTyped DEF PodInv
  <2>4. asset.acquired \in Nat
    BY <1>2, <2>2, PodAssumption DEF InputRight
  <2>5. /\ a.acquired = asset.acquired /\ a.reserve = asset.acquired - a.pool
        /\ a.dust = a.pool - a.allocated
    BY DEF AllocateAsset
  <2> HIDE DEF a, asset
  <2> QED  BY <2>1, <2>3, <2>4, <2>5
<1> QED  BY <1>3, <1>4 DEF Publish

(* What allocate, buildMerkle and reconcile check of their own result      *)
(* (allocation.ts:75, merkle.ts:64, reconciliation.ts:39) always holds:    *)
(* on a fixture that loads, the pipeline never throws one of those codes.  *)
THEOREM LastChecksPass == PodSpec => [](error \notin LastChecks)
<1> DEFINE Passed == error \notin LastChecks
<1>1. PodInit => Passed
  BY DEF PodInit, LastChecks
<1>2. ASSUME PodInv, Passed, [PodNext]_podVars PROVE Passed'
  <2>1. CASE LoadCycleFixture
    BY <1>2, <2>1 DEF LoadCycleFixture, Throw, LastChecks
  <2>2. CASE CanonicalizeTransfers
    BY <1>2, <2>2 DEF CanonicalizeTransfers, Throw, LastChecks
  <2>3. CASE ApplyTransfer
    BY <1>2, <2>3 DEF ApplyTransfer, Throw, LastChecks
  <2>4. CASE Accumulate
    BY <1>2, <2>4 DEF Accumulate, Throw, LastChecks
  <2>5. CASE Weigh
    BY <1>2, <2>5 DEF Weigh
  <2>6. CASE ResolveEligibility
    BY <1>2, <2>6 DEF ResolveEligibility
  <2>7. CASE Allocate
    <3>1. error' = error
      BY <1>2, <2>7, AllocationsFit DEF Allocate
    <3> QED  BY <1>2, <3>1
  <2>8. CASE Publish
    <3>1. error' = error
      BY <1>2, <2>8, PublicationFits DEF Publish
    <3> QED  BY <1>2, <3>1
  <2>9. CASE UNCHANGED podVars
    BY <1>2, <2>9 DEF podVars
  <2> QED  BY <1>2, <2>1, <2>2, <2>3, <2>4, <2>5, <2>6, <2>7, <2>8, <2>9 DEF PodNext
<1> QED  BY <1>1, <1>2, PodInductive, PTL DEF PodSpec
==============================================================================
