----------------------------- MODULE KernelProofs -----------------------------
(***************************************************************************)
(* Theorems about the kernel: its memory requests (GuestMemory), for every *)
(* width of an address, and its handles, mutexes and events (KernelSync),  *)
(* for every set of scheduled threads and every number of handles that the *)
(* tag can tell apart.  The two share no variable.                         *)
(***************************************************************************)
EXTENDS GuestMemory, KernelSync, SequenceTheorems, WellFoundedInduction, TLAPS

-----------------------------------------------------------------------------
(* Addresses wrap.                                                         *)

LEMMA WidthIs == Width \in Nat /\ Width > 0
  BY MemoryAssumption DEF MemoryAssumption

LEMMA DivMod ==
  ASSUME NEW x \in Nat, NEW w \in Nat, w > 0
  PROVE  x \div w \in Nat /\ x % w \in 0 .. w - 1 /\ x = w * (x \div w) + (x % w)
<1>1. x % w \in 0 .. w - 1
  OBVIOUS
<1>2. x = w * (x \div w) + (x % w)
  OBVIOUS
<1>3. x \div w \in Int
  OBVIOUS
<1>4. x \div w \in Nat
  BY <1>1, <1>2, <1>3
<1>5. QED
  BY <1>1, <1>2, <1>4

LEMMA WrappedOnce ==
  ASSUME NEW x \in Nat, NEW w \in Nat, w > 0, x >= w
  PROVE  (x - w) % w = x % w
<1> DEFINE q == x \div w
           r == x % w
           p == (x - w) \div w
           t == (x - w) % w
<1>1. q \in Nat /\ r \in 0 .. w - 1 /\ x = w * q + r
  OBVIOUS
<1>2. p \in Nat /\ t \in 0 .. w - 1 /\ x - w = w * p + t
  <2>1. PICK y \in Nat : y = x - w
    OBVIOUS
  <2>2. y \div w \in Nat /\ y % w \in 0 .. w - 1 /\ y = w * (y \div w) + (y % w)
    BY DivMod
  <2>3. QED
    BY <2>1, <2>2
<1> HIDE DEF q, r, p, t
<1>3. w * (p + 1 - q) = r - t
  BY <1>1, <1>2
<1>4. CASE p + 1 = q
  BY <1>1, <1>2, <1>3, <1>4 DEF r, t
<1>5. CASE p + 1 > q
  <2>1. PICK d \in Nat : d > 0 /\ d = p + 1 - q
    BY <1>1, <1>2, <1>5
  <2>2. w * d >= w
    BY <2>1
  <2>3. QED
    BY <1>1, <1>2, <1>3, <2>1, <2>2
<1>6. CASE p + 1 < q
  <2>1. PICK d \in Nat : d > 0 /\ d = q - (p + 1)
    BY <1>1, <1>2, <1>6
  <2>2. w * d >= w
    BY <2>1
  <2>3. w * d = t - r
    BY <1>1, <1>2, <1>3, <2>1
  <2>4. QED
    BY <1>1, <1>2, <2>2, <2>3
<1>7. QED
  BY <1>1, <1>2, <1>4, <1>5, <1>6

LEMMA Wrapped ==
  ASSUME NEW x \in Nat
  PROVE  /\ x % Width \in Address /\ x % Width <= x
         /\ x < Width => x % Width = x
         /\ x >= Width => (x - Width) % Width = x % Width
<1>1. x % Width \in 0 .. Width - 1
  BY WidthIs
<1>2. x < Width => x % Width = x
  BY WidthIs
<1>3. x >= Width => (x - Width) % Width = x % Width
  BY WidthIs, WrappedOnce
<1>4. x % Width <= x
  BY <1>1, <1>2, WidthIs
<1>5. QED
  BY <1>1, <1>2, <1>3, <1>4 DEF Address

LEMMA SumIs ==
  ASSUME NEW a \in Nat, NEW b \in Nat
  PROVE  Sum(a, b) \in Address /\ Sum(a, b) <= a + b /\ (a + b < Width => Sum(a, b) = a + b)
  BY Wrapped DEF Sum

\* Offsets may be added one after the other.
LEMMA SumOfSum ==
  ASSUME NEW a \in Address, NEW b \in Address, NEW k \in Address
  PROVE  Sum(Sum(a, b), k) = Sum(a, b + k)
<1>1. a \in Nat /\ b \in Nat /\ k \in Nat /\ a < Width /\ b < Width
  BY WidthIs DEF Address
<1>2. CASE a + b < Width
  <2>1. Sum(a, b) = a + b
    BY <1>1, <1>2, SumIs
  <2>2. (a + b) + k = a + (b + k)
    BY <1>1
  <2>3. QED
    BY <2>1, <2>2 DEF Sum
<1>3. CASE a + b >= Width
  <2>1. a + b - Width \in Nat /\ a + b - Width < Width
    BY <1>1, <1>3, WidthIs
  <2>2. Sum(a, b) = a + b - Width
    <3>1. (a + b - Width) % Width = a + b - Width
      BY <2>1, Wrapped
    <3>2. (a + b - Width) % Width = (a + b) % Width
      <4>1. PICK c \in Nat : c = a + b /\ c >= Width
        BY <1>1, <1>3
      <4>2. (c - Width) % Width = c % Width
        BY <4>1, WidthIs, WrappedOnce
      <4>3. QED
        BY <1>1, <4>1, <4>2, WidthIs
    <3>3. QED
      BY <3>1, <3>2 DEF Sum
  <2>3. (a + b - Width) + k = (a + (b + k)) - Width /\ a + (b + k) \in Nat /\ a + (b + k) >= Width
    BY <1>1, <1>3, WidthIs
  <2>4. ((a + (b + k)) - Width) % Width = (a + (b + k)) % Width
    BY <2>3, Wrapped
  <2>5. QED
    BY <2>2, <2>3, <2>4 DEF Sum
<1>4. QED
  BY <1>1, <1>2, <1>3, WidthIs

-----------------------------------------------------------------------------
(* The first region of a list.                                             *)

LEMMA FirstOf ==
  ASSUME NEW S \in SUBSET Nat
  PROVE  /\ S # {} => Min(S) \in S /\ \A i \in S : Min(S) <= i
<1>1. ASSUME S # {} PROVE \E x \in S : \A y \in S : x <= y
  <2>1. IsWellFoundedOn(OpToRel(<, Nat), Nat)
    BY NatLessThanWellFounded
  <2>2. \E x \in S : \A y \in S : ~(<<y, x>> \in OpToRel(<, Nat))
    BY <1>1, <2>1, WFMin
  <2>3. PICK x \in S : \A y \in S : ~(<<y, x>> \in OpToRel(<, Nat))
    BY <2>2
  <2>4. \A y \in S : ~(y < x)
    BY <2>3 DEF OpToRel
  <2>5. QED
    BY <2>4
<1>2. QED
  BY <1>1, Zenon DEF Min

\* Where an access of one byte finds its region.
LEMMA HoldingIs ==
  ASSUME NEW s \in Seq(Region), NEW a \in 0 .. Width - 2
  PROVE  /\ Holding(s, a, 1) \in 0 .. Len(s)
         /\ Holding(s, a, 1) = 0 => \A i \in 1 .. Len(s) : a \notin Covers(s[i])
         /\ Holding(s, a, 1) # 0 =>
              /\ a \in Covers(s[Holding(s, a, 1)])
              /\ \A i \in 1 .. Len(s) : a \in Covers(s[i]) => Holding(s, a, 1) <= i
<1> DEFINE I == {i \in 1 .. Len(s) : a >= s[i].va /\ Sum(a, 1) <= Sum(s[i].va, s[i].size)}
<1>1. Holding(s, a, 1) = IF I # {} THEN Min(I) ELSE 0
  BY DEF Holding, SelectInSeq
<1>2. Len(s) \in Nat /\ I \in SUBSET Nat
  BY LenProperties
<1>3. Sum(a, 1) = a + 1 /\ a \in Address
  BY SumIs, WidthIs DEF Address
<1>4. \A i \in 1 .. Len(s) : i \in I <=> a \in Covers(s[i])
  BY <1>3 DEF Covers
<1> HIDE DEF I
<1>5. I # {} => Min(I) \in I /\ \A i \in I : Min(I) <= i
  BY <1>2, FirstOf
<1>6. I \subseteq 1 .. Len(s)
  BY DEF I
<1>7. CASE I = {}
  BY <1>1, <1>2, <1>4, <1>7
<1>8. CASE I # {}
  <2>1. Holding(s, a, 1) = Min(I) /\ Min(I) \in 1 .. Len(s)
    BY <1>1, <1>5, <1>6, <1>8
  <2>2. a \in Covers(s[Min(I)])
    BY <1>4, <1>5, <1>8, <2>1
  <2>3. ASSUME NEW i \in 1 .. Len(s), a \in Covers(s[i]) PROVE Min(I) <= i
    BY <1>4, <1>5, <1>8, <2>3
  <2>4. QED
    BY <1>2, <2>1, <2>2, <2>3
<1>9. QED
  BY <1>7, <1>8

Nowhere == [pa |-> Width, perm |-> {}]
Gives(r, a) == [pa |-> Physical(r, a), perm |-> r.perm]

\* What an address means: what some region that covers it gives, the only one
\* if no two regions overlap.
LEMMA MeaningIs ==
  ASSUME NEW s \in Seq(Region), NEW a \in 0 .. Width - 2
  PROVE  \/ /\ \A i \in 1 .. Len(s) : a \notin Covers(s[i])
            /\ Meaning(s, a) = Nowhere
         \/ \E i \in 1 .. Len(s) :
              /\ a \in Covers(s[i]) /\ Meaning(s, a) = Gives(s[i], a)
              /\ \A j \in 1 .. Len(s) : a \in Covers(s[j]) => i <= j
<1>1. CASE Holding(s, a, 1) = 0
  BY <1>1, HoldingIs DEF Meaning, Nowhere
<1>2. CASE Holding(s, a, 1) # 0
  <2>1. PICK i \in 1 .. Len(s) : i = Holding(s, a, 1)
    BY <1>2, HoldingIs, LenProperties
  <2>2. a \in Covers(s[i]) /\ \A j \in 1 .. Len(s) : a \in Covers(s[j]) => i <= j
    BY <1>2, <2>1, HoldingIs
  <2>3. Meaning(s, a) = Gives(s[i], a)
    BY <1>2, <2>1 DEF Meaning, Gives
  <2>4. QED
    BY <2>2, <2>3
<1>3. QED
  BY <1>1, <1>2

LEMMA OnlyOne ==
  ASSUME NEW s \in Seq(Region), Disjoint(s), NEW i \in 1 .. Len(s), NEW j \in 1 .. Len(s),
         NEW a, a \in Covers(s[i]), a \in Covers(s[j])
  PROVE  i = j
<1>1. DOMAIN s = 1 .. Len(s)
  BY LenProperties
<1>2. QED
  BY <1>1 DEF Disjoint

\* A region covers no more than the addresses from its base up to its size.
LEMMA CoversWithin ==
  ASSUME NEW r \in Region
  PROVE  Covers(r) \subseteq Range_(r.va, r.size)
<1>1. r.va \in Nat /\ r.size \in Nat
  BY WidthIs DEF Region, Address
<1>2. Sum(r.va, r.size) <= r.va + r.size /\ Sum(r.va, r.size) \in Nat
  <2>1. ASSUME NEW v \in Nat, NEW z \in Nat PROVE Sum(v, z) <= v + z /\ Sum(v, z) \in Nat
    BY SumIs, WidthIs DEF Address
  <2>2. QED
    BY <1>1, <2>1, Zenon
<1>3. ASSUME NEW a \in Address, a >= r.va, a + 1 <= Sum(r.va, r.size)
      PROVE  a < r.va + r.size
  BY <1>1, <1>2, <1>3, WidthIs DEF Address
<1>4. QED
  BY <1>3 DEF Covers, Range_

\* A region mapped last gives way to every other.
LEMMA MappedBehind ==
  ASSUME NEW s \in Seq(Region), NEW va \in Address, NEW pa \in Address, NEW n \in Address,
         NEW perm \in SUBSET {"r", "w", "x"},
         NEW a \in 0 .. Width - 2, a \notin Range_(va, n) \/ \E i \in 1 .. Len(s) : a \in Covers(s[i])
  PROVE  Meaning(Mapped(s, va, pa, n, perm), a) = Meaning(s, a)
<1> DEFINE new == [va |-> va, pa |-> pa, size |-> n, perm |-> perm]
           t == Mapped(s, va, pa, n, perm)
<1>1. new \in Region /\ new.va = va /\ new.size = n
  BY DEF Region
<1>2. t = Append(s, new)
  BY DEF Mapped
<1>3. /\ t \in Seq(Region) /\ Len(t) = Len(s) + 1 /\ Len(s) \in Nat
      /\ \A i \in 1 .. Len(s) : t[i] = s[i]
      /\ t[Len(s) + 1] = new
  BY <1>1, <1>2, AppendProperties, LenProperties
<1>4. a \in Covers(new) => \E i \in 1 .. Len(s) : a \in Covers(s[i])
  BY <1>1, CoversWithin
<1> HIDE DEF t, new
<1>5. CASE \A i \in 1 .. Len(s) : a \notin Covers(s[i])
  <2>1. Meaning(s, a) = Nowhere
    BY <1>5, MeaningIs
  <2>2. \A i \in 1 .. Len(t) : a \notin Covers(t[i])
    BY <1>3, <1>4, <1>5
  <2>3. Meaning(t, a) = Nowhere
    BY <1>3, <2>2, MeaningIs
  <2>4. QED
    BY <2>1, <2>3 DEF t
<1>6. CASE \E i \in 1 .. Len(s) : a \in Covers(s[i])
  <2>1. PICK i \in 1 .. Len(s) :
           /\ a \in Covers(s[i]) /\ Meaning(s, a) = Gives(s[i], a)
           /\ \A j \in 1 .. Len(s) : a \in Covers(s[j]) => i <= j
    BY <1>6, MeaningIs
  <2>2. i \in 1 .. Len(t) /\ a \in Covers(t[i])
    BY <1>3, <2>1
  <2>3. PICK k \in 1 .. Len(t) :
           /\ a \in Covers(t[k]) /\ Meaning(t, a) = Gives(t[k], a)
           /\ \A j \in 1 .. Len(t) : a \in Covers(t[j]) => k <= j
    BY <1>3, <2>2, MeaningIs
  <2>4. k <= i
    BY <2>2, <2>3
  <2>5. k \in 1 .. Len(s) /\ t[k] = s[k]
    BY <1>3, <2>3, <2>4
  <2>6. i <= k
    BY <2>1, <2>3, <2>5
  <2>7. k = i
    BY <2>4, <2>6
  <2>8. QED
    BY <2>1, <2>3, <2>5, <2>7 DEF t
<1>7. QED
  BY <1>5, <1>6

LEMMA ProtectedIs ==
  ASSUME NEW s \in Seq(Region), NEW i \in 1 .. Len(s), NEW perm \in SUBSET {"r", "w", "x"}
  PROVE  Protected(s, i, perm) \in Seq(Region)
<1>1. /\ s[i] \in Region
      /\ Protected(s, i, perm) = [s EXCEPT ![i] = [s[i] EXCEPT !.perm = perm]]
  BY LenProperties DEF Protected
<1>2. [s[i] EXCEPT !.perm = perm] \in Region
  BY <1>1 DEF Region
<1>3. QED
  BY <1>1, <1>2, ExceptSeq

\* New permissions of a region change what its addresses mean and nothing else.
LEMMA ProtectedKeeps ==
  ASSUME NEW s \in Seq(Region), NEW i \in 1 .. Len(s), NEW perm \in SUBSET {"r", "w", "x"},
         NEW a \in 0 .. Width - 2
  PROVE  /\ Meaning(Protected(s, i, perm), a).pa = Meaning(s, a).pa
         /\ a \notin Covers(s[i]) => Meaning(Protected(s, i, perm), a) = Meaning(s, a)
<1> DEFINE t == Protected(s, i, perm)
<1>1. /\ s \in [1 .. Len(s) -> Region] /\ Len(s) \in Nat /\ s[i] \in Region
      /\ t = [s EXCEPT ![i] = [s[i] EXCEPT !.perm = perm]]
  BY LenProperties DEF Protected
<1>2. /\ [s[i] EXCEPT !.perm = perm] \in Region
      /\ [s[i] EXCEPT !.perm = perm].va = s[i].va
      /\ [s[i] EXCEPT !.perm = perm].pa = s[i].pa
      /\ [s[i] EXCEPT !.perm = perm].size = s[i].size
  BY <1>1 DEF Region
<1>3. t \in Seq(Region) /\ Len(t) = Len(s)
  BY <1>1, <1>2, ExceptSeq
<1>4. ASSUME NEW j \in 1 .. Len(s)
      PROVE  /\ Covers(t[j]) = Covers(s[j])
             /\ Gives(t[j], a).pa = Gives(s[j], a).pa
             /\ j # i => t[j] = s[j]
  <2>1. CASE j = i
    <3>1. t[j] = [s[i] EXCEPT !.perm = perm]
      BY <1>1, <2>1
    <3>2. t[j].va = s[j].va /\ t[j].pa = s[j].pa /\ t[j].size = s[j].size
      BY <1>2, <2>1, <3>1
    <3> HIDE DEF t
    <3>3. QED
      BY <2>1, <3>2 DEF Covers, Gives, Physical
  <2>2. CASE j # i
    BY <1>1, <2>2
  <2>3. QED
    BY <2>1, <2>2
<1> HIDE DEF t
<1>5. CASE \A j \in 1 .. Len(s) : a \notin Covers(s[j])
  <2>1. Meaning(s, a) = Nowhere
    BY <1>5, MeaningIs
  <2>2. Meaning(t, a) = Nowhere
    BY <1>3, <1>4, <1>5, MeaningIs
  <2>3. QED
    BY <1>3, <2>1, <2>2 DEF t
<1>6. CASE \E j \in 1 .. Len(s) : a \in Covers(s[j])
  <2>1. PICK j \in 1 .. Len(s) :
           /\ a \in Covers(s[j]) /\ Meaning(s, a) = Gives(s[j], a)
           /\ \A k \in 1 .. Len(s) : a \in Covers(s[k]) => j <= k
    BY <1>6, MeaningIs
  <2>2. j \in 1 .. Len(t) /\ a \in Covers(t[j])
    BY <1>3, <1>4, <2>1
  <2>3. PICK k \in 1 .. Len(t) :
           /\ a \in Covers(t[k]) /\ Meaning(t, a) = Gives(t[k], a)
           /\ \A l \in 1 .. Len(t) : a \in Covers(t[l]) => k <= l
    BY <1>3, <2>2, MeaningIs
  <2>4. k = j
    <3>1. k <= j
      BY <2>2, <2>3
    <3>2. j <= k
      BY <1>3, <1>4, <2>1, <2>3
    <3>3. QED
      BY <3>1, <3>2
  <2>5. Meaning(t, a).pa = Meaning(s, a).pa
    BY <1>4, <2>1, <2>3, <2>4
  <2>6. a \notin Covers(s[i]) => Meaning(t, a) = Meaning(s, a)
    BY <1>4, <2>1, <2>3, <2>4
  <2>7. QED
    BY <1>3, <2>5, <2>6 DEF t
<1>7. QED
  BY <1>5, <1>6

LEMMA UnmappedIs ==
  ASSUME NEW s \in Seq(Region), NEW i \in 1 .. Len(s)
  PROVE  /\ Front(ReplaceAt(s, i, Last(s))) \in Seq(Region)
         /\ Len(Front(ReplaceAt(s, i, Last(s)))) = Len(s) - 1
         /\ \A k \in 1 .. Len(s) - 1 :
              Front(ReplaceAt(s, i, Last(s)))[k] = IF k = i THEN s[Len(s)] ELSE s[k]
<1> DEFINE u == [s EXCEPT ![i] = s[Len(s)]]
           t == Front(ReplaceAt(s, i, Last(s)))
           n == Len(s)
<1>1. n \in Nat /\ s \in [1 .. n -> Region] /\ s[n] \in Region /\ n > 0
  BY LenProperties
<1>2. u \in Seq(Region) /\ Len(u) = n
  BY <1>1, ExceptSeq
<1>3. t = SubSeq(u, 1, n - 1)
  BY <1>2 DEF Front, ReplaceAt, Last
<1>4. /\ t \in Seq(Region) /\ Len(t) = n - 1
      /\ \A k \in 1 .. n - 1 : t[k] = u[k]
  <2> HIDE DEF u, t, n
  <2>1. 1 \in 1 .. Len(u) + 1 /\ n - 1 \in 0 .. Len(u)
    BY <1>1, <1>2
  <2>2. QED
    BY <1>1, <1>2, <1>3, <2>1, SubSeqProperties
<1>5. ASSUME NEW k \in 1 .. n - 1
      PROVE  t[k] = IF k = i THEN s[n] ELSE s[k]
  BY <1>1, <1>4
<1>6. QED
  BY <1>4, <1>5

\* A region that is taken out of the list leaves the others what they mean,
\* although the last one moves into its place.
LEMMA UnmappedKeeps ==
  ASSUME NEW s \in Seq(Region), Disjoint(s), NEW i \in 1 .. Len(s),
         NEW a \in 0 .. Width - 2, a \notin Covers(s[i])
  PROVE  Meaning(Front(ReplaceAt(s, i, Last(s))), a) = Meaning(s, a)
<1> DEFINE t == Front(ReplaceAt(s, i, Last(s)))
           n == Len(s)
<1>1. n \in Nat /\ n > 0
  BY LenProperties
<1>4. t \in Seq(Region) /\ Len(t) = n - 1
  BY UnmappedIs
<1>5. ASSUME NEW k \in 1 .. n - 1
      PROVE  t[k] = IF k = i THEN s[n] ELSE s[k]
  BY UnmappedIs
<1> HIDE DEF t
<1>6. ASSUME NEW k \in 1 .. n - 1
      PROVE  \E j \in 1 .. n : t[k] = s[j]
  BY <1>1, <1>5
<1>7. ASSUME NEW j \in 1 .. n, j # i
      PROVE  \E k \in 1 .. n - 1 : t[k] = s[j]
  <2>1. CASE j = n
    BY <1>1, <1>5, <1>7, <2>1
  <2>2. CASE j # n
    BY <1>1, <1>5, <1>7, <2>2
  <2>3. QED
    BY <2>1, <2>2
<1>8. CASE \A j \in 1 .. n : a \notin Covers(s[j])
  <2>1. Meaning(s, a) = Nowhere
    BY <1>8, MeaningIs
  <2>2. \A k \in 1 .. Len(t) : a \notin Covers(t[k])
    BY <1>4, <1>6, <1>8
  <2>3. Meaning(t, a) = Nowhere
    BY <1>4, <2>2, MeaningIs
  <2>4. QED
    BY <1>4, <2>1, <2>3 DEF t
<1>9. CASE \E j \in 1 .. n : a \in Covers(s[j])
  <2>1. PICK j \in 1 .. n : a \in Covers(s[j]) /\ Meaning(s, a) = Gives(s[j], a)
    BY <1>9, MeaningIs
  <2>2. PICK k \in 1 .. n - 1 : t[k] = s[j]
    BY <1>7, <2>1
  <2>3. k \in 1 .. Len(t) /\ a \in Covers(t[k])
    BY <1>4, <2>1, <2>2
  <2>4. PICK l \in 1 .. Len(t) : a \in Covers(t[l]) /\ Meaning(t, a) = Gives(t[l], a)
    BY <1>4, <2>3, MeaningIs
  <2>5. PICK m \in 1 .. n : t[l] = s[m]
    BY <1>4, <1>6, <2>4
  <2>6. m = j
    BY <2>1, <2>4, <2>5, OnlyOne
  <2>7. QED
    BY <1>4, <2>1, <2>4, <2>5, <2>6 DEF t
<1>10. QED
  BY <1>8, <1>9

-----------------------------------------------------------------------------
(* Requests: every address a request does not name keeps its meaning, and   *)
(* an alias stands for the memory of its source.                            *)

Alias == [to : Address, from : Address, size : Address]

AliasHolds(a) ==
  /\ a.to + a.size < Width /\ a.from + a.size < Width
  /\ \A k \in 0 .. a.size - 1 :
       /\ Meaning(regions, a.to + k).pa # Width
       /\ Meaning(regions, a.to + k).pa = Meaning(regions, a.from + k).pa

MemoryInv ==
  /\ regions \in Seq(Region) /\ aliases \subseteq Alias
  /\ aliases # {} => Disjoint(regions)
  /\ \A a \in aliases : AliasHolds(a)

\* What a request does to the list.
Keeps(to) ==
  /\ regions' \in Seq(Region)
  /\ \A x \in 0 .. Width - 2 :
       /\ Disjoint(regions) /\ x \notin to => Meaning(regions', x) = Meaning(regions, x)

LEMMA InitRegions == Identity \in Seq(Region) /\ << >> \in Seq(Region)
<1>1. [va |-> 0, pa |-> 0, size |-> RamSize, perm |-> {"r", "w", "x"}] \in Region
  BY MemoryAssumption DEF MemoryAssumption, Region, Address
<1>2. \A r \in Region : <<r>> \in Seq(Region)
  OBVIOUS
<1>3. QED
  BY <1>1, <1>2 DEF Identity

LEMMA HeapKeeps ==
  ASSUME MemoryInv, NEW n \in Sizes, SetHeapSize(n)
  PROVE  Keeps(named') /\ Names(named')
<1>1. regions \in Seq(Region) /\ HeapBase \in Address /\ n \in Address
      /\ {"r", "w"} \in SUBSET {"r", "w", "x"}
  BY MemoryAssumption DEF MemoryAssumption, MemoryInv, Address
<1>2. named' = Range_(HeapBase, n) /\ Names(named')
  BY DEF SetHeapSize, Names
<1>3. CASE n > 0
  <2>1. regions' = Mapped(regions, HeapBase, HeapBase, n, {"r", "w"})
    BY <1>3 DEF SetHeapSize
  <2>2. [va |-> HeapBase, pa |-> HeapBase, size |-> n, perm |-> {"r", "w"}] \in Region
    BY <1>1 DEF Region
  <2>3. regions' \in Seq(Region)
    BY <1>1, <2>1, <2>2, AppendProperties DEF Mapped
  <2>4. \A x \in 0 .. Width - 2 : x \notin named' => Meaning(regions', x) = Meaning(regions, x)
    BY <1>1, <1>2, <2>1, MappedBehind
  <2>5. QED
    BY <1>2, <2>3, <2>4 DEF Keeps
<1>4. CASE ~(n > 0)
  BY <1>1, <1>2, <1>4 DEF SetHeapSize, Keeps
<1>5. QED
  BY <1>3, <1>4

LEMMA PermissionKeeps ==
  ASSUME MemoryInv, NEW n \in Sizes, NEW va \in Address, NEW perm \in Perms,
         SetMemoryPermission(va, n, perm)
  PROVE  Keeps(named') /\ Names(named')
<1>1. regions \in Seq(Region) /\ perm \in SUBSET {"r", "w", "x"}
  BY MemoryAssumption DEF MemoryAssumption, MemoryInv
<1> DEFINE I == {i \in 1 .. Len(regions) : regions[i].va = va /\ regions[i].size = n}
           i == IF I # {} THEN Min(I) ELSE 0
<1>2. i # 0 /\ regions' = Protected(regions, i, perm) /\ named' = Range_(va, n) /\ Names(named')
  BY Zenon DEF SetMemoryPermission, SelectInSeq, Names
<1>3. Len(regions) \in Nat /\ I \in SUBSET Nat /\ I \subseteq 1 .. Len(regions)
  BY <1>1, LenProperties
<1>4. i \in I
  <2> HIDE DEF I
  <2>1. I # {} /\ i = Min(I)
    BY <1>2
  <2>2. QED
    BY <1>3, <2>1, FirstOf
<1>5. i \in 1 .. Len(regions) /\ regions[i].va = va /\ regions[i].size = n /\ regions[i] \in Region
  <2> HIDE DEF i
  <2>1. QED
    BY <1>1, <1>4
<1> HIDE DEF i
<1>6. Covers(regions[i]) \subseteq named'
  BY <1>2, <1>5, CoversWithin
<1>7. regions' \in Seq(Region)
  BY <1>1, <1>2, <1>5, ProtectedIs
<1>8. \A x \in 0 .. Width - 2 : x \notin named' => Meaning(regions', x) = Meaning(regions, x)
  BY <1>1, <1>2, <1>5, <1>6, ProtectedKeeps
<1>9. QED
  BY <1>2, <1>7, <1>8 DEF Keeps

LEMMA UnmapKeeps ==
  ASSUME MemoryInv, Disjoint(regions), NEW n \in Sizes, NEW va \in Address, UnmapMemory(va, n)
  PROVE  Keeps(named') /\ Names(named')
<1>1. regions \in Seq(Region) /\ Len(regions) \in Nat
  BY LenProperties DEF MemoryInv
<1> DEFINE I == {i \in 1 .. Len(regions) : va >= regions[i].va /\ va < Sum(regions[i].va, regions[i].size)}
           i == IF I # {} THEN Min(I) ELSE 0
           J == {j \in 1 .. Len(regions) : regions[j].va = va}
           j == IF J # {} THEN Min(J) ELSE 0
<1>2. i # 0 /\ regions[i].va = va /\ regions[i].size = n /\ named' = Range_(va, n) /\ Names(named')
  BY Zenon DEF UnmapMemory, Find, SelectInSeq, Names
<1>3. regions' = IF j = 0 THEN regions ELSE Front(ReplaceAt(regions, j, Last(regions)))
  BY Zenon DEF UnmapMemory, Unmapped, SelectInSeq
<1>4. /\ I \in SUBSET Nat /\ I \subseteq 1 .. Len(regions)
      /\ J \in SUBSET Nat /\ J \subseteq 1 .. Len(regions)
  BY <1>1
<1>5. i \in I /\ \A k \in I : i <= k
  <2> HIDE DEF I
  <2>1. I # {} /\ i = Min(I)
    BY <1>2
  <2>2. QED
    BY <1>4, <2>1, FirstOf
<1>6. i \in J
  <2> HIDE DEF i
  <2>1. QED
    BY <1>2, <1>5
<1>7. j \in J /\ \A k \in J : j <= k
  <2> HIDE DEF J, i
  <2>1. J # {} /\ j = Min(J)
    BY <1>6
  <2>2. QED
    BY <1>4, <2>1, FirstOf
<1> HIDE DEF i, j
<1>8. /\ j \in 1 .. Len(regions) /\ regions[j].va = va /\ regions[j] \in Region
      /\ i \in 1 .. Len(regions) /\ regions[i] \in Region
  BY <1>1, <1>5, <1>7
<1>9. Covers(regions[j]) \subseteq named'
  <2>1. CASE j = i
    BY <1>2, <1>8, <2>1, CoversWithin
  <2>2. CASE j # i
    <3>1. j < i
      BY <1>6, <1>7, <1>8, <2>2
    <3>2. j \notin I
      BY <1>5, <1>8, <3>1
    <3>3. ~(va < Sum(regions[j].va, regions[j].size))
      BY <1>8, <3>2, WidthIs DEF Address
    <3>4. Covers(regions[j]) = {}
      <4> SUFFICES ASSUME NEW x \in Covers(regions[j]) PROVE FALSE
        OBVIOUS
      <4>1. x \in Address /\ x >= va /\ x + 1 <= Sum(va, regions[j].size)
        BY <1>8 DEF Covers
      <4>2. ~(va < Sum(va, regions[j].size)) /\ Sum(va, regions[j].size) \in Nat
        <5>1. regions[j].size \in Nat /\ va \in Nat
          BY <1>8, WidthIs DEF Region, Address
        <5>2. Sum(va, regions[j].size) \in Address
          BY <5>1, SumIs, Zenon
        <5>3. QED
          BY <1>8, <3>3, <5>2, WidthIs DEF Address
      <4>3. QED
        BY <4>1, <4>2, WidthIs DEF Address
    <3>5. QED
      BY <3>4
  <2>3. QED
    BY <2>1, <2>2
<1>10. regions' = Front(ReplaceAt(regions, j, Last(regions)))
  BY <1>3, <1>8
<1>11. regions' \in Seq(Region)
  BY <1>1, <1>8, <1>10, UnmappedIs
<1>12. QED
  BY <1>1, <1>2, <1>8, <1>9, <1>10, <1>11, UnmappedKeeps DEF Keeps

\* A list that is left as it is for want of overlapping regions.
LEMMA UnmapTypes ==
  ASSUME MemoryInv, NEW n \in Sizes, NEW va \in Address, UnmapMemory(va, n)
  PROVE  regions' \in Seq(Region) /\ Names(named')
<1>1. regions \in Seq(Region) /\ Len(regions) \in Nat
  BY LenProperties DEF MemoryInv
<1> DEFINE J == {j \in 1 .. Len(regions) : regions[j].va = va}
           j == IF J # {} THEN Min(J) ELSE 0
<1>2. /\ regions' = IF j = 0 THEN regions ELSE Front(ReplaceAt(regions, j, Last(regions)))
      /\ Names(named')
  BY Zenon DEF UnmapMemory, Unmapped, SelectInSeq, Names
<1>3. J \in SUBSET Nat /\ J \subseteq 1 .. Len(regions)
  BY <1>1
<1>4. j = 0 \/ j \in 1 .. Len(regions)
  <2> HIDE DEF J
  <2>1. J # {} => j = Min(J) /\ Min(J) \in J
    BY <1>3, FirstOf
  <2>2. QED
    BY <1>3, <2>1
<1> HIDE DEF j
<1>5. QED
  BY <1>1, <1>2, <1>4, UnmappedIs

LEMMA PhysicalIs ==
  ASSUME NEW r \in Region, NEW x \in Address, x >= r.va
  PROVE  Physical(r, x) \in Address
<1>1. r.pa \in Nat /\ x - r.va \in Nat
  BY WidthIs DEF Region, Address
<1>2. \A b \in Nat : Sum(r.pa, b) \in Address
  BY <1>1, SumIs
<1>3. QED
  BY <1>1, <1>2 DEF Physical

\* The meaning of a covered address is a place in memory.
LEMMA MeaningMapped ==
  ASSUME NEW s \in Seq(Region), NEW x \in 0 .. Width - 2
  PROVE  Meaning(s, x).pa # Width <=> \E i \in 1 .. Len(s) : x \in Covers(s[i])
<1>1. Nowhere.pa = Width
  BY DEF Nowhere
<1>2. ASSUME NEW i \in 1 .. Len(s), x \in Covers(s[i]) PROVE Gives(s[i], x).pa # Width
  <2>1. s[i] \in Region /\ x \in Address /\ x >= s[i].va
    BY <1>2 DEF Covers
  <2>2. Physical(s[i], x) \in Address
    BY <2>1, PhysicalIs
  <2>3. Width \notin Address
    BY WidthIs DEF Address
  <2>4. QED
    BY <2>2, <2>3 DEF Gives
<1>3. QED
  BY <1>1, <1>2, MeaningIs

\* The memory MapMemory finds for its source.
LEMMA SourceIs ==
  ASSUME NEW s \in Seq(Region), NEW x \in Address, NEW n \in Address, Holding(s, x, n) # 0
  PROVE  \E i \in 1 .. Len(s) :
           /\ x >= s[i].va /\ Sum(x, n) <= Sum(s[i].va, s[i].size)
           /\ Source(s, x, n) = Physical(s[i], x) /\ Source(s, x, n) \in Address
<1> DEFINE I == {i \in 1 .. Len(s) : x >= s[i].va /\ Sum(x, n) <= Sum(s[i].va, s[i].size)}
<1>1. Holding(s, x, n) = IF I # {} THEN Min(I) ELSE 0
  BY DEF Holding, SelectInSeq
<1>2. Len(s) \in Nat /\ I \in SUBSET Nat
  BY LenProperties
<1> HIDE DEF I
<1>3. Min(I) \in I /\ Holding(s, x, n) = Min(I)
  BY <1>1, <1>2, FirstOf
<1>4. PICK i \in 1 .. Len(s) : /\ i = Min(I) /\ x >= s[i].va
                               /\ Sum(x, n) <= Sum(s[i].va, s[i].size)
  BY <1>3 DEF I
<1>5. Source(s, x, n) = Physical(s[i], x)
  BY <1>3, <1>4 DEF Source
<1>6. s[i] \in Region
  OBVIOUS
<1>7. QED
  BY <1>4, <1>5, <1>6, PhysicalIs

LEMMA MapKeeps ==
  ASSUME MemoryInv, NEW n \in Sizes, NEW to \in Address, NEW from \in Address,
         MapMemory(to, from, n)
  PROVE  /\ Keeps(named')
         /\ \A x \in 0 .. Width - 2 : (\E i \in 1 .. Len(regions) : x \in Covers(regions[i]))
              => Meaning(regions', x) = Meaning(regions, x)
<1>1. regions \in Seq(Region) /\ Len(regions) \in Nat /\ n \in Address
  BY MemoryAssumption, LenProperties DEF MemoryAssumption, MemoryInv, Address
<1>2. Holding(regions, from, n) # 0 /\ Find(regions, from) # 0
  BY DEF MapMemory, Translates
<1> DEFINE I == {i \in 1 .. Len(regions) :
                   from >= regions[i].va /\ from < Sum(regions[i].va, regions[i].size)}
           f == Find(regions, from)
<1>3. f \in 1 .. Len(regions)
  <2>1. f = IF I # {} THEN Min(I) ELSE 0
    BY DEF Find, SelectInSeq
  <2>2. I \in SUBSET Nat /\ I \subseteq 1 .. Len(regions)
    BY <1>1
  <2> HIDE DEF I
  <2>3. I # {} => Min(I) \in I
    BY <2>2, FirstOf
  <2>4. QED
    BY <1>2, <2>1, <2>2, <2>3
<1> DEFINE pa == Source(regions, from, n)
           perm == regions[f].perm
<1>4. pa \in Address
  BY <1>1, <1>2, SourceIs
<1>5. perm \in SUBSET {"r", "w", "x"}
  <2>1. regions[f] \in Region
    BY <1>1, <1>3
  <2>2. QED
    BY <2>1 DEF Region
<1>6. regions' = Mapped(regions, to, pa, n, perm) /\ named' = Range_(to, n)
  BY DEF MapMemory
<1> HIDE DEF pa, perm, f
<1>7. [va |-> to, pa |-> pa, size |-> n, perm |-> perm] \in Region
  BY <1>1, <1>4, <1>5 DEF Region
<1>8. regions' \in Seq(Region)
  BY <1>1, <1>6, <1>7, AppendProperties DEF Mapped
<1>9. \A x \in 0 .. Width - 2 :
        x \notin named' \/ (\E i \in 1 .. Len(regions) : x \in Covers(regions[i]))
          => Meaning(regions', x) = Meaning(regions, x)
  BY <1>1, <1>4, <1>5, <1>6, MappedBehind
<1>10. QED
  BY <1>8, <1>9 DEF Keeps

\* The new alias of MapMemory.
LEMMA NewAliasHolds ==
  ASSUME MemoryInv, NEW n \in Sizes, NEW to \in Address, NEW from \in Address,
         MapMemory(to, from, n), Disjoint(regions'), to + n < Width, from + n < Width,
         NEW k \in 0 .. n - 1
  PROVE  /\ Meaning(regions', to + k).pa # Width
         /\ Meaning(regions', to + k).pa = Meaning(regions', from + k).pa
<1>1. regions \in Seq(Region) /\ Len(regions) \in Nat /\ n \in Address
  BY MemoryAssumption, LenProperties DEF MemoryAssumption, MemoryInv, Address
<1>2. /\ to \in Nat /\ from \in Nat /\ n \in Nat /\ k \in Nat /\ k < n /\ k \in Address
      /\ to + k \in 0 .. Width - 2 /\ from + k \in 0 .. Width - 2
      /\ to + k \in Address /\ from + k \in Address
  BY <1>1, WidthIs DEF Address
<1>3. PICK i \in 1 .. Len(regions) :
        /\ from >= regions[i].va /\ Sum(from, n) <= Sum(regions[i].va, regions[i].size)
        /\ Source(regions, from, n) = Physical(regions[i], from)
        /\ Source(regions, from, n) \in Address
  BY <1>1, SourceIs DEF MapMemory, Translates
<1>4. PICK perm : regions' = Mapped(regions, to, Source(regions, from, n), n, perm)
  BY DEF MapMemory
<1>5. regions' \in Seq(Region)
  BY MapKeeps DEF Keeps
<1> DEFINE new == [va |-> to, pa |-> Source(regions, from, n), size |-> n, perm |-> perm]
           l == Len(regions) + 1
<1>6. /\ Len(regions') = Len(regions) + 1 /\ regions'[i] = regions[i] /\ regions'[l] = new
      /\ i \in 1 .. Len(regions') /\ l \in 1 .. Len(regions')
  <2>1. regions' = Append(regions, new)
    BY <1>4 DEF Mapped
  <2> HIDE DEF new
  <2>2. /\ Len(regions') = Len(regions) + 1 /\ regions'[i] = regions[i]
        /\ regions'[Len(regions) + 1] = new
    BY <1>1, <2>1
  <2>3. QED
    BY <1>1, <2>2
<1>7. regions[i] \in Region /\ regions[i].va \in Nat /\ regions[i].pa \in Address /\ regions[i].va \in Address
  <2>1. regions[i] \in Region
    BY <1>1
  <2>2. QED
    BY <2>1, WidthIs DEF Region, Address
<1>8. to + k \in Covers(regions'[l])
  <2>1. Sum(to, n) = to + n
    BY <1>2, SumIs
  <2>2. to + k >= to /\ to + k + 1 <= to + n
    BY <1>2
  <2>3. to + k \in Covers(new)
    BY <1>2, <2>1, <2>2 DEF Covers
  <2>4. QED
    BY <1>6, <2>3
<1>9. from + k \in Covers(regions'[i])
  <2>1. Sum(from, n) = from + n
    BY <1>2, SumIs
  <2>2. Sum(regions[i].va, regions[i].size) \in Nat
    <3>1. regions[i].va \in Nat /\ regions[i].size \in Nat
      BY <1>7, WidthIs DEF Region, Address
    <3>2. Sum(regions[i].va, regions[i].size) \in Address
      BY <3>1, SumIs
    <3>3. QED
      BY <3>2, WidthIs DEF Address
  <2>3. from + k >= regions[i].va /\ from + k + 1 <= Sum(regions[i].va, regions[i].size)
    BY <1>2, <1>3, <1>7, <2>1, <2>2
  <2>4. QED
    BY <1>2, <1>6, <2>3 DEF Covers
<1> HIDE DEF l
<1>10. Meaning(regions', to + k) = Gives(regions'[l], to + k)
  BY <1>2, <1>5, <1>6, <1>8, MeaningIs, OnlyOne
<1>11. Meaning(regions', from + k) = Gives(regions'[i], from + k)
  BY <1>2, <1>5, <1>6, <1>9, MeaningIs, OnlyOne
<1>12. Meaning(regions', to + k).pa = Sum(Source(regions, from, n), k)
  <2>1. (to + k) - to = k
    BY <1>2
  <2>2. QED
    BY <1>6, <1>10, <2>1 DEF Gives, Physical
<1>13. Meaning(regions', from + k).pa = Sum(regions[i].pa, (from - regions[i].va) + k)
  <2>1. (from + k) - regions[i].va = (from - regions[i].va) + k
    BY <1>2, <1>7
  <2>2. QED
    BY <1>6, <1>11, <2>1 DEF Gives, Physical
<1>14. Sum(Source(regions, from, n), k) = Sum(regions[i].pa, (from - regions[i].va) + k)
  <2>1. from - regions[i].va \in Address
    <3>1. PICK v \in Nat : v = regions[i].va
      BY <1>7
    <3>2. from \in Nat /\ from < Width /\ v <= from
      BY <1>2, <1>3, <3>1, WidthIs DEF Address
    <3>3. from - v \in Nat /\ from - v < Width
      BY <3>2, WidthIs
    <3>4. QED
      BY <3>1, <3>3, WidthIs DEF Address
  <2>2. Source(regions, from, n) = Sum(regions[i].pa, from - regions[i].va)
    BY <1>3 DEF Physical
  <2>3. PICK o \in Address : o = from - regions[i].va
    BY <2>1
  <2>4. Sum(Sum(regions[i].pa, o), k) = Sum(regions[i].pa, o + k)
    <3>1. \A a \in Address : Sum(Sum(a, o), k) = Sum(a, o + k)
      BY <1>2, SumOfSum
    <3>2. QED
      BY <1>7, <3>1, Zenon
  <2>5. Sum(regions[i].pa, o) = Source(regions, from, n)
    BY <2>2, <2>3, Zenon
  <2>6. o + k = (from - regions[i].va) + k
    BY <2>3
  <2>7. QED
    BY <2>4, <2>5, <2>6, Zenon
<1>15. Meaning(regions', to + k).pa # Width
  <2>1. \E j \in 1 .. Len(regions') : to + k \in Covers(regions'[j])
    BY <1>6, <1>8
  <2>2. QED
    BY <1>2, <1>5, <2>1, MeaningMapped
<1>16. QED
  BY <1>12, <1>13, <1>14, <1>15

LEMMA WithinRange ==
  ASSUME NEW v \in Nat, NEW z \in Nat, v + z < Width, NEW k \in 0 .. z - 1
  PROVE  v + k \in 0 .. Width - 2 /\ v + k \in Range_(v, z)
  BY WidthIs DEF Range_, Address

\* A request that names its addresses.
LEMMA NamesKeep ==
  ASSUME MemoryInv, Disjoint(regions) => Keeps(named'), regions' \in Seq(Region), Names(named')
  PROVE  MemoryInv'
<1>1. aliases' \subseteq aliases /\ (aliases' # {} => Disjoint(regions'))
  BY DEF Names
<1>2. ASSUME NEW a \in aliases', NEW k \in 0 .. a.size - 1
      PROVE  /\ Meaning(regions', a.to + k).pa # Width
             /\ Meaning(regions', a.to + k).pa = Meaning(regions', a.from + k).pa
  <2>1. a \in aliases /\ AliasHolds(a) /\ a \in Alias
    BY <1>1 DEF MemoryInv
  <2>2. (Range_(a.to, a.size) \cup Range_(a.from, a.size)) \cap named' = {}
    BY <1>1 DEF Names
  <2>3. /\ a.to \in Nat /\ a.from \in Nat /\ a.size \in Nat
        /\ a.to + a.size < Width /\ a.from + a.size < Width
    BY <2>1, WidthIs DEF Alias, Address, AliasHolds
  <2>4. /\ a.to + k \in 0 .. Width - 2 /\ a.to + k \in Range_(a.to, a.size)
        /\ a.from + k \in 0 .. Width - 2 /\ a.from + k \in Range_(a.from, a.size)
    BY <2>3, WithinRange
  <2>5. Disjoint(regions)
    BY <2>1 DEF MemoryInv
  <2>6. /\ Meaning(regions', a.to + k) = Meaning(regions, a.to + k)
        /\ Meaning(regions', a.from + k) = Meaning(regions, a.from + k)
    BY <2>2, <2>4, <2>5 DEF Keeps
  <2>7. QED
    BY <2>1, <2>6 DEF AliasHolds
<1>3. \A a \in aliases' : a.to + a.size < Width /\ a.from + a.size < Width
  BY <1>1 DEF MemoryInv, AliasHolds
<1>4. QED
  BY <1>1, <1>2, <1>3 DEF MemoryInv, AliasHolds

LEMMA MapAliases ==
  ASSUME MemoryInv, NEW n \in Sizes, NEW to \in Address, NEW from \in Address,
         MapMemory(to, from, n)
  PROVE  MemoryInv'
<1>1. regions' \in Seq(Region)
  BY MapKeeps DEF Keeps
<1>2. n \in Address
  BY MemoryAssumption DEF MemoryAssumption, Address
<1> DEFINE new == [to |-> to, from |-> from, size |-> n]
<1>3. /\ aliases' # {} => Disjoint(regions')
      /\ \A a \in aliases' : a \in aliases \/ (a = new /\ to + n < Width /\ from + n < Width)
  <2>1. aliases' = IF Disjoint(regions')
                   THEN aliases \cup {a \in {new} : to + n < Width /\ from + n < Width}
                   ELSE {}
    BY DEF MapMemory
  <2> HIDE DEF new
  <2>2. QED
    BY <2>1
<1>4. aliases' \subseteq Alias
  BY <1>2, <1>3 DEF MemoryInv, Alias
<1>5. ASSUME NEW a \in aliases'
      PROVE  /\ a.to + a.size < Width /\ a.from + a.size < Width
             /\ \A k \in 0 .. a.size - 1 :
                  /\ Meaning(regions', a.to + k).pa # Width
                  /\ Meaning(regions', a.to + k).pa = Meaning(regions', a.from + k).pa
  <2>1. CASE a = new /\ to + n < Width /\ from + n < Width
    <3>1. a.to = to /\ a.from = from /\ a.size = n
      BY <2>1
    <3>2. \A k \in 0 .. n - 1 : /\ Meaning(regions', to + k).pa # Width
                                /\ Meaning(regions', to + k).pa = Meaning(regions', from + k).pa
      BY <1>3, <2>1, NewAliasHolds
    <3>3. QED
      BY <2>1, <3>1, <3>2
  <2>2. CASE a \in aliases
    <3>1. AliasHolds(a) /\ a \in Alias /\ regions \in Seq(Region)
      BY <2>2 DEF MemoryInv
    <3>2. /\ a.to \in Nat /\ a.from \in Nat /\ a.size \in Nat
          /\ a.to + a.size < Width /\ a.from + a.size < Width
      BY <3>1, WidthIs DEF Alias, Address, AliasHolds
    <3>3. ASSUME NEW k \in 0 .. a.size - 1
          PROVE  /\ Meaning(regions', a.to + k).pa # Width
                 /\ Meaning(regions', a.to + k).pa = Meaning(regions', a.from + k).pa
      <4>1. a.to + k \in 0 .. Width - 2 /\ a.from + k \in 0 .. Width - 2
        BY <3>2, WidthIs
      <4>2. /\ Meaning(regions, a.to + k).pa # Width
            /\ Meaning(regions, a.to + k).pa = Meaning(regions, a.from + k).pa
        BY <3>1 DEF AliasHolds
      <4>3. /\ \E i \in 1 .. Len(regions) : a.to + k \in Covers(regions[i])
            /\ \E i \in 1 .. Len(regions) : a.from + k \in Covers(regions[i])
        BY <3>1, <4>1, <4>2, MeaningMapped
      <4>4. /\ Meaning(regions', a.to + k) = Meaning(regions, a.to + k)
            /\ Meaning(regions', a.from + k) = Meaning(regions, a.from + k)
        BY <4>1, <4>3, MapKeeps
      <4>5. QED
        BY <4>2, <4>4
    <3>4. QED
      BY <3>2, <3>3
  <2>3. QED
    BY <1>3, <2>1, <2>2
<1>6. QED
  BY <1>1, <1>3, <1>4, <1>5 DEF MemoryInv, AliasHolds

\* Each request, with what it names and what it leaves.
LEMMA RequestShape ==
  ASSUME MemoryInv, MemoryNext
  PROVE  /\ regions' \in Seq(Region)
         /\ Disjoint(regions) => Keeps(named')
         /\ \/ Names(named')
            \/ \E n \in Sizes : \E to, from \in Address : MapMemory(to, from, n)
<1>1. CASE ApplySwitches
  <2>1. regions' \in Seq(Region) /\ named' = Address /\ Names(named')
    BY <1>1, InitRegions DEF ApplySwitches, Names
  <2>2. \A x \in 0 .. Width - 2 : x \in Address
    BY WidthIs DEF Address
  <2>3. QED
    BY <2>1, <2>2 DEF Keeps
<1>2. ASSUME NEW n \in Sizes, SetHeapSize(n)
      PROVE  Keeps(named') /\ Names(named') /\ regions' \in Seq(Region)
  BY <1>2, HeapKeeps DEF Keeps
<1>3. ASSUME NEW n \in Sizes, NEW va \in Address, NEW perm \in Perms, SetMemoryPermission(va, n, perm)
      PROVE  Keeps(named') /\ Names(named') /\ regions' \in Seq(Region)
  BY <1>3, PermissionKeeps DEF Keeps
<1>4. ASSUME NEW n \in Sizes, NEW to \in Address, NEW from \in Address, MapMemory(to, from, n)
      PROVE  Keeps(named') /\ regions' \in Seq(Region)
  BY <1>4, MapKeeps DEF Keeps
<1>5. ASSUME NEW n \in Sizes, NEW va \in Address, UnmapMemory(va, n)
      PROVE  (Disjoint(regions) => Keeps(named')) /\ Names(named') /\ regions' \in Seq(Region)
  BY <1>5, UnmapKeeps, UnmapTypes
<1>6. QED
  BY <1>1, <1>2, <1>3, <1>4, <1>5 DEF MemoryNext

LEMMA InitMemory == MemoryInit => MemoryInv
  BY InitRegions DEF MemoryInit, MemoryInv

LEMMA NextMemory == MemoryInv /\ [MemoryNext]_memoryVars => MemoryInv'
<1> SUFFICES ASSUME MemoryInv, [MemoryNext]_memoryVars PROVE MemoryInv'
  OBVIOUS
<1>1. CASE UNCHANGED memoryVars
  BY <1>1 DEF memoryVars, MemoryInv, AliasHolds
<1>2. CASE MemoryNext
  BY <1>2, RequestShape, NamesKeep, MapAliases
<1>3. QED
  BY <1>1, <1>2

LEMMA MemoryInvariant == MemorySpec => []MemoryInv
  BY InitMemory, NextMemory, PTL DEF MemorySpec

\* An alias and its source stay the same memory until a request names one of
\* them, whatever happens to the other regions meanwhile.
THEOREM AliasesStay == MemorySpec => []AliasesAgree
<1>1. MemoryInv => AliasesAgree
  BY DEF MemoryInv, AliasHolds, AliasesAgree
<1>2. QED
  BY <1>1, MemoryInvariant, PTL

\* While no two regions overlap, a request changes the meaning of the
\* addresses it names and of no other.
THEOREM RequestsAreLocal == MemorySpec => OthersKeepTheirMeaning
<1>1. MemoryInv /\ [MemoryNext]_memoryVars
        => [Disjoint(regions) => \A a \in 0 .. Width - 2 :
              a \notin named' => Meaning(regions', a) = Meaning(regions, a)]_memoryVars
  BY RequestShape DEF Keeps
<1>2. QED
  BY <1>1, MemoryInvariant, PTL DEF MemorySpec, OthersKeepTheirMeaning

-----------------------------------------------------------------------------
(* Handles, mutexes and events.                                            *)

USE SyncAssumption DEF SyncAssumption

(* What the theorems assume of a guest: it creates fewer objects than the  *)
(* low bits of a tag can name, and runs only in scheduled threads.         *)
NoAlias == MaxHandles < TagSize
Scheduled == 0 \notin Thread

LEMMA LowBits ==
  ASSUME NoAlias, NEW id \in 0 .. MaxHandles
  PROVE  id % TagSize = id
  BY SMT DEF NoAlias

-----------------------------------------------------------------------------
(* Type correctness.                                                       *)

LEMMA OneMoreType ==
  ASSUME NEW count \in [ObjectId -> 0 .. 2], NEW e \in ObjectId
  PROVE  OneMore(count, e) \in [ObjectId -> 0 .. 2]
<1>1. (IF count[e] < 2 THEN count[e] + 1 ELSE count[e]) \in 0 .. 2
  OBVIOUS
<1>2. QED
  BY <1>1 DEF OneMore

LEMMA ResetType ==
  ASSUME NEW count \in [ObjectId -> 0 .. 2], NEW e \in ObjectId
  PROVE  [count EXCEPT ![e] = 0] \in [ObjectId -> 0 .. 2]
<1>1. 0 \in 0 .. 2
  OBVIOUS
<1>2. QED
  BY <1>1

LEMMA InitType == Init => TypeOK
  BY DEF Init, TypeOK, Tag, ObjectId, Handle, Event

LEMMA NextType ==
  ASSUME NoAlias, TypeOK, [Next]_vars PROVE TypeOK'
<1> USE DEF TypeOK, Handle, ObjectId
<1>1. CASE svcCreateMutex
  <2>1. next_mutex \in ObjectId /\ next_handle \in Handle
    BY <1>1 DEF svcCreateMutex, MoreHandles
  <2>2. [kind |-> "mutex", low |-> next_mutex % TagSize] \in Tag
    BY <2>1, LowBits DEF Tag, Kind
  <2>3. QED
    BY <1>1, <2>1, <2>2 DEF svcCreateMutex, createHandle, eventVars
<1>2. CASE svcCreateEvent
  <2>1. next_event \in ObjectId /\ next_handle \in Handle
    BY <1>2 DEF svcCreateEvent, MoreHandles
  <2>2. [kind |-> "event", low |-> next_event % TagSize] \in Tag
    BY <2>1, LowBits DEF Tag, Kind
  <2>3. PICK manual \in BOOLEAN :
           flags' = [flags EXCEPT ![next_event] =
                       [signaled |-> FALSE, manual_reset |-> manual]]
    BY <1>2 DEF svcCreateEvent
  <2>4. [signaled |-> FALSE, manual_reset |-> manual] \in Event
    BY DEF Event
  <2>5. flags' \in [ObjectId -> Event \cup {Absent}]
    BY <2>1, <2>3, <2>4
  <2>6. /\ handles' = [handles EXCEPT ![next_handle] =
                         [kind |-> "event", low |-> next_event % TagSize]]
        /\ next_handle' = next_handle + 1 /\ next_event' = next_event + 1
        /\ UNCHANGED <<owners, next_mutex, inside, released, told>>
    BY <1>2 DEF svcCreateEvent, createHandle, mutexVars
  <2>7. QED
    BY <2>1, <2>2, <2>5, <2>6
<1>3. ASSUME NEW t \in Thread, NEW h \in Handle, svcLockMutex(t, h) PROVE TypeOK'
  <2>1. CASE UNCHANGED vars
    BY <2>1 DEF vars, tables
  <2>2. CASE /\ owners' = owners /\ inside' = inside
             /\ UNCHANGED <<handles, next_handle, next_mutex, eventVars>>
    BY <2>2 DEF eventVars
  <2>3. CASE /\ owners' = [owners EXCEPT ![handles[h].low] = t]
             /\ inside' = inside \cup {<<t, h>>}
             /\ UNCHANGED <<handles, next_handle, next_mutex, eventVars>>
    <3>1. owners' \in [ObjectId -> Thread \cup {0, Absent}]
      BY <2>3
    <3>2. inside' \subseteq Thread \X Handle
      BY <2>3
    <3>3. QED
      BY <2>3, <3>1, <3>2 DEF eventVars
  <2>4. QED
    BY <1>3, <2>1, <2>2, <2>3, Zenon DEF svcLockMutex, Invalid
<1>4. ASSUME NEW t \in Thread, NEW h \in Handle, svcUnlockMutex(t, h) PROVE TypeOK'
  BY <1>4 DEF svcUnlockMutex, Invalid, vars, tables, eventVars
<1>5. ASSUME NEW h \in Handle, svcCloseMutex(h) PROVE TypeOK'
  BY <1>5 DEF svcCloseMutex, closeHandle, Invalid, vars, tables, eventVars
<1>6. ASSUME NEW h \in Handle,
             svcSignalEvent(h) \/ svcClearEvent(h) \/ svcWaitEvent(h)
      PROVE  TypeOK'
  <2>1. CASE UNCHANGED vars
    BY <2>1 DEF vars, tables
  <2>2. CASE /\ Live(h) /\ UNCHANGED <<flags, released, told>>
             /\ UNCHANGED <<handles, next_handle, mutexVars, next_event, inside>>
    BY <2>2 DEF mutexVars
  <2>3. CASE /\ Live(h) /\ flags[handles[h].low] # Absent
             /\ \/ signal(handles[h].low) \/ clear(handles[h].low)
                \/ wait(handles[h].low)
             /\ UNCHANGED <<handles, next_handle, mutexVars, next_event, inside>>
    <3> DEFINE e == handles[h].low
    <3>1. handles[h] \in Tag
      BY <2>3 DEF Live
    <3>2. e \in ObjectId
      BY <3>1 DEF Tag
    <3>3. flags[e] \in Event
      BY <2>3, <3>2
    <3>4. ASSUME NEW b \in BOOLEAN
          PROVE  [flags EXCEPT ![e].signaled = b] \in [ObjectId -> Event \cup {Absent}]
      <4>1. [flags[e] EXCEPT !.signaled = b] \in Event
        BY <3>3 DEF Event
      <4>2. QED
        BY <3>2, <4>1
    <3>5. OneMore(released, e) \in [ObjectId -> 0 .. 2]
          /\ OneMore(told, e) \in [ObjectId -> 0 .. 2]
      BY <3>2, OneMoreType
    <3>6. flags' \in [ObjectId -> Event \cup {Absent}]
      <4>1. \/ flags' = [flags EXCEPT ![e].signaled = TRUE]
            \/ flags' = [flags EXCEPT ![e].signaled = FALSE]
            \/ flags' = flags
        BY <2>3, Zenon DEF signal, clear, wait
      <4>2. QED
        BY <3>4, <4>1
    <3>7. released' \in [ObjectId -> 0 .. 2] /\ told' \in [ObjectId -> 0 .. 2]
      <4>1. \/ released' = [released EXCEPT ![e] = 0]
            \/ released' = OneMore(released, e)
            \/ released' = released
        BY <2>3, Zenon DEF signal, clear, wait
      <4>2. \/ told' = [told EXCEPT ![e] = 0]
            \/ told' = OneMore(told, e)
            \/ told' = told
        BY <2>3, Zenon DEF signal, clear, wait
      <4>3. /\ [released EXCEPT ![e] = 0] \in [ObjectId -> 0 .. 2]
            /\ [told EXCEPT ![e] = 0] \in [ObjectId -> 0 .. 2]
        BY <3>2, ResetType
      <4>4. QED
        BY <3>5, <4>1, <4>2, <4>3, Zenon
    <3>8. QED
      BY <2>3, <3>6, <3>7 DEF mutexVars
  <2>4. QED
    BY <1>6, <2>1, <2>2, <2>3, Zenon
       DEF svcSignalEvent, svcClearEvent, svcWaitEvent, OnEvent, NoEvent, Invalid
<1>7. ASSUME NEW h \in Handle, svcCloseEvent(h) PROVE TypeOK'
  BY <1>7 DEF svcCloseEvent, closeHandle, Invalid, vars, tables, mutexVars
<1>8. ASSUME NEW h \in Handle, svcCloseHandle(h) PROVE TypeOK'
  BY <1>8 DEF svcCloseHandle, closeHandle, Invalid, vars, tables, mutexVars, eventVars
<1>9. CASE UNCHANGED vars
  BY <1>9 DEF vars, tables
<1>10. QED
  BY <1>1, <1>2, <1>3, <1>4, <1>5, <1>6, <1>7, <1>8, <1>9
     DEF Next, MutexSvc, EventSvc, HandleSvc, Given

(* The tables always hold what their types allow, history included.        *)
THEOREM SyncTypeCorrect == ASSUME NoAlias PROVE Spec => []TypeOK
<1>1. TypeOK /\ [Next]_vars => TypeOK'
  BY NextType
<1>2. QED
  BY InitType, <1>1, PTL DEF Spec

-----------------------------------------------------------------------------
(* Handles name objects.  Ids and handle numbers are given out in order,   *)
(* so that what is created next is named by no handle yet.                 *)

NumbersInOrder ==
  \A h \in Handle : Live(h) =>
    /\ h < next_handle
    /\ handles[h].kind \in Kind
    /\ handles[h].kind = "mutex" => handles[h].low \in 1 .. next_mutex - 1
    /\ handles[h].kind = "event" => handles[h].low \in 1 .. next_event - 1

(* Where a handle is live, the thread inside it owns its mutex.            *)
InsideOwns ==
  \A p \in inside :
    /\ p[2] < next_handle
    /\ Live(p[2]) => /\ handles[p[2]].kind = "mutex"
                     /\ owners[handles[p[2]].low] = p[1]

SyncInv == NumbersInOrder /\ HandlesNameObjects /\ InsideOwns

LEMMA InitSync == Init => SyncInv
  BY DEF Init, SyncInv, NumbersInOrder, HandlesNameObjects, InsideOwns, Live

(* A step that keeps the tables, or turns an event on or off, changes      *)
(* nothing here.                                                           *)
LEMMA SameSync ==
  ASSUME SyncInv,
         UNCHANGED <<handles, next_handle, owners, next_mutex, next_event, inside>>,
         \/ UNCHANGED flags
         \/ /\ TypeOK
            /\ \A i \in ObjectId : flags[i] # Absent => flags'[i] # Absent
  PROVE  SyncInv'
<1>1. \A h \in Handle : Live(h)' <=> Live(h)
  BY DEF Live
<1>2. NumbersInOrder'
  BY <1>1 DEF SyncInv, NumbersInOrder
<1>3. InsideOwns'
  <2>1. \A p \in inside : Live(p[2])' <=> Live(p[2])
    BY DEF Live
  <2>2. QED
    BY <2>1 DEF SyncInv, InsideOwns
<1>4. \A h \in Handle : Live(h) /\ handles[h].kind = "event"
         => flags'[handles[h].low] # Absent
  <2> SUFFICES ASSUME NEW h \in Handle, Live(h), handles[h].kind = "event"
               PROVE  flags'[handles[h].low] # Absent
    OBVIOUS
  <2>1. flags[handles[h].low] # Absent
    BY DEF SyncInv, HandlesNameObjects
  <2>2. TypeOK => handles[h] \in Tag
    BY DEF TypeOK, Live
  <2>3. TypeOK => handles[h].low \in ObjectId
    BY <2>2 DEF Tag
  <2>4. QED
    BY <2>1, <2>3
<1>5. HandlesNameObjects'
  BY <1>1, <1>4 DEF SyncInv, HandlesNameObjects
<1>6. QED
  BY <1>2, <1>3, <1>5 DEF SyncInv

(* Closing a handle, with or without its object, leaves the rest in order. *)
LEMMA CloseSync ==
  ASSUME TypeOK, SyncInv, NEW h \in Handle, Live(h), closeHandle(h),
         UNCHANGED <<next_mutex, next_event, inside>>,
         \/ UNCHANGED owners
         \/ /\ handles[h].kind = "mutex"
            /\ owners' = [owners EXCEPT ![handles[h].low] = Absent],
         \/ UNCHANGED flags
         \/ /\ handles[h].kind = "event"
            /\ flags' = [flags EXCEPT ![handles[h].low] = Absent]
  PROVE  SyncInv'
<1>1. /\ handles \in [Handle -> Tag \cup {Absent}] /\ next_handle' = next_handle
      /\ owners \in [ObjectId -> Thread \cup {0, Absent}]
      /\ flags \in [ObjectId -> Event \cup {Absent}]
      /\ inside \subseteq Thread \X Handle
  BY DEF TypeOK, closeHandle
<1>2. /\ ~Live(h)'
      /\ \A g \in Handle : g # h => handles'[g] = handles[g]
  BY <1>1 DEF closeHandle, Live
<1>3. ASSUME NEW g \in Handle, Live(g)'
      PROVE  /\ g # h /\ Live(g) /\ handles'[g] = handles[g]
             /\ handles[g] \in Tag
  BY <1>1, <1>2, <1>3 DEF Live
<1>4. ASSUME NEW g \in Handle, Live(g)', handles[g].kind = "mutex"
      PROVE  owners'[handles[g].low] = owners[handles[g].low]
  <2>1. handles[g] \in Tag /\ handles[h] \in Tag /\ g # h /\ Live(g)
    BY <1>1, <1>3, <1>4 DEF Live
  <2>2. handles[h].kind = "mutex" => handles[g].low # handles[h].low
    <3>1. handles[g] # handles[h]
      BY <2>1 DEF SyncInv, HandlesNameObjects
    <3>2. QED
      BY <1>4, <2>1, <3>1 DEF Tag
  <2>3. handles[g].low \in ObjectId
    BY <2>1 DEF Tag
  <2>4. QED
    BY <1>1, <2>2, <2>3
<1>5. ASSUME NEW g \in Handle, Live(g)', handles[g].kind = "event"
      PROVE  flags'[handles[g].low] = flags[handles[g].low]
  <2>1. handles[g] \in Tag /\ handles[h] \in Tag /\ g # h /\ Live(g)
    BY <1>1, <1>3, <1>5 DEF Live
  <2>2. handles[h].kind = "event" => handles[g].low # handles[h].low
    <3>1. handles[g] # handles[h]
      BY <2>1 DEF SyncInv, HandlesNameObjects
    <3>2. QED
      BY <1>5, <2>1, <3>1 DEF Tag
  <2>3. handles[g].low \in ObjectId
    BY <2>1 DEF Tag
  <2>4. QED
    BY <1>1, <2>2, <2>3
<1>6. NumbersInOrder'
  BY <1>1, <1>3 DEF SyncInv, NumbersInOrder
<1>7. HandlesNameObjects'
  BY <1>3, <1>4, <1>5 DEF SyncInv, HandlesNameObjects
<1>8. InsideOwns'
  <2> SUFFICES ASSUME NEW p \in inside
               PROVE  /\ p[2] < next_handle'
                      /\ Live(p[2])' => /\ handles'[p[2]].kind = "mutex"
                                        /\ owners'[handles'[p[2]].low] = p[1]
    BY DEF InsideOwns
  <2>1. p[2] \in Handle
    BY <1>1
  <2>2. p[2] < next_handle'
    BY <1>1 DEF SyncInv, InsideOwns
  <2>3. ASSUME Live(p[2])'
        PROVE  /\ handles'[p[2]].kind = "mutex"
               /\ owners'[handles'[p[2]].low] = p[1]
    <3>1. handles'[p[2]] = handles[p[2]] /\ Live(p[2])
      BY <1>3, <2>1, <2>3
    <3>2. handles[p[2]].kind = "mutex" /\ owners[handles[p[2]].low] = p[1]
      BY <3>1 DEF SyncInv, InsideOwns
    <3>3. QED
      BY <1>4, <2>1, <2>3, <3>1, <3>2
  <2>4. QED
    BY <2>2, <2>3
<1>9. QED
  BY <1>6, <1>7, <1>8 DEF SyncInv

(* A new object is named by its new handle alone.                          *)
LEMMA CreateSync ==
  ASSUME NoAlias, TypeOK, SyncInv, MoreHandles, UNCHANGED inside,
         NEW kind \in Kind, NEW id, createHandle(kind, id),
         \/ /\ kind = "mutex" /\ id = next_mutex /\ next_mutex' = next_mutex + 1
            /\ owners' = [owners EXCEPT ![next_mutex] = 0]
            /\ UNCHANGED <<flags, next_event>>
         \/ /\ kind = "event" /\ id = next_event /\ next_event' = next_event + 1
            /\ flags'[next_event] # Absent
            /\ \A e \in ObjectId : e # next_event => flags'[e] = flags[e]
            /\ UNCHANGED <<owners, next_mutex>>
  PROVE  SyncInv'
<1>1. /\ handles \in [Handle -> Tag \cup {Absent}] /\ next_handle \in Handle
      /\ owners \in [ObjectId -> Thread \cup {0, Absent}]
      /\ inside \subseteq Thread \X Handle
      /\ next_mutex \in 1 .. MaxHandles /\ next_event \in 1 .. MaxHandles
  BY DEF TypeOK, MoreHandles, Handle
<1>2. id \in 1 .. MaxHandles
  BY <1>1
<1>3. id % TagSize = id
  BY <1>2, LowBits
<1> DEFINE new == [kind |-> kind, low |-> id]
<1>4. /\ handles' = [handles EXCEPT ![next_handle] = new]
      /\ next_handle' = next_handle + 1
  BY <1>3 DEF createHandle
<1>5. new.kind = kind /\ new.low = id
  OBVIOUS
<1> HIDE DEF new
<1>6. \A g \in Handle : Live(g)' =>
         \/ g = next_handle /\ handles'[g] = new
         \/ /\ g # next_handle /\ Live(g) /\ handles'[g] = handles[g]
            /\ handles[g] \in Tag /\ g < next_handle
  BY <1>1, <1>4 DEF Live, SyncInv, NumbersInOrder
<1>7. next_mutex <= next_mutex' /\ next_event <= next_event'
  BY <1>1
<1>8. NumbersInOrder'
  <2> SUFFICES ASSUME NEW g \in Handle, Live(g)'
               PROVE  /\ g < next_handle'
                      /\ handles'[g].kind \in Kind
                      /\ handles'[g].kind = "mutex"
                           => handles'[g].low \in 1 .. next_mutex' - 1
                      /\ handles'[g].kind = "event"
                           => handles'[g].low \in 1 .. next_event' - 1
    BY DEF NumbersInOrder
  <2>1. CASE g = next_handle /\ handles'[g] = new
    BY <1>1, <1>4, <1>5, <2>1 DEF Handle
  <2>2. CASE Live(g) /\ handles'[g] = handles[g] /\ g < next_handle
    <3>1. /\ handles[g].kind \in Kind
          /\ handles[g].kind = "mutex" => handles[g].low \in 1 .. next_mutex - 1
          /\ handles[g].kind = "event" => handles[g].low \in 1 .. next_event - 1
      BY <2>2 DEF SyncInv, NumbersInOrder
    <3>2. g < next_handle'
      BY <1>1, <1>4, <2>2 DEF Handle
    <3>3. next_mutex' \in Nat /\ next_event' \in Nat
      BY <1>1
    <3>4. QED
      BY <1>1, <1>7, <2>2, <3>1, <3>2, <3>3
  <2>3. QED
    BY <1>6, <2>1, <2>2
<1>9. ASSUME NEW g \in Handle, Live(g)', g # next_handle
      PROVE  /\ handles[g] # new
             /\ handles[g].kind = "mutex"
                  => owners'[handles[g].low] = owners[handles[g].low]
             /\ handles[g].kind = "event"
                  => flags'[handles[g].low] = flags[handles[g].low]
  <2>1. Live(g) /\ handles[g] \in Tag
    BY <1>6, <1>9
  <2>2. /\ handles[g].kind = "mutex" => handles[g].low \in 1 .. next_mutex - 1
        /\ handles[g].kind = "event" => handles[g].low \in 1 .. next_event - 1
    BY <2>1 DEF SyncInv, NumbersInOrder
  <2>3. handles[g].low \in ObjectId
    BY <2>1 DEF Tag
  <2>4. handles[g].kind = kind => handles[g].low # id
    BY <1>1, <2>2
  <2>5. handles[g] # new
    BY <1>5, <2>4
  <2>6. /\ handles[g].kind = "mutex" => handles[g].low # next_mutex
        /\ handles[g].kind = "event" => handles[g].low # next_event
    BY <1>1, <2>2
  <2>7. QED
    BY <1>1, <2>3, <2>5, <2>6
<1>10. HandlesNameObjects'
  <2> SUFFICES ASSUME NEW h \in Handle, Live(h)'
               PROVE  /\ handles'[h].kind = "mutex"
                           => owners'[handles'[h].low] # Absent
                      /\ handles'[h].kind = "event"
                           => flags'[handles'[h].low] # Absent
                      /\ \A g \in Handle :
                           Live(g)' /\ handles'[g] = handles'[h] => g = h
    BY DEF HandlesNameObjects
  <2>1. \A g \in Handle : Live(g)' /\ handles'[g] = handles'[h] => g = h
    BY <1>6, <1>9 DEF SyncInv, HandlesNameObjects
  <2>2. CASE h = next_handle /\ handles'[h] = new
    <3>1. kind = "mutex" => owners'[id] = 0
      BY <1>1 DEF ObjectId
    <3>2. QED
      BY <1>5, <2>1, <2>2, <3>1
  <2>3. CASE h # next_handle /\ Live(h) /\ handles'[h] = handles[h]
    <3>1. /\ handles[h].kind = "mutex" => owners[handles[h].low] # Absent
          /\ handles[h].kind = "event" => flags[handles[h].low] # Absent
      BY <2>3 DEF SyncInv, HandlesNameObjects
    <3>2. QED
      BY <1>9, <2>1, <2>3, <3>1
  <2>4. QED
    BY <1>6, <2>2, <2>3
<1>11. InsideOwns'
  <2> SUFFICES ASSUME NEW p \in inside
               PROVE  /\ p[2] < next_handle'
                      /\ Live(p[2])' => /\ handles'[p[2]].kind = "mutex"
                                        /\ owners'[handles'[p[2]].low] = p[1]
    BY DEF InsideOwns
  <2>1. p[2] \in Handle /\ p[2] < next_handle
    BY <1>1 DEF SyncInv, InsideOwns
  <2>2. p[2] < next_handle' /\ p[2] # next_handle
    BY <1>1, <1>4, <2>1 DEF Handle
  <2>3. ASSUME Live(p[2])'
        PROVE  /\ handles'[p[2]].kind = "mutex"
               /\ owners'[handles'[p[2]].low] = p[1]
    <3>1. handles'[p[2]] = handles[p[2]] /\ Live(p[2])
      BY <1>6, <2>1, <2>2, <2>3
    <3>2. handles[p[2]].kind = "mutex" /\ owners[handles[p[2]].low] = p[1]
      BY <3>1 DEF SyncInv, InsideOwns
    <3>3. QED
      BY <1>9, <2>1, <2>2, <2>3, <3>1, <3>2
  <2>4. QED
    BY <2>2, <2>3
<1>12. QED
  BY <1>8, <1>10, <1>11 DEF SyncInv

(* Locking and unlocking only pass the mutex between 0 and its user.       *)
LEMMA LockSync ==
  ASSUME Scheduled, TypeOK, SyncInv, NEW t \in Thread, NEW h \in Given("mutex"),
         svcLockMutex(t, h) \/ svcUnlockMutex(t, h)
  PROVE  SyncInv'
<1>1. /\ handles \in [Handle -> Tag \cup {Absent}] /\ h \in Handle
      /\ owners \in [ObjectId -> Thread \cup {0, Absent}]
      /\ inside \subseteq Thread \X Handle
      /\ t # 0 /\ t # Absent
      /\ h < next_handle /\ (Live(h) => handles[h].kind = "mutex")
  BY DEF TypeOK, Given, Scheduled
<1> DEFINE m == handles[h].low
<1>2. \/ UNCHANGED vars
      \/ /\ UNCHANGED <<owners, inside>>
         /\ UNCHANGED <<handles, next_handle, next_mutex, eventVars>>
      \/ /\ Live(h) /\ Locks(m, t)
         /\ owners' = [owners EXCEPT ![m] = t]
         /\ inside' = inside \cup {<<t, h>>}
         /\ UNCHANGED <<handles, next_handle, next_mutex, eventVars>>
      \/ /\ Live(h) /\ owners[m] = t
         /\ owners' = [owners EXCEPT ![m] = 0]
         /\ inside' = inside \ {<<t, h>>}
         /\ UNCHANGED <<handles, next_handle, next_mutex, eventVars>>
  BY Zenon DEF svcLockMutex, svcUnlockMutex, Invalid
<1>3. CASE UNCHANGED vars
  BY <1>3, SameSync DEF vars, tables
<1>4. CASE /\ UNCHANGED <<owners, inside>>
           /\ UNCHANGED <<handles, next_handle, next_mutex, eventVars>>
  BY <1>4, SameSync DEF eventVars
<1>5. CASE /\ Live(h)
           /\ \/ /\ Locks(m, t) /\ owners' = [owners EXCEPT ![m] = t]
                 /\ inside' = inside \cup {<<t, h>>}
              \/ /\ owners[m] = t /\ owners' = [owners EXCEPT ![m] = 0]
                 /\ inside' = inside \ {<<t, h>>}
           /\ UNCHANGED <<handles, next_handle, next_mutex, eventVars>>
  <2>1. handles[h] \in Tag /\ handles[h].kind = "mutex"
    BY <1>1, <1>5 DEF Live
  <2>2. m \in ObjectId
    BY <2>1 DEF Tag
  <2>3. owners'[m] # Absent /\ owners[m] \in {0, t}
    BY <1>1, <1>5, <2>2 DEF Locks
  <2>4. \A i \in ObjectId : i # m => owners'[i] = owners[i]
    BY <1>1, <1>5
  <2>5. \A g \in Handle : Live(g)' <=> Live(g)
    BY <1>5 DEF Live
  <2>6. ASSUME NEW g \in Handle, Live(g)
        PROVE  handles[g].low \in ObjectId
    <3>1. handles[g] \in Tag
      BY <1>1, <2>6 DEF Live
    <3>2. QED
      BY <3>1 DEF Tag
  <2>7. NumbersInOrder'
    BY <1>5, <2>5 DEF SyncInv, NumbersInOrder, eventVars
  <2>8. HandlesNameObjects'
    <3> SUFFICES ASSUME NEW g \in Handle, Live(g)
                 PROVE  /\ handles[g].kind = "mutex" => owners'[handles[g].low] # Absent
                        /\ handles[g].kind = "event" => flags[handles[g].low] # Absent
                        /\ \A k \in Handle : Live(k) /\ handles[k] = handles[g] => k = g
      BY <1>5, <2>5 DEF HandlesNameObjects, eventVars
    <3>1. /\ handles[g].kind = "mutex" => owners[handles[g].low] # Absent
          /\ handles[g].kind = "event" => flags[handles[g].low] # Absent
          /\ \A k \in Handle : Live(k) /\ handles[k] = handles[g] => k = g
      BY DEF SyncInv, HandlesNameObjects
    <3>2. QED
      BY <2>3, <2>4, <2>6, <3>1
  <2>9. InsideOwns'
    <3> SUFFICES ASSUME NEW p \in inside'
                 PROVE  /\ p[2] < next_handle
                        /\ Live(p[2]) => /\ handles[p[2]].kind = "mutex"
                                         /\ owners'[handles[p[2]].low] = p[1]
      <4>1. \A p \in inside' : Live(p[2])' <=> Live(p[2])
        BY <1>5 DEF Live
      <4>2. QED
        BY <1>5, <4>1 DEF InsideOwns
    <3>1. CASE p = <<t, h>>
      <4>1. inside' = inside \cup {<<t, h>>} /\ owners' = [owners EXCEPT ![m] = t]
        BY <1>5, <3>1
      <4>2. QED
        BY <1>1, <2>1, <2>2, <3>1, <4>1
    <3>2. CASE p # <<t, h>>
      <4>1. p \in inside
        BY <1>5, <3>2
      <4>2. p[1] \in Thread /\ p[2] \in Handle /\ p = <<p[1], p[2]>>
        BY <1>1, <4>1
      <4>3. /\ p[2] < next_handle
            /\ Live(p[2]) => /\ handles[p[2]].kind = "mutex"
                             /\ owners[handles[p[2]].low] = p[1]
        BY <4>1 DEF SyncInv, InsideOwns
      <4>4. ASSUME Live(p[2]) PROVE handles[p[2]].low # m
        <5>1. CASE p[2] = h
          <6>1. owners[m] = p[1]
            BY <4>3, <4>4, <5>1
          <6>2. p[1] = t
            BY <2>3, <4>2, <6>1 DEF Scheduled
          <6>3. QED
            BY <3>2, <4>2, <5>1, <6>2
        <5>2. CASE p[2] # h
          <6>1. handles[p[2]] # handles[h]
            BY <1>1, <1>5, <4>2, <4>4, <5>2 DEF SyncInv, HandlesNameObjects
          <6>2. handles[p[2]] \in Tag /\ handles[p[2]].kind = "mutex"
            BY <1>1, <4>2, <4>3, <4>4 DEF Live
          <6>3. QED
            BY <2>1, <6>1, <6>2 DEF Tag
        <5>3. QED
          BY <5>1, <5>2
      <4>5. QED
        BY <2>4, <2>6, <4>2, <4>3, <4>4
    <3>3. QED
      BY <3>1, <3>2
  <2>10. QED
    BY <2>7, <2>8, <2>9 DEF SyncInv
<1>6. QED
  BY <1>2, <1>3, <1>4, <1>5, Zenon

(* Signals, waits and clears keep the events that exist.                   *)
LEMMA FlagsSync ==
  ASSUME TypeOK, SyncInv, NEW h \in Handle,
         svcSignalEvent(h) \/ svcClearEvent(h) \/ svcWaitEvent(h)
  PROVE  SyncInv'
<1>1. \/ UNCHANGED vars
      \/ /\ UNCHANGED <<flags, released, told>>
         /\ UNCHANGED <<handles, next_handle, mutexVars, next_event, inside>>
      \/ /\ Live(h) /\ flags[handles[h].low] # Absent
         /\ \/ signal(handles[h].low) \/ clear(handles[h].low)
            \/ wait(handles[h].low)
         /\ UNCHANGED <<handles, next_handle, mutexVars, next_event, inside>>
  BY Zenon DEF svcSignalEvent, svcClearEvent, svcWaitEvent, OnEvent, NoEvent, Invalid
<1>2. CASE UNCHANGED vars
  BY <1>2, SameSync DEF vars, tables
<1>3. CASE /\ UNCHANGED <<flags, released, told>>
           /\ UNCHANGED <<handles, next_handle, mutexVars, next_event, inside>>
  BY <1>3, SameSync DEF mutexVars
<1>4. CASE /\ Live(h) /\ flags[handles[h].low] # Absent
           /\ \/ signal(handles[h].low) \/ clear(handles[h].low)
              \/ wait(handles[h].low)
           /\ UNCHANGED <<handles, next_handle, mutexVars, next_event, inside>>
  <2> DEFINE e == handles[h].low
  <2>1. handles[h] \in Tag /\ flags \in [ObjectId -> Event \cup {Absent}]
    BY <1>4 DEF TypeOK, Live
  <2>2. e \in ObjectId
    BY <2>1 DEF Tag
  <2>3. flags[e] \in Event
    BY <1>4, <2>1, <2>2
  <2>4. \A b \in BOOLEAN : [flags[e] EXCEPT !.signaled = b] \in Event
    BY <2>3 DEF Event
  <2>5. \/ flags' = [flags EXCEPT ![e].signaled = TRUE]
        \/ flags' = [flags EXCEPT ![e].signaled = FALSE]
        \/ flags' = flags
    BY <1>4, Zenon DEF signal, clear, wait
  <2>6. /\ flags'[e] # Absent
        /\ \A i \in ObjectId : i # e => flags'[i] = flags[i]
    BY <1>4, <2>1, <2>2, <2>4, <2>5
  <2>7. \A i \in ObjectId : flags[i] # Absent => flags'[i] # Absent
    BY <2>6
  <2>8. QED
    BY <1>4, <2>7, SameSync DEF mutexVars
<1>5. QED
  BY <1>1, <1>2, <1>3, <1>4, Zenon

LEMMA NextSync ==
  ASSUME NoAlias, Scheduled, TypeOK, SyncInv, [Next]_vars PROVE SyncInv'
<1>1. CASE svcCreateMutex
  <2>1. /\ MoreHandles /\ createHandle("mutex", next_mutex)
        /\ owners' = [owners EXCEPT ![next_mutex] = 0]
        /\ next_mutex' = next_mutex + 1
        /\ UNCHANGED <<inside, flags, next_event>>
    BY <1>1 DEF svcCreateMutex, eventVars
  <2>2. QED
    BY <2>1, CreateSync DEF Kind
<1>2. CASE svcCreateEvent
  <2>1. PICK manual \in BOOLEAN :
           flags' = [flags EXCEPT ![next_event] =
                       [signaled |-> FALSE, manual_reset |-> manual]]
    BY <1>2 DEF svcCreateEvent
  <2>2. [signaled |-> FALSE, manual_reset |-> manual] \in Event
    BY DEF Event
  <2>3. next_event \in ObjectId /\ flags \in [ObjectId -> Event \cup {Absent}]
    BY <1>2 DEF svcCreateEvent, MoreHandles, TypeOK, ObjectId
  <2>4. /\ flags'[next_event] # Absent
        /\ \A e \in ObjectId : e # next_event => flags'[e] = flags[e]
    BY <2>1, <2>2, <2>3
  <2>5. /\ MoreHandles /\ createHandle("event", next_event)
        /\ next_event' = next_event + 1
        /\ UNCHANGED <<inside, owners, next_mutex>>
    BY <1>2 DEF svcCreateEvent, mutexVars
  <2>6. QED
    BY <2>4, <2>5, CreateSync DEF Kind
<1>3. ASSUME NEW t \in Thread, NEW h \in Given("mutex"),
             svcLockMutex(t, h) \/ svcUnlockMutex(t, h)
      PROVE  SyncInv'
  BY <1>3, LockSync
<1>4. ASSUME NEW h \in Given("mutex"), svcCloseMutex(h) PROVE SyncInv'
  <2>1. CASE UNCHANGED <<handles, next_handle, owners, next_mutex,
                         flags, next_event, inside>>
    BY <2>1, SameSync
  <2>2. CASE /\ Live(h) /\ closeHandle(h)
             /\ owners' = [owners EXCEPT ![handles[h].low] = Absent]
             /\ UNCHANGED <<next_mutex, inside, eventVars>>
    BY <2>2, CloseSync DEF Given, eventVars
  <2>3. QED
    BY <1>4, <2>1, <2>2 DEF svcCloseMutex, Invalid, vars, tables, eventVars
<1>5. ASSUME NEW h \in Given("event"),
             svcSignalEvent(h) \/ svcClearEvent(h) \/ svcWaitEvent(h)
      PROVE  SyncInv'
  BY <1>5, FlagsSync DEF Given
<1>6. ASSUME NEW h \in Given("event"), svcCloseEvent(h) PROVE SyncInv'
  <2>1. CASE UNCHANGED vars
    BY <2>1, SameSync DEF vars, tables
  <2>2. CASE /\ Live(h) /\ closeHandle(h)
             /\ flags' = [flags EXCEPT ![handles[h].low] = Absent]
             /\ UNCHANGED <<mutexVars, next_event, inside>>
    BY <2>2, CloseSync DEF Given, mutexVars
  <2>3. QED
    BY <1>6, <2>1, <2>2 DEF svcCloseEvent, Invalid
<1>7. ASSUME NEW h \in Handle, svcCloseHandle(h) PROVE SyncInv'
  <2>1. CASE UNCHANGED vars
    BY <2>1, SameSync DEF vars, tables
  <2>2. CASE /\ Live(h) /\ closeHandle(h)
             /\ UNCHANGED <<mutexVars, inside, eventVars>>
    BY <2>2, CloseSync DEF mutexVars, eventVars
  <2>3. QED
    BY <1>7, <2>1, <2>2 DEF svcCloseHandle, Invalid
<1>8. CASE UNCHANGED vars
  BY <1>8, SameSync DEF vars, tables
<1>9. QED
  BY <1>1, <1>2, <1>3, <1>4, <1>5, <1>6, <1>7, <1>8
     DEF Next, MutexSvc, EventSvc, HandleSvc

LEMMA SyncInvariant ==
  ASSUME NoAlias, Scheduled PROVE Spec => [](TypeOK /\ SyncInv)
<1>1. Init => TypeOK /\ SyncInv
  BY InitType, InitSync
<1>2. TypeOK /\ SyncInv /\ [Next]_vars => (TypeOK /\ SyncInv)'
  BY NextType, NextSync
<1>3. QED
  BY <1>1, <1>2, PTL DEF Spec

(* No closing, leaking or re-creating ever leaves a handle that names      *)
(* nothing or two handles that name one object.                            *)
THEOREM HandlesAlwaysNameObjects ==
  ASSUME NoAlias, Scheduled PROVE Spec => []HandlesNameObjects
  BY SyncInvariant, PTL DEF SyncInv

LEMMA NextExcludes ==
  ASSUME Scheduled, TypeOK, SyncInv, MutualExclusion, [Next]_vars
  PROVE  MutualExclusion'
<1>1. ASSUME NEW t \in Thread, NEW h \in Given("mutex"), svcLockMutex(t, h)
      PROVE  MutualExclusion'
  <2>1. CASE inside' = inside
    BY <2>1 DEF MutualExclusion
  <2>2. CASE /\ Live(h) /\ Locks(handles[h].low, t)
             /\ inside' = inside \cup {<<t, h>>}
    <3>1. \A p \in inside : p[1] \in Thread
      BY DEF TypeOK
    <3>2. \A p \in inside : p[2] = h => p[1] = t
      <4> SUFFICES ASSUME NEW p \in inside, p[2] = h PROVE p[1] = t
        OBVIOUS
      <4>1. owners[handles[h].low] = p[1]
        BY <2>2 DEF SyncInv, InsideOwns
      <4>2. p[1] \in {0, t}
        BY <2>2, <4>1 DEF Locks
      <4>3. QED
        BY <3>1, <4>2 DEF Scheduled
    <3>3. QED
      BY <2>2, <3>2 DEF MutualExclusion
  <2>3. QED
    BY <1>1, <2>1, <2>2, Zenon DEF svcLockMutex, Invalid, vars
<1>2. ASSUME NEW t \in Thread, NEW h \in Given("mutex"), svcUnlockMutex(t, h)
      PROVE  MutualExclusion'
  <2>1. inside' \subseteq inside
    <3>1. inside' = inside \/ inside' = inside \ {<<t, h>>}
      BY <1>2, Zenon DEF svcUnlockMutex, Invalid, vars
    <3>2. QED
      BY <3>1
  <2>2. QED
    BY <2>1 DEF MutualExclusion
<1>3. ASSUME inside' = inside PROVE MutualExclusion'
  BY <1>3 DEF MutualExclusion
<1>4. \/ inside' = inside
      \/ \E t \in Thread, h \in Given("mutex") :
           svcLockMutex(t, h) \/ svcUnlockMutex(t, h)
  BY Zenon DEF Next, MutexSvc, EventSvc, HandleSvc, svcCreateMutex,
     svcCloseMutex, svcCreateEvent, svcSignalEvent, svcClearEvent,
     svcWaitEvent, OnEvent, NoEvent, svcCloseEvent, svcCloseHandle, Invalid, vars
<1>5. QED
  BY <1>1, <1>2, <1>3, <1>4

(* Two scheduled threads never hold the same mutex, however their SVCs     *)
(* interleave and whatever is closed or leaked meanwhile.                  *)
THEOREM ThreadsExclude ==
  ASSUME NoAlias, Scheduled PROVE Spec => []MutualExclusion
<1>1. Init => MutualExclusion
  BY DEF Init, MutualExclusion
<1>2. TypeOK /\ SyncInv /\ MutualExclusion /\ [Next]_vars => MutualExclusion'
  BY NextExcludes
<1>3. QED
  BY SyncInvariant, <1>1, <1>2, PTL DEF Spec

(* A stale handle stays stale for ever, whatever is created after it.      *)
THEOREM HandlesNeverReused ==
  ASSUME NoAlias PROVE Spec => NoHandleReuse
<1>1. TypeOK /\ [Next]_vars =>
        [\A h \in Handle :
           h < next_handle /\ ~Live(h) => handles'[h] = Absent]_vars
  <2> SUFFICES ASSUME TypeOK, Next, NEW h \in Handle, h < next_handle, ~Live(h)
               PROVE  handles'[h] = Absent
    OBVIOUS
  <2>1. handles \in [Handle -> Tag \cup {Absent}] /\ handles[h] = Absent
    BY DEF TypeOK, Live
  <2>2. \/ handles' = handles
        \/ \E kind \in Kind, id \in {next_mutex, next_event} : createHandle(kind, id)
        \/ \E g \in Handle : closeHandle(g)
    <3>1. CASE svcCreateMutex \/ svcCreateEvent
      BY <3>1 DEF svcCreateMutex, svcCreateEvent, Kind
    <3>2. CASE \E g \in Handle :
                 svcCloseMutex(g) \/ svcCloseEvent(g) \/ svcCloseHandle(g)
      BY <3>2, Zenon DEF svcCloseMutex, svcCloseEvent, svcCloseHandle, Invalid,
                         vars, tables
    <3>3. CASE \E t \in Thread, g \in Handle :
                 svcLockMutex(t, g) \/ svcUnlockMutex(t, g)
      BY <3>3, Zenon DEF svcLockMutex, svcUnlockMutex, Invalid, vars, tables
    <3>4. CASE \E g \in Handle :
                 svcSignalEvent(g) \/ svcClearEvent(g) \/ svcWaitEvent(g)
      BY <3>4, Zenon DEF svcSignalEvent, svcClearEvent, svcWaitEvent, OnEvent, NoEvent,
                         Invalid, vars, tables
    <3>5. QED
      BY <3>1, <3>2, <3>3, <3>4
         DEF Next, MutexSvc, EventSvc, HandleSvc, Given
  <2>3. next_handle # h
    BY DEF TypeOK, Handle
  <2>4. QED
    BY <2>1, <2>2, <2>3 DEF createHandle, closeHandle
<1>2. QED
  BY SyncTypeCorrect, <1>1, PTL DEF Spec, NoHandleReuse

-----------------------------------------------------------------------------
(* One release per signal.  An event that is signaled has released no wait *)
(* since, and an id that is not given out yet has its initial count.       *)

ReleaseInv ==
  \A e \in ObjectId :
    /\ flags[e] # Absent /\ ~flags[e].manual_reset =>
         released[e] <= 1 /\ (flags[e].signaled => released[e] = 0)
    /\ e >= next_event => flags[e] = Absent /\ released[e] <= 1

LEMMA InitRelease == Init => ReleaseInv
  BY DEF Init, ReleaseInv, ObjectId

(* A step that changes at most one event keeps the others as they are.     *)
LEMMA OneEventRelease ==
  ASSUME TypeOK, ReleaseInv, NEW e \in ObjectId, e < next_event',
         next_event' \in {next_event, next_event + 1},
         \A i \in ObjectId : i # e => flags'[i] = flags[i] /\ released'[i] = released[i],
         flags'[e] # Absent /\ ~flags'[e].manual_reset =>
           released'[e] <= 1 /\ (flags'[e].signaled => released'[e] = 0)
  PROVE  ReleaseInv'
<1>1. next_event \in Nat /\ ObjectId \subseteq Nat
  BY DEF TypeOK, ObjectId
<1>2. ASSUME NEW i \in ObjectId, i # e
      PROVE  /\ flags'[i] # Absent /\ ~flags'[i].manual_reset =>
                  released'[i] <= 1 /\ (flags'[i].signaled => released'[i] = 0)
             /\ i >= next_event' => flags'[i] = Absent /\ released'[i] <= 1
  <2>1. flags'[i] = flags[i] /\ released'[i] = released[i]
    BY <1>2
  <2>2. i >= next_event' => i >= next_event
    BY <1>1
  <2>3. QED
    BY <2>1, <2>2 DEF ReleaseInv
<1>3. ~(e >= next_event')
  BY <1>1
<1>4. QED
  BY <1>2, <1>3 DEF ReleaseInv

LEMMA NextRelease ==
  ASSUME TypeOK, ReleaseInv, [Next]_vars PROVE ReleaseInv'
<1>a. /\ flags \in [ObjectId -> Event \cup {Absent}]
      /\ released \in [ObjectId -> 0 .. 2]
      /\ next_event \in Nat /\ ObjectId \subseteq Nat
  BY DEF TypeOK, ObjectId
<1>1. ASSUME UNCHANGED <<flags, released, next_event>> PROVE ReleaseInv'
  BY <1>1 DEF ReleaseInv
<1>2. CASE svcCreateEvent
  <2>1. PICK manual \in BOOLEAN :
           flags' = [flags EXCEPT ![next_event] =
                       [signaled |-> FALSE, manual_reset |-> manual]]
    BY <1>2 DEF svcCreateEvent
  <2>2. /\ next_event \in ObjectId /\ next_event' = next_event + 1
        /\ released' = released
    BY <1>2 DEF svcCreateEvent, MoreHandles, TypeOK, ObjectId
  <2>3. released[next_event] <= 1
    BY <1>a, <2>2 DEF ReleaseInv
  <2>4. /\ flags'[next_event] = [signaled |-> FALSE, manual_reset |-> manual]
        /\ \A i \in ObjectId : i # next_event => flags'[i] = flags[i]
    BY <1>a, <2>1, <2>2
  <2>5. QED
    BY <1>a, <2>2, <2>3, <2>4, OneEventRelease
<1>3. ASSUME NEW e \in ObjectId, flags[e] # Absent, next_event' = next_event,
             signal(e) \/ clear(e) \/ wait(e)
      PROVE  ReleaseInv'
  <2>3. ~(e >= next_event)
    BY <1>3 DEF ReleaseInv
  <2>4. flags[e] \in Event /\ e < next_event
    BY <1>a, <1>3, <2>3 DEF ObjectId
  <2>5. ~flags[e].manual_reset =>
          released[e] <= 1 /\ (flags[e].signaled => released[e] = 0)
    BY <1>3 DEF ReleaseInv
  <2>6. ASSUME NEW b \in BOOLEAN, flags' = [flags EXCEPT ![e].signaled = b]
        PROVE  /\ flags'[e].manual_reset = flags[e].manual_reset
               /\ flags'[e].signaled = b
               /\ \A i \in ObjectId : i # e => flags'[i] = flags[i]
    BY <1>a, <2>4, <2>6 DEF Event
  <2>7. CASE signal(e)
    <3>1. /\ flags' = [flags EXCEPT ![e].signaled = TRUE]
          /\ released' = [released EXCEPT ![e] = 0]
      BY <2>7 DEF signal
    <3>2. released'[e] = 0 /\ \A i \in ObjectId : i # e => released'[i] = released[i]
      BY <1>a, <3>1
    <3>3. QED
      BY <1>3, <2>4, <2>6, <3>1, <3>2, OneEventRelease
  <2>8. CASE clear(e)
    <3>1. flags' = [flags EXCEPT ![e].signaled = FALSE] /\ released' = released
      BY <2>8 DEF clear
    <3>2. QED
      BY <1>3, <2>4, <2>5, <2>6, <3>1, OneEventRelease
  <2>9. CASE wait(e)
    <3>1. CASE ~flags[e].signaled
      BY <1>1, <1>3, <2>9, <3>1 DEF wait
    <3>2. CASE flags[e].signaled
      <4>1. /\ flags' = IF Consumes(e) THEN [flags EXCEPT ![e].signaled = FALSE] ELSE flags
            /\ released' = OneMore(released, e)
        BY <2>9, <3>2 DEF wait
      <4>2. \A i \in ObjectId : i # e => released'[i] = released[i]
        BY <1>a, <4>1 DEF OneMore
      <4>3. ~flags[e].manual_reset => released'[e] = 1
        BY <1>a, <2>5, <3>2, <4>1 DEF OneMore
      <4>4. CASE flags[e].manual_reset
        <5>1. flags' = flags
          BY <4>1, <4>4 DEF Consumes
        <5>2. QED
          BY <1>3, <2>4, <4>2, <4>4, <5>1, OneEventRelease
      <4>5. CASE ~flags[e].manual_reset
        <5>1. flags' = [flags EXCEPT ![e].signaled = FALSE]
          BY <4>1, <4>5 DEF Consumes
        <5>2. /\ released'[e] <= 1 /\ (flags'[e].signaled => released'[e] = 0)
              /\ \A i \in ObjectId : i # e => flags'[i] = flags[i]
          <6>1. /\ flags'[e].signaled = FALSE
                /\ \A i \in ObjectId : i # e => flags'[i] = flags[i]
            BY <2>6, <5>1, Zenon
          <6>2. released'[e] <= 1
            BY <4>3, <4>5
          <6>3. QED
            BY <6>1, <6>2
        <5>3. e < next_event' /\ next_event' \in {next_event, next_event + 1}
          BY <1>3, <2>4
        <5>4. QED
          BY <4>2, <5>2, <5>3, OneEventRelease, Zenon
      <4>6. QED
        BY <4>4, <4>5
    <3>3. QED
      BY <3>1, <3>2
  <2>10. QED
    BY <1>3, <2>7, <2>8, <2>9
<1>4. ASSUME NEW h \in Handle, Live(h), UNCHANGED <<next_event, released>>,
             flags' = [flags EXCEPT ![handles[h].low] = Absent]
      PROVE  ReleaseInv'
  BY <1>a, <1>4 DEF ReleaseInv
<1>5. \/ UNCHANGED <<flags, released, next_event>>
      \/ svcCreateEvent
      \/ \E h \in Handle :
           \/ OnEvent(h) /\ \/ signal(handles[h].low) \/ clear(handles[h].low)
                            \/ wait(handles[h].low)
           \/ /\ Live(h) /\ UNCHANGED <<next_event, released>>
              /\ flags' = [flags EXCEPT ![handles[h].low] = Absent]
  <2>1. CASE \E h \in Handle :
               svcSignalEvent(h) \/ svcClearEvent(h) \/ svcWaitEvent(h)
    BY <2>1, Zenon DEF svcSignalEvent, svcClearEvent, svcWaitEvent, NoEvent, Invalid,
       vars, tables
  <2>2. CASE \E h \in Handle : svcCloseEvent(h)
    BY <2>2, Zenon DEF svcCloseEvent, Invalid, vars, tables
  <2>3. CASE MutexSvc \/ HandleSvc \/ UNCHANGED vars
    BY <2>3, Zenon DEF MutexSvc, HandleSvc, svcCreateMutex, svcLockMutex, svcUnlockMutex,
       svcCloseMutex, svcCloseHandle, Invalid, eventVars, vars, tables
  <2>4. QED
    BY <2>1, <2>2, <2>3 DEF Next, EventSvc, Given
<1>6. ASSUME NEW h \in Handle, OnEvent(h)
      PROVE  /\ handles[h].low \in ObjectId /\ flags[handles[h].low] # Absent
             /\ next_event' = next_event
  <2>1. handles[h] \in Tag
    BY <1>6 DEF OnEvent, TypeOK, Live
  <2>2. QED
    BY <1>6, <2>1 DEF OnEvent, Tag
<1>7. QED
  BY <1>1, <1>2, <1>3, <1>4, <1>5, <1>6

(* However many threads wait on an auto-reset event, and whenever it is    *)
(* cleared or closed, a signal releases one of them at most.               *)
THEOREM SignalsReleaseOne ==
  ASSUME NoAlias PROVE Spec => []OneReleasePerSignal
<1>1. ReleaseInv => OneReleasePerSignal
  BY DEF ReleaseInv, OneReleasePerSignal
<1>2. TypeOK /\ ReleaseInv /\ [Next]_vars => ReleaseInv'
  BY NextRelease
<1>3. QED
  BY SyncTypeCorrect, InitRelease, <1>1, <1>2, PTL DEF Spec

=============================================================================
