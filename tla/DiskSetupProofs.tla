-------------------------- MODULE DiskSetupProofs --------------------------
(***************************************************************************)
(* Kept partitions stay as they are, for any legal layout, any machine     *)
(* that has the kept partitions, whatever is open there, and any number of *)
(* attempts.                                                               *)
(*                                                                         *)
(* A command writes to the device of an item under the number it has, or   *)
(* into the container that is open under the item's name.  So two things   *)
(* have to hold: no number of a kept partition is given to another item    *)
(* (PlacedOk), and every container that is written into was opened on an   *)
(* item by the line itself, with no new numbers since, because what is     *)
(* open from before may lie on any partition (Safe).  The first part       *)
(* proves that of the line of commands that a layout gives; the second     *)
(* that it stays so while the line runs (IInv).                            *)
(***************************************************************************)
EXTENDS DiskSetup, FiniteSetTheorems, FunctionTheorems, WellFoundedInduction, TLAPS

\* A set of numbers has a least one.
LEMMA LeastNumber ==
  ASSUME NEW S \in SUBSET Nat, S # {}
  PROVE  \E m \in S : \A k \in S : m <= k
<1>1. PICK m \in S : \A k \in S : ~(<<k, m>> \in OpToRel(<, Nat))
  BY NatLessThanWellFounded, WFMin, Zenon
<1>2. \A k \in S : ~(k < m)
  BY <1>1, Zenon DEF OpToRel
<1> QED BY <1>2

\* A strict order numbers the elements of a finite set.
LEMMA Ranks ==
  ASSUME NEW S, IsFiniteSet(S), NEW R,
         \A x \in S : <<x, x>> \notin R,
         \A x, y, z \in S : <<x, y>> \in R /\ <<y, z>> \in R => <<x, z>> \in R,
         \A x, y \in S : x # y => <<x, y>> \in R \/ <<y, x>> \in R
  PROVE  /\ Cardinality(S) \in Nat
         /\ \A i \in 1 .. Cardinality(S) :
              \E x \in S : Cardinality({y \in S : <<y, x>> \in R}) = i - 1
<1> DEFINE c        == Cardinality(S)
           Below(x) == {y \in S : <<y, x>> \in R}
           f        == [x \in S |-> Cardinality(Below(x))]
<1>1. c \in Nat
  BY FS_CardinalityType, Zenon
<1>2. ASSUME NEW x \in S
      PROVE  /\ IsFiniteSet(Below(x)) /\ Cardinality(Below(x)) \in Nat
             /\ Cardinality(Below(x)) < c
  <2>1. Below(x) \in SUBSET S /\ x \notin Below(x)
    OBVIOUS
  <2>2. /\ IsFiniteSet(Below(x)) /\ Cardinality(Below(x)) <= c
        /\ Cardinality(S) = Cardinality(Below(x)) => S = Below(x)
    BY <2>1, FS_Subset, Zenon
  <2>3. Cardinality(Below(x)) \in Nat
    BY <2>2, FS_CardinalityType, Zenon
  <2>4. Cardinality(Below(x)) # c
    BY <2>1, <2>2, Zenon
  <2> HIDE DEF Below, c
  <2> QED BY <1>1, <2>2, <2>3, <2>4
<1>3. ASSUME NEW x \in S, NEW y \in S, <<x, y>> \in R
      PROVE  Cardinality(Below(x)) # Cardinality(Below(y))
  <2>1. Below(x) \in SUBSET Below(y) /\ x \in Below(y) /\ x \notin Below(x)
    BY <1>3
  <2>2. Cardinality(Below(y)) = Cardinality(Below(x)) => Below(y) = Below(x)
    BY <1>2, <2>1, FS_Subset, Zenon
  <2> QED BY <2>1, <2>2, Zenon
<1>4. \A m \in 0 .. c - 1 : \E x \in S : Cardinality(Below(x)) = m
  <2>1. f \in [S -> 0 .. c - 1]
    <3> HIDE DEF Below, c
    <3> QED BY <1>1, <1>2
  <2>2. \A x, y \in S : f[x] = f[y] => x = y
    <3> HIDE DEF Below
    <3> QED BY <1>3
  <2>3. f \in Injection(S, 0 .. c - 1)
    <3> HIDE DEF f
    <3> QED BY <2>1, <2>2, Fun_IsInj, Zenon
  <2>4. IsFiniteSet(0 .. c - 1) /\ Cardinality(0 .. c - 1) = c
    <3>1. 0 \in Int /\ c - 1 \in Int
      BY <1>1
    <3>2. /\ IsFiniteSet(0 .. c - 1)
          /\ Cardinality(0 .. c - 1) = IF 0 > c - 1 THEN 0 ELSE (c - 1) - 0 + 1
      BY <3>1, FS_Interval, Zenon
    <3> HIDE DEF c
    <3> QED BY <3>2, <1>1
  <2>5. f \in Surjection(S, 0 .. c - 1)
    <3> HIDE DEF f
    <3> QED BY <2>3, <2>4, FS_Injection, Zenon
  <2>6. \A m \in 0 .. c - 1 : \E x \in S : f[x] = m
    <3> DEFINE T == 0 .. c - 1
    <3>1. f \in Surjection(S, T)
      BY <2>5
    <3> HIDE DEF f, T
    <3>2. \A m \in T : \E x \in S : f[x] = m
      BY <3>1, Fun_SurjectionProperties, Zenon
    <3> QED BY <3>2 DEF T
  <2> HIDE DEF Below
  <2> QED BY <2>6
<1>5. \A i \in 1 .. c : i - 1 \in 0 .. c - 1
  <2> HIDE DEF c
  <2> QED BY <1>1
<1> QED BY <1>1, <1>4, <1>5, Zenon

\* The order of the mount points is a strict total one.
LEMMA BeforeIsStrict ==
  ASSUME NEW a \in Directory, NEW b \in Directory, NEW c \in Directory
  PROVE  /\ ~Before(a, a)
         /\ Before(a, b) /\ Before(b, c) => Before(a, c)
         /\ a # b => Before(a, b) \/ Before(b, a)
<1> USE DEF Directory
<1>0. /\ DOMAIN a = 1 .. Len(a) /\ DOMAIN b = 1 .. Len(b) /\ DOMAIN c = 1 .. Len(c)
      /\ Len(a) \in Nat /\ Len(b) \in Nat /\ Len(c) \in Nat
      /\ \A i \in DOMAIN a : a[i] \in Nat
      /\ \A i \in DOMAIN b : b[i] \in Nat
      /\ \A i \in DOMAIN c : c[i] \in Nat
  OBVIOUS
<1>1. ~Before(a, a)
  BY <1>0 DEF Before
<1>2. ASSUME Before(a, b), Before(b, c)
      PROVE  Before(a, c)
  <2>1. PICK i \in DOMAIN b : /\ \A j \in 1 .. i - 1 : j \in DOMAIN a /\ a[j] = b[j]
                              /\ i \in DOMAIN a => a[i] < b[i]
    BY <1>2, Zenon DEF Before
  <2>2. PICK k \in DOMAIN c : /\ \A j \in 1 .. k - 1 : j \in DOMAIN b /\ b[j] = c[j]
                              /\ k \in DOMAIN b => b[k] < c[k]
    BY <1>2, Zenon DEF Before
  <2>3. CASE i < k
    <3>0. i \in 1 .. k - 1 /\ i \in DOMAIN c
      BY <1>0, <2>1, <2>2, <2>3
    <3>1. i \in DOMAIN c /\ b[i] = c[i]
      BY <2>2, <3>0, Zenon
    <3>2. \A j \in 1 .. i - 1 : j \in DOMAIN a /\ a[j] = c[j]
      BY <1>0, <2>1, <2>2, <2>3
    <3>3. i \in DOMAIN a => a[i] < c[i]
      BY <2>1, <3>1
    <3>4. i \in DOMAIN c
      BY <3>1
    <3> QED BY <3>2, <3>3, <3>4, Zenon DEF Before
  <2>4. CASE k <= i
    <3>0. k \in Nat /\ i \in Nat /\ k \in DOMAIN b /\ b[k] < c[k]
      BY <1>0, <2>1, <2>2, <2>4
    <3>1. \A j \in 1 .. k - 1 : j \in DOMAIN a /\ a[j] = c[j]
      <4> TAKE j \in 1 .. k - 1
      <4>1. j \in 1 .. i - 1
        BY <2>4, <3>0
      <4> QED BY <2>1, <2>2, <4>1, Zenon
    <3>2. k \in DOMAIN a => a[k] < c[k]
      <4>1. CASE k = i
        <5>1. k \in DOMAIN a => a[k] < b[k]
          BY <2>1, <4>1, Zenon
        <5> QED BY <1>0, <3>0, <5>1
      <4>2. CASE k # i
        <5>1. k \in 1 .. i - 1
          BY <1>0, <2>2, <2>4, <3>0, <4>2
        <5>2. a[k] = b[k]
          BY <2>1, <5>1, Zenon
        <5> QED BY <3>0, <5>2
      <4> QED BY <4>1, <4>2
    <3> QED BY <3>1, <3>2 DEF Before
  <2> QED BY <1>0, <2>3, <2>4
<1>3. ASSUME a # b
      PROVE  Before(a, b) \/ Before(b, a)
  <2> DEFINE D == {i \in Nat : \/ i \in DOMAIN a /\ i \notin DOMAIN b
                               \/ i \in DOMAIN b /\ i \notin DOMAIN a
                               \/ i \in DOMAIN a /\ i \in DOMAIN b /\ a[i] # b[i]}
  <2>1. D # {}
    <3> SUFFICES ASSUME D = {} PROVE FALSE
      OBVIOUS
    <3>1. \A i \in Nat : i \notin D
      BY Zenon
    <3>2. DOMAIN a \subseteq Nat /\ DOMAIN b \subseteq Nat
      BY <1>0
    <3>3. \A i \in DOMAIN a : i \in DOMAIN b /\ a[i] = b[i]
      BY <3>1, <3>2, Zenon
    <3>4. \A i \in DOMAIN b : i \in DOMAIN a
      BY <3>1, <3>2, Zenon
    <3>5. DOMAIN a = DOMAIN b /\ \A i \in DOMAIN a : a[i] = b[i]
      BY <3>3, <3>4
    <3> QED BY <1>3, <3>5
  <2>2. PICK i \in D : \A k \in D : i <= k
    <3> HIDE DEF D
    <3>1. D \in SUBSET Nat
      BY DEF D
    <3> QED BY <2>1, <3>1, LeastNumber, Zenon
  <2>3. \A j \in 1 .. i - 1 : j \in Nat /\ j \notin D
    <3>1. i \in Nat
      OBVIOUS
    <3> HIDE DEF D
    <3>2. \A j \in 1 .. i - 1 : j \in Nat /\ ~(i <= j)
      BY <3>1
    <3> QED BY <2>2, <3>2, Zenon
  <2>4. \A j \in 1 .. i - 1 : j \in DOMAIN a /\ j \in DOMAIN b /\ a[j] = b[j]
    BY <1>0, <2>2, <2>3
  <2>5. CASE i \in DOMAIN b /\ (i \in DOMAIN a => a[i] < b[i])
    BY <2>4, <2>5, Zenon DEF Before
  <2>6. CASE i \in DOMAIN a /\ (i \in DOMAIN b => b[i] < a[i])
    BY <2>4, <2>6, Zenon DEF Before
  <2> QED BY <1>0, <2>2, <2>5, <2>6
<1> QED BY <1>1, <1>2, <1>3

\* The recursive function of FlattenSeq.
LEMMA FlattenExists ==
  ASSUME NEW n \in Nat, NEW s
  PROVE  \E f : f = [i \in 1 .. n |-> IF i = 1 THEN s[i] ELSE f[i - 1] \o s[i]]
<1> DEFINE Good(k) == \E f : f = [i \in 1 .. k |-> IF i = 1 THEN s[i] ELSE f[i - 1] \o s[i]]
           Bad == {k \in Nat : ~Good(k)}
<1>1. Good(0)
  <2>1. 1 .. 0 = {}
    OBVIOUS
  <2> DEFINE f == [i \in {} |-> i]
  <2>2. f = [i \in 1 .. 0 |-> IF i = 1 THEN s[i] ELSE f[i - 1] \o s[i]]
    BY <2>1
  <2> QED BY <2>2
<1>2. ASSUME NEW k \in Nat, Good(k)
      PROVE  Good(k + 1)
  <2>1. PICK f : f = [i \in 1 .. k |-> IF i = 1 THEN s[i] ELSE f[i - 1] \o s[i]]
    BY <1>2
  <2> DEFINE g == [i \in 1 .. k + 1 |-> IF i = 1 THEN s[i] ELSE f[i - 1] \o s[i]]
  <2>2. \A i \in 1 .. k : g[i] = f[i]
    <3>1. \A i \in 1 .. k : f[i] = IF i = 1 THEN s[i] ELSE f[i - 1] \o s[i]
      <4> HIDE DEF g
      <4> QED BY <2>1
    <3>2. \A i \in 1 .. k : i \in 1 .. k + 1
      OBVIOUS
    <3>3. \A i \in 1 .. k + 1 : g[i] = IF i = 1 THEN s[i] ELSE f[i - 1] \o s[i]
      BY Zenon
    <3> HIDE DEF g
    <3> QED BY <3>1, <3>2, <3>3, Zenon
  <2>3. \A i \in 1 .. k + 1 : i # 1 => i - 1 \in 1 .. k
    OBVIOUS
  <2>4. \A i \in 1 .. k + 1 : i # 1 => g[i - 1] = f[i - 1]
    BY <2>2, <2>3, Zenon
  <2>5. g = [i \in 1 .. k + 1 |-> IF i = 1 THEN s[i] ELSE g[i - 1] \o s[i]]
    BY <2>4
  <2> QED BY <2>5
<1>3. Bad = {}
  <2> SUFFICES ASSUME Bad # {} PROVE FALSE
    OBVIOUS
  <2> HIDE DEF Good
  <2>1. PICK k \in Bad : \A l \in Bad : k <= l
    BY LeastNumber
  <2>2. k # 0
    BY <1>1, <2>1
  <2>3. k - 1 \in Nat /\ ~(k <= k - 1) /\ (k - 1) + 1 = k
    BY <2>1, <2>2
  <2>4. Good(k - 1)
    BY <2>1, <2>3
  <2>5. Good((k - 1) + 1)
    BY <1>2, <2>3, <2>4, Zenon
  <2> QED BY <2>1, <2>3, <2>5
<1> HIDE DEF Good
<1>4. Good(n)
  BY <1>3
<1> QED BY <1>4 DEF Good

\* The flattened parts one after the other.
LEMMA FlattenSteps ==
  ASSUME NEW S, NEW s \in Seq(S)
  PROVE  \E f : /\ s # <<>> => FlattenSeq(s) = f[Len(s)]
                /\ \A i \in 1 .. Len(s) : f[i] = IF i = 1 THEN s[i] ELSE f[i - 1] \o s[i]
<1> DEFINE P(f) == f = [i \in 1 .. Len(s) |-> IF i = 1 THEN s[i] ELSE f[i - 1] \o s[i]]
           f == CHOOSE g : P(g)
<1>1. Len(s) \in Nat
  OBVIOUS
<1>2. P(f)
  <2>1. \E g : P(g)
    BY <1>1, FlattenExists, Zenon
  <2> HIDE DEF P
  <2> QED BY <2>1, Zenon
<1>3. \A i \in 1 .. Len(s) : f[i] = IF i = 1 THEN s[i] ELSE f[i - 1] \o s[i]
  <2> HIDE DEF f
  <2> QED BY <1>2
<1>4. s # <<>> => Len(s) # 0
  OBVIOUS
<1>5. s # <<>> => FlattenSeq(s) = f[Len(s)]
  BY <1>4, Zenon DEF FlattenSeq
<1> QED BY <1>3, <1>5, Zenon

\* What is closed under concatenation has the flattened parts, too.
LEMMA FlattenIn ==
  ASSUME NEW K, <<>> \in K, \A a, b \in K : a \o b \in K, NEW s \in Seq(K)
  PROVE  FlattenSeq(s) \in K
<1>1. CASE s = <<>>
  <2>1. Len(s) = 0
    BY <1>1
  <2> QED BY <1>1, <2>1, Zenon DEF FlattenSeq
<1>2. CASE s # <<>>
  <2>1. PICK f : /\ s # <<>> => FlattenSeq(s) = f[Len(s)]
                 /\ \A i \in 1 .. Len(s) : f[i] = IF i = 1 THEN s[i] ELSE f[i - 1] \o s[i]
    BY FlattenSteps, Zenon
  <2> DEFINE Bad == {i \in 1 .. Len(s) : f[i] \notin K}
  <2>2. Bad = {}
    <3> SUFFICES ASSUME Bad # {} PROVE FALSE
      OBVIOUS
    <3>1. PICK k \in Bad : \A l \in Bad : k <= l
      <4>1. Bad \in SUBSET Nat
        OBVIOUS
      <4> HIDE DEF Bad
      <4> QED BY <4>1, LeastNumber, Zenon
    <3>2. s[k] \in K
      BY <3>1
    <3>3. k # 1
      BY <2>1, <3>1, <3>2
    <3>4. k - 1 \in 1 .. Len(s) /\ k - 1 \notin Bad
      BY <3>1, <3>3
    <3>5. f[k - 1] \in K /\ f[k] = f[k - 1] \o s[k]
      BY <2>1, <3>1, <3>3, <3>4, Zenon
    <3> QED BY <3>1, <3>2, <3>5, Zenon
  <2>3. Len(s) \in 1 .. Len(s)
    BY <1>2
  <2> QED BY <1>2, <2>1, <2>2, <2>3, Zenon
<1> QED BY <1>1, <1>2

\* Nothing is lost.
LEMMA FlattenHas ==
  ASSUME NEW S, NEW s \in Seq(Seq(S)), NEW i \in 1 .. Len(s), NEW e \in ToSet(s[i])
  PROVE  e \in ToSet(FlattenSeq(s))
<1>1. PICK f : /\ s # <<>> => FlattenSeq(s) = f[Len(s)]
               /\ \A k \in 1 .. Len(s) : f[k] = IF k = 1 THEN s[k] ELSE f[k - 1] \o s[k]
  BY FlattenSteps, Zenon
<1> DEFINE Bad == {k \in i .. Len(s) : ~(f[k] \in Seq(S) /\ e \in ToSet(f[k]))}
<1>0. \A k \in 1 .. Len(s) : s[k] \in Seq(S)
  OBVIOUS
<1>2. \A k \in 1 .. Len(s) : f[k] \in Seq(S)
  <2> DEFINE Odd == {k \in 1 .. Len(s) : f[k] \notin Seq(S)}
  <2>1. Odd = {}
    <3> SUFFICES ASSUME Odd # {} PROVE FALSE
      OBVIOUS
    <3>1. PICK k \in Odd : \A l \in Odd : k <= l
      <4>1. Odd \in SUBSET Nat
        OBVIOUS
      <4> HIDE DEF Odd
      <4> QED BY <4>1, LeastNumber, Zenon
    <3>2. s[k] \in Seq(S)
      BY <1>0, <3>1
    <3>3. k # 1
      BY <1>1, <3>1, <3>2
    <3>4. k - 1 \in 1 .. Len(s) /\ k - 1 \notin Odd
      BY <3>1, <3>3
    <3>5. f[k - 1] \in Seq(S) /\ f[k] = f[k - 1] \o s[k]
      BY <1>1, <3>1, <3>3, <3>4, Zenon
    <3>6. f[k - 1] \o s[k] \in Seq(S)
      BY <3>2, <3>5
    <3> QED BY <3>1, <3>5, <3>6
  <2> QED BY <2>1
<1>3. \A a, b \in Seq(S) : (e \in ToSet(a) \/ e \in ToSet(b)) => e \in ToSet(a \o b)
  <2> TAKE a \in Seq(S), b \in Seq(S)
  <2>0. DOMAIN a = 1 .. Len(a) /\ DOMAIN b = 1 .. Len(b) /\ Len(a) \in Nat /\ Len(b) \in Nat
        /\ DOMAIN (a \o b) = 1 .. Len(a) + Len(b)
    OBVIOUS
  <2>1. ASSUME NEW k \in DOMAIN a, e = a[k]
        PROVE  e \in ToSet(a \o b)
    <3>1. k \in DOMAIN (a \o b) /\ (a \o b)[k] = a[k]
      BY <2>0
    <3> QED BY <2>1, <3>1, Zenon DEF ToSet
  <2>2. ASSUME NEW k \in DOMAIN b, e = b[k]
        PROVE  e \in ToSet(a \o b)
    <3>1. Len(a) + k \in DOMAIN (a \o b) /\ (a \o b)[Len(a) + k] = b[k]
      BY <2>0
    <3> QED BY <2>2, <3>1, Zenon DEF ToSet
  <2> QED BY <2>1, <2>2, Zenon DEF ToSet
<1>4. e \in ToSet(f[i])
  <2>1. CASE i = 1
    BY <1>1, <2>1, Zenon
  <2>2. CASE i # 1
    <3>1. i - 1 \in 1 .. Len(s)
      BY <2>2
    <3> QED BY <1>0, <1>1, <1>2, <1>3, <2>2, <3>1, Zenon
  <2> QED BY <2>1, <2>2
<1>5. Bad = {}
  <2> SUFFICES ASSUME Bad # {} PROVE FALSE
    OBVIOUS
  <2>1. PICK k \in Bad : \A l \in Bad : k <= l
    <3>1. Bad \in SUBSET Nat
      OBVIOUS
    <3> HIDE DEF Bad
    <3> QED BY <3>1, LeastNumber, Zenon
  <2>2. k \in 1 .. Len(s)
    BY <2>1
  <2>3. k # i
    BY <1>2, <1>4, <2>1, <2>2
  <2>4. k - 1 \in i .. Len(s) /\ k # 1 /\ k - 1 \in 1 .. Len(s) /\ k - 1 \notin Bad
    <3>1. k \in i .. Len(s) /\ i \in Nat /\ Len(s) \in Nat /\ 1 <= i
      OBVIOUS
    <3>2. k - 1 \in i .. Len(s) /\ k # 1 /\ k - 1 \in 1 .. Len(s) /\ ~(k <= k - 1)
      <4> HIDE DEF Bad
      <4> QED BY <2>3, <3>1
    <3> QED BY <2>1, <3>2, Zenon
  <2>5. e \in ToSet(f[k - 1]) /\ f[k] = f[k - 1] \o s[k]
    BY <1>1, <2>2, <2>4, Zenon
  <2>6. e \in ToSet(f[k])
    BY <1>0, <1>2, <1>3, <2>2, <2>4, <2>5, Zenon
  <2> QED BY <1>2, <2>1, <2>2, <2>6
<1>6. Len(s) \in i .. Len(s) /\ s # <<>>
  OBVIOUS
<1> QED BY <1>1, <1>5, <1>6

-----------------------------------------------------------------------------
(* What a layout's commands may touch *)

NewItems(l) == {x \in Items(l) : ~Kept(x)}

\* On a device the layout does not name, or a partition that it keeps.
Guarded(l, n) ==
  \/ n[1] \notin {m.dev : m \in ToSet(l.devices)} \cup {g.name : g \in ToSet(l.groups)}
  \/ \E x \in Items(l) : Kept(x) /\ n = <<x.dev, x.num>>

Sides == {"device", "mapper"}
Harmless == {"lock", "mountTmp", "umount", "swapon", "lvwait", "lvchange", "keyfile", "passphrase"}

GroupPvs(l) == UNION {g.pvs : g \in ToSet(l.groups)}

\* The commands of a layout.  None that writes is about a kept partition.
Command(l) ==
  [do : {"release", "releaseLuks"}, node : NodeName]
  \cup [do : {"wipe"}, dev : {m.dev : m \in {d \in ToSet(l.devices) : d.wipe}}]
  \cup [do : {"commit"}, mod : ToSet(l.devices)]
  \cup [do : {"wipefs", "luksFormat"}, item : NewItems(l), on : {"device"}]
  \cup [do : {"mkfs", "subvolumes"}, item : NewItems(l), on : Sides]
  \cup [do : {"unlock", "unlockIfClosed"}, item : NewItems(l), on : {"mapper"}]
  \cup [do : Harmless, item : Items(l), on : Sides]
  \cup [do : {"mount"}, item : Items(l), on : Sides, at : Directory]
  \cup [do : {"pvcreate"}, pvs : {GroupPvs(l)}, mapped : SUBSET Nat]
  \cup [do : {"vgcreate"}, name : Names, pvs : SUBSET Nat, mapped : SUBSET Nat]
  \cup [do : {"lvcreate"}, item : Volumes(l), on : {"device"}]
  \cup [do : {"handover"}]

\* The items whose containers a command writes into.
Through(l, c) ==
  {x \in Items(l) :
     \/ c.do \in {"mkfs", "subvolumes"} /\ c.on = "mapper" /\ c.item = x
     \/ c.do = "pvcreate" /\ x.id \in c.pvs /\ x.id \in c.mapped}

\* Commands that give items new numbers, and names with them.
Moves(c) == c.do \in {"commit", "lvcreate"}

Opens(c, x) == c.do = "unlock" /\ c.item = x

Quiet(l)   == {c \in Command(l) : Through(l, c) = {}}
Steady(l)  == {c \in Command(l) : ~Moves(c)}
Into(l, X) == {c \in Steady(l) : Through(l, c) \subseteq X}

\* Every container is opened by the line that writes into it, under its present name.
Safe(l) ==
  {s \in Seq(Command(l)) :
     \A i \in 1 .. Len(s) : \A x \in Through(l, s[i]) :
       \E j \in 1 .. i - 1 : Opens(s[j], x) /\ \A k \in j + 1 .. i - 1 : ~Moves(s[k])}

LayoutOk == layout \in Layout /\ Legal(layout)

-----------------------------------------------------------------------------
(* Sequences of commands *)

\* The elements of a sequence.
LEMMA ToSetOfSeq ==
  ASSUME NEW S, NEW s \in Seq(S)
  PROVE  /\ \A x \in ToSet(s) : x \in S
         /\ \A x \in ToSet(s) : \E i \in 1 .. Len(s) : x = s[i]
         /\ \A i \in 1 .. Len(s) : s[i] \in ToSet(s)
         /\ DOMAIN s = 1 .. Len(s) /\ Len(s) \in Nat
BY DEF ToSet

\* Parts of a sequence that are all in K.
LEMMA PartsIn ==
  ASSUME NEW T, NEW s \in Seq(T), NEW K, NEW t, DOMAIN t = DOMAIN s,
         t = [i \in DOMAIN s |-> t[i]], \A i \in DOMAIN s : t[i] \in K
  PROVE  t \in Seq(K) /\ Len(t) = Len(s)
<1>1. DOMAIN s = 1 .. Len(s) /\ Len(s) \in Nat
  OBVIOUS
<1>2. t \in [1 .. Len(s) -> K]
  BY <1>1
<1> QED BY <1>1, <1>2

\* Sequences of fewer elements are sequences of more.
LEMMA SeqUnion ==
  ASSUME NEW S, NEW T, S \subseteq T
  PROVE  Seq(S) \subseteq Seq(T)
OBVIOUS

\* Lines of commands from X can be joined.
LEMMA JoinedSeq ==
  ASSUME NEW X
  PROVE  /\ <<>> \in Seq(X) /\ \A a, b \in Seq(X) : a \o b \in Seq(X)
         /\ \A c \in X : <<c>> \in Seq(X)
OBVIOUS

\* Safe lines can be joined, and lines that write into no container are safe.
LEMMA SafeJoined ==
  /\ Seq(Quiet(layout)) \subseteq Safe(layout)
  /\ Safe(layout) \subseteq Seq(Command(layout))
  /\ \A a, b \in Safe(layout) : a \o b \in Safe(layout)
<1> DEFINE C == Command(layout)
           Shelter(s, i, x) ==
             \E j \in 1 .. i - 1 : Opens(s[j], x) /\ \A k \in j + 1 .. i - 1 : ~Moves(s[k])
<1>0. \A s \in Safe(layout) : s \in Seq(C) /\ \A i \in 1 .. Len(s) : \A x \in Through(layout, s[i]) :
                                                Shelter(s, i, x)
  BY Zenon DEF Safe
<1>1. ASSUME NEW s \in Seq(C), \A i \in 1 .. Len(s) : \A x \in Through(layout, s[i]) : Shelter(s, i, x)
      PROVE  s \in Safe(layout)
  BY <1>1, Zenon DEF Safe
<1>2. ASSUME NEW s \in Seq(Quiet(layout))
      PROVE  s \in Safe(layout)
  <2>1. Quiet(layout) \subseteq C /\ \A c \in Quiet(layout) : Through(layout, c) = {}
    BY Zenon DEF Quiet
  <2> HIDE DEF C, Shelter
  <2>2. s \in Seq(C) /\ \A i \in 1 .. Len(s) : s[i] \in Quiet(layout)
    BY <2>1
  <2>3. \A i \in 1 .. Len(s) : Through(layout, s[i]) = {}
    BY <2>1, <2>2, Zenon
  <2>4. \A i \in 1 .. Len(s) : \A x \in Through(layout, s[i]) : Shelter(s, i, x)
    BY <2>3, Zenon
  <2> QED BY <1>1, <2>2, <2>4, Zenon
<1>3. ASSUME NEW a \in Safe(layout), NEW b \in Safe(layout)
      PROVE  a \o b \in Safe(layout)
  <2> DEFINE s == a \o b
  <2>1. a \in Seq(C) /\ b \in Seq(C)
    BY <1>0
  <2> HIDE DEF C
  <2>2. /\ s \in Seq(C) /\ Len(s) = Len(a) + Len(b) /\ Len(a) \in Nat /\ Len(b) \in Nat
        /\ \A i \in 1 .. Len(a) : s[i] = a[i]
        /\ \A i \in 1 .. Len(b) : s[Len(a) + i] = b[i]
    BY <2>1
  <2> HIDE DEF s
  <2>3. ASSUME NEW i \in 1 .. Len(s), NEW x \in Through(layout, s[i])
        PROVE  Shelter(s, i, x)
    <3>1. CASE i <= Len(a)
      <4>1. i \in 1 .. Len(a) /\ s[i] = a[i]
        BY <2>2, <3>1
      <4>2. Shelter(a, i, x)
        BY <1>0, <2>3, <4>1, Zenon
      <4>3. PICK j \in 1 .. i - 1 : Opens(a[j], x) /\ \A k \in j + 1 .. i - 1 : ~Moves(a[k])
        BY <4>2
      <4>4. j \in 1 .. Len(a) /\ \A k \in j + 1 .. i - 1 : k \in 1 .. Len(a)
        BY <2>2, <4>1
      <4>5. s[j] = a[j] /\ \A k \in j + 1 .. i - 1 : s[k] = a[k]
        BY <2>2, <4>4, Zenon
      <4> QED BY <4>3, <4>5, Zenon
    <3>2. CASE ~(i <= Len(a))
      <4>1. PICK d \in 1 .. Len(b) : i = Len(a) + d
        <5>1. i - Len(a) \in 1 .. Len(b) /\ i = Len(a) + (i - Len(a))
          BY <2>2, <3>2
        <5> QED BY <5>1
      <4>2. s[i] = b[d]
        BY <2>2, <4>1
      <4>3. Shelter(b, d, x)
        BY <1>0, <2>3, <4>2, Zenon
      <4>4. PICK j \in 1 .. d - 1 : Opens(b[j], x) /\ \A k \in j + 1 .. d - 1 : ~Moves(b[k])
        BY <4>3
      <4>5. j \in 1 .. Len(b) /\ Len(a) + j \in 1 .. i - 1 /\ s[Len(a) + j] = b[j]
        BY <2>2, <4>1
      <4>6. ASSUME NEW k \in (Len(a) + j) + 1 .. i - 1
            PROVE  ~Moves(s[k])
        <5>1. k - Len(a) \in j + 1 .. d - 1 /\ k - Len(a) \in 1 .. Len(b) /\ k = Len(a) + (k - Len(a))
          BY <2>2, <4>1
        <5>2. s[k] = b[k - Len(a)]
          BY <2>2, <5>1, Zenon
        <5> QED BY <4>4, <5>1, <5>2, Zenon
      <4> QED BY <4>4, <4>5, <4>6, Zenon
    <3> QED BY <3>1, <3>2
  <2> HIDE DEF Shelter
  <2>4. s \in Safe(layout)
    BY <1>1, <2>2, <2>3, Zenon
  <2> QED BY <2>4 DEF s
<1> QED BY <1>0, <1>2, <1>3, Zenon

\* A line that opens containers, and one that writes into them.
LEMMA SafeOpened ==
  ASSUME NEW X, NEW a \in Safe(layout), a \in Seq(Steady(layout)), NEW b \in Seq(Into(layout, X)),
         \A x \in X : \E c \in ToSet(a) : Opens(c, x)
  PROVE  a \o b \in Safe(layout) /\ a \o b \in Seq(Steady(layout))
<1> DEFINE C == Command(layout)
           Shelter(s, i, x) ==
             \E j \in 1 .. i - 1 : Opens(s[j], x) /\ \A k \in j + 1 .. i - 1 : ~Moves(s[k])
           s == a \o b
<1>1. /\ Into(layout, X) \subseteq Steady(layout) /\ Steady(layout) \subseteq C
      /\ \A c \in Steady(layout) : ~Moves(c)
      /\ \A c \in Into(layout, X) : Through(layout, c) \subseteq X
  BY Zenon DEF Into, Steady
<1>2. a \in Seq(C) /\ \A i \in 1 .. Len(a) : \A x \in Through(layout, a[i]) : Shelter(a, i, x)
  BY Zenon DEF Safe
<1> HIDE DEF C
<1>3. /\ s \in Seq(Steady(layout)) /\ Len(s) = Len(a) + Len(b) /\ Len(a) \in Nat /\ Len(b) \in Nat
      /\ \A i \in 1 .. Len(a) : s[i] = a[i]
      /\ \A i \in 1 .. Len(b) : s[Len(a) + i] = b[i]
      /\ \A i \in 1 .. Len(b) : b[i] \in Into(layout, X)
  <2>1. b \in Seq(Steady(layout))
    BY <1>1
  <2> QED BY <2>1
<1> HIDE DEF s
<1>4. s \in Seq(C) /\ \A i \in 1 .. Len(s) : ~Moves(s[i])
  <2>1. s \in Seq(C) /\ \A i \in 1 .. Len(s) : s[i] \in Steady(layout)
    BY <1>1, <1>3
  <2> QED BY <1>1, <2>1, Zenon
<1>5. ASSUME NEW i \in 1 .. Len(s), NEW x \in Through(layout, s[i])
      PROVE  Shelter(s, i, x)
  <2>1. CASE i <= Len(a)
    <3>1. i \in 1 .. Len(a) /\ s[i] = a[i]
      BY <1>3, <2>1
    <3>2. Shelter(a, i, x)
      BY <1>2, <1>5, <3>1, Zenon
    <3>3. PICK j \in 1 .. i - 1 : Opens(a[j], x)
      BY <3>2
    <3>4. j \in 1 .. Len(a) /\ \A k \in j + 1 .. i - 1 : k \in 1 .. Len(s)
      BY <1>3, <3>1
    <3> QED BY <1>3, <1>4, <3>3, <3>4, Zenon
  <2>2. CASE ~(i <= Len(a))
    <3>1. i - Len(a) \in 1 .. Len(b) /\ i = Len(a) + (i - Len(a))
      BY <1>3, <2>2
    <3>2. x \in X
      BY <1>1, <1>3, <1>5, <3>1, Zenon
    <3>3. PICK j \in 1 .. Len(a) : Opens(a[j], x)
      <4>1. PICK c \in ToSet(a) : Opens(c, x)
        BY <3>2
      <4>2. \E j \in 1 .. Len(a) : c = a[j]
        BY <1>2, ToSetOfSeq, Zenon
      <4> QED BY <4>1, <4>2, Zenon
    <3>4. j \in 1 .. i - 1 /\ \A k \in j + 1 .. i - 1 : k \in 1 .. Len(s)
      BY <1>3, <2>2
    <3> QED BY <1>3, <1>4, <3>3, <3>4, Zenon
  <2> QED BY <2>1, <2>2
<1>6. s \in Safe(layout)
  BY <1>4, <1>5, Zenon DEF Safe, C
<1> QED BY <1>3, <1>6 DEF s

-----------------------------------------------------------------------------
(* The layout *)

Device == [dev : Names, wipe : BOOLEAN, parts : Seq(Item)]
Group  == [name : Names, pvs : SUBSET Nat, volumes : Seq(Item)]

\* The devices, groups and encryption of a layout.
LEMMA LayoutType ==
  ASSUME LayoutOk
  PROVE  /\ layout.devices \in Seq(Device) /\ layout.groups \in Seq(Group)
         /\ layout.encryption.ids \in Seq(Nat) /\ layout.encryption.type \in EncryptionType
         /\ \A m \in ToSet(layout.devices) : m \in Device /\ m.parts \in Seq(Item)
         /\ \A g \in ToSet(layout.groups) : g \in Group /\ g.volumes \in Seq(Item)
<1>1. layout \in Layout
  BY DEF LayoutOk
<1>2. /\ layout.devices \in Seq(Device) /\ layout.groups \in Seq(Group)
      /\ layout.encryption \in [type : EncryptionType, ids : Seq(Nat)]
  BY <1>1, Zenon DEF Layout, Device, Group
<1>3. layout.encryption.ids \in Seq(Nat) /\ layout.encryption.type \in EncryptionType
  BY <1>2, Zenon
<1>4. \A m \in ToSet(layout.devices) : m \in Device
  BY <1>2, ToSetOfSeq, Zenon
<1>5. \A g \in ToSet(layout.groups) : g \in Group
  BY <1>2, ToSetOfSeq, Zenon
<1>6. \A m \in Device : m.parts \in Seq(Item)
  BY Zenon DEF Device
<1>7. \A g \in Group : g.volumes \in Seq(Item)
  BY Zenon DEF Group
<1> QED BY <1>2, <1>3, <1>4, <1>5, <1>6, <1>7, Zenon

\* Every item is on a device or in a group.
LEMMA ItemsType ==
  ASSUME LayoutOk
  PROVE  /\ Items(layout) = Partitions(layout) \cup Volumes(layout)
         /\ \A x \in Partitions(layout) : \E m \in ToSet(layout.devices) : x \in ToSet(m.parts)
         /\ \A x \in Volumes(layout) : \E g \in ToSet(layout.groups) : x \in ToSet(g.volumes)
         /\ \A m \in ToSet(layout.devices) : \A x \in ToSet(m.parts) :
              x \in Partitions(layout) /\ x \in Items(layout)
         /\ \A g \in ToSet(layout.groups) : \A x \in ToSet(g.volumes) :
              x \in Volumes(layout) /\ x \in Items(layout)
         /\ \A x \in Items(layout) : x \in Item
<1>1. Items(layout) = Partitions(layout) \cup Volumes(layout)
  BY Zenon DEF Items
<1>2. \A x \in Partitions(layout) : \E m \in ToSet(layout.devices) : x \in ToSet(m.parts)
  BY DEF Partitions
<1>3. \A x \in Volumes(layout) : \E g \in ToSet(layout.groups) : x \in ToSet(g.volumes)
  BY DEF Volumes
<1>4. \A m \in ToSet(layout.devices) : \A x \in ToSet(m.parts) : x \in Partitions(layout)
  BY DEF Partitions
<1>5. \A g \in ToSet(layout.groups) : \A x \in ToSet(g.volumes) : x \in Volumes(layout)
  BY DEF Volumes
<1>6. \A x \in Items(layout) : \E s \in Seq(Item) : x \in ToSet(s)
  BY <1>1, <1>2, <1>3, LayoutType, Zenon
<1>7. \A s \in Seq(Item) : \A x \in ToSet(s) : x \in Item
  BY ToSetOfSeq, Zenon
<1> QED BY <1>1, <1>2, <1>3, <1>4, <1>5, <1>6, <1>7, Zenon

\* What the editors leave possible, part by part.
LEMMA LegalItems ==
  ASSUME LayoutOk
  PROVE  /\ \A m, d \in ToSet(layout.devices) : m.dev = d.dev => m = d
         /\ \A m \in ToSet(layout.devices), g \in ToSet(layout.groups) : m.dev # g.name
         /\ \A m \in ToSet(layout.devices) : \A x \in ToSet(m.parts) :
              /\ ~x.lv /\ x.dev = m.dev
              /\ x.status # "create" => x.num \in Nat /\ ~m.wipe
              /\ x.status = "create" => x.num = Nowhere
         /\ \A g \in ToSet(layout.groups) : \A x \in ToSet(g.volumes) :
              x.lv /\ x.dev = g.name /\ x.num \in Names /\ x.status = "create"
         /\ \A x, y \in Items(layout) : x.id = y.id => x = y
         /\ \A id \in GroupPvs(layout) : \E x \in Partitions(layout) : x.id = id /\ ~Kept(x)
         /\ \A x \in Items(layout) : IsFiniteSet(x.subvols)
         /\ \A id \in ToSet(layout.encryption.ids) : \E x \in Items(layout) : x.id = id
<1>1. Legal(layout)
  BY DEF LayoutOk
<1>2. \A m, d \in ToSet(layout.devices) : m.dev = d.dev => m = d
  <2>1. \A i, j \in DOMAIN layout.devices : layout.devices[i].dev = layout.devices[j].dev => i = j
    BY <1>1, Zenon DEF Legal
  <2> QED BY <2>1, Zenon DEF ToSet
<1>3. /\ \A m \in ToSet(layout.devices) : \A x \in ToSet(m.parts) :
           /\ ~x.lv /\ x.dev = m.dev
           /\ IF x.status = "create" THEN x.num = Nowhere ELSE x.num \in Nat /\ ~m.wipe
      /\ \A g \in ToSet(layout.groups) :
           /\ \A m \in ToSet(layout.devices) : m.dev # g.name
           /\ \A x \in ToSet(g.volumes) :
                x.lv /\ x.dev = g.name /\ x.num \in Names /\ x.status = "create"
           /\ \A id \in g.pvs : \E x \in Partitions(layout) : x.id = id /\ ~Kept(x)
  BY <1>1, Zenon DEF Legal
<1>4. /\ \A x, y \in Items(layout) :
           x.id = y.id \/ (x.dev = y.dev /\ x.num = y.num /\ x.num # Nowhere) => x = y
      /\ \A id \in ToSet(layout.encryption.ids) : \E x \in Items(layout) : x.id = id
      /\ \A x \in Items(layout) : IsFiniteSet(x.subvols)
  BY <1>1, Zenon DEF Legal
<1>5. \A id \in GroupPvs(layout) : \E x \in Partitions(layout) : x.id = id /\ ~Kept(x)
  BY <1>3 DEF GroupPvs
<1> QED BY <1>2, <1>3, <1>4, <1>5, Zenon

\* What is encrypted is new, and on the side its encryption type is about.
LEMMA LegalEncryption ==
  ASSUME LayoutOk, NEW x \in Items(layout), Encrypted(x)
  PROVE  /\ x \in NewItems(layout) /\ ~x.boot /\ x.fs # "swap"
         /\ layout.encryption.type # "NO_ENCRYPTION"
         /\ x.lv <=> layout.encryption.type = "LUKS_ON_LVM"
<1>1. x.id \in ToSet(layout.encryption.ids)
  <2>1. \E i \in 1 .. Len(layout.encryption.ids) : layout.encryption.ids[i] = x.id
    BY Zenon DEF Encrypted, Contains
  <2>2. DOMAIN layout.encryption.ids = 1 .. Len(layout.encryption.ids)
    BY LayoutType, ToSetOfSeq, Zenon
  <2> QED BY <2>1, <2>2, Zenon DEF ToSet
<1>2. Legal(layout)
  BY DEF LayoutOk
<1>3. /\ x.status # "exist" /\ ~x.boot /\ x.fs # "swap"
      /\ layout.encryption.type # "NO_ENCRYPTION"
      /\ x.lv <=> layout.encryption.type = "LUKS_ON_LVM"
  BY <1>1, <1>2, Zenon DEF Legal
<1> QED BY <1>3, Zenon DEF NewItems, Kept

\* Items are told apart by their ids.
LEMMA ItemOfId ==
  ASSUME LayoutOk, NEW x \in Items(layout)
  PROVE  ItemOf(x.id) = x
<1>1. ItemOf(x.id) \in Items(layout) /\ ItemOf(x.id).id = x.id
  BY Zenon DEF ItemOf
<1> QED BY <1>1, LegalItems, Zenon

\* The partitions and volumes of the encryption are new items.
LEMMA EncryptedItemsType ==
  ASSUME LayoutOk
  PROVE  EncryptedItems \in Seq(NewItems(layout))
<1> DEFINE ids == layout.encryption.ids
<1>1. ids \in Seq(Nat)
  BY LayoutType
<1>2. DOMAIN EncryptedItems = DOMAIN ids /\ EncryptedItems = [i \in DOMAIN ids |-> EncryptedItems[i]]
  BY Zenon DEF EncryptedItems
<1>3. ASSUME NEW i \in DOMAIN ids
      PROVE  EncryptedItems[i] \in NewItems(layout)
  <2>1. ids[i] \in ToSet(ids)
    BY Zenon DEF ToSet
  <2>2. PICK x \in Items(layout) : x.id = ids[i]
    BY <2>1, LegalItems, Zenon
  <2>3. EncryptedItems[i] = ItemOf(x.id)
    BY <2>2, Zenon DEF EncryptedItems
  <2>4. Encrypted(x)
    <3>1. DOMAIN ids = 1 .. Len(ids)
      BY <1>1, ToSetOfSeq, Zenon
    <3> QED BY <2>2, <3>1, Zenon DEF Encrypted, Contains
  <2> QED BY <2>3, <2>4, ItemOfId, LegalEncryption, Zenon
<1> HIDE DEF ids
<1> QED BY <1>1, <1>2, <1>3, PartsIn, Zenon

-----------------------------------------------------------------------------
(* The commands *)

\* Harmless, and of no consequence for the order of the line.
LEMMA ItemCommands ==
  ASSUME NEW x \in Items(layout), NEW on \in Sides
  PROVE  /\ \A do \in Harmless : [do |-> do, item |-> x, on |-> on] \in Into(layout, {})
         /\ \A at \in Directory :
              [do |-> "mount", item |-> x, on |-> on, at |-> at] \in Into(layout, {})
         /\ x \in Volumes(layout) =>
              [do |-> "lvcreate", item |-> x, on |-> "device"] \in Quiet(layout)
<1>1. ASSUME NEW do \in Harmless
      PROVE  [do |-> do, item |-> x, on |-> on] \in Into(layout, {})
  <2> DEFINE c == [do |-> do, item |-> x, on |-> on]
  <2>1. c \in [do : Harmless, item : Items(layout), on : Sides]
    BY Zenon
  <2>2. c.do = do
    OBVIOUS
  <2> HIDE DEF c
  <2>3. c \in Command(layout)
    BY <2>1, Zenon DEF Command
  <2>4. c.do \notin {"mkfs", "subvolumes", "pvcreate", "commit", "lvcreate"}
    BY <2>2 DEF Harmless
  <2>5. Through(layout, c) = {} /\ ~Moves(c)
    BY <2>4 DEF Through, Moves
  <2>6. c \in Into(layout, {})
    BY <2>3, <2>5, Zenon DEF Into, Steady
  <2> QED BY <2>6 DEF c
<1>2. ASSUME NEW at \in Directory
      PROVE  [do |-> "mount", item |-> x, on |-> on, at |-> at] \in Into(layout, {})
  <2> DEFINE c == [do |-> "mount", item |-> x, on |-> on, at |-> at]
  <2>1. c \in [do : {"mount"}, item : Items(layout), on : Sides, at : Directory]
    BY Zenon
  <2>2. c.do = "mount"
    OBVIOUS
  <2> HIDE DEF c
  <2>3. c \in Command(layout)
    BY <2>1, Zenon DEF Command
  <2>5. Through(layout, c) = {} /\ ~Moves(c)
    BY <2>2 DEF Through, Moves
  <2>6. c \in Into(layout, {})
    BY <2>3, <2>5, Zenon DEF Into, Steady
  <2> QED BY <2>6 DEF c
<1>3. ASSUME x \in Volumes(layout)
      PROVE  [do |-> "lvcreate", item |-> x, on |-> "device"] \in Quiet(layout)
  <2> DEFINE c == [do |-> "lvcreate", item |-> x, on |-> "device"]
  <2>1. c \in [do : {"lvcreate"}, item : Volumes(layout), on : {"device"}]
    BY <1>3, Zenon
  <2>2. c.do = "lvcreate"
    OBVIOUS
  <2> HIDE DEF c
  <2>3. c \in Command(layout)
    BY <2>1, Zenon DEF Command
  <2>5. Through(layout, c) = {}
    BY <2>2 DEF Through
  <2>6. c \in Quiet(layout)
    BY <2>3, <2>5, Zenon DEF Quiet
  <2> QED BY <2>6 DEF c
<1> QED BY <1>1, <1>2, <1>3

\* Writing to a device, and into a container.
LEMMA WriteCommands ==
  ASSUME NEW x \in NewItems(layout)
  PROVE  /\ \A do \in {"wipefs", "luksFormat", "mkfs", "subvolumes"} :
              [do |-> do, item |-> x, on |-> "device"] \in Into(layout, {})
         /\ \A do \in {"unlock", "unlockIfClosed"} :
              [do |-> do, item |-> x, on |-> "mapper"] \in Into(layout, {})
         /\ \A do \in {"mkfs", "subvolumes"} :
              [do |-> do, item |-> x, on |-> "mapper"] \in Into(layout, {x})
         /\ Opens([do |-> "unlock", item |-> x, on |-> "mapper"], x)
<1>1. ASSUME NEW do \in {"wipefs", "luksFormat", "mkfs", "subvolumes"}
      PROVE  [do |-> do, item |-> x, on |-> "device"] \in Into(layout, {})
  <2> DEFINE c == [do |-> do, item |-> x, on |-> "device"]
  <2>1. \/ c \in [do : {"wipefs", "luksFormat"}, item : NewItems(layout), on : {"device"}]
        \/ c \in [do : {"mkfs", "subvolumes"}, item : NewItems(layout), on : Sides]
    BY DEF Sides
  <2>2. c.do = do /\ c.on = "device"
    OBVIOUS
  <2> HIDE DEF c
  <2>3. c \in Command(layout)
    BY <2>1, Zenon DEF Command
  <2>4. c.do \notin {"pvcreate", "commit", "lvcreate"} /\ c.on # "mapper"
    BY <2>2
  <2>5. Through(layout, c) = {} /\ ~Moves(c)
    BY <2>4 DEF Through, Moves
  <2>6. c \in Into(layout, {})
    BY <2>3, <2>5, Zenon DEF Into, Steady
  <2> QED BY <2>6 DEF c
<1>2. ASSUME NEW do \in {"unlock", "unlockIfClosed"}
      PROVE  [do |-> do, item |-> x, on |-> "mapper"] \in Into(layout, {})
  <2> DEFINE c == [do |-> do, item |-> x, on |-> "mapper"]
  <2>1. c \in [do : {"unlock", "unlockIfClosed"}, item : NewItems(layout), on : {"mapper"}]
    BY Zenon
  <2>2. c.do = do
    OBVIOUS
  <2> HIDE DEF c
  <2>3. c \in Command(layout)
    BY <2>1, Zenon DEF Command
  <2>4. c.do \notin {"mkfs", "subvolumes", "pvcreate", "commit", "lvcreate"}
    BY <2>2
  <2>5. Through(layout, c) = {} /\ ~Moves(c)
    BY <2>4 DEF Through, Moves
  <2>6. c \in Into(layout, {})
    BY <2>3, <2>5, Zenon DEF Into, Steady
  <2> QED BY <2>6 DEF c
<1>3. ASSUME NEW do \in {"mkfs", "subvolumes"}
      PROVE  [do |-> do, item |-> x, on |-> "mapper"] \in Into(layout, {x})
  <2> DEFINE c == [do |-> do, item |-> x, on |-> "mapper"]
  <2>1. c \in [do : {"mkfs", "subvolumes"}, item : NewItems(layout), on : Sides]
    BY DEF Sides
  <2>2. c.do = do /\ c.item = x
    OBVIOUS
  <2> HIDE DEF c
  <2>3. c \in Command(layout)
    BY <2>1, Zenon DEF Command
  <2>4. c.do \notin {"pvcreate", "commit", "lvcreate"}
    BY <2>2
  <2>5. Through(layout, c) \subseteq {x} /\ ~Moves(c)
    BY <2>2, <2>4 DEF Through, Moves
  <2>6. c \in Into(layout, {x})
    BY <2>3, <2>5, Zenon DEF Into, Steady
  <2> QED BY <2>6 DEF c
<1>4. Opens([do |-> "unlock", item |-> x, on |-> "mapper"], x)
  BY DEF Opens
<1> QED BY <1>1, <1>2, <1>3, <1>4

\* The commands that are about no item.
LEMMA OtherCommands ==
  ASSUME LayoutOk
  PROVE  /\ \A do \in {"release", "releaseLuks"}, n \in NodeName :
              [do |-> do, node |-> n] \in Quiet(layout)
         /\ \A m \in ToSet(layout.devices) :
              /\ [do |-> "commit", mod |-> m] \in Quiet(layout)
              /\ m.wipe => [do |-> "wipe", dev |-> m.dev] \in Quiet(layout)
         /\ [do |-> "handover"] \in Quiet(layout)
         /\ \A mapped \in SUBSET Nat :
              /\ \A g \in ToSet(layout.groups) :
                   [do |-> "vgcreate", name |-> g.name, pvs |-> g.pvs, mapped |-> mapped]
                     \in Quiet(layout)
              /\ [do |-> "pvcreate", pvs |-> GroupPvs(layout), mapped |-> mapped]
                   \in Into(layout, {x \in Items(layout) : x.id \in mapped})
<1>1. ASSUME NEW c \in Command(layout), c.do \notin {"mkfs", "subvolumes", "pvcreate"}
      PROVE  c \in Quiet(layout)
  <2>1. Through(layout, c) = {}
    BY <1>1 DEF Through
  <2> QED BY <2>1, Zenon DEF Quiet
<1>2. ASSUME NEW do \in {"release", "releaseLuks"}, NEW n \in NodeName
      PROVE  [do |-> do, node |-> n] \in Quiet(layout)
  <2> DEFINE c == [do |-> do, node |-> n]
  <2>1. c \in [do : {"release", "releaseLuks"}, node : NodeName] /\ c.do = do
    BY Zenon
  <2> HIDE DEF c
  <2>2. c \in Command(layout) /\ c.do \notin {"mkfs", "subvolumes", "pvcreate"}
    <3>1. c \in Command(layout)
      BY <2>1, Zenon DEF Command
    <3> QED BY <2>1, <3>1
  <2>3. c \in Quiet(layout)
    BY <1>1, <2>2, Zenon
  <2> QED BY <2>3 DEF c
<1>3. ASSUME NEW m \in ToSet(layout.devices)
      PROVE  [do |-> "commit", mod |-> m] \in Quiet(layout)
  <2> DEFINE c == [do |-> "commit", mod |-> m]
  <2>1. c \in [do : {"commit"}, mod : ToSet(layout.devices)] /\ c.do = "commit"
    BY Zenon
  <2> HIDE DEF c
  <2>2. c \in Command(layout) /\ c.do \notin {"mkfs", "subvolumes", "pvcreate"}
    <3>1. c \in Command(layout)
      BY <2>1, Zenon DEF Command
    <3> QED BY <2>1, <3>1
  <2>3. c \in Quiet(layout)
    BY <1>1, <2>2, Zenon
  <2> QED BY <2>3 DEF c
<1>4. ASSUME NEW m \in ToSet(layout.devices), m.wipe
      PROVE  [do |-> "wipe", dev |-> m.dev] \in Quiet(layout)
  <2> DEFINE c == [do |-> "wipe", dev |-> m.dev]
             devs == {d.dev : d \in {e \in ToSet(layout.devices) : e.wipe}}
  <2>0. m.dev \in devs
    BY <1>4
  <2> HIDE DEF devs
  <2>1. c \in [do : {"wipe"}, dev : devs] /\ c.do = "wipe"
    BY <2>0, Zenon
  <2> HIDE DEF c
  <2>2. c \in Command(layout) /\ c.do \notin {"mkfs", "subvolumes", "pvcreate"}
    <3>1. c \in Command(layout)
      BY <2>1, Zenon DEF Command, devs
    <3> QED BY <2>1, <3>1
  <2>3. c \in Quiet(layout)
    BY <1>1, <2>2, Zenon
  <2> QED BY <2>3 DEF c
<1>5. [do |-> "handover"] \in Quiet(layout)
  <2> DEFINE c == [do |-> "handover"]
  <2>1. c \in [do : {"handover"}] /\ c.do = "handover"
    BY Zenon
  <2> HIDE DEF c
  <2>2. c \in Command(layout) /\ c.do \notin {"mkfs", "subvolumes", "pvcreate"}
    <3>1. c \in Command(layout)
      BY <2>1, Zenon DEF Command
    <3> QED BY <2>1, <3>1
  <2>3. c \in Quiet(layout)
    BY <1>1, <2>2, Zenon
  <2> QED BY <2>3 DEF c
<1>6. ASSUME NEW mapped \in SUBSET Nat, NEW g \in ToSet(layout.groups)
      PROVE  [do |-> "vgcreate", name |-> g.name, pvs |-> g.pvs, mapped |-> mapped] \in Quiet(layout)
  <2> DEFINE c == [do |-> "vgcreate", name |-> g.name, pvs |-> g.pvs, mapped |-> mapped]
  <2>0. g.name \in Names /\ g.pvs \in SUBSET Nat
    <3>1. g \in Group
      BY LayoutType, Zenon
    <3> QED BY <3>1, Zenon DEF Group
  <2>1. /\ c \in [do : {"vgcreate"}, name : Names, pvs : SUBSET Nat, mapped : SUBSET Nat]
        /\ c.do = "vgcreate"
    BY <2>0, Zenon
  <2> HIDE DEF c
  <2>2. c \in Command(layout) /\ c.do \notin {"mkfs", "subvolumes", "pvcreate"}
    <3>1. c \in Command(layout)
      BY <2>1, Zenon DEF Command
    <3> QED BY <2>1, <3>1
  <2>3. c \in Quiet(layout)
    BY <1>1, <2>2, Zenon
  <2> QED BY <2>3 DEF c
<1>7. ASSUME NEW mapped \in SUBSET Nat
      PROVE  [do |-> "pvcreate", pvs |-> GroupPvs(layout), mapped |-> mapped]
               \in Into(layout, {x \in Items(layout) : x.id \in mapped})
  <2> DEFINE c == [do |-> "pvcreate", pvs |-> GroupPvs(layout), mapped |-> mapped]
             X == {x \in Items(layout) : x.id \in mapped}
  <2>1. /\ c \in [do : {"pvcreate"}, pvs : {GroupPvs(layout)}, mapped : SUBSET Nat]
        /\ c.do = "pvcreate" /\ c.mapped = mapped
    BY Zenon
  <2> HIDE DEF c
  <2>2. c \in Command(layout)
    BY <2>1, Zenon DEF Command
  <2>3. ~Moves(c)
    BY <2>1 DEF Moves
  <2>4. c.do \notin {"mkfs", "subvolumes"}
    BY <2>1
  <2>5. Through(layout, c) \subseteq X
    BY <2>1, <2>4, Zenon DEF Through
  <2> HIDE DEF X
  <2>6. c \in Into(layout, X)
    BY <2>2, <2>3, <2>5, Zenon DEF Into, Steady
  <2> QED BY <2>6 DEF c, X
<1> QED BY <1>2, <1>3, <1>4, <1>5, <1>6, <1>7

-----------------------------------------------------------------------------
(* The parts of the line *)

\* How the kinds of commands and lines contain each other.
LEMMA Classes ==
  /\ Into(layout, {}) \subseteq Quiet(layout) /\ Into(layout, {}) \subseteq Steady(layout)
  /\ \A X : Into(layout, {}) \subseteq Into(layout, X) /\ Into(layout, X) \subseteq Steady(layout)
  /\ Seq(Into(layout, {})) \subseteq Safe(layout)
  /\ Seq(Into(layout, {})) \subseteq Seq(Steady(layout))
  /\ Seq(Into(layout, {})) \subseteq Seq(Quiet(layout))
<1>1. Into(layout, {}) \subseteq Quiet(layout)
  BY DEF Into, Quiet, Steady
<1>2. Into(layout, {}) \subseteq Steady(layout)
  BY DEF Into
<1>3. \A X : Into(layout, {}) \subseteq Into(layout, X) /\ Into(layout, X) \subseteq Steady(layout)
  BY DEF Into
<1>4. Seq(Into(layout, {})) \subseteq Seq(Quiet(layout))
  BY <1>1, SeqUnion, Zenon
<1>5. Seq(Into(layout, {})) \subseteq Seq(Steady(layout))
  BY <1>2, SeqUnion, Zenon
<1> QED BY <1>1, <1>2, <1>3, <1>4, <1>5, SafeJoined, Zenon

\* The elements of two sequences, one after the other.
LEMMA ToSetJoined ==
  ASSUME NEW S, NEW a \in Seq(S), NEW b \in Seq(S)
  PROVE  ToSet(a \o b) = ToSet(a) \cup ToSet(b)
<1> DEFINE s == a \o b
<1>1. /\ DOMAIN s = 1 .. Len(a) + Len(b) /\ Len(a) \in Nat /\ Len(b) \in Nat
      /\ DOMAIN a = 1 .. Len(a) /\ DOMAIN b = 1 .. Len(b)
      /\ \A i \in 1 .. Len(a) : s[i] = a[i]
      /\ \A i \in 1 .. Len(b) : s[Len(a) + i] = b[i]
  OBVIOUS
<1> HIDE DEF s
<1>2. ASSUME NEW i \in DOMAIN a
      PROVE  a[i] \in ToSet(s)
  <2>1. i \in DOMAIN s /\ s[i] = a[i]
    BY <1>1
  <2> QED BY <2>1, Zenon DEF ToSet
<1>3. ASSUME NEW i \in DOMAIN b
      PROVE  b[i] \in ToSet(s)
  <2>1. Len(a) + i \in DOMAIN s /\ s[Len(a) + i] = b[i]
    BY <1>1
  <2> QED BY <2>1, Zenon DEF ToSet
<1>4. ASSUME NEW i \in DOMAIN s
      PROVE  s[i] \in ToSet(a) \cup ToSet(b)
  <2>1. CASE i <= Len(a)
    <3>1. i \in DOMAIN a /\ s[i] = a[i]
      BY <1>1, <2>1
    <3> QED BY <3>1, Zenon DEF ToSet
  <2>2. CASE ~(i <= Len(a))
    <3>1. i - Len(a) \in 1 .. Len(b) /\ i = Len(a) + (i - Len(a))
      BY <1>1, <2>2
    <3>2. i - Len(a) \in DOMAIN b /\ s[i] = b[i - Len(a)]
      BY <1>1, <3>1, Zenon
    <3> QED BY <3>2, Zenon DEF ToSet
  <2> QED BY <2>1, <2>2
<1>5. ToSet(s) = ToSet(a) \cup ToSet(b)
  <2>1. \A x \in ToSet(s) : x \in ToSet(a) \cup ToSet(b)
    BY <1>4, Zenon DEF ToSet
  <2>2. \A x \in ToSet(a) : x \in ToSet(s)
    BY <1>2, Zenon DEF ToSet
  <2>3. \A x \in ToSet(b) : x \in ToSet(s)
    BY <1>3, Zenon DEF ToSet
  <2> QED BY <2>1, <2>2, <2>3
<1> QED BY <1>5 DEF s

\* format_encrypted: the container is opened as soon as it is made.
LEMMA EncryptType ==
  ASSUME NEW x \in NewItems(layout)
  PROVE  /\ Encrypt(x) \in Seq(Into(layout, {}))
         /\ \E c \in ToSet(Encrypt(x)) : Opens(c, x)
<1> DEFINE c == [do |-> "luksFormat", item |-> x, on |-> "device"]
           d == [do |-> "unlock", item |-> x, on |-> "mapper"]
<1>1. c \in Into(layout, {}) /\ d \in Into(layout, {}) /\ Opens(d, x)
  BY WriteCommands, Zenon
<1>2. Encrypt(x) = <<c>> \o <<d>>
  BY Zenon DEF Encrypt, Do
<1> HIDE DEF c, d
<1>3. <<c>> \o <<d>> \in Seq(Into(layout, {}))
  BY <1>1, JoinedSeq, Zenon
<1>4. d \in ToSet(<<c>> \o <<d>>)
  <2>1. /\ 2 \in DOMAIN (<<c>> \o <<d>>)
        /\ (<<c>> \o <<d>>)[2] = d
    OBVIOUS
  <2> QED BY <2>1, Zenon DEF ToSet
<1> QED BY <1>1, <1>2, <1>3, <1>4, Zenon

\* format: an encrypted item is formatted in the container just opened on it.
LEMMA FormatType ==
  ASSUME LayoutOk, NEW x \in Items(layout)
  PROVE  /\ Format(x) \in Safe(layout) /\ Format(x) \in Seq(Steady(layout))
         /\ Fresh(x) /\ Encrypted(x) => \E c \in ToSet(Format(x)) : Opens(c, x)
<1>1. CASE ~Fresh(x)
  <2>1. Format(x) = <<>>
    BY <1>1, Zenon DEF Format
  <2>2. <<>> \in Seq(Into(layout, {}))
    BY JoinedSeq, Zenon
  <2> QED BY <1>1, <2>1, <2>2, Classes, Zenon
<1>2. CASE Fresh(x)
  <2>1. x \in NewItems(layout)
    BY <1>2 DEF Fresh, NewItems, Kept
  <2>2. CASE ~Encrypted(x)
    <3>1. Format(x) = <<[do |-> "mkfs", item |-> x, on |-> "device"]>>
      BY <1>2, <2>2, Zenon DEF Format, Do
    <3>2. [do |-> "mkfs", item |-> x, on |-> "device"] \in Into(layout, {})
      BY <2>1, WriteCommands, Zenon
    <3>3. Format(x) \in Seq(Into(layout, {}))
      BY <3>1, <3>2, JoinedSeq, Zenon
    <3> QED BY <2>2, <3>3, Classes, Zenon
  <2>3. CASE Encrypted(x)
    <3> DEFINE a == Encrypt(x)
               c == [do |-> "mkfs", item |-> x, on |-> "mapper"]
               d == [do |-> "lock", item |-> x, on |-> "device"]
    <3>1. Format(x) = (a \o <<c>>) \o <<d>>
      BY <1>2, <2>3, Zenon DEF Format, Do
    <3>2. c \in Into(layout, {x})
      BY <2>1, WriteCommands, Zenon
    <3>3. d \in Into(layout, {})
      <4>1. "lock" \in Harmless /\ "device" \in Sides
        BY DEF Harmless, Sides
      <4> QED BY <4>1, ItemCommands, Zenon
    <3>4. <<c>> \in Seq(Into(layout, {x})) /\ <<d>> \in Seq(Into(layout, {}))
      BY <3>2, <3>3, JoinedSeq, Zenon
    <3>5. /\ a \in Safe(layout) /\ a \in Seq(Steady(layout))
          /\ \A y \in {x} : \E e \in ToSet(a) : Opens(e, y)
      BY <2>1, EncryptType, Classes, Zenon
    <3>6. PICK e \in ToSet(a) : Opens(e, x)
      BY <3>5
    <3> HIDE DEF a, c, d
    <3>7. a \o <<c>> \in Safe(layout) /\ a \o <<c>> \in Seq(Steady(layout))
      <4> DEFINE X == {x}
                 b == <<c>>
      <4>1. b \in Seq(Into(layout, X)) /\ \A y \in X : \E f \in ToSet(a) : Opens(f, y)
        BY <3>4, <3>5
      <4> HIDE DEF X, b
      <4>2. a \o b \in Safe(layout) /\ a \o b \in Seq(Steady(layout))
        BY <3>5, <4>1, SafeOpened, Zenon
      <4> QED BY <4>2 DEF b
    <3>8. <<d>> \in Safe(layout) /\ <<d>> \in Seq(Steady(layout)) /\ <<c>> \in Seq(Steady(layout))
      <4>1. Seq(Into(layout, {x})) \subseteq Seq(Steady(layout))
        BY Classes, SeqUnion, Zenon
      <4> QED BY <3>4, <4>1, Classes, Zenon
    <3>9. Format(x) \in Safe(layout) /\ Format(x) \in Seq(Steady(layout))
      BY <3>1, <3>7, <3>8, SafeJoined, JoinedSeq, Zenon
    <3>10. e \in ToSet(Format(x))
      <4>1. ToSet(a \o <<c>>) = ToSet(a) \cup ToSet(<<c>>)
        BY <3>5, <3>8, ToSetJoined, Zenon
      <4>2. ToSet(Format(x)) = ToSet(a \o <<c>>) \cup ToSet(<<d>>)
        BY <3>1, <3>7, <3>8, ToSetJoined, Zenon
      <4> QED BY <3>6, <4>1, <4>2, Zenon
    <3> QED BY <3>6, <3>9, <3>10, Zenon
  <2> QED BY <2>2, <2>3
<1> QED BY <1>1, <1>2

\* A line that is made item by item.
LEMMA EachLine ==
  ASSUME NEW K, NEW C, <<>> \in K, \A a, b \in K : a \o b \in K, K \subseteq Seq(C),
         NEW T, NEW s \in Seq(T), NEW t, DOMAIN t = DOMAIN s, t = [i \in DOMAIN s |-> t[i]],
         \A i \in DOMAIN s : t[i] \in K
  PROVE  /\ FlattenSeq(t) \in K
         /\ \A i \in DOMAIN s : \A c \in ToSet(t[i]) : c \in ToSet(FlattenSeq(t))
<1>1. t \in Seq(K) /\ Len(t) = Len(s)
  BY PartsIn, Zenon
<1>2. t \in Seq(Seq(C))
  BY <1>1, SeqUnion, Zenon
<1>3. DOMAIN s = 1 .. Len(t)
  BY <1>1, ToSetOfSeq, Zenon
<1>4. FlattenSeq(t) \in K
  BY <1>1, FlattenIn, Zenon
<1>5. \A i \in DOMAIN s : \A c \in ToSet(t[i]) : c \in ToSet(FlattenSeq(t))
  BY <1>2, <1>3, FlattenHas, Zenon
<1> QED BY <1>4, <1>5

\* _format_partitions opens every encrypted item it formats.
LEMMA FormatPartitionsType ==
  ASSUME LayoutOk, NEW parts \in Seq(Item), \A x \in ToSet(parts) : x \in Items(layout)
  PROVE  /\ FormatPartitions(parts) \in Safe(layout)
         /\ FormatPartitions(parts) \in Seq(Steady(layout))
         /\ \A x \in ToSet(parts) :
              Fresh(x) /\ Encrypted(x) => \E c \in ToSet(FormatPartitions(parts)) : Opens(c, x)
<1> DEFINE K == Safe(layout) \cap Seq(Steady(layout))
           t == [i \in DOMAIN parts |-> Format(parts[i])]
<1>1. FormatPartitions(parts) = FlattenSeq(t)
  BY Zenon DEF FormatPartitions, Each
<1>2. \A i \in DOMAIN parts : parts[i] \in ToSet(parts)
  BY Zenon DEF ToSet
<1>3. DOMAIN t = DOMAIN parts /\ \A i \in DOMAIN parts : t[i] = Format(parts[i])
  OBVIOUS
<1>4. t = [i \in DOMAIN parts |-> t[i]]
  OBVIOUS
<1> HIDE DEF t
<1>5. \A i \in DOMAIN parts : t[i] \in K
  BY <1>2, <1>3, FormatType, Zenon
<1>6. <<>> \in K /\ \A a, b \in K : a \o b \in K
  BY Classes, SafeJoined, JoinedSeq, Zenon
<1>7. K \subseteq Seq(Steady(layout))
  BY Zenon
<1> HIDE DEF K
<1>8. /\ FlattenSeq(t) \in K
      /\ \A i \in DOMAIN parts : \A c \in ToSet(t[i]) : c \in ToSet(FlattenSeq(t))
  BY <1>3, <1>4, <1>5, <1>6, <1>7, EachLine, Zenon
<1>9. ASSUME NEW x \in ToSet(parts), Fresh(x), Encrypted(x)
      PROVE  \E c \in ToSet(FlattenSeq(t)) : Opens(c, x)
  <2>1. PICK i \in DOMAIN parts : x = parts[i]
    BY Zenon DEF ToSet
  <2>2. \E c \in ToSet(Format(x)) : Opens(c, x)
    BY <1>9, FormatType, Zenon
  <2> QED BY <1>3, <1>8, <2>1, <2>2, Zenon
<1>10. FlattenSeq(t) \in Safe(layout) /\ FlattenSeq(t) \in Seq(Steady(layout))
  BY <1>8, Zenon DEF K
<1> QED BY <1>1, <1>9, <1>10, Zenon

\* create_btrfs_volumes and create_lvm_btrfs_subvolumes write into one item only.
LEMMA SubvolumesType ==
  ASSUME NEW x \in NewItems(layout)
  PROVE  /\ Subvolumes(x, "device") \in Seq(Into(layout, {}))
         /\ \A X : x \in X => Subvolumes(x, "mapper") \in Seq(Into(layout, X))
<1>0. x \in Items(layout)
  BY Zenon DEF NewItems
<1>1. /\ \A on \in Sides : [do |-> "mountTmp", item |-> x, on |-> on] \in Into(layout, {})
      /\ \A on \in Sides : [do |-> "umount", item |-> x, on |-> on] \in Into(layout, {})
  <2>1. "mountTmp" \in Harmless /\ "umount" \in Harmless
    BY DEF Harmless
  <2> QED BY <1>0, <2>1, ItemCommands, Zenon
<1>2. [do |-> "subvolumes", item |-> x, on |-> "device"] \in Into(layout, {})
  BY WriteCommands, Zenon
<1>3. [do |-> "subvolumes", item |-> x, on |-> "mapper"] \in Into(layout, {x})
  BY WriteCommands, Zenon
<1>4. "device" \in Sides /\ "mapper" \in Sides
  BY DEF Sides
<1>5. Subvolumes(x, "device") \in Seq(Into(layout, {}))
  <2> DEFINE c == [do |-> "mountTmp", item |-> x, on |-> "device"]
             d == [do |-> "subvolumes", item |-> x, on |-> "device"]
             e == [do |-> "umount", item |-> x, on |-> "device"]
  <2>1. Subvolumes(x, "device") = (<<c>> \o <<d>>) \o <<e>>
    BY Zenon DEF Subvolumes, Do
  <2>2. c \in Into(layout, {}) /\ d \in Into(layout, {}) /\ e \in Into(layout, {})
    BY <1>1, <1>2, <1>4, Zenon
  <2> HIDE DEF c, d, e
  <2> QED BY <2>1, <2>2, JoinedSeq, Zenon
<1>6. ASSUME NEW X, x \in X
      PROVE  Subvolumes(x, "mapper") \in Seq(Into(layout, X))
  <2> DEFINE c == [do |-> "mountTmp", item |-> x, on |-> "mapper"]
             d == [do |-> "subvolumes", item |-> x, on |-> "mapper"]
             e == [do |-> "umount", item |-> x, on |-> "mapper"]
  <2>1. Subvolumes(x, "mapper") = (<<c>> \o <<d>>) \o <<e>>
    BY Zenon DEF Subvolumes, Do
  <2>2. c \in Into(layout, {}) /\ d \in Into(layout, {x}) /\ e \in Into(layout, {})
    BY <1>1, <1>3, <1>4, Zenon
  <2> HIDE DEF c, d, e
  <2>3. c \in Into(layout, X) /\ d \in Into(layout, X) /\ e \in Into(layout, X)
    BY <1>6, <2>2 DEF Into
  <2> QED BY <2>1, <2>3, JoinedSeq, Zenon
<1> QED BY <1>5, <1>6

\* A line that writes into no container writes into none but those of X.
LEMMA IntoGrows ==
  ASSUME NEW X
  PROVE  Seq(Into(layout, {})) \subseteq Seq(Into(layout, X))
<1>1. Into(layout, {}) \subseteq Into(layout, X)
  BY Classes, Zenon
<1> QED BY <1>1, SeqUnion, Zenon

\* create_btrfs_volumes for one item.
LEMMA BtrfsType ==
  ASSUME NEW x \in Items(layout), NEW X, Fresh(x) /\ Encrypted(x) => x \in X
  PROVE  CreateBtrfsVolumes(x) \in Seq(Into(layout, X))
<1>0. Seq(Into(layout, {})) \subseteq Seq(Into(layout, X))
  BY IntoGrows, Zenon
<1>1. CASE x.fs # "btrfs" \/ ~Fresh(x)
  <2>1. CreateBtrfsVolumes(x) = <<>>
    BY <1>1, Zenon DEF CreateBtrfsVolumes
  <2> QED BY <1>0, <2>1, JoinedSeq, Zenon
<1>2. CASE x.fs = "btrfs" /\ Fresh(x)
  <2>1. x \in NewItems(layout)
    BY <1>2 DEF Fresh, NewItems, Kept
  <2>2. CASE ~Encrypted(x)
    <3>1. CreateBtrfsVolumes(x) = Subvolumes(x, "device")
      BY <1>2, <2>2, Zenon DEF CreateBtrfsVolumes
    <3>2. CreateBtrfsVolumes(x) \in Seq(Into(layout, {}))
      BY <2>1, <3>1, SubvolumesType, Zenon
    <3> QED BY <1>0, <3>2, Zenon
  <2>3. CASE Encrypted(x)
    <3> DEFINE c == [do |-> "unlockIfClosed", item |-> x, on |-> "mapper"]
               d == [do |-> "lock", item |-> x, on |-> "device"]
    <3>1. CreateBtrfsVolumes(x) = (<<c>> \o Subvolumes(x, "mapper")) \o <<d>>
      BY <1>2, <2>3, Zenon DEF CreateBtrfsVolumes, Do
    <3>2. c \in Into(layout, {})
      BY <2>1, WriteCommands, Zenon
    <3>3. d \in Into(layout, {})
      <4>1. "lock" \in Harmless /\ "device" \in Sides
        BY DEF Harmless, Sides
      <4> QED BY <4>1, ItemCommands, Zenon
    <3> HIDE DEF c, d
    <3>4. <<c>> \in Seq(Into(layout, X)) /\ <<d>> \in Seq(Into(layout, X))
      BY <3>2, <3>3, Classes, JoinedSeq, Zenon
    <3>5. Subvolumes(x, "mapper") \in Seq(Into(layout, X))
      BY <1>2, <2>1, <2>3, SubvolumesType, Zenon
    <3> QED BY <3>1, <3>4, <3>5, JoinedSeq, Zenon
  <2> QED BY <2>2, <2>3
<1> QED BY <1>1, <1>2

\* _format_lvm_vols for one volume.
LEMMA FormatVolumeType ==
  ASSUME NEW x \in NewItems(layout), NEW X, Encrypted(x) => x \in X
  PROVE  FormatVolume(x) \in Seq(Into(layout, X))
<1>0. Seq(Into(layout, {})) \subseteq Seq(Into(layout, X))
  BY IntoGrows, Zenon
<1>1. /\ Where(x) = IF Encrypted(x) THEN "mapper" ELSE "device"
      /\ FormatVolume(x) = <<[do |-> "mkfs", item |-> x, on |-> Where(x)]>>
                           \o IF x.fs = "btrfs" THEN Subvolumes(x, Where(x)) ELSE <<>>
  BY Zenon DEF FormatVolume, Where, Do
<1>2. [do |-> "mkfs", item |-> x, on |-> Where(x)] \in Into(layout, X)
  <2>1. CASE Encrypted(x)
    <3>1. [do |-> "mkfs", item |-> x, on |-> "mapper"] \in Into(layout, {x})
      BY WriteCommands, Zenon
    <3>2. [do |-> "mkfs", item |-> x, on |-> "mapper"] \in Into(layout, X)
      BY <2>1, <3>1 DEF Into
    <3> QED BY <1>1, <2>1, <3>2, Zenon
  <2>2. CASE ~Encrypted(x)
    <3>1. [do |-> "mkfs", item |-> x, on |-> "device"] \in Into(layout, {})
      BY WriteCommands, Zenon
    <3> QED BY <1>1, <2>2, <3>1, Classes, Zenon
  <2> QED BY <2>1, <2>2
<1>3. Subvolumes(x, Where(x)) \in Seq(Into(layout, X))
  <2>1. CASE Encrypted(x)
    BY <1>1, <2>1, SubvolumesType, Zenon
  <2>2. CASE ~Encrypted(x)
    <3>1. Subvolumes(x, Where(x)) \in Seq(Into(layout, {}))
      BY <1>1, <2>2, SubvolumesType, Zenon
    <3> QED BY <1>0, <3>1, Zenon
  <2> QED BY <2>1, <2>2
<1>4. <<>> \in Seq(Into(layout, X)) /\ <<[do |-> "mkfs", item |-> x, on |-> Where(x)]>> \in Seq(Into(layout, X))
  BY <1>2, JoinedSeq, Zenon
<1> HIDE DEF Where
<1>5. CASE x.fs = "btrfs"
  BY <1>1, <1>3, <1>4, <1>5, JoinedSeq, Zenon
<1>6. CASE x.fs # "btrfs"
  BY <1>1, <1>4, <1>6, JoinedSeq, Zenon
<1> QED BY <1>5, <1>6

\* What is formatted on a device, or of it when there is LVM, is safe.
LEMMA FormatDeviceType ==
  ASSUME LayoutOk, NEW m \in ToSet(layout.devices)
  PROVE  FormatDevice(m) \in Safe(layout) /\ FormatBootPartition(m) \in Safe(layout)
<1>0. m.parts \in Seq(Item) /\ \A x \in ToSet(m.parts) : x \in Items(layout)
  BY LayoutType, ItemsType, Zenon
<1> DEFINE X == {x \in ToSet(m.parts) : Fresh(x) /\ Encrypted(x)}
           t == [i \in DOMAIN m.parts |-> CreateBtrfsVolumes(m.parts[i])]
           K == Seq(Into(layout, X))
<1>1. FormatDevice(m) = FormatPartitions(m.parts) \o FlattenSeq(t)
  BY Zenon DEF FormatDevice, Each
<1>2. DOMAIN t = DOMAIN m.parts /\ \A i \in DOMAIN m.parts : t[i] = CreateBtrfsVolumes(m.parts[i])
  OBVIOUS
<1>3. t = [i \in DOMAIN m.parts |-> t[i]]
  OBVIOUS
<1> HIDE DEF t
<1>4. \A i \in DOMAIN m.parts : t[i] \in K
  <2>1. \A i \in DOMAIN m.parts : m.parts[i] \in ToSet(m.parts)
    BY Zenon DEF ToSet
  <2>2. \A x \in ToSet(m.parts) : Fresh(x) /\ Encrypted(x) => x \in X
    BY Zenon
  <2> HIDE DEF X
  <2> QED BY <1>0, <1>2, <2>1, <2>2, BtrfsType, Zenon
<1>5. FlattenSeq(t) \in K
  <2>1. <<>> \in K /\ \A a, b \in K : a \o b \in K
    BY JoinedSeq, Zenon
  <2> HIDE DEF K
  <2>2. t \in Seq(K)
    BY <1>0, <1>2, <1>3, <1>4, PartsIn, Zenon
  <2> QED BY <2>1, <2>2, FlattenIn, Zenon
<1>6. /\ FormatPartitions(m.parts) \in Safe(layout)
      /\ FormatPartitions(m.parts) \in Seq(Steady(layout))
      /\ \A x \in X : \E c \in ToSet(FormatPartitions(m.parts)) : Opens(c, x)
  BY <1>0, FormatPartitionsType, Zenon
<1>7. FormatDevice(m) \in Safe(layout)
  <2> HIDE DEF X
  <2> QED BY <1>1, <1>5, <1>6, SafeOpened, Zenon
<1>8. FormatBootPartition(m) \in Safe(layout)
  <2> DEFINE boots == {i \in DOMAIN m.parts : m.parts[i].boot /\ m.parts[i].at # Nowhere}
             b == CHOOSE i \in boots : \A j \in boots : i <= j
  <2>1. FormatBootPartition(m) = IF boots = {} THEN <<>> ELSE Format(m.parts[b])
    BY Zenon DEF FormatBootPartition
  <2>2. CASE boots = {}
    <3>1. <<>> \in Seq(Into(layout, {}))
      BY JoinedSeq, Zenon
    <3> QED BY <2>1, <2>2, <3>1, Classes, Zenon
  <2>3. CASE boots # {}
    <3>1. boots \in SUBSET Nat
      BY <1>0
    <3>2. \E i \in boots : \A j \in boots : i <= j
      <4> HIDE DEF boots
      <4> QED BY <2>3, <3>1, LeastNumber, Zenon
    <3>3. b \in boots
      <4> HIDE DEF boots
      <4> QED BY <3>2, Zenon
    <3>4. m.parts[b] \in Items(layout)
      <4>1. b \in DOMAIN m.parts
        BY <3>3
      <4> HIDE DEF b
      <4> QED BY <1>0, <4>1, Zenon DEF ToSet
    <3> HIDE DEF b, boots
    <3> QED BY <2>1, <2>3, <3>4, FormatType, Zenon
  <2> QED BY <2>2, <2>3
<1> QED BY <1>7, <1>8

-----------------------------------------------------------------------------
(* What is sorted *)

\* A function on 1 .. c is a sequence.
LEMMA NumberedSeq ==
  ASSUME NEW S, NEW c \in Nat, NEW t, t = [i \in 1 .. c |-> t[i]], \A i \in 1 .. c : t[i] \in S
  PROVE  t \in Seq(S)
<1>1. t \in [1 .. c -> S]
  OBVIOUS
<1> QED BY <1>1

StrictOrder(S, R) ==
  /\ \A x \in S : <<x, x>> \notin R
  /\ \A x, y, z \in S : <<x, y>> \in R /\ <<y, z>> \in R => <<x, z>> \in R
  /\ \A x, y \in S : x # y => <<x, y>> \in R \/ <<y, x>> \in R

Lower(S, R, x) == {y \in S : <<y, x>> \in R}

\* Ranks, for the sets b[x] of what is below x.
LEMMA RanksBelow ==
  ASSUME NEW S, IsFiniteSet(S), NEW R,
         StrictOrder(S, R), NEW b, \A x \in S : b[x] = Lower(S, R, x)
  PROVE  /\ Cardinality(S) \in Nat
         /\ \A i \in 1 .. Cardinality(S) : \E x \in S : Cardinality(b[x]) = i - 1
<1>1. /\ Cardinality(S) \in Nat
      /\ \A i \in 1 .. Cardinality(S) :
           \E x \in S : Cardinality({y \in S : <<y, x>> \in R}) = i - 1
  BY Ranks, Zenon DEF StrictOrder
<1>2. \A i \in 1 .. Cardinality(S) : \E x \in S : Cardinality(Lower(S, R, x)) = i - 1
  BY <1>1, Zenon DEF Lower
<1> QED BY <1>1, <1>2, Zenon

\* The partitions of a device in the order of their numbers.
LEMMA ByNumberType ==
  ASSUME NEW S, IsFiniteSet(S), S \subseteq NodeName, NEW d, \A n \in S : n[1] = d /\ n[2] \in Nat
  PROVE  ByNumber(S) \in Seq(S)
<1> DEFINE R == {p \in S \X S : p[1][2] < p[2][2]}
           b == [x \in S |-> {y \in S : y[2] < x[2]}]
           t == ByNumber(S)
           c == Cardinality(S)
           u(i) == CHOOSE x \in S : Cardinality({y \in S : y[2] < x[2]}) = i - 1
<1>1. \A x, y \in S : <<x, y>> \in R <=> x[2] < y[2]
  OBVIOUS
<1>2. \A x, y \in S : x[2] = y[2] => x = y
  BY DEF NodeName
<1>3. \A x \in S : x[2] \in Nat
  OBVIOUS
<1>4. t = [i \in 1 .. c |-> u(i)]
  BY Zenon DEF ByNumber, Sorted
<1>5. \A x \in S : b[x] = {y \in S : y[2] < x[2]}
  BY Zenon
<1> HIDE DEF R, b
<1>6. \A x \in S : b[x] = Lower(S, R, x)
  BY <1>1, <1>5 DEF Lower
<1>7. \A x \in S : <<x, x>> \notin R
  BY <1>1, <1>3
<1>8. \A x, y, z \in S : <<x, y>> \in R /\ <<y, z>> \in R => <<x, z>> \in R
  BY <1>1, <1>3
<1>9. \A x, y \in S : x # y => <<x, y>> \in R \/ <<y, x>> \in R
  BY <1>1, <1>2, <1>3
<1>10. c \in Nat /\ \A i \in 1 .. c : \E x \in S : Cardinality(b[x]) = i - 1
  <2>1. StrictOrder(S, R)
    BY <1>7, <1>8, <1>9, Zenon DEF StrictOrder
  <2>2. IsFiniteSet(S) /\ \A x \in S : b[x] = Lower(S, R, x)
    BY <1>6, Zenon
  <2> HIDE DEF c, t, u
  <2>3. Cardinality(S) \in Nat /\ \A i \in 1 .. Cardinality(S) : \E x \in S : Cardinality(b[x]) = i - 1
    BY ONLY <2>1, <2>2, RanksBelow
  <2> QED BY <2>3 DEF c
<1>11. \A i \in 1 .. c : \E x \in S : Cardinality({y \in S : y[2] < x[2]}) = i - 1
  BY <1>5, <1>10, Zenon
<1>12. \A i \in 1 .. c : u(i) \in S
  BY <1>11, Zenon
<1> HIDE DEF t, c, u
<1>13. t = [i \in 1 .. c |-> t[i]] /\ \A i \in 1 .. c : t[i] \in S
  BY <1>4, <1>12
<1>14. t \in Seq(S)
  BY <1>10, <1>13, NumberedSeq, Zenon
<1> QED BY <1>14 DEF t

\* The mount points of the subvolumes in the order of their paths.
LEMMA PlacesType ==
  ASSUME NEW S, IsFiniteSet(S), S \subseteq Directory
  PROVE  Sorted(S, Before) \in Seq(S)
<1> DEFINE R == {p \in S \X S : Before(p[1], p[2])}
           b == [x \in S |-> {y \in S : Before(y, x)}]
           t == Sorted(S, Before)
           c == Cardinality(S)
           u(i) == CHOOSE x \in S : Cardinality({y \in S : Before(y, x)}) = i - 1
<1>1. \A x, y \in S : <<x, y>> \in R <=> Before(x, y)
  OBVIOUS
<1>4. t = [i \in 1 .. c |-> u(i)]
  BY Zenon DEF Sorted
<1>5. \A x \in S : b[x] = {y \in S : Before(y, x)}
  BY Zenon
<1> HIDE DEF R, b
<1>6. \A x \in S : b[x] = Lower(S, R, x)
  BY <1>1, <1>5 DEF Lower
<1>7. \A x \in S : <<x, x>> \notin R
  BY <1>1, BeforeIsStrict, Zenon
<1>8. \A x, y, z \in S : <<x, y>> \in R /\ <<y, z>> \in R => <<x, z>> \in R
  <2>1. \A x, y, z \in Directory : Before(x, y) /\ Before(y, z) => Before(x, z)
    BY BeforeIsStrict, Zenon
  <2> QED BY <1>1, <2>1, Zenon
<1>9. \A x, y \in S : x # y => <<x, y>> \in R \/ <<y, x>> \in R
  <2>1. \A x, y \in Directory : x # y => Before(x, y) \/ Before(y, x)
    BY BeforeIsStrict, Zenon
  <2> QED BY <1>1, <2>1, Zenon
<1>10. c \in Nat /\ \A i \in 1 .. c : \E x \in S : Cardinality(b[x]) = i - 1
  <2>1. StrictOrder(S, R)
    BY <1>7, <1>8, <1>9, Zenon DEF StrictOrder
  <2>2. IsFiniteSet(S) /\ \A x \in S : b[x] = Lower(S, R, x)
    BY <1>6, Zenon
  <2> HIDE DEF c, t, u
  <2>3. Cardinality(S) \in Nat /\ \A i \in 1 .. Cardinality(S) : \E x \in S : Cardinality(b[x]) = i - 1
    BY ONLY <2>1, <2>2, RanksBelow
  <2> QED BY <2>3 DEF c
<1>11. \A i \in 1 .. c : \E x \in S : Cardinality({y \in S : Before(y, x)}) = i - 1
  BY <1>5, <1>10, Zenon
<1>12. \A i \in 1 .. c : u(i) \in S
  BY <1>11, Zenon
<1> HIDE DEF t, c, u
<1>13. t = [i \in 1 .. c |-> t[i]] /\ \A i \in 1 .. c : t[i] \in S
  BY <1>4, <1>12
<1>14. t \in Seq(S)
  BY <1>10, <1>13, NumberedSeq, Zenon
<1> QED BY <1>14 DEF t

\* The entries of s in the order of their mount points k.
LEMMA OrderType ==
  ASSUME NEW n \in Nat, NEW S, S \in SUBSET (1 .. n), NEW k, \A i \in S : k[i] \in Directory,
         NEW t, t = [i \in 1 .. Cardinality(S) |-> t[i]],
         \A i \in 1 .. Cardinality(S) :
           t[i] = CHOOSE x \in S :
                    Cardinality({y \in S : Before(k[y], k[x]) \/ (k[y] = k[x] /\ y < x)}) = i - 1
  PROVE  t \in Seq(S)
<1> DEFINE L(x, y) == Before(k[x], k[y]) \/ (k[x] = k[y] /\ x < y)
           R == {p \in S \X S : L(p[1], p[2])}
           b == [x \in S |-> {y \in S : L(y, x)}]
           c == Cardinality(S)
<1>0. IsFiniteSet(S)
  <2>1. 1 \in Int /\ n \in Int
    OBVIOUS
  <2>2. IsFiniteSet(1 .. n)
    BY <2>1, FS_Interval, Zenon
  <2> QED BY <2>2, FS_Subset, Zenon
<1>1. \A x, y \in S : <<x, y>> \in R <=> L(x, y)
  OBVIOUS
<1>2. \A x \in S : x \in Nat
  OBVIOUS
<1>3. \A x \in S : ~L(x, x)
  <2>1. \A x \in S : ~Before(k[x], k[x])
    BY BeforeIsStrict, Zenon
  <2> QED BY <1>2, <2>1
<1>4. \A x, y, z \in S : L(x, y) /\ L(y, z) => L(x, z)
  <2>1. \A d, e, f \in Directory : Before(d, e) /\ Before(e, f) => Before(d, f)
    BY BeforeIsStrict, Zenon
  <2>2. \A x, y, z \in S : x < y /\ y < z => x < z
    BY <1>2
  <2> QED BY <2>1, <2>2, Zenon
<1>5. \A x, y \in S : x # y => L(x, y) \/ L(y, x)
  <2>1. \A d, e \in Directory : d # e => Before(d, e) \/ Before(e, d)
    BY BeforeIsStrict, Zenon
  <2>2. \A x, y \in S : x # y => x < y \/ y < x
    BY <1>2
  <2> QED BY <2>1, <2>2, Zenon
<1>6. \A i \in 1 .. c : t[i] = CHOOSE x \in S : Cardinality({y \in S : L(y, x)}) = i - 1
  BY Zenon
<1>7. \A x \in S : b[x] = {y \in S : L(y, x)}
  BY Zenon
<1> HIDE DEF R, L, b
<1>8. \A x \in S : b[x] = Lower(S, R, x)
  BY <1>1, <1>7 DEF Lower
<1>9. StrictOrder(S, R)
  BY <1>1, <1>3, <1>4, <1>5, Zenon DEF StrictOrder
<1>10. c \in Nat /\ \A i \in 1 .. c : \E x \in S : Cardinality(b[x]) = i - 1
  <2> HIDE DEF c
  <2>1. Cardinality(S) \in Nat /\ \A i \in 1 .. Cardinality(S) : \E x \in S : Cardinality(b[x]) = i - 1
    <3>1. IsFiniteSet(S) /\ StrictOrder(S, R) /\ \A x \in S : b[x] = Lower(S, R, x)
      BY <1>0, <1>8, <1>9, Zenon
    <3> QED BY ONLY <3>1, RanksBelow
  <2> QED BY <2>1 DEF c
<1>11. \A i \in 1 .. c : \E x \in S : Cardinality({y \in S : L(y, x)}) = i - 1
  BY <1>7, <1>10, Zenon
<1>12. \A i \in 1 .. c : t[i] \in S
  <2> HIDE DEF c
  <2> QED BY <1>6, <1>11, Zenon
<1> QED BY <1>10, <1>12, NumberedSeq, Zenon

-----------------------------------------------------------------------------
(* The parts of the line that are made from lists *)

\* A sequence of elements of V is a sequence over V.
LEMMA SeqWithin ==
  ASSUME NEW T, NEW s \in Seq(T), NEW V, \A x \in ToSet(s) : x \in V
  PROVE  s \in Seq(V)
<1>1. DOMAIN s = 1 .. Len(s) /\ Len(s) \in Nat /\ s = [i \in 1 .. Len(s) |-> s[i]]
  OBVIOUS
<1>2. \A i \in 1 .. Len(s) : s[i] \in V
  BY ToSetOfSeq, Zenon
<1> QED BY <1>1, <1>2, NumberedSeq, Zenon

\* get_all_volumes lists volumes.
LEMMA AllVolumesType ==
  ASSUME LayoutOk
  PROVE  AllVolumes \in Seq(Volumes(layout))
<1> DEFINE K == Seq(Volumes(layout))
           t == [i \in DOMAIN layout.groups |-> layout.groups[i].volumes]
<1>1. AllVolumes = FlattenSeq(t)
  BY Zenon DEF AllVolumes, Each
<1>2. ASSUME NEW i \in DOMAIN layout.groups
      PROVE  t[i] \in K
  <2>1. layout.groups[i] \in ToSet(layout.groups)
    BY Zenon DEF ToSet
  <2>2. t[i] = layout.groups[i].volumes
    OBVIOUS
  <2> HIDE DEF t
  <2>3. t[i] \in Seq(Item) /\ \A x \in ToSet(t[i]) : x \in Volumes(layout)
    BY <2>1, <2>2, LayoutType, ItemsType, Zenon
  <2> QED BY <2>3, SeqWithin, Zenon
<1>3. DOMAIN t = DOMAIN layout.groups /\ t = [i \in DOMAIN layout.groups |-> t[i]]
  OBVIOUS
<1>4. <<>> \in K /\ \A a, b \in K : a \o b \in K
  BY JoinedSeq, Zenon
<1> HIDE DEF t, K
<1>5. layout.groups \in Seq(Group)
  BY LayoutType, Zenon
<1>6. t \in Seq(K)
  BY <1>2, <1>3, <1>5, PartsIn, Zenon
<1>7. FlattenSeq(t) \in K
  BY <1>4, <1>6, FlattenIn, Zenon
<1> QED BY <1>1, <1>7 DEF K

\* Every volume is a new item.
LEMMA VolumeItems ==
  ASSUME LayoutOk, NEW x \in Volumes(layout)
  PROVE  x \in NewItems(layout) /\ x \in Items(layout)
<1>1. PICK g \in ToSet(layout.groups) : x \in ToSet(g.volumes)
  BY ItemsType, Zenon
<1>2. x.status = "create" /\ x \in Items(layout)
  BY <1>1, LegalItems, ItemsType, Zenon
<1>3. ~Kept(x)
  BY <1>2 DEF Kept
<1> QED BY <1>2, <1>3, Zenon DEF NewItems

\* The line of a list whose entries have their lines in K.
LEMMA ListLine ==
  ASSUME NEW C, NEW K, K = Seq(C), NEW T, NEW s \in Seq(T),
         NEW t, DOMAIN t = DOMAIN s, t = [i \in DOMAIN s |-> t[i]],
         \A i \in DOMAIN s : t[i] \in K
  PROVE  /\ FlattenSeq(t) \in K
         /\ \A i \in DOMAIN s : \A c \in ToSet(t[i]) : c \in ToSet(FlattenSeq(t))
<1>1. <<>> \in K /\ (\A a, b \in K : a \o b \in K) /\ K \subseteq Seq(C)
  BY JoinedSeq, Zenon
<1> QED BY <1>1, EachLine, Zenon

\* _encrypt_partitions and _encrypt_lvm_vols open every item they encrypt.
LEMMA EncryptHereType ==
  ASSUME LayoutOk, NEW T, NEW s \in Seq(T), \A x \in ToSet(s) : x \in Items(layout)
  PROVE  /\ Each(EncryptHere, s) \in Seq(Into(layout, {}))
         /\ \A x \in ToSet(s) :
              IsEncryptedHere(x) => \E c \in ToSet(Each(EncryptHere, s)) : Opens(c, x)
<1> DEFINE K == Seq(Into(layout, {}))
           t == [i \in DOMAIN s |-> EncryptHere(s[i])]
<1>1. Each(EncryptHere, s) = FlattenSeq(t)
  BY Zenon DEF Each
<1>2. DOMAIN t = DOMAIN s /\ t = [i \in DOMAIN s |-> t[i]]
  OBVIOUS
<1>3. \A i \in DOMAIN s : t[i] = EncryptHere(s[i])
  OBVIOUS
<1> HIDE DEF t
<1>4. \A i \in DOMAIN s : s[i] \in ToSet(s) /\ s[i] \in Items(layout)
  BY Zenon DEF ToSet
<1>5. ASSUME NEW i \in DOMAIN s
      PROVE  t[i] \in K
  <2>1. CASE IsEncryptedHere(s[i])
    <3>1. s[i] \in NewItems(layout) /\ t[i] = Encrypt(s[i])
      BY <1>3, <1>4, <2>1, Zenon DEF EncryptHere, IsEncryptedHere, NewItems
    <3> QED BY <3>1, EncryptType, Zenon
  <2>2. CASE ~IsEncryptedHere(s[i])
    <3>1. t[i] = <<>>
      BY <1>3, <2>2, Zenon DEF EncryptHere
    <3> QED BY <3>1, JoinedSeq, Zenon
  <2> QED BY <2>1, <2>2
<1>6. /\ FlattenSeq(t) \in K
      /\ \A i \in DOMAIN s : \A c \in ToSet(t[i]) : c \in ToSet(FlattenSeq(t))
  BY <1>2, <1>5, ListLine, Zenon
<1>7. ASSUME NEW x \in ToSet(s), IsEncryptedHere(x)
      PROVE  \E c \in ToSet(FlattenSeq(t)) : Opens(c, x)
  <2>1. PICK i \in DOMAIN s : x = s[i]
    BY Zenon DEF ToSet
  <2>2. x \in NewItems(layout) /\ t[i] = Encrypt(x)
    BY <1>3, <1>4, <1>7, <2>1, Zenon DEF EncryptHere, IsEncryptedHere, NewItems
  <2>3. \E c \in ToSet(t[i]) : Opens(c, x)
    BY <2>2, EncryptType, Zenon
  <2> QED BY <1>6, <2>3, Zenon
<1> QED BY <1>1, <1>6, <1>7, Zenon

\* _format_lvm_vols writes into the containers of volumes.
LEMMA FormatVolumesType ==
  ASSUME LayoutOk, NEW X, \A x \in Volumes(layout) : Encrypted(x) => x \in X
  PROVE  Each(FormatVolume, AllVolumes) \in Seq(Into(layout, X))
<1> DEFINE s == AllVolumes
           K == Seq(Into(layout, X))
           t == [i \in DOMAIN s |-> FormatVolume(s[i])]
<1>1. Each(FormatVolume, s) = FlattenSeq(t)
  BY Zenon DEF Each
<1>2. DOMAIN t = DOMAIN s /\ t = [i \in DOMAIN s |-> t[i]]
  OBVIOUS
<1>3. \A i \in DOMAIN s : t[i] = FormatVolume(s[i])
  OBVIOUS
<1> HIDE DEF t
<1>4. s \in Seq(Volumes(layout))
  BY AllVolumesType
<1> HIDE DEF s
<1>5. \A i \in DOMAIN s : s[i] \in Volumes(layout)
  BY <1>4, ToSetOfSeq, Zenon
<1>6. ASSUME NEW i \in DOMAIN s
      PROVE  t[i] \in K
  <2>1. s[i] \in NewItems(layout) /\ (Encrypted(s[i]) => s[i] \in X)
    BY <1>5, VolumeItems, Zenon
  <2> QED BY <1>3, <2>1, FormatVolumeType, Zenon
<1>7. FlattenSeq(t) \in K
  BY <1>2, <1>4, <1>6, ListLine, Zenon
<1> QED BY <1>1, <1>7 DEF s

\* The containers of the volumes are closed.
LEMMA LockVolumesType ==
  ASSUME LayoutOk
  PROVE  Each(LockVolume, AllVolumes) \in Seq(Into(layout, {}))
<1> DEFINE s == AllVolumes
           K == Seq(Into(layout, {}))
           t == [i \in DOMAIN s |-> LockVolume(s[i])]
<1>1. Each(LockVolume, s) = FlattenSeq(t)
  BY Zenon DEF Each
<1>2. DOMAIN t = DOMAIN s /\ t = [i \in DOMAIN s |-> t[i]]
  OBVIOUS
<1>3. \A i \in DOMAIN s : t[i] = LockVolume(s[i])
  OBVIOUS
<1> HIDE DEF t
<1>4. s \in Seq(Volumes(layout))
  BY AllVolumesType
<1> HIDE DEF s
<1>5. \A i \in DOMAIN s : s[i] \in Volumes(layout)
  BY <1>4, ToSetOfSeq, Zenon
<1>6. ASSUME NEW i \in DOMAIN s
      PROVE  t[i] \in K
  <2>1. s[i] \in Items(layout) /\ "lock" \in Harmless /\ "device" \in Sides
    <3>1. "lock" \in Harmless /\ "device" \in Sides
      BY DEF Harmless, Sides
    <3> QED BY <1>5, <3>1, VolumeItems, Zenon
  <2>2. [do |-> "lock", item |-> s[i], on |-> "device"] \in Into(layout, {})
    BY <2>1, ItemCommands, Zenon
  <2>3. t[i] = <<[do |-> "lock", item |-> s[i], on |-> "device"]>> \/ t[i] = <<>>
    BY <1>3, Zenon DEF LockVolume, Do
  <2> QED BY <2>2, <2>3, JoinedSeq, Zenon
<1>7. FlattenSeq(t) \in K
  BY <1>2, <1>4, <1>6, ListLine, Zenon
<1> QED BY <1>1, <1>7 DEF s

\* _import_lvm activates the volumes.
LEMMA ImportVolumesType ==
  ASSUME LayoutOk
  PROVE  Each(ImportVolume, AllVolumes) \in Seq(Into(layout, {}))
<1> DEFINE s == AllVolumes
           K == Seq(Into(layout, {}))
           t == [i \in DOMAIN s |-> ImportVolume(s[i])]
<1>1. Each(ImportVolume, s) = FlattenSeq(t)
  BY Zenon DEF Each
<1>2. DOMAIN t = DOMAIN s /\ t = [i \in DOMAIN s |-> t[i]]
  OBVIOUS
<1>3. \A i \in DOMAIN s : t[i] = ImportVolume(s[i])
  OBVIOUS
<1> HIDE DEF t
<1>4. s \in Seq(Volumes(layout))
  BY AllVolumesType
<1> HIDE DEF s
<1>5. \A i \in DOMAIN s : s[i] \in Volumes(layout)
  BY <1>4, ToSetOfSeq, Zenon
<1>6. ASSUME NEW i \in DOMAIN s
      PROVE  t[i] \in K
  <2>1. s[i] \in Items(layout) /\ "lvchange" \in Harmless /\ "device" \in Sides
    <3>1. "lvchange" \in Harmless /\ "device" \in Sides
      BY DEF Harmless, Sides
    <3> QED BY <1>5, <3>1, VolumeItems, Zenon
  <2>2. [do |-> "lvchange", item |-> s[i], on |-> "device"] \in Into(layout, {})
    BY <2>1, ItemCommands, Zenon
  <2>3. t[i] = <<[do |-> "lvchange", item |-> s[i], on |-> "device"]>>
    BY <1>3, Zenon DEF ImportVolume, Do
  <2> QED BY <2>2, <2>3, JoinedSeq, Zenon
<1>7. FlattenSeq(t) \in K
  BY <1>2, <1>4, <1>6, ListLine, Zenon
<1> QED BY <1>1, <1>7 DEF s

\* Unlocking for the mounts, and generate_key_files, write to no device.
LEMMA EncryptedItemsLines ==
  ASSUME LayoutOk
  PROVE  /\ Each(UnlockToMount, EncryptedItems) \in Seq(Into(layout, {}))
         /\ KeyFiles \in Seq(Into(layout, {}))
<1> DEFINE s == EncryptedItems
           K == Seq(Into(layout, {}))
           t == [i \in DOMAIN s |-> UnlockToMount(s[i])]
           u == [i \in DOMAIN s |-> KeyFile(s[i])]
<1>1. Each(UnlockToMount, s) = FlattenSeq(t) /\ Each(KeyFile, s) = FlattenSeq(u)
  BY Zenon DEF Each
<1>2. /\ DOMAIN t = DOMAIN s /\ t = [i \in DOMAIN s |-> t[i]]
      /\ DOMAIN u = DOMAIN s /\ u = [i \in DOMAIN s |-> u[i]]
  OBVIOUS
<1>3. \A i \in DOMAIN s : t[i] = UnlockToMount(s[i]) /\ u[i] = KeyFile(s[i])
  OBVIOUS
<1> HIDE DEF t, u
<1>4. s \in Seq(NewItems(layout))
  BY EncryptedItemsType
<1> HIDE DEF s
<1>5. \A i \in DOMAIN s : s[i] \in NewItems(layout) /\ s[i] \in Items(layout)
  BY <1>4, ToSetOfSeq, Zenon DEF NewItems
<1>6. ASSUME NEW i \in DOMAIN s
      PROVE  t[i] \in K /\ u[i] \in K
  <2>1. [do |-> "unlockIfClosed", item |-> s[i], on |-> "mapper"] \in Into(layout, {})
    BY <1>5, WriteCommands, Zenon
  <2>2. t[i] = <<[do |-> "unlockIfClosed", item |-> s[i], on |-> "mapper"]>>
    BY <1>3, Zenon DEF UnlockToMount, Do
  <2>3. "keyfile" \in Harmless /\ "passphrase" \in Harmless /\ "device" \in Sides
    BY DEF Harmless, Sides
  <2>4. /\ [do |-> "keyfile", item |-> s[i], on |-> "device"] \in Into(layout, {})
        /\ [do |-> "passphrase", item |-> s[i], on |-> "device"] \in Into(layout, {})
    BY <1>5, <2>3, ItemCommands, Zenon
  <2>5. \/ u[i] = <<>>
        \/ u[i] = <<[do |-> "keyfile", item |-> s[i], on |-> "device"]>>
        \/ u[i] = <<[do |-> "passphrase", item |-> s[i], on |-> "device"]>>
    BY <1>3, Zenon DEF KeyFile, Do
  <2>6. t[i] \in K
    BY <2>1, <2>2, JoinedSeq, Zenon
  <2>7. u[i] \in K
    BY <2>4, <2>5, JoinedSeq, Zenon
  <2> QED BY <2>6, <2>7
<1>7. FlattenSeq(t) \in K
  BY <1>2, <1>4, <1>6, ListLine, Zenon
<1>8. FlattenSeq(u) \in K
  BY <1>2, <1>4, <1>6, ListLine, Zenon
<1>9. KeyFiles = FlattenSeq(u) \/ KeyFiles = <<>>
  BY <1>1, Zenon DEF KeyFiles, s
<1>10. KeyFiles \in K
  BY <1>8, <1>9, JoinedSeq, Zenon
<1> QED BY <1>1, <1>7, <1>10 DEF s

\* Mounting an item writes to no device.
LEMMA MountItemType ==
  ASSUME LayoutOk, NEW x \in Items(layout)
  PROVE  MountItem(x) \in Seq(Into(layout, {}))
<1> DEFINE K == Seq(Into(layout, {}))
           MountAt(at) == <<[do |-> "mount", item |-> x, on |-> Where(x), at |-> Target(at)]>>
           s == Sorted(x.subvols, Before)
           t == [i \in DOMAIN s |-> MountAt(s[i])]
<1>1. MountItem(x) = IF x.subvols # {} THEN FlattenSeq(t)
                     ELSE IF x.at # Nowhere /\ ~(x.lv /\ x.fs = "btrfs") THEN MountAt(x.at)
                     ELSE IF x.fs = "swap" /\ ~x.lv THEN Do("swapon", x, "device")
                     ELSE <<>>
  BY Zenon DEF MountItem, Each
<1>2. x.at \in {Nowhere} \cup Directory /\ x.subvols \in SUBSET Directory
  <2>1. x \in Item
    BY ItemsType, Zenon
  <2> QED BY <2>1, Zenon DEF Item
<1>3. Where(x) \in Sides
  BY DEF Where, Sides
<1>4. ASSUME NEW at \in Directory
      PROVE  MountAt(at) \in K
  <2>1. Target(at) \in Directory
    BY DEF Directory, Target
  <2>2. [do |-> "mount", item |-> x, on |-> Where(x), at |-> Target(at)] \in Into(layout, {})
    BY <1>3, <2>1, ItemCommands, Zenon
  <2> QED BY <2>2, JoinedSeq, Zenon
<1>5. FlattenSeq(t) \in K
  <2>1. IsFiniteSet(x.subvols) /\ x.subvols \subseteq Directory
    BY <1>2, LegalItems, Zenon
  <2>2. s \in Seq(x.subvols)
    BY <2>1, PlacesType, Zenon
  <2>3. DOMAIN t = DOMAIN s /\ t = [i \in DOMAIN s |-> t[i]] /\ \A i \in DOMAIN s : t[i] = MountAt(s[i])
    OBVIOUS
  <2> HIDE DEF t, s, MountAt
  <2>4. \A i \in DOMAIN s : s[i] \in Directory
    BY <2>1, <2>2, ToSetOfSeq, Zenon
  <2>5. \A i \in DOMAIN s : t[i] \in K
    BY <1>4, <2>3, <2>4, Zenon
  <2> QED BY <2>2, <2>3, <2>5, ListLine, Zenon
<1>6. Do("swapon", x, "device") \in K
  <2>1. "swapon" \in Harmless /\ "device" \in Sides
    BY DEF Harmless, Sides
  <2>2. [do |-> "swapon", item |-> x, on |-> "device"] \in Into(layout, {})
    BY <2>1, ItemCommands, Zenon
  <2> QED BY <2>2, JoinedSeq, Zenon DEF Do
<1>7. x.at # Nowhere => MountAt(x.at) \in K
  BY <1>2, <1>4, Zenon
<1> HIDE DEF t, MountAt
<1> QED BY <1>1, <1>5, <1>6, <1>7, JoinedSeq, Zenon

\* Mounting the items of a device or group in their order neither.
LEMMA MountInOrderType ==
  ASSUME LayoutOk, NEW T, NEW s \in Seq(T), \A x \in ToSet(s) : x \in Items(layout)
  PROVE  MountInOrder(s) \in Seq(Into(layout, {}))
<1> DEFINE K == Seq(Into(layout, {}))
           S == {i \in DOMAIN s : s[i].id \notin Pvs}
           Key(i) == IF s[i].at = Nowhere THEN Root ELSE s[i].at
           Earlier(i, j) == Before(Key(i), Key(j)) \/ (Key(i) = Key(j) /\ i < j)
           k == [i \in DOMAIN s |-> Key(i)]
           c == Cardinality(S)
           o == [i \in 1 .. c |-> CHOOSE x \in S : Cardinality({y \in S : Earlier(y, x)}) = i - 1]
           t == [i \in DOMAIN o |-> MountItem(s[o[i]])]
<1>1. MountInOrder(s) = FlattenSeq(t)
  BY Zenon DEF MountInOrder, Each, Sorted
<1>2. DOMAIN s = 1 .. Len(s) /\ Len(s) \in Nat /\ \A i \in DOMAIN s : s[i] \in Items(layout)
  <2>1. \A i \in 1 .. Len(s) : s[i] \in Items(layout)
    BY ToSetOfSeq, Zenon
  <2> QED BY <2>1
<1>3. \A i \in DOMAIN s : Key(i) \in Directory
  <2> TAKE i \in DOMAIN s
  <2>1. s[i] \in Item
    BY <1>2, ItemsType, Zenon
  <2>2. s[i].at \in {Nowhere} \cup Directory
    BY <2>1, Zenon DEF Item
  <2>3. Root \in Directory
    BY DEF Root, Directory
  <2> QED BY <2>2, <2>3, Zenon
<1>4. S \in SUBSET (1 .. Len(s)) /\ \A i \in S : i \in DOMAIN s
  BY <1>2
<1>5. \A i \in DOMAIN s : k[i] = Key(i)
  OBVIOUS
<1>6. \A i \in S : k[i] \in Directory
  BY <1>3, <1>4, <1>5, Zenon
<1>7. c \in Nat
  <2>1. 1 \in Int /\ Len(s) \in Int
    BY <1>2
  <2>2. IsFiniteSet(1 .. Len(s))
    BY <2>1, FS_Interval, Zenon
  <2>3. IsFiniteSet(S)
    BY <1>4, <2>2, FS_Subset, Zenon
  <2> QED BY <2>3, FS_CardinalityType, Zenon
<1> DEFINE B(x) == {y \in S : Earlier(y, x)}
           D(x) == {y \in S : Before(k[y], k[x]) \/ (k[y] = k[x] /\ y < x)}
           u(i) == CHOOSE x \in S : Cardinality(B(x)) = i - 1
           v(i) == CHOOSE x \in S : Cardinality(D(x)) = i - 1
           p    == [i \in 1 .. c |-> v(i)]
<1>8. \A x \in S : B(x) = D(x)
  <2>1. \A x, y \in S : Earlier(y, x) <=> Before(k[y], k[x]) \/ (k[y] = k[x] /\ y < x)
    <3> HIDE DEF k, Key, S
    <3> QED BY <1>4, <1>5
  <2> HIDE DEF k, Earlier, S
  <2> QED BY <2>1
<1>9. \A i \in 1 .. c : u(i) = v(i)
  <2> HIDE DEF B, D, S, c
  <2> QED BY <1>8
<1>10. p = [i \in 1 .. c |-> p[i]] /\ \A i \in 1 .. c : p[i] = v(i)
  <2> HIDE DEF v, c
  <2> QED OBVIOUS
<1>11. p \in Seq(S)
  <2>1. /\ p = [i \in 1 .. Cardinality(S) |-> p[i]]
        /\ \A i \in 1 .. Cardinality(S) :
             p[i] = CHOOSE x \in S :
                      Cardinality({y \in S : Before(k[y], k[x]) \/ (k[y] = k[x] /\ y < x)}) = i - 1
    BY <1>10, Zenon
  <2> HIDE DEF p, S, k
  <2> QED BY <1>2, <1>4, <1>6, <2>1, OrderType, Zenon
<1>12. o = [i \in 1 .. c |-> u(i)]
  BY Zenon
<1>13. o = p
  <2> HIDE DEF o, u, v, c
  <2> QED BY <1>9, <1>12
<1>14. o \in Seq(S)
  BY <1>11, <1>13, Zenon
<1>15. DOMAIN t = DOMAIN o /\ t = [i \in DOMAIN o |-> t[i]] /\ \A i \in DOMAIN o : t[i] = MountItem(s[o[i]])
  <2> HIDE DEF o
  <2> QED OBVIOUS
<1> HIDE DEF t, o, S
<1>16. \A i \in DOMAIN o : o[i] \in S
  BY <1>14, ToSetOfSeq, Zenon
<1>17. \A i \in DOMAIN o : t[i] \in K
  BY <1>2, <1>4, <1>15, <1>16, MountItemType, Zenon
<1>18. FlattenSeq(t) \in K
  BY <1>14, <1>15, <1>17, ListLine, Zenon
<1> QED BY <1>1, <1>18

\* mount_ordered_layout writes to no device.
LEMMA MountLayoutType ==
  ASSUME LayoutOk
  PROVE  MountLayout \in Seq(Into(layout, {}))
<1> DEFINE K == Seq(Into(layout, {}))
<1>0. <<>> \in K /\ \A a, b \in K : a \o b \in K
  BY JoinedSeq, Zenon
<1>1. layout.devices \in Seq(Device) /\ layout.groups \in Seq(Group)
  BY LayoutType, Zenon
<1>2. \A i \in DOMAIN layout.devices : MountDevice(layout.devices[i]) \in K
  <2> TAKE i \in DOMAIN layout.devices
  <2>1. layout.devices[i] \in ToSet(layout.devices)
    BY Zenon DEF ToSet
  <2>2. /\ layout.devices[i].parts \in Seq(Item)
        /\ \A x \in ToSet(layout.devices[i].parts) : x \in Items(layout)
    BY <2>1, LayoutType, ItemsType, Zenon
  <2> QED BY <2>2, MountInOrderType, Zenon DEF MountDevice
<1>3. Each(MountDevice, layout.devices) \in K
  <2> DEFINE s == layout.devices
             t == [i \in DOMAIN s |-> MountDevice(s[i])]
  <2>1. Each(MountDevice, s) = FlattenSeq(t)
    BY Zenon DEF Each
  <2>2. DOMAIN t = DOMAIN s /\ t = [i \in DOMAIN s |-> t[i]] /\ \A i \in DOMAIN s : t[i] \in K
    BY <1>2
  <2> HIDE DEF t
  <2>3. FlattenSeq(t) \in K
    BY <1>1, <2>2, ListLine, Zenon
  <2> QED BY <2>1, <2>3
<1>4. MountPartitions \in K
  <2>1. CASE RootDevices = {}
    BY <1>3, <2>1, Zenon DEF MountPartitions
  <2>2. CASE RootDevices # {}
    <3> DEFINE s == [i \in DOMAIN layout.devices |-> i]
               t == [i \in DOMAIN s |-> IF s[i] = RootDevice THEN <<>> ELSE MountDevice(layout.devices[s[i]])]
    <3>1. MountPartitions = MountDevice(layout.devices[RootDevice]) \o FlattenSeq(t)
      BY <2>2, Zenon DEF MountPartitions, Each
    <3>2. RootDevice \in DOMAIN layout.devices
      <4>1. RootDevices \subseteq DOMAIN layout.devices
        BY DEF RootDevices
      <4>2. RootDevices \in SUBSET Nat
        BY <1>1, <4>1
      <4>3. \E i \in RootDevices : \A j \in RootDevices : i <= j
        BY <2>2, <4>2, LeastNumber, Zenon
      <4>4. RootDevice \in RootDevices
        BY <4>3, Zenon DEF RootDevice
      <4> QED BY <4>1, <4>4
    <3>3. DOMAIN s = DOMAIN layout.devices /\ \A i \in DOMAIN s : s[i] \in DOMAIN layout.devices
      OBVIOUS
    <3>4. /\ DOMAIN t = DOMAIN s /\ t = [i \in DOMAIN s |-> t[i]]
          /\ \A i \in DOMAIN s :
               t[i] = IF s[i] = RootDevice THEN <<>> ELSE MountDevice(layout.devices[s[i]])
      <4> HIDE DEF s
      <4> QED OBVIOUS
    <3>5. s \in Seq(DOMAIN layout.devices)
      <4>1. layout.devices \in Seq(Device) /\ DOMAIN s = DOMAIN layout.devices
            /\ s = [i \in DOMAIN layout.devices |-> s[i]]
        BY <1>1
      <4> HIDE DEF s
      <4> QED BY <3>3, <4>1, PartsIn, Zenon
    <3> HIDE DEF s, t
    <3>6. \A i \in DOMAIN s : t[i] \in K
      BY <1>0, <1>2, <3>3, <3>4, Zenon
    <3>7. FlattenSeq(t) \in K
      BY <3>4, <3>5, <3>6, ListLine, Zenon
    <3> QED BY <1>0, <1>2, <3>1, <3>2, <3>7, Zenon
  <2> QED BY <2>1, <2>2
<1>5. MountVolumes \in K
  <2> DEFINE s == layout.groups
             t == [i \in DOMAIN s |-> MountInOrder(s[i].volumes)]
  <2>1. MountVolumes = FlattenSeq(t)
    BY Zenon DEF MountVolumes, Each
  <2>2. DOMAIN t = DOMAIN s /\ t = [i \in DOMAIN s |-> t[i]]
        /\ \A i \in DOMAIN s : t[i] = MountInOrder(s[i].volumes)
    OBVIOUS
  <2> HIDE DEF t
  <2>3. ASSUME NEW i \in DOMAIN s
        PROVE  t[i] \in K
    <3>1. s[i] \in ToSet(s)
      BY Zenon DEF ToSet
    <3>2. s[i].volumes \in Seq(Item) /\ \A x \in ToSet(s[i].volumes) : x \in Items(layout)
      BY <3>1, LayoutType, ItemsType, Zenon
    <3> QED BY <2>2, <3>2, MountInOrderType, Zenon
  <2>4. FlattenSeq(t) \in K
    BY <1>1, <2>2, <2>3, ListLine, Zenon
  <2> QED BY <2>1, <2>4
<1>6. Each(ImportVolume, AllVolumes) \in K /\ Each(UnlockToMount, EncryptedItems) \in K
  BY ImportVolumesType, EncryptedItemsLines, Zenon
<1> DEFINE import == Each(ImportVolume, AllVolumes)
           unlock == Each(UnlockToMount, EncryptedItems)
<1>7. \/ MountLayout = unlock \o MountPartitions
      \/ MountLayout = ((unlock \o import) \o MountVolumes) \o MountPartitions
      \/ MountLayout = ((import \o unlock) \o MountVolumes) \o MountPartitions
      \/ MountLayout = (import \o MountVolumes) \o MountPartitions
  BY Zenon DEF MountLayout
<1> HIDE DEF K, import, unlock
<1>8. import \in K /\ unlock \in K
  BY <1>6 DEF import, unlock
<1>9. MountLayout \in K
  <2>1. unlock \o import \in K /\ import \o unlock \in K /\ import \o MountVolumes \in K
    BY <1>0, <1>5, <1>8, Zenon
  <2>2. (unlock \o import) \o MountVolumes \in K /\ (import \o unlock) \o MountVolumes \in K
    BY <1>0, <1>5, <2>1, Zenon
  <2>3. /\ unlock \o MountPartitions \in K /\ (import \o MountVolumes) \o MountPartitions \in K
        /\ ((unlock \o import) \o MountVolumes) \o MountPartitions \in K
        /\ ((import \o unlock) \o MountVolumes) \o MountPartitions \in K
    BY <1>0, <1>4, <1>8, <2>1, <2>2, Zenon
  <2> QED BY <1>7, <2>3, Zenon
<1> QED BY <1>9 DEF K

\* _setup_lvm writes into the containers that enc_mods maps.
LEMMA SetupLvmType ==
  ASSUME LayoutOk, NEW mapped \in SUBSET Nat
  PROVE  /\ CreateGroups(mapped) \in Seq(Quiet(layout))
         /\ PvCreate(mapped) \in Seq(Into(layout, {x \in Items(layout) : x.id \in mapped}))
<1> DEFINE K == Seq(Quiet(layout))
           Lines(g) == <<[do |-> "vgcreate", name |-> g.name, pvs |-> g.pvs, mapped |-> mapped]>>
                       \o Each(CreateAndAwait, g.volumes)
           s == layout.groups
           t == [i \in DOMAIN s |-> Lines(s[i])]
<1>0. <<>> \in K /\ \A a, b \in K : a \o b \in K
  BY JoinedSeq, Zenon
<1>1. CreateGroups(mapped) = FlattenSeq(t)
  BY Zenon DEF CreateGroups, Each
<1>2. DOMAIN t = DOMAIN s /\ t = [i \in DOMAIN s |-> t[i]] /\ \A i \in DOMAIN s : t[i] = Lines(s[i])
  OBVIOUS
<1>3. ASSUME NEW x \in Volumes(layout)
      PROVE  CreateAndAwait(x) \in K
  <2> DEFINE c == [do |-> "lvcreate", item |-> x, on |-> "device"]
             d == [do |-> "lvwait", item |-> x, on |-> "device"]
  <2>1. CreateAndAwait(x) = <<c>> \o <<d>>
    BY Zenon DEF CreateAndAwait, Do
  <2>2. "lvwait" \in Harmless /\ "device" \in Sides
    BY DEF Harmless, Sides
  <2>3. x \in Items(layout)
    BY VolumeItems, Zenon
  <2>4. c \in Quiet(layout) /\ d \in Into(layout, {})
    BY <2>2, <2>3, ItemCommands, Zenon
  <2> HIDE DEF c, d
  <2>5. d \in Quiet(layout)
    BY <2>4, Classes, Zenon
  <2> QED BY <2>1, <2>4, <2>5, JoinedSeq, Zenon
<1>4. ASSUME NEW g \in ToSet(layout.groups)
      PROVE  Lines(g) \in K
  <2> DEFINE p == g.volumes
             u == [i \in DOMAIN p |-> CreateAndAwait(p[i])]
  <2>1. Each(CreateAndAwait, p) = FlattenSeq(u)
    BY Zenon DEF Each
  <2>2. DOMAIN u = DOMAIN p /\ u = [i \in DOMAIN p |-> u[i]] /\ \A i \in DOMAIN p : u[i] = CreateAndAwait(p[i])
    OBVIOUS
  <2>3. p \in Seq(Item) /\ \A x \in ToSet(p) : x \in Volumes(layout)
    BY LayoutType, ItemsType, Zenon
  <2> HIDE DEF u, p
  <2>4. \A i \in DOMAIN p : p[i] \in Volumes(layout)
    BY <2>3, Zenon DEF ToSet
  <2>5. \A i \in DOMAIN p : u[i] \in K
    BY <1>3, <2>2, <2>4, Zenon
  <2>6. FlattenSeq(u) \in K
    BY <2>2, <2>3, <2>5, ListLine, Zenon
  <2>7. [do |-> "vgcreate", name |-> g.name, pvs |-> g.pvs, mapped |-> mapped] \in Quiet(layout)
    BY OtherCommands, Zenon
  <2>8. <<[do |-> "vgcreate", name |-> g.name, pvs |-> g.pvs, mapped |-> mapped]>> \in K
    BY <2>7, JoinedSeq, Zenon
  <2> QED BY <1>0, <2>1, <2>6, <2>8, Zenon DEF p
<1> HIDE DEF t, Lines
<1>5. \A i \in DOMAIN s : t[i] \in K
  BY <1>2, <1>4, Zenon DEF ToSet
<1>6. s \in Seq(Group)
  BY LayoutType, Zenon
<1>7. FlattenSeq(t) \in K
  BY <1>2, <1>5, <1>6, ListLine, Zenon
<1>8. PvCreate(mapped) \in Seq(Into(layout, {x \in Items(layout) : x.id \in mapped}))
  <2>1. Pvs = GroupPvs(layout)
    BY Zenon DEF Pvs, GroupPvs
  <2>2. PvCreate(mapped) = <<[do |-> "pvcreate", pvs |-> GroupPvs(layout), mapped |-> mapped]>>
    BY <2>1, Zenon DEF PvCreate
  <2>3. [do |-> "pvcreate", pvs |-> GroupPvs(layout), mapped |-> mapped]
          \in Into(layout, {x \in Items(layout) : x.id \in mapped})
    BY OtherCommands, Zenon
  <2> QED BY <2>2, <2>3, JoinedSeq, Zenon
<1> QED BY <1>1, <1>7, <1>8

\* Lines can be joined in any order.
LEMMA Associative ==
  ASSUME NEW S, NEW a \in Seq(S), NEW b \in Seq(S), NEW c \in Seq(S)
  PROVE  (a \o b) \o c = a \o (b \o c)
OBVIOUS

\* get_all_volumes lists all volumes.
LEMMA AllVolumesHas ==
  ASSUME LayoutOk, NEW x \in Volumes(layout)
  PROVE  x \in ToSet(AllVolumes)
<1> DEFINE s == layout.groups
           t == [i \in DOMAIN s |-> s[i].volumes]
<1>1. AllVolumes = FlattenSeq(t)
  BY Zenon DEF AllVolumes, Each
<1>2. DOMAIN t = DOMAIN s /\ t = [i \in DOMAIN s |-> t[i]] /\ \A i \in DOMAIN s : t[i] = s[i].volumes
  OBVIOUS
<1>3. s \in Seq(Group)
  BY LayoutType, Zenon
<1> HIDE DEF t, s
<1>4. \A i \in DOMAIN s : t[i] \in Seq(Item)
  <2> TAKE i \in DOMAIN s
  <2>1. s[i] \in ToSet(s)
    BY Zenon DEF ToSet
  <2> QED BY <1>2, <2>1, LayoutType, Zenon DEF s
<1>5. PICK g \in ToSet(s) : x \in ToSet(g.volumes)
  BY ItemsType, Zenon DEF s
<1>6. PICK i \in DOMAIN s : g = s[i]
  BY Zenon DEF ToSet
<1>7. \A i1 \in DOMAIN s : \A c \in ToSet(t[i1]) : c \in ToSet(FlattenSeq(t))
  BY <1>2, <1>3, <1>4, ListLine, Zenon
<1> QED BY <1>1, <1>2, <1>5, <1>6, <1>7, Zenon

\* perform_lvm_operations: on LUKS the physical volumes, in LUKS the file systems go into
\* containers that were opened before.
LEMMA LvmOperationsType ==
  ASSUME LayoutOk, layout.devices # <<>>
  PROVE  LvmOperations \in Safe(layout)
<1> DEFINE type == layout.encryption.type
<1>1. \A a, b \in Safe(layout) : a \o b \in Safe(layout)
  BY SafeJoined, Zenon
<1>2. /\ Seq(Quiet(layout)) \subseteq Safe(layout)
      /\ Seq(Into(layout, {})) \subseteq Safe(layout)
      /\ Seq(Into(layout, {})) \subseteq Seq(Steady(layout))
  BY SafeJoined, Classes, Zenon
<1>3. CreateGroups({}) \in Safe(layout) /\ PvCreate({}) \in Safe(layout)
  <2>1. {} \in SUBSET Nat
    OBVIOUS
  <2>2. {x \in Items(layout) : x.id \in {}} = {}
    OBVIOUS
  <2>3. PvCreate({}) \in Seq(Into(layout, {x \in Items(layout) : x.id \in {}}))
    BY <2>1, SetupLvmType, Zenon
  <2>4. PvCreate({}) \in Seq(Into(layout, {}))
    BY <2>2, <2>3
  <2>5. CreateGroups({}) \in Seq(Quiet(layout))
    BY <2>1, SetupLvmType, Zenon
  <2> QED BY <1>2, <2>4, <2>5, Zenon
<1>4. SetupLvm({}) \in Safe(layout)
  BY <1>1, <1>3, Zenon DEF SetupLvm
<1>5. \A x \in Volumes(layout) : Encrypted(x) => type = "LUKS_ON_LVM"
  <2> TAKE x \in Volumes(layout)
  <2>1. x.lv /\ x \in Items(layout)
    <3>1. PICK g \in ToSet(layout.groups) : x \in ToSet(g.volumes)
      BY ItemsType, Zenon
    <3> QED BY <3>1, LegalItems, ItemsType, Zenon
  <2> QED BY <2>1, LegalEncryption, Zenon
<1>6. type # "LUKS_ON_LVM" => Each(FormatVolume, AllVolumes) \in Safe(layout)
  <2> SUFFICES ASSUME type # "LUKS_ON_LVM"
               PROVE  Each(FormatVolume, AllVolumes) \in Safe(layout)
    OBVIOUS
  <2>1. \A x \in Volumes(layout) : Encrypted(x) => x \in {}
    BY <1>5, Zenon
  <2>2. Each(FormatVolume, AllVolumes) \in Seq(Into(layout, {}))
    BY <2>1, FormatVolumesType, Zenon
  <2> QED BY <1>2, <2>2, Zenon
<1>7. CASE type = "NO_ENCRYPTION"
  <2>1. LvmOperations = SetupLvm({}) \o Each(FormatVolume, AllVolumes)
    BY <1>7, Zenon DEF LvmOperations
  <2>2. type # "LUKS_ON_LVM"
    BY <1>7
  <2> QED BY <1>1, <1>4, <1>6, <2>1, <2>2, Zenon
<1>8. CASE type = "LVM_ON_LUKS"
  <2> DEFINE last == Last(layout.devices)
             mapped == {x.id : x \in EncryptedOn(last)}
             a == Each(EncryptDevice, layout.devices)
             b == PvCreate(mapped)
             e == Each(FormatVolume, AllVolumes)
             X == {x \in Items(layout) : x.id \in mapped}
  <2>0. type # "LUKS_ON_LVM" /\ type # "NO_ENCRYPTION"
    BY <1>8
  <2>1. LvmOperations = (a \o (b \o CreateGroups(mapped))) \o e
    BY <1>8, <2>0, Zenon DEF LvmOperations, SetupLvm
  <2> DEFINE s == layout.devices
             t == [i \in DOMAIN s |-> EncryptDevice(s[i])]
             K == Seq(Into(layout, {}))
  <2>2. s \in Seq(Device)
    BY LayoutType, Zenon
  <2>3. a = FlattenSeq(t)
    BY Zenon DEF Each
  <2>4. DOMAIN t = DOMAIN s /\ t = [i \in DOMAIN s |-> t[i]] /\ \A i \in DOMAIN s : t[i] = EncryptDevice(s[i])
    OBVIOUS
  <2>5. ASSUME NEW m \in ToSet(s)
        PROVE  /\ EncryptDevice(m) \in K
               /\ \A x \in ToSet(m.parts) :
                    IsEncryptedHere(x) => \E c \in ToSet(EncryptDevice(m)) : Opens(c, x)
    <3>1. m.parts \in Seq(Item) /\ \A x \in ToSet(m.parts) : x \in Items(layout)
      BY <2>5, LayoutType, ItemsType, Zenon
    <3>2. /\ Each(EncryptHere, m.parts) \in K
          /\ \A x \in ToSet(m.parts) :
               IsEncryptedHere(x) => \E c \in ToSet(Each(EncryptHere, m.parts)) : Opens(c, x)
      BY <3>1, EncryptHereType, Zenon
    <3> QED BY <3>2, Zenon DEF EncryptDevice
  <2> HIDE DEF t
  <2>6. \A i \in DOMAIN s : s[i] \in ToSet(s) /\ t[i] \in K
    <3>1. \A i \in DOMAIN s : s[i] \in ToSet(s)
      BY Zenon DEF ToSet
    <3> QED BY <2>4, <2>5, <3>1, Zenon
  <2>7. /\ FlattenSeq(t) \in K
        /\ \A i \in DOMAIN s : \A c \in ToSet(t[i]) : c \in ToSet(FlattenSeq(t))
    <3> HIDE DEF s
    <3> QED BY <2>2, <2>4, <2>6, ListLine, Zenon
  <2>8. a \in Safe(layout) /\ a \in Seq(Steady(layout))
    BY <1>2, <2>3, <2>7, Zenon
  <2>9. last \in ToSet(s)
    <3>1. last = s[Len(s)]
      BY Zenon DEF Last
    <3>2. Len(s) \in DOMAIN s
      BY <2>2
    <3> QED BY <3>1, <3>2, Zenon DEF ToSet
  <2>10. \A x \in EncryptedOn(last) : x \in ToSet(last.parts) /\ IsEncryptedHere(x) /\ x \in Items(layout)
    BY <2>9, ItemsType, Zenon DEF EncryptedOn
  <2>11. mapped \in SUBSET Nat
    <3>1. \A x \in EncryptedOn(last) : x.id \in Nat
      <4>1. \A x \in Item : x.id \in Nat
        BY Zenon DEF Item
      <4> QED BY <2>10, <4>1, ItemsType, Zenon
    <3> HIDE DEF last
    <3> QED BY <3>1
  <2>12. \A x \in X : \E c \in ToSet(a) : Opens(c, x)
    <3> TAKE x \in X
    <3>1. PICK y \in EncryptedOn(last) : x.id = y.id
      OBVIOUS
    <3>2. x = y
      BY <2>10, <3>1, LegalItems, Zenon
    <3>3. PICK c \in ToSet(EncryptDevice(last)) : Opens(c, x)
      BY <2>5, <2>9, <2>10, <3>2, Zenon
    <3>4. PICK i \in DOMAIN s : last = s[i]
      BY <2>9, Zenon DEF ToSet
    <3>5. c \in ToSet(t[i])
      BY <2>4, <3>3, <3>4, Zenon
    <3>6. c \in ToSet(a)
      BY <2>3, <2>7, <3>5, Zenon
    <3> QED BY <3>3, <3>6
  <2>13. b \in Seq(Into(layout, X)) /\ CreateGroups(mapped) \in Seq(Quiet(layout))
    <3> HIDE DEF mapped
    <3> QED BY <2>11, SetupLvmType, Zenon
  <2>14. e \in Safe(layout)
    BY <1>6, <2>0, Zenon
  <2> HIDE DEF a, b, e, X, mapped
  <2>15. a \o b \in Safe(layout)
    BY <2>8, <2>12, <2>13, SafeOpened, Zenon
  <2>16. CreateGroups(mapped) \in Safe(layout)
    BY <1>2, <2>13, Zenon
  <2>17. a \o (b \o CreateGroups(mapped)) = (a \o b) \o CreateGroups(mapped)
    <3>1. /\ a \in Seq(Command(layout)) /\ b \in Seq(Command(layout))
          /\ CreateGroups(mapped) \in Seq(Command(layout))
      <4>1. Into(layout, X) \subseteq Command(layout)
        BY Zenon DEF Into, Steady
      <4>2. Seq(Into(layout, X)) \subseteq Seq(Command(layout))
        BY <4>1, SeqUnion, Zenon
      <4> QED BY <2>8, <2>13, <2>16, <4>2, SafeJoined, Zenon
    <3> HIDE DEF a, b
    <3> QED BY ONLY <3>1, Associative
  <2> QED BY <1>1, <2>1, <2>14, <2>15, <2>16, <2>17, Zenon
<1>9. CASE type = "LUKS_ON_LVM"
  <2> DEFINE s == AllVolumes
             a == Each(EncryptHere, s)
             b == Each(FormatVolume, s)
             d == Each(LockVolume, s)
             X == {x \in Volumes(layout) : Encrypted(x)}
  <2>0. type # "LVM_ON_LUKS" /\ type # "NO_ENCRYPTION"
    BY <1>9
  <2>1. LvmOperations = ((SetupLvm({}) \o a) \o b) \o d
    BY <1>9, <2>0, Zenon DEF LvmOperations
  <2>2. s \in Seq(Volumes(layout)) /\ \A x \in ToSet(s) : x \in Volumes(layout)
    BY AllVolumesType, ToSetOfSeq, Zenon
  <2>3. \A x \in ToSet(s) : x \in Items(layout)
    BY <2>2, VolumeItems, Zenon
  <2>4. /\ a \in Seq(Into(layout, {}))
        /\ \A x \in ToSet(s) : IsEncryptedHere(x) => \E c \in ToSet(a) : Opens(c, x)
    <3> HIDE DEF s
    <3> QED BY <2>2, <2>3, EncryptHereType, Zenon
  <2>5. b \in Seq(Into(layout, X)) /\ d \in Seq(Into(layout, {}))
    <3>1. \A x \in Volumes(layout) : Encrypted(x) => x \in X
      BY Zenon
    <3> HIDE DEF X
    <3> QED BY <3>1, FormatVolumesType, LockVolumesType, Zenon
  <2>6. \A x \in X : \E c \in ToSet(a) : Opens(c, x)
    <3> TAKE x \in X
    <3>1. x \in ToSet(s)
      BY AllVolumesHas, Zenon
    <3>2. IsEncryptedHere(x)
      <4>1. ~Kept(x)
        BY VolumeItems, Zenon DEF NewItems
      <4> QED BY <4>1, Zenon DEF IsEncryptedHere
    <3> QED BY <2>4, <3>1, <3>2, Zenon
  <2> HIDE DEF a, b, d, X
  <2>7. a \in Safe(layout) /\ a \in Seq(Steady(layout)) /\ d \in Safe(layout)
    BY <1>2, <2>4, <2>5, Zenon
  <2>8. a \o b \in Safe(layout)
    BY <2>5, <2>6, <2>7, SafeOpened, Zenon
  <2>9. (SetupLvm({}) \o a) \o b = SetupLvm({}) \o (a \o b)
    <3>1. /\ SetupLvm({}) \in Seq(Command(layout)) /\ a \in Seq(Command(layout))
          /\ b \in Seq(Command(layout))
      <4>1. Into(layout, X) \subseteq Command(layout)
        BY Zenon DEF Into, Steady
      <4>2. Seq(Into(layout, X)) \subseteq Seq(Command(layout))
        BY <4>1, SeqUnion, Zenon
      <4> QED BY <1>4, <2>5, <2>7, <4>2, SafeJoined, Zenon
    <3> HIDE DEF a, b
    <3> QED BY ONLY <3>1, Associative
  <2> QED BY <1>1, <1>4, <2>1, <2>7, <2>8, <2>9, Zenon
<1>10. CASE type = "LUKS"
  <2>1. LvmOperations = <<>>
    BY <1>10 DEF LvmOperations
  <2> QED BY <1>2, <2>1, JoinedSeq, Zenon
<1>11. type \in EncryptionType
  BY LayoutType, Zenon
<1> QED BY <1>7, <1>8, <1>9, <1>10, <1>11 DEF EncryptionType

\* The machine, as far as the names below /dev go.
NodesOk ==
  /\ DOMAIN layers \subseteq NodeName /\ IsFiniteSet(DOMAIN layers)
  /\ \A n \in DOMAIN layers : \A m \in ToSet(layout.devices) : n[1] = m.dev => n[2] \in Nat

\* umount_all_existing writes to no device.
LEMMA ReleaseType ==
  ASSUME LayoutOk, NodesOk, NEW m \in ToSet(layout.devices)
  PROVE  Release(m) \in Seq(Quiet(layout))
<1> DEFINE S == Nodes(m.dev)
           s == ByNumber(S)
           K == Seq(Quiet(layout))
           Line(n) == <<[do   |-> IF layers[n] # <<>> /\ Head(layers[n]) = "luks"
                                  THEN "releaseLuks" ELSE "release",
                         node |-> n]>>
           t == [i \in DOMAIN s |-> Line(s[i])]
<1>1. Release(m) = FlattenSeq(t)
  BY Zenon DEF Release, Each
<1>2. DOMAIN t = DOMAIN s /\ t = [i \in DOMAIN s |-> t[i]] /\ \A i \in DOMAIN s : t[i] = Line(s[i])
  <2> HIDE DEF s, Line
  <2> QED OBVIOUS
<1>3. /\ S \subseteq DOMAIN layers /\ S \subseteq NodeName
      /\ \A n \in S : n[1] = m.dev /\ n[2] \in Nat
  BY DEF Nodes, NodesOk
<1>4. IsFiniteSet(S)
  BY <1>3, FS_Subset, Zenon DEF NodesOk
<1>5. s \in Seq(S)
  <2> HIDE DEF S
  <2> QED BY <1>3, <1>4, ByNumberType, Zenon
<1> HIDE DEF t, s, S
<1>6. ASSUME NEW i \in DOMAIN s
      PROVE  t[i] \in K
  <2>1. s[i] \in NodeName
    <3>1. s[i] \in S
      BY <1>5, ToSetOfSeq, Zenon
    <3> QED BY <1>3, <3>1, Zenon
  <2>2. /\ [do |-> "release", node |-> s[i]] \in Quiet(layout)
        /\ [do |-> "releaseLuks", node |-> s[i]] \in Quiet(layout)
    <3>1. "release" \in {"release", "releaseLuks"} /\ "releaseLuks" \in {"release", "releaseLuks"}
      OBVIOUS
    <3> QED BY <2>1, <3>1, OtherCommands, Zenon
  <2>3. \/ t[i] = <<[do |-> "release", node |-> s[i]]>>
        \/ t[i] = <<[do |-> "releaseLuks", node |-> s[i]]>>
    BY <1>2, Zenon
  <2> QED BY <2>2, <2>3, JoinedSeq, Zenon
<1>7. FlattenSeq(t) \in K
  BY <1>2, <1>5, <1>6, ListLine, Zenon
<1> QED BY <1>1, <1>7

\* partition writes to devices of new items, and wipes none with kept ones.
LEMMA PartitionType ==
  ASSUME LayoutOk, NEW m \in ToSet(layout.devices)
  PROVE  Partition(m) \in Seq(Quiet(layout))
<1> DEFINE s == m.parts
           K == Seq(Quiet(layout))
           t == [i \in DOMAIN s |-> Wipefs(s[i])]
           w == IF m.wipe THEN <<[do |-> "wipe", dev |-> m.dev]>> ELSE <<>>
           c == <<[do |-> "commit", mod |-> m]>>
<1>1. Partition(m) = (w \o c) \o FlattenSeq(t)
  BY Zenon DEF Partition, Each
<1>2. DOMAIN t = DOMAIN s /\ t = [i \in DOMAIN s |-> t[i]] /\ \A i \in DOMAIN s : t[i] = Wipefs(s[i])
  OBVIOUS
<1>3. w \in K /\ c \in K
  BY OtherCommands, JoinedSeq, Zenon
<1> HIDE DEF t, w, c
<1>4. s \in Seq(Item) /\ \A i \in DOMAIN s : s[i] \in Items(layout)
  <2>1. s \in Seq(Item) /\ \A x \in ToSet(s) : x \in Items(layout)
    BY LayoutType, ItemsType, Zenon
  <2> QED BY <2>1, Zenon DEF ToSet
<1>5. ASSUME NEW i \in DOMAIN s
      PROVE  t[i] \in K
  <2>1. CASE Kept(s[i])
    <3>1. t[i] = <<>>
      BY <1>2, <2>1, Zenon DEF Wipefs
    <3> QED BY <3>1, JoinedSeq, Zenon
  <2>2. CASE ~Kept(s[i])
    <3>1. t[i] = <<[do |-> "wipefs", item |-> s[i], on |-> "device"]>>
      BY <1>2, <2>2, Zenon DEF Wipefs, Do
    <3>2. s[i] \in NewItems(layout)
      BY <1>4, <2>2, Zenon DEF NewItems
    <3>3. [do |-> "wipefs", item |-> s[i], on |-> "device"] \in Into(layout, {})
      BY <3>2, WriteCommands, Zenon
    <3> QED BY <3>1, <3>3, Classes, JoinedSeq, Zenon
  <2> QED BY <2>1, <2>2
<1>6. FlattenSeq(t) \in K
  BY <1>2, <1>4, <1>5, ListLine, Zenon
<1> QED BY <1>1, <1>3, <1>6, JoinedSeq, Zenon

\* A line that is made device by device.
LEMMA DeviceLines ==
  ASSUME LayoutOk, NEW t, DOMAIN t = DOMAIN layout.devices,
         t = [i \in DOMAIN layout.devices |-> t[i]],
         \A i \in DOMAIN layout.devices : t[i] \in Safe(layout)
  PROVE  FlattenSeq(t) \in Safe(layout)
<1> DEFINE K == Safe(layout)
<1>1. <<>> \in K /\ \A a, b \in K : a \o b \in K
  <2>1. <<>> \in Seq(Quiet(layout))
    BY JoinedSeq, Zenon
  <2> QED BY <2>1, SafeJoined, Zenon
<1>2. layout.devices \in Seq(Device)
  BY LayoutType, Zenon
<1> HIDE DEF K
<1>3. \A i \in DOMAIN layout.devices : t[i] \in K
  BY Zenon DEF K
<1>4. t \in Seq(K)
  BY <1>2, <1>3, PartsIn, Zenon
<1>5. FlattenSeq(t) \in K
  BY <1>1, <1>4, FlattenIn, Zenon
<1> QED BY <1>5 DEF K

\* perform_filesystem_operations is a safe line.
LEMMA FilesystemOperationsType ==
  ASSUME LayoutOk, NodesOk
  PROVE  FilesystemOperations \in Safe(layout)
<1> DEFINE K == Safe(layout)
           s == layout.devices
           r == [i \in DOMAIN s |-> IF s[i].parts = <<>> THEN <<>> ELSE Release(s[i])]
           p == [i \in DOMAIN s |-> IF s[i].parts = <<>> THEN <<>> ELSE Partition(s[i])]
           b == [i \in DOMAIN s |-> FormatBootPartition(s[i])]
           f == [i \in DOMAIN s |-> FormatDevice(s[i])]
<1>1. <<>> \in K /\ (\A c, d \in K : c \o d \in K) /\ Seq(Quiet(layout)) \subseteq K
  <2>1. <<>> \in Seq(Quiet(layout))
    BY JoinedSeq, Zenon
  <2> QED BY <2>1, SafeJoined, Zenon
<1>2. FilesystemOperations =
        IF \A m \in ToSet(s) : m.parts = <<>> THEN <<>>
        ELSE (FlattenSeq(r) \o FlattenSeq(p))
             \o IF layout.groups # <<>> THEN FlattenSeq(b) \o LvmOperations ELSE FlattenSeq(f)
  BY Zenon DEF FilesystemOperations, Each
<1>3. /\ DOMAIN r = DOMAIN s /\ r = [i \in DOMAIN s |-> r[i]]
      /\ DOMAIN p = DOMAIN s /\ p = [i \in DOMAIN s |-> p[i]]
      /\ DOMAIN b = DOMAIN s /\ b = [i \in DOMAIN s |-> b[i]]
      /\ DOMAIN f = DOMAIN s /\ f = [i \in DOMAIN s |-> f[i]]
  OBVIOUS
<1>4. /\ \A i \in DOMAIN s : r[i] = IF s[i].parts = <<>> THEN <<>> ELSE Release(s[i])
      /\ \A i \in DOMAIN s : p[i] = IF s[i].parts = <<>> THEN <<>> ELSE Partition(s[i])
      /\ \A i \in DOMAIN s : b[i] = FormatBootPartition(s[i])
      /\ \A i \in DOMAIN s : f[i] = FormatDevice(s[i])
  OBVIOUS
<1> HIDE DEF r, p, b, f
<1>5. \A i \in DOMAIN s : s[i] \in ToSet(s)
  BY Zenon DEF ToSet
<1>6. /\ \A i \in DOMAIN s : r[i] \in K
      /\ \A i \in DOMAIN s : p[i] \in K
      /\ \A i \in DOMAIN s : b[i] \in K
      /\ \A i \in DOMAIN s : f[i] \in K
  <2>1. \A m \in ToSet(s) : Release(m) \in K /\ Partition(m) \in K
    BY <1>1, ReleaseType, PartitionType, Zenon
  <2>2. \A m \in ToSet(s) : FormatBootPartition(m) \in K /\ FormatDevice(m) \in K
    BY FormatDeviceType, Zenon
  <2> QED BY <1>1, <1>4, <1>5, <2>1, <2>2, Zenon
<1>7. FlattenSeq(r) \in K /\ FlattenSeq(p) \in K /\ FlattenSeq(b) \in K /\ FlattenSeq(f) \in K
  <2>1. FlattenSeq(r) \in K
    BY <1>3, <1>6, DeviceLines, Zenon
  <2>2. FlattenSeq(p) \in K
    BY <1>3, <1>6, DeviceLines, Zenon
  <2>3. FlattenSeq(b) \in K
    BY <1>3, <1>6, DeviceLines, Zenon
  <2>4. FlattenSeq(f) \in K
    BY <1>3, <1>6, DeviceLines, Zenon
  <2> QED BY <2>1, <2>2, <2>3, <2>4
<1>8. CASE \A m \in ToSet(s) : m.parts = <<>>
  BY <1>1, <1>2, <1>8, Zenon
<1>9. CASE ~\A m \in ToSet(s) : m.parts = <<>>
  <2>1. s # <<>>
    <3>1. s = <<>> => DOMAIN s = {}
      OBVIOUS
    <3> QED BY <1>9, <3>1 DEF ToSet
  <2>2. LvmOperations \in K
    BY <2>1, LvmOperationsType, Zenon
  <2> DEFINE e == IF layout.groups # <<>> THEN FlattenSeq(b) \o LvmOperations ELSE FlattenSeq(f)
  <2>3. e \in K
    BY <1>1, <1>7, <2>2, Zenon
  <2>4. FilesystemOperations = (FlattenSeq(r) \o FlattenSeq(p)) \o e
    BY <1>2, <1>9, Zenon
  <2> HIDE DEF e, K
  <2>5. FlattenSeq(r) \o FlattenSeq(p) \in K
    BY <1>1, <1>7, Zenon
  <2>6. (FlattenSeq(r) \o FlattenSeq(p)) \o e \in K
    BY <1>1, <2>3, <2>5, Zenon
  <2> QED BY <2>4, <2>6 DEF K
<1> QED BY <1>8, <1>9

\* The whole line of a layout.
LEMMA CommandsType ==
  ASSUME LayoutOk, NodesOk
  PROVE  Commands \in Safe(layout)
<1> DEFINE K == Safe(layout)
           h == <<[do |-> "handover"]>>
<1>1. (\A c, d \in K : c \o d \in K) /\ Seq(Quiet(layout)) \subseteq K
  BY SafeJoined, Zenon
<1>2. h \in K
  BY <1>1, OtherCommands, JoinedSeq, Zenon
<1>3. MountLayout \in K /\ KeyFiles \in K
  BY MountLayoutType, EncryptedItemsLines, Classes, Zenon
<1>4. FilesystemOperations \in K
  BY FilesystemOperationsType, Zenon
<1>5. Commands = ((FilesystemOperations \o h) \o MountLayout) \o KeyFiles
  BY Zenon DEF Commands
<1> HIDE DEF K, h
<1>6. FilesystemOperations \o h \in K
  BY <1>1, <1>2, <1>4, Zenon
<1>7. (FilesystemOperations \o h) \o MountLayout \in K
  BY <1>1, <1>3, <1>6, Zenon
<1>8. ((FilesystemOperations \o h) \o MountLayout) \o KeyFiles \in K
  BY <1>1, <1>3, <1>7, Zenon
<1> QED BY <1>5, <1>8 DEF K

-----------------------------------------------------------------------------
(* The machine *)

\* A new partition gets a number that is not in use.
LEMMA LowestFreeType ==
  ASSUME NEW used \in SUBSET Nat, IsFiniteSet(used)
  PROVE  LowestFree(used) \in Nat /\ LowestFree(used) \notin used
<1> DEFINE c == Cardinality(used)
           T == 1 .. c + 1
           D == {n \in T : n \notin used}
<1>1. c \in Nat
  BY FS_CardinalityType, Zenon
<1>2. D # {}
  <2> SUFFICES ASSUME D = {} PROVE FALSE
    OBVIOUS
  <2>1. T \in SUBSET used
    OBVIOUS
  <2>2. Cardinality(T) <= c
    <3> HIDE DEF T
    <3> QED BY <2>1, FS_Subset, Zenon
  <2>3. 1 \in Int /\ c + 1 \in Int
    <3> HIDE DEF c
    <3> QED BY <1>1
  <2>4. Cardinality(T) = IF 1 > c + 1 THEN 0 ELSE (c + 1) - 1 + 1
    BY <2>3, FS_Interval, Zenon
  <2> HIDE DEF c, T
  <2> QED BY <1>1, <2>2, <2>4
<1>3. D \in SUBSET Nat
  OBVIOUS
<1>4. PICK n \in D : \A k \in D : n <= k
  <2> HIDE DEF D
  <2> QED BY <1>2, <1>3, LeastNumber, Zenon
<1>5. \A k \in 1 .. n - 1 : k \in used
  <2> TAKE k \in 1 .. n - 1
  <2>1. n \in T /\ k \in Nat /\ k < n
    BY <1>4
  <2>2. k \in T /\ ~(n <= k)
    <3> HIDE DEF c
    <3> QED BY <1>1, <2>1
  <2> QED BY <1>4, <2>2
<1>6. \E m \in T : m \notin used /\ \A k \in 1 .. m - 1 : k \in used
  BY <1>4, <1>5
<1>7. LowestFree(used) \in T /\ LowestFree(used) \notin used
  BY <1>6, Zenon DEF LowestFree
<1>8. \A m \in T : m \in Nat
  OBVIOUS
<1> QED BY <1>7, <1>8, Zenon

Acc(m, i, acc) == IF i = 0 THEN [path |-> path, used |-> IF m.wipe THEN {} ELSE {n[2] : n \in Nodes(m.dev)}]
                  ELSE Place(acc, m.parts[i])

\* The recursive function of Placed.
LEMMA PlacedExists ==
  ASSUME NEW m, NEW n \in Nat
  PROVE  \E f : f = [i \in 0 .. n |-> Acc(m, i, f[i - 1])]
<1> DEFINE Good(k) == \E f : f = [i \in 0 .. k |-> Acc(m, i, f[i - 1])]
           Bad == {k \in Nat : ~Good(k)}
<1>1. Good(0)
  <2> DEFINE f == [i \in 0 .. 0 |-> Acc(m, 0, i)]
  <2>1. \A i \in 0 .. 0 : Acc(m, i, f[i - 1]) = Acc(m, 0, i)
    <3> TAKE i \in 0 .. 0
    <3>1. i = 0
      OBVIOUS
    <3> QED BY <3>1, Zenon DEF Acc
  <2>2. f = [i \in 0 .. 0 |-> Acc(m, i, f[i - 1])]
    BY <2>1
  <2> QED BY <2>2
<1>2. ASSUME NEW k \in Nat, Good(k)
      PROVE  Good(k + 1)
  <2>1. PICK f : f = [i \in 0 .. k |-> Acc(m, i, f[i - 1])]
    BY <1>2
  <2> DEFINE g == [i \in 0 .. k + 1 |-> Acc(m, i, f[i - 1])]
  <2>2. \A i \in 0 .. k : g[i] = f[i]
    <3>1. \A i \in 0 .. k : f[i] = Acc(m, i, f[i - 1])
      <4> HIDE DEF g
      <4> QED BY <2>1
    <3>2. \A i \in 0 .. k : i \in 0 .. k + 1
      OBVIOUS
    <3>3. \A i \in 0 .. k + 1 : g[i] = Acc(m, i, f[i - 1])
      BY Zenon
    <3> HIDE DEF g
    <3> QED BY <3>1, <3>2, <3>3, Zenon
  <2>3. \A i \in 0 .. k + 1 : Acc(m, i, f[i - 1]) = Acc(m, i, g[i - 1])
    <3> TAKE i \in 0 .. k + 1
    <3>1. CASE i = 0
      BY <3>1, Zenon DEF Acc
    <3>2. CASE i # 0
      <4>1. i - 1 \in 0 .. k
        BY <3>2
      <4> QED BY <2>2, <4>1, Zenon
    <3> QED BY <3>1, <3>2
  <2>4. g = [i \in 0 .. k + 1 |-> Acc(m, i, g[i - 1])]
    <3> DEFINE h == [i \in 0 .. k + 1 |-> Acc(m, i, g[i - 1])]
    <3>1. DOMAIN g = 0 .. k + 1 /\ DOMAIN h = 0 .. k + 1
      BY Zenon
    <3>2. \A i \in 0 .. k + 1 : g[i] = Acc(m, i, f[i - 1]) /\ h[i] = Acc(m, i, g[i - 1])
      BY Zenon
    <3>3. \A i \in 0 .. k + 1 : g[i] = h[i]
      BY <2>3, <3>2, Zenon
    <3>4. g = [i \in 0 .. k + 1 |-> g[i]] /\ h = [i \in 0 .. k + 1 |-> h[i]]
      OBVIOUS
    <3> HIDE DEF g, h
    <3>5. g = h
      BY <3>1, <3>3, <3>4
    <3> QED BY <3>5 DEF h
  <2> QED BY <2>4
<1>3. Bad = {}
  <2> SUFFICES ASSUME Bad # {} PROVE FALSE
    OBVIOUS
  <2> HIDE DEF Good
  <2>1. PICK k \in Bad : \A l \in Bad : k <= l
    BY LeastNumber
  <2>2. k # 0
    BY <1>1, <2>1
  <2>3. k - 1 \in Nat /\ ~(k <= k - 1) /\ (k - 1) + 1 = k
    BY <2>1, <2>2
  <2>4. Good(k - 1)
    BY <2>1, <2>3
  <2>5. Good((k - 1) + 1)
    BY <1>2, <2>3, <2>4, Zenon
  <2> QED BY <2>1, <2>3, <2>5
<1> HIDE DEF Good
<1>4. Good(n)
  BY <1>3
<1> QED BY <1>4 DEF Good

\* Placed goes through the entries of a device one by one.
LEMMA PlacedSteps ==
  ASSUME NEW m, NEW n \in Nat, n = Len(m.parts)
  PROVE  \E f : Placed(m) = f[n] /\ \A i \in 0 .. n : f[i] = Acc(m, i, f[i - 1])
<1> DEFINE P(f) == f = [i \in 0 .. Len(m.parts) |->
                          IF i = 0 THEN [path |-> path, used |-> IF m.wipe THEN {} ELSE {k[2] : k \in Nodes(m.dev)}]
                          ELSE Place(f[i - 1], m.parts[i])]
           f == CHOOSE g : P(g)
<1>1. PICK g : g = [i \in 0 .. n |-> Acc(m, i, g[i - 1])]
  BY PlacedExists, Zenon
<1>2. P(g)
  BY <1>1, Zenon DEF Acc
<1>3. P(f)
  <2> HIDE DEF P
  <2> QED BY <1>2, Zenon
<1>4. \A i \in 0 .. n : f[i] = Acc(m, i, f[i - 1])
  <2> HIDE DEF f
  <2> QED BY <1>3 DEF Acc
<1>5. Placed(m) = f[Len(m.parts)]
  BY Zenon DEF Placed
<1> QED BY <1>4, <1>5, Zenon

\* What is guarded on the devices and in the groups of the layout.
LEMMA GuardedNodes ==
  ASSUME LayoutOk
  PROVE  /\ \A x \in Items(layout) : Kept(x) =>
              /\ x.num \in Nat
              /\ \E m \in ToSet(layout.devices) : x \in ToSet(m.parts) /\ x.dev = m.dev /\ ~m.wipe
         /\ \A m \in ToSet(layout.devices) : \A n :
              Guarded(layout, <<m.dev, n>>) <=> \E x \in ToSet(m.parts) : Kept(x) /\ n = x.num
         /\ \A x \in Volumes(layout) : \A n : ~Guarded(layout, <<x.dev, n>>)
<1> DEFINE Known == {m.dev : m \in ToSet(layout.devices)} \cup {g.name : g \in ToSet(layout.groups)}
<1>1. ASSUME NEW x \in Items(layout), Kept(x)
      PROVE  /\ x.num \in Nat
             /\ \E m \in ToSet(layout.devices) : x \in ToSet(m.parts) /\ x.dev = m.dev /\ ~m.wipe
  <2>1. x.status # "create"
    BY <1>1 DEF Kept
  <2>2. x \notin Volumes(layout)
    BY <2>1, ItemsType, LegalItems, Zenon
  <2>3. PICK m \in ToSet(layout.devices) : x \in ToSet(m.parts)
    <3>1. x \in Partitions(layout)
      BY <2>2, Zenon DEF Items
    <3> QED BY <3>1, ItemsType, Zenon
  <2> QED BY <2>1, <2>3, LegalItems, Zenon
<1>2. \A n : Guarded(layout, n) <=>
        n[1] \notin Known \/ \E x \in Items(layout) : Kept(x) /\ n = <<x.dev, x.num>>
  BY Zenon DEF Guarded
<1>3. \A m \in ToSet(layout.devices) : m.dev \in Known
  OBVIOUS
<1>4. \A g \in ToSet(layout.groups) : g.name \in Known
  OBVIOUS
<1> HIDE DEF Known
<1>5. ASSUME NEW d, NEW n
      PROVE  Guarded(layout, <<d, n>>) <=>
               d \notin Known \/ \E x \in Items(layout) : Kept(x) /\ d = x.dev /\ n = x.num
  <2>1. Guarded(layout, <<d, n>>) <=>
          <<d, n>>[1] \notin Known \/ \E x \in Items(layout) : Kept(x) /\ <<d, n>> = <<x.dev, x.num>>
    BY <1>2, Zenon
  <2>2. <<d, n>>[1] = d
    OBVIOUS
  <2>3. \A x \in Items(layout) : <<d, n>> = <<x.dev, x.num>> <=> d = x.dev /\ n = x.num
    OBVIOUS
  <2> QED BY <2>1, <2>2, <2>3, Zenon
<1>6. ASSUME NEW m \in ToSet(layout.devices), NEW n
      PROVE  Guarded(layout, <<m.dev, n>>) <=> \E x \in ToSet(m.parts) : Kept(x) /\ n = x.num
  <2>1. ASSUME Guarded(layout, <<m.dev, n>>)
        PROVE  \E x \in ToSet(m.parts) : Kept(x) /\ n = x.num
    <3>1. PICK x \in Items(layout) : Kept(x) /\ m.dev = x.dev /\ n = x.num
      <4>1. m.dev \in Known
        BY <1>3, Zenon
      <4>2. m.dev \notin Known \/ \E x \in Items(layout) : Kept(x) /\ m.dev = x.dev /\ n = x.num
        BY <1>5, <2>1
      <4> QED BY <4>1, <4>2, Zenon
    <3>2. PICK d \in ToSet(layout.devices) : x \in ToSet(d.parts) /\ x.dev = d.dev
      BY <1>1, <3>1, Zenon
    <3>3. d = m
      BY <3>1, <3>2, LegalItems, Zenon
    <3> QED BY <3>1, <3>2, <3>3, Zenon
  <2>2. ASSUME NEW x \in ToSet(m.parts), Kept(x), n = x.num
        PROVE  Guarded(layout, <<m.dev, n>>)
    <3>1. x \in Items(layout) /\ x.dev = m.dev
      BY <2>2, ItemsType, LegalItems, Zenon
    <3> QED BY <1>5, <2>2, <3>1, Zenon
  <2> QED BY <2>1, <2>2, Zenon
<1>7. ASSUME NEW x \in Volumes(layout), NEW n
      PROVE  ~Guarded(layout, <<x.dev, n>>)
  <2>1. PICK g \in ToSet(layout.groups) : x \in ToSet(g.volumes) /\ x.dev = g.name
    BY ItemsType, LegalItems, Zenon
  <2>2. ASSUME NEW y \in Items(layout), Kept(y)
        PROVE  y.dev # x.dev
    <3>1. PICK m \in ToSet(layout.devices) : y.dev = m.dev
      BY <1>1, <2>2, Zenon
    <3>2. m.dev # g.name
      BY LegalItems, Zenon
    <3> QED BY <2>1, <3>1, <3>2
  <2> QED BY <1>4, <1>5, <2>1, <2>2, Zenon
<1> QED BY <1>1, <1>6, <1>7, Zenon

PathValue == {Nowhere} \cup Names \cup Nat
Ids == {x.id : x \in Items(layout)}

\* Numbers as they are handed out: those of the kept partitions stay in use.
PlacedOk(m, acc) ==
  /\ acc \in [path : [Ids -> PathValue], used : SUBSET Nat]
  /\ IsFiniteSet(acc.used)
  /\ \A x \in ToSet(m.parts) : Kept(x) => x.num \in acc.used
  /\ \A x \in NewItems(layout) : ~Guarded(layout, <<x.dev, acc.path[x.id]>>)

\* _setup_partition keeps the numbers of kept partitions in use, and gives none of them away.
LEMMA PlaceOk ==
  ASSUME LayoutOk, NEW m \in ToSet(layout.devices), NEW x \in ToSet(m.parts),
         NEW acc, PlacedOk(m, acc)
  PROVE  PlacedOk(m, Place(acc, x))
<1> DEFINE used == IF x.status = "create" THEN acc.used ELSE acc.used \ {acc.path[x.id]}
           n    == LowestFree(used)
<1>0. /\ acc \in [path : [Ids -> PathValue], used : SUBSET Nat]
      /\ IsFiniteSet(acc.used)
      /\ \A y \in ToSet(m.parts) : Kept(y) => y.num \in acc.used
      /\ \A y \in NewItems(layout) : ~Guarded(layout, <<y.dev, acc.path[y.id]>>)
  BY Zenon DEF PlacedOk
<1>1. acc.path \in [Ids -> PathValue] /\ acc.used \in SUBSET Nat
  BY <1>0, Zenon
<1>2. x \in Items(layout) /\ x.dev = m.dev /\ x.id \in Ids
  BY ItemsType, LegalItems, Zenon DEF Ids
<1>3. CASE x.status = "exist"
  BY <1>3, Zenon DEF Place
<1>4. CASE x.status # "exist"
  <2>0. x \in NewItems(layout)
    BY <1>2, <1>4, Zenon DEF NewItems, Kept
  <2>1. used \in SUBSET Nat /\ IsFiniteSet(used) /\ used \subseteq acc.used
    <3>1. used \in SUBSET acc.used
      OBVIOUS
    <3>2. IsFiniteSet(used)
      <4> HIDE DEF used
      <4> QED BY <1>0, <3>1, FS_Subset, Zenon
    <3> QED BY <1>1, <3>1, <3>2, Zenon
  <2>2. \A y \in ToSet(m.parts) : Kept(y) => y.num \in used
    <3> TAKE y \in ToSet(m.parts)
    <3> HAVE Kept(y)
    <3>1. ~Guarded(layout, <<m.dev, acc.path[x.id]>>)
      BY <1>0, <1>2, <2>0, Zenon
    <3>2. y.num # acc.path[x.id]
      BY <3>1, GuardedNodes, Zenon
    <3> QED BY <1>0, <3>2
  <2>3. n \in Nat /\ n \notin used
    <3> HIDE DEF used
    <3> QED BY <2>1, LowestFreeType, Zenon
  <2>4. CASE x.status = "delete"
    <3>1. Place(acc, x) = [acc EXCEPT !.used = used]
      BY <1>4, <2>4, Zenon DEF Place
    <3> DEFINE new == [acc EXCEPT !.used = used]
    <3>2. /\ new \in [path : [Ids -> PathValue], used : SUBSET Nat]
          /\ new.path = acc.path /\ new.used = used
      <4> HIDE DEF used
      <4> QED BY <1>0, <2>1
    <3> HIDE DEF new, used
    <3>3. PlacedOk(m, new)
      BY <1>0, <2>1, <2>2, <3>2, Zenon DEF PlacedOk
    <3> QED BY <3>1, <3>3 DEF new
  <2>5. CASE x.status # "delete"
    <3> DEFINE p   == [acc.path EXCEPT ![x.id] = n]
               u   == used \cup {n}
               new == [path |-> p, used |-> u]
    <3>1. Place(acc, x) = new
      BY <1>4, <2>5, Zenon DEF Place
    <3>2. p \in [Ids -> PathValue]
      <4>1. n \in PathValue
        BY <2>3, Zenon DEF PathValue
      <4> HIDE DEF n
      <4> QED BY <1>1, <4>1
    <3>3. u \in SUBSET Nat /\ IsFiniteSet(u) /\ used \subseteq u
      <4>1. IsFiniteSet(u)
        <5> HIDE DEF used, n
        <5> QED BY <2>1, FS_AddElement, Zenon
      <4> HIDE DEF used, n
      <4> QED BY <2>1, <2>3, <4>1
    <3>4. ASSUME NEW y \in NewItems(layout)
          PROVE  ~Guarded(layout, <<y.dev, p[y.id]>>)
      <4>0. y \in Items(layout) /\ y.id \in Ids
        BY Zenon DEF NewItems, Ids
      <4>1. CASE y = x
        <5>1. p[y.id] = n
          BY <1>1, <1>2, <4>1, Zenon
        <5>2. ~Guarded(layout, <<m.dev, n>>)
          <6>1. Guarded(layout, <<m.dev, n>>) <=> \E z \in ToSet(m.parts) : Kept(z) /\ n = z.num
            <7> HIDE DEF n, used, p
            <7> QED BY GuardedNodes
          <6> HIDE DEF n, used, p
          <6> QED BY <2>2, <2>3, <6>1, Zenon
        <5> QED BY <1>2, <4>1, <5>1, <5>2, Zenon
      <4>2. CASE y # x
        <5>1. y.id # x.id
          BY <1>2, <4>0, <4>2, LegalItems, Zenon
        <5>2. p[y.id] = acc.path[y.id]
          BY <1>1, <4>0, <5>1, Zenon
        <5> QED BY <1>0, <5>2, Zenon
      <4> QED BY <4>1, <4>2
    <3> HIDE DEF p, u, used, n
    <3>5. new \in [path : [Ids -> PathValue], used : SUBSET Nat] /\ new.path = p /\ new.used = u
      BY <3>2, <3>3
    <3> HIDE DEF new
    <3>6. PlacedOk(m, new)
      <4>1. \A y \in ToSet(m.parts) : Kept(y) => y.num \in u
        BY <2>2, <3>3, Zenon
      <4> QED BY <3>3, <3>4, <3>5, <4>1, Zenon DEF PlacedOk
    <3> QED BY <3>1, <3>6
  <2> QED BY <2>4, <2>5
<1> QED BY <1>3, <1>4

\* What the machine and the paths keep to.
NamesOk ==
  /\ NodesOk
  /\ path \in [Ids -> PathValue]
  /\ \A x \in Items(layout) : Kept(x) => <<x.dev, x.num>> \in DOMAIN layers
  /\ \A x \in NewItems(layout) : ~Guarded(layout, Node(x))

\* So does the loop over all entries of a device.
LEMMA PlacedType ==
  ASSUME LayoutOk, NamesOk, NEW m \in ToSet(layout.devices)
  PROVE  PlacedOk(m, Placed(m))
<1> DEFINE c == Len(m.parts)
           u == IF m.wipe THEN {} ELSE {n[2] : n \in Nodes(m.dev)}
           first == [path |-> path, used |-> u]
<1>1. c \in Nat /\ \A i \in 1 .. c : m.parts[i] \in ToSet(m.parts)
  <2>1. m.parts \in Seq(Item)
    BY LayoutType, Zenon
  <2> QED BY <2>1, ToSetOfSeq, Zenon
<1>2. PICK f : Placed(m) = f[c] /\ \A i \in 0 .. c : f[i] = Acc(m, i, f[i - 1])
  BY <1>1, PlacedSteps, Zenon
<1>3. PlacedOk(m, first)
  <2>1. /\ \A n \in Nodes(m.dev) : n[2] \in Nat
        /\ Nodes(m.dev) \in SUBSET (DOMAIN layers)
    BY DEF Nodes, NodesOk, NamesOk
  <2>2. u \in SUBSET Nat
    BY <2>1
  <2>3. IsFiniteSet(u)
    <3> DEFINE S == Nodes(m.dev)
               v == {n[2] : n \in S}
    <3>1. IsFiniteSet(S)
      BY <2>1, FS_Subset, Zenon DEF NamesOk, NodesOk
    <3>2. IsFiniteSet(v)
      <4> DEFINE g == [n \in S |-> n[2]]
      <4>1. g \in [S -> v] /\ \A d \in v : \E n \in S : g[n] = d
        <5> HIDE DEF S
        <5> QED OBVIOUS
      <4> HIDE DEF g, S, v
      <4>2. g \in Surjection(S, v)
        BY <4>1, Fun_IsSurj, Zenon
      <4> QED BY <3>1, <4>2, FS_Surjection, Zenon
    <3>3. IsFiniteSet({})
      BY FS_EmptySet, Zenon
    <3> HIDE DEF v
    <3>4. u = IF m.wipe THEN {} ELSE v
      BY Zenon DEF v
    <3> HIDE DEF u
    <3> QED BY <3>2, <3>3, <3>4
  <2>4. ASSUME NEW x \in ToSet(m.parts), Kept(x)
        PROVE  x.num \in u
    <3>1. x \in Items(layout) /\ x.dev = m.dev /\ x.status = "exist"
      BY <2>4, ItemsType, LegalItems, Zenon DEF Kept
    <3>2. ~m.wipe
      <4>1. x.status # "create"
        BY <3>1
      <4> QED BY <4>1, LegalItems, Zenon
    <3>3. <<m.dev, x.num>> \in DOMAIN layers
      BY <2>4, <3>1, Zenon DEF NamesOk
    <3>4. <<m.dev, x.num>> \in Nodes(m.dev)
      BY <3>3 DEF Nodes
    <3>5. x.num \in {n[2] : n \in Nodes(m.dev)}
      <4>1. <<m.dev, x.num>>[2] = x.num
        OBVIOUS
      <4> QED BY <3>4, <4>1
    <3> QED BY <3>2, <3>5
  <2>5. \A x \in NewItems(layout) : ~Guarded(layout, <<x.dev, path[x.id]>>)
    BY Zenon DEF NamesOk, Node
  <2> HIDE DEF u
  <2>6. first \in [path : [Ids -> PathValue], used : SUBSET Nat] /\ first.path = path /\ first.used = u
    <3>1. path \in [Ids -> PathValue]
      BY Zenon DEF NamesOk
    <3> QED BY <2>2, <3>1
  <2> HIDE DEF first
  <2> QED BY <2>3, <2>4, <2>5, <2>6, Zenon DEF PlacedOk
<1> DEFINE Bad == {i \in 0 .. c : ~PlacedOk(m, f[i])}
<1>4. Bad = {}
  <2> SUFFICES ASSUME Bad # {} PROVE FALSE
    OBVIOUS
  <2>1. PICK k \in Bad : \A l \in Bad : k <= l
    <3>1. Bad \in SUBSET Nat
      OBVIOUS
    <3> HIDE DEF Bad
    <3> QED BY <3>1, LeastNumber, Zenon
  <2>2. k \in 0 .. c /\ ~PlacedOk(m, f[k])
    BY <2>1
  <2>3. k # 0
    <3> SUFFICES ASSUME k = 0 PROVE FALSE
      OBVIOUS
    <3>1. f[0] = Acc(m, 0, f[0 - 1])
      BY <1>2, <2>2, Zenon
    <3>2. f[0] = first
      BY <3>1, Zenon DEF Acc
    <3> QED BY <1>3, <2>2, <3>2, Zenon
  <2>4. k - 1 \in 0 .. c /\ k \in 1 .. c /\ ~(k <= k - 1)
    <3> HIDE DEF c, Bad
    <3> QED BY <1>1, <2>2, <2>3
  <2>5. PlacedOk(m, f[k - 1])
    BY <2>1, <2>4
  <2>6. f[k] = Place(f[k - 1], m.parts[k])
    BY <1>2, <2>2, <2>3, Zenon DEF Acc
  <2>7. PlacedOk(m, f[k])
    BY <1>1, <2>4, <2>5, <2>6, PlaceOk, Zenon
  <2> QED BY <2>2, <2>7
<1>5. c \in 0 .. c
  <2> HIDE DEF c
  <2> QED BY <1>1
<1>6. PlacedOk(m, f[c])
  BY <1>4, <1>5
<1> QED BY <1>2, <1>6, Zenon

-----------------------------------------------------------------------------
(* The inductive invariant *)

\* The container of x is closed, or it is no guarded partition.
Held(x)   == Mapper(x) \in DOMAIN open => ~Guarded(layout, open[Mapper(x)])
HeldItems == {x \in Items(layout) : Held(x)}

\* A line of which every command that writes into a container finds it in H, or opened by
\* the line under the name it still has.
Secured(l, H, s) ==
  \A i \in 1 .. Len(s) : \A x \in Through(l, s[i]) :
    \E j \in 0 .. i - 1 : /\ IF j = 0 THEN x \in H ELSE Opens(s[j], x)
                          /\ \A k \in j + 1 .. i - 1 : ~Moves(s[k])

IInv ==
  /\ LayoutOk /\ NamesOk
  /\ \A m \in DOMAIN open : m \notin NodeName
  /\ todo \in Seq(Command(layout))
  /\ Secured(layout, HeldItems, todo)

\* What is left of a line after its first command is as secured as the line was.
LEMMA SecuredTail ==
  ASSUME NEW C, NEW l, NEW H, NEW G, NEW s \in Seq(C), s # <<>>, Secured(l, H, s),
         ~Moves(Head(s)) =>
           \A x \in Items(l) : x \in H \/ Opens(Head(s), x) => x \in G
  PROVE  Secured(l, G, Tail(s)) /\ \A x \in Through(l, Head(s)) : x \in H
<1> DEFINE t == Tail(s)
<1>1. /\ t \in Seq(C) /\ Len(t) = Len(s) - 1 /\ Len(s) \in Nat /\ Len(s) # 0 /\ Head(s) = s[1]
      /\ \A i \in 1 .. Len(t) : t[i] = s[i + 1] /\ i + 1 \in 1 .. Len(s)
  OBVIOUS
<1> HIDE DEF t
<1>2. \A c : \A x \in Through(l, c) : x \in Items(l)
  BY Zenon DEF Through
<1>3. ASSUME NEW i \in 1 .. Len(s), NEW x \in Through(l, s[i])
      PROVE  \E j \in 0 .. i - 1 : /\ IF j = 0 THEN x \in H ELSE Opens(s[j], x)
                                   /\ \A k \in j + 1 .. i - 1 : ~Moves(s[k])
  BY <1>3, Zenon DEF Secured
<1>4. ASSUME NEW x \in Through(l, Head(s))
      PROVE  x \in H
  <2>1. 1 \in 1 .. Len(s) /\ x \in Through(l, s[1])
    BY <1>1
  <2>2. PICK j \in 0 .. 1 - 1 : IF j = 0 THEN x \in H ELSE Opens(s[j], x)
    BY <1>3, <2>1, Zenon
  <2>3. j = 0
    OBVIOUS
  <2> QED BY <2>2, <2>3
<1>5. ASSUME NEW i \in 1 .. Len(t), NEW x \in Through(l, t[i])
      PROVE  \E j \in 0 .. i - 1 : /\ IF j = 0 THEN x \in G ELSE Opens(t[j], x)
                                   /\ \A k \in j + 1 .. i - 1 : ~Moves(t[k])
  <2>1. i + 1 \in 1 .. Len(s) /\ x \in Through(l, s[i + 1])
    BY <1>1, <1>5, Zenon
  <2>2. PICK j \in 0 .. (i + 1) - 1 : /\ IF j = 0 THEN x \in H ELSE Opens(s[j], x)
                                      /\ \A k \in j + 1 .. (i + 1) - 1 : ~Moves(s[k])
    BY <1>3, <2>1, Zenon
  <2>3. j \in 0 .. i
    BY <2>2
  <2>4. \A k \in 1 .. i - 1 : k \in 1 .. Len(t) /\ k + 1 \in 1 .. i
    BY <1>1
  <2>5. CASE j > 1
    <3>1. j - 1 \in 1 .. i - 1 /\ j - 1 \in 0 .. i - 1 /\ j - 1 # 0
      BY <2>3, <2>5
    <3>2. j - 1 \in 1 .. Len(t) /\ t[j - 1] = s[j]
      BY <1>1, <2>3, <3>1
    <3>3. Opens(t[j - 1], x)
      BY <2>2, <2>5, <3>2
    <3>4. \A k \in (j - 1) + 1 .. i - 1 : ~Moves(t[k])
      <4> TAKE k \in (j - 1) + 1 .. i - 1
      <4>1. k + 1 \in j + 1 .. (i + 1) - 1 /\ k \in 1 .. Len(t)
        BY <1>1, <2>3, <2>5
      <4> QED BY <1>1, <2>2, <4>1, Zenon
    <3> QED BY <3>1, <3>3, <3>4
  <2>6. CASE j = 1 \/ j = 0
    <3>1. \A k \in 1 .. i - 1 : ~Moves(t[k])
      <4> TAKE k \in 1 .. i - 1
      <4>1. k + 1 \in j + 1 .. (i + 1) - 1 /\ k \in 1 .. Len(t)
        BY <1>1, <2>6
      <4> QED BY <1>1, <2>2, <4>1, Zenon
    <3>2. x \in Items(l)
      BY <1>2, <1>5, Zenon
    <3>3. x \in G
      <4>1. CASE j = 1
        <5>1. Opens(Head(s), x)
          BY <1>1, <2>2, <4>1
        <5>2. ~Moves(Head(s))
          BY <5>1 DEF Opens, Moves
        <5> QED BY <3>2, <5>1, <5>2, Zenon
      <4>2. CASE j = 0
        <5>1. x \in H
          BY <2>2, <4>2
        <5>2. 1 \in j + 1 .. (i + 1) - 1
          BY <4>2
        <5>3. ~Moves(Head(s))
          BY <1>1, <2>2, <5>2, Zenon
        <5> QED BY <3>2, <5>1, <5>3, Zenon
      <4> QED BY <2>6, <4>1, <4>2
    <3>4. 0 \in 0 .. i - 1 /\ 0 + 1 = 1
      OBVIOUS
    <3> QED BY <3>1, <3>3, <3>4
  <2> QED BY <2>3, <2>5, <2>6
<1>6. Secured(l, G, t)
  BY <1>5, Zenon DEF Secured
<1> QED BY <1>4, <1>6 DEF t

\* A safe line is secured whatever is open when it starts.
LEMMA SecuredSafe ==
  ASSUME NEW s \in Safe(layout), NEW H
  PROVE  Secured(layout, H, s)
<1>1. ASSUME NEW i \in 1 .. Len(s), NEW x \in Through(layout, s[i])
      PROVE  \E j \in 0 .. i - 1 : /\ IF j = 0 THEN x \in H ELSE Opens(s[j], x)
                                   /\ \A k \in j + 1 .. i - 1 : ~Moves(s[k])
  <2>1. PICK j \in 1 .. i - 1 : Opens(s[j], x) /\ \A k \in j + 1 .. i - 1 : ~Moves(s[k])
    BY <1>1, Zenon DEF Safe
  <2>2. j \in 0 .. i - 1 /\ j # 0
    BY <2>1
  <2> QED BY <2>1, <2>2
<1> QED BY <1>1, Zenon DEF Secured

\* Names below /dev/mapper are no partitions.
LEMMA NodeType ==
  ASSUME LayoutOk, path \in [Ids -> PathValue], NEW x \in Items(layout)
  PROVE  Node(x) \in NodeName /\ Mapper(x) \notin NodeName /\ path[x.id] \in PathValue
<1>1. x.id \in Ids /\ x.dev \in Names
  <2>1. x \in Item
    BY ItemsType, Zenon
  <2> QED BY <2>1, Zenon DEF Ids, Item
<1>2. path[x.id] \in PathValue
  BY <1>1
<1>3. Node(x) \in NodeName
  BY <1>1, <1>2 DEF Node, NodeName, PathValue
<1>4. "ainst" \notin Names
  BY MachinesAssumption, Zenon
<1>5. \/ Mapper(x) = <<"ainst", path[x.id]>>
      \/ Mapper(x) = <<"root">>
      \/ Mapper(x) = <<"home">>
      \/ Mapper(x) = <<"ainst", x.dev, path[x.id]>>
  BY Zenon DEF Mapper
<1>6. \A n \in NodeName : n[1] \in Names /\ 2 \in DOMAIN n
  BY DEF NodeName
<1>7. CASE Mapper(x) = <<"ainst", path[x.id]>> \/ Mapper(x) = <<"ainst", x.dev, path[x.id]>>
  <2>1. Mapper(x)[1] = "ainst"
    BY <1>7
  <2> QED BY <1>2, <1>3, <1>4, <1>6, <2>1
<1>8. CASE Mapper(x) = <<"root">> \/ Mapper(x) = <<"home">>
  <2>1. 2 \notin DOMAIN Mapper(x)
    BY <1>8
  <2> QED BY <1>2, <1>3, <1>6, <2>1
<1> QED BY <1>5, <1>7, <1>8

\* Untouchable are the guarded partitions that are there.
LEMMA UntouchableGuarded ==
  \A n : n \in Untouchable <=> n \in DOMAIN layers /\ Guarded(layout, n)
<1>1. Devices = {m.dev : m \in ToSet(layout.devices)} /\ Groups = {g.name : g \in ToSet(layout.groups)}
  BY DEF Devices, Groups, ToSet
<1> QED BY <1>1 DEF Untouchable, Guarded

-----------------------------------------------------------------------------
(* What the commands do *)

\* What the commands are about.
LEMMA CommandFields ==
  ASSUME NEW c \in Command(layout)
  PROVE  /\ c.do \in {"wipefs", "luksFormat", "mkfs", "subvolumes", "unlock", "unlockIfClosed"} =>
              c.item \in NewItems(layout)
         /\ c.do \in {"wipefs", "luksFormat"} => c.on = "device"
         /\ c.do \in {"mkfs", "subvolumes"} => c.on \in Sides
         /\ c.do = "wipe" => \E m \in ToSet(layout.devices) : m.wipe /\ c.dev = m.dev
         /\ c.do = "commit" => c.mod \in ToSet(layout.devices)
         /\ c.do = "pvcreate" => c.pvs = GroupPvs(layout)
         /\ c.do = "lvcreate" => c.item \in Volumes(layout)
<1> DEFINE N == NewItems(layout)
           W == {m.dev : m \in {d \in ToSet(layout.devices) : d.wipe}}
<1>1. \A d \in W : \E m \in ToSet(layout.devices) : m.wipe /\ d = m.dev
  OBVIOUS
<1>2. CASE \/ c \in [do : {"release", "releaseLuks"}, node : NodeName]
           \/ c \in [do : Harmless, item : Items(layout), on : Sides]
           \/ c \in [do : {"mount"}, item : Items(layout), on : Sides, at : Directory]
           \/ c \in [do : {"vgcreate"}, name : Names, pvs : SUBSET Nat, mapped : SUBSET Nat]
           \/ c \in [do : {"handover"}]
  <2>1. c.do \in {"release", "releaseLuks", "mount", "vgcreate", "handover"} \cup Harmless
    BY <1>2, Zenon
  <2> QED BY <2>1 DEF Harmless
<1>3. CASE c \in [do : {"wipe"}, dev : W]
  <2> HIDE DEF W
  <2>1. c.do = "wipe" /\ c.dev \in W
    BY <1>3
  <2> QED BY <1>1, <2>1
<1>4. CASE c \in [do : {"commit"}, mod : ToSet(layout.devices)]
  BY <1>4
<1> HIDE DEF N
<1>5. CASE c \in [do : {"wipefs", "luksFormat"}, item : N, on : {"device"}]
  BY <1>5 DEF N
<1>6. CASE c \in [do : {"mkfs", "subvolumes"}, item : N, on : Sides]
  BY <1>6 DEF N
<1>7. CASE c \in [do : {"unlock", "unlockIfClosed"}, item : N, on : {"mapper"}]
  BY <1>7 DEF N
<1>8. CASE c \in [do : {"pvcreate"}, pvs : {GroupPvs(layout)}, mapped : SUBSET Nat]
  BY <1>8
<1>9. CASE c \in [do : {"lvcreate"}, item : Volumes(layout), on : {"device"}]
  BY <1>9
<1> QED BY <1>2, <1>3, <1>4, <1>5, <1>6, <1>7, <1>8, <1>9, Zenon DEF Command, N, W

\* The command that is next is one of the layout, and writes into no guarded partition.
LEMMA CmdType ==
  ASSUME IInv, NEW names, At(names)
  PROVE  /\ todo # <<>> /\ Cmd = Head(todo) /\ Cmd \in Command(layout) /\ Cmd.do \in names
         /\ \A x \in Through(layout, Cmd) : Held(x)
<1>1. /\ todo # <<>> /\ todo \in Seq(Command(layout)) /\ Cmd.do \in names /\ Cmd = Head(todo)
      /\ Secured(layout, HeldItems, todo)
  BY Zenon DEF At, Running, IInv, Cmd
<1>2. Head(todo) \in Command(layout)
  <2> DEFINE C == Command(layout)
  <2>1. todo \in Seq(C)
    BY <1>1
  <2> HIDE DEF C
  <2>2. Head(todo) \in C
    BY <1>1, <2>1
  <2> QED BY <2>2 DEF C
<1>3. \A x \in Through(layout, Head(todo)) : x \in HeldItems
  <2> DEFINE C == Command(layout)
             G == Items(layout)
  <2>1. ~Moves(Head(todo)) => \A x \in Items(layout) : x \in HeldItems \/ Opens(Head(todo), x) => x \in G
    BY Zenon
  <2> HIDE DEF G
  <2> QED BY <1>1, <2>1, SecuredTail, Zenon
<1> QED BY <1>1, <1>2, <1>3 DEF HeldItems

\* The next command is done; containers that were no guarded partitions still are none.
LEMMA Stepped ==
  ASSUME IInv, todo # <<>>, UNCHANGED layout, todo' = Tail(todo), NamesOk',
         \A m \in DOMAIN open' : m \notin NodeName,
         ~Moves(Head(todo)) => \A x \in Items(layout) : Held(x) \/ Opens(Head(todo), x) => Held(x)'
  PROVE  IInv'
<1> DEFINE C == Command(layout)
           H == HeldItems
           G == HeldItems'
<1>1. todo \in Seq(C) /\ Secured(layout, H, todo) /\ LayoutOk
  BY Zenon DEF IInv
<1>2. LayoutOk' /\ Command(layout)' = Command(layout)
  BY <1>1 DEF LayoutOk
<1>3. ~Moves(Head(todo)) => \A x \in Items(layout) : x \in H \/ Opens(Head(todo), x) => x \in G
  BY DEF HeldItems
<1>4. Tail(todo) \in Seq(C)
  <2> HIDE DEF C
  <2> QED BY <1>1
<1> HIDE DEF H, G
<1>5. Secured(layout, G, Tail(todo))
  <2> HIDE DEF C
  <2> QED BY <1>1, <1>3, SecuredTail, Zenon
<1>6. Secured(layout, HeldItems, todo)'
  <2>1. Secured(layout', G, todo')
    BY <1>5
  <2> QED BY <2>1 DEF G
<1>7. (todo \in Seq(Command(layout)))'
  BY <1>2, <1>4
<1> QED BY <1>2, <1>6, <1>7 DEF IInv

\* Where neither numbers nor partitions change, the names stay right.
LEMMA SameNodes ==
  ASSUME IInv, UNCHANGED <<layout, path>>, DOMAIN layers' = DOMAIN layers
  PROVE  NamesOk'
<1>1. NamesOk
  BY DEF IInv
<1>2. Items(layout)' = Items(layout) /\ NewItems(layout)' = NewItems(layout) /\ Ids' = Ids
  BY DEF Ids
<1> QED BY <1>1, <1>2 DEF NamesOk, NodesOk, Node

\* No device is written, no number changes.
LEMMA StillHeld ==
  ASSUME UNCHANGED <<layout, path, open>>
  PROVE  /\ \A x : Held(x)' <=> Held(x)
         /\ \A x : Mapper(x)' = Mapper(x)
<1>1. \A x : Mapper(x)' = Mapper(x)
  BY DEF Mapper, IsRoot
<1> QED BY <1>1 DEF Held


\* What the property says of a step.
Untouched == \A n \in Untouchable : n \in DOMAIN layers' /\ layers'[n] = layers[n]

\* Commands that leave partitions, containers and numbers alone.
LEMMA OtherActions ==
  ASSUME IInv, Unmount \/ Mount \/ CreateGroup \/ AwaitVolume \/ HandOver \/ AddCrypttab
  PROVE  IInv' /\ Untouched
<1> DEFINE names == {"release", "umount", "mountTmp", "mount", "swapon", "vgcreate", "lvwait",
                     "handover", "lvchange", "keyfile", "passphrase"}
<1>1. Cmd.do \in names /\ \E ns : At(ns)
  <2>1. \A ns : At(ns) => Cmd.do \in ns
    BY Zenon DEF At
  <2>2. CASE Unmount
    BY <2>1, <2>2, Zenon DEF Unmount
  <2>3. CASE Mount
    BY <2>1, <2>3, Zenon DEF Mount
  <2>4. CASE CreateGroup
    BY <2>1, <2>4, Zenon DEF CreateGroup
  <2>5. CASE AwaitVolume
    BY <2>1, <2>5, Zenon DEF AwaitVolume
  <2>6. CASE HandOver
    BY <2>1, <2>6, Zenon DEF HandOver
  <2>7. CASE AddCrypttab
    BY <2>1, <2>7, Zenon DEF AddCrypttab
  <2> QED BY <2>2, <2>3, <2>4, <2>5, <2>6, <2>7
<1>2. layout' = layout /\ path' = path /\ layers' = layers /\ open' = open /\ todo' = Tail(todo)
  BY DEF Unmount, Mount, CreateGroup, AwaitVolume, HandOver, AddCrypttab, machine, Advance
<1>3. todo # <<>> /\ Cmd = Head(todo)
  BY <1>1, CmdType, Zenon
<1>4. \A x : ~Opens(Head(todo), x)
  BY <1>1, <1>3 DEF Opens
<1>5. NamesOk'
  BY <1>2, SameNodes
<1>6. \A x : Held(x)' <=> Held(x)
  BY <1>2, StillHeld
<1>7. \A m \in DOMAIN open' : m \notin NodeName
  BY <1>2 DEF IInv
<1>8. IInv'
  BY <1>2, <1>3, <1>4, <1>5, <1>6, <1>7, Stepped
<1>9. Untouched
  BY <1>2 DEF Untouched, Untouchable
<1> QED BY <1>8, <1>9

\* Luks2.lock, and what umount_all_existing closes
LEMMA LockAction ==
  ASSUME IInv, Lock
  PROVE  IInv' /\ Untouched
<1> DEFINE node == IF Cmd.do = "lock" THEN Node(Cmd.item) ELSE Cmd.node
           S == DOMAIN open \ Children(node)
<1>1. /\ At({"releaseLuks", "lock"}) /\ open' = Restrict(open, S)
      /\ layout' = layout /\ path' = path /\ layers' = layers /\ todo' = Tail(todo)
  BY Zenon DEF Lock, Advance
<1>2. todo # <<>> /\ Cmd = Head(todo) /\ Cmd.do \in {"releaseLuks", "lock"}
  BY <1>1, CmdType, Zenon
<1>3. DOMAIN open' \subseteq DOMAIN open /\ \A m \in DOMAIN open' : open'[m] = open[m]
  <2>1. open' = [m \in S |-> open[m]]
    BY <1>1, Zenon DEF Restrict
  <2>2. S \subseteq DOMAIN open
    OBVIOUS
  <2> HIDE DEF S
  <2> QED BY <2>1, <2>2
<1>4. \A x : ~Opens(Head(todo), x)
  BY <1>2 DEF Opens
<1>5. NamesOk'
  BY <1>1, SameNodes
<1>6. \A x : Held(x) => Held(x)'
  <2>1. \A x : Mapper(x)' = Mapper(x)
    BY <1>1 DEF Mapper, IsRoot
  <2> QED BY <1>1, <1>3, <2>1 DEF Held
<1>7. \A m \in DOMAIN open' : m \notin NodeName
  BY <1>3 DEF IInv
<1>8. IInv'
  BY <1>1, <1>2, <1>4, <1>5, <1>6, <1>7, Stepped
<1>9. Untouched
  BY <1>1 DEF Untouched, Untouchable
<1> QED BY <1>8, <1>9

\* Luks2.unlock: below the opened name is now the partition of the item.
LEMMA UnlockAction ==
  ASSUME IInv, Unlock
  PROVE  IInv' /\ Untouched
<1> DEFINE x == Cmd.item
<1>1. /\ At({"unlock", "unlockIfClosed"})
      /\ open' = IF Unlocks(Cmd) THEN With(open, Mapper(x), Node(x)) ELSE open
      /\ layout' = layout /\ path' = path /\ layers' = layers /\ todo' = Tail(todo)
  BY Zenon DEF Unlock, Advance
<1>2. /\ todo # <<>> /\ Cmd = Head(todo) /\ Cmd \in Command(layout)
      /\ Cmd.do \in {"unlock", "unlockIfClosed"}
  BY <1>1, CmdType, Zenon
<1>3. x \in NewItems(layout)
  BY <1>2, CommandFields
<1>4. LayoutOk /\ path \in [Ids -> PathValue] /\ ~Guarded(layout, Node(x)) /\ x \in Items(layout)
  BY <1>3, Zenon DEF IInv, NamesOk, NewItems
<1>5. Mapper(x) \notin NodeName
  BY <1>4, NodeType, Zenon
<1>6. \A y : Mapper(y)' = Mapper(y)
  BY <1>1 DEF Mapper, IsRoot
<1>7. /\ \A m \in DOMAIN open' : m \in DOMAIN open \/ m = Mapper(x)
      /\ \A m \in DOMAIN open' :
           m \in DOMAIN open /\ (m # Mapper(x) \/ ~Unlocks(Cmd)) => open'[m] = open[m]
      /\ Unlocks(Cmd) => Mapper(x) \in DOMAIN open' /\ open'[Mapper(x)] = Node(x)
  <2>1. CASE Unlocks(Cmd)
    <3>1. open' = [y \in DOMAIN open \cup {Mapper(x)} |-> IF y = Mapper(x) THEN Node(x) ELSE open[y]]
      BY <1>1, <2>1, Zenon DEF With
    <3> QED BY <2>1, <3>1
  <2>2. CASE ~Unlocks(Cmd)
    BY <1>1, <2>2
  <2> QED BY <2>1, <2>2
<1>8. \A m \in DOMAIN open' : m \notin NodeName
  BY <1>5, <1>7 DEF IInv
<1>9. ASSUME NEW y \in Items(layout), Held(y) \/ Opens(Head(todo), y)
      PROVE  Held(y)'
  <2>1. SUFFICES ASSUME Mapper(y) \in DOMAIN open' PROVE ~Guarded(layout, open'[Mapper(y)])
    BY <1>1, <1>6 DEF Held
  <2>2. CASE Unlocks(Cmd) /\ Mapper(y) = Mapper(x)
    BY <1>4, <1>7, <2>2
  <2>3. CASE ~(Unlocks(Cmd) /\ Mapper(y) = Mapper(x))
    <3>1. ~Opens(Head(todo), y)
      BY <1>2, <2>3 DEF Opens, Unlocks
    <3>2. Mapper(y) \in DOMAIN open
      BY <1>1, <1>7, <2>1, <2>3
    <3>3. open'[Mapper(y)] = open[Mapper(y)]
      BY <1>7, <2>1, <2>3, <3>2
    <3> QED BY <1>9, <3>1, <3>2, <3>3 DEF Held
  <2> QED BY <2>2, <2>3
<1>10. NamesOk'
  BY <1>1, SameNodes
<1>11. IInv'
  BY <1>1, <1>2, <1>8, <1>9, <1>10, Stepped
<1>12. Untouched
  BY <1>1 DEF Untouched, Untouchable
<1> QED BY <1>11, <1>12

\* wipe_dev: a device with a partition that is kept is not wiped.
LEMMA WipeAction ==
  ASSUME IInv, WipeDevice
  PROVE  IInv' /\ Untouched
<1>1. /\ At({"wipe"})
      /\ layers' = [n \in DOMAIN layers |-> IF n[1] = Cmd.dev THEN <<"stale">> ELSE layers[n]]
      /\ layout' = layout /\ path' = path /\ open' = open /\ todo' = Tail(todo)
  BY Zenon DEF WipeDevice, Advance
<1>2. todo # <<>> /\ Cmd = Head(todo) /\ Cmd \in Command(layout) /\ Cmd.do \in {"wipe"}
  BY <1>1, CmdType, Zenon
<1>3. PICK m \in ToSet(layout.devices) : m.wipe /\ Cmd.dev = m.dev
  BY <1>2, CommandFields
<1>4. ASSUME NEW n \in Untouchable
      PROVE  n[1] # m.dev
  <2>1. n \in DOMAIN layers /\ Guarded(layout, n)
    BY UntouchableGuarded, Zenon
  <2>2. LayoutOk /\ DOMAIN layers \subseteq NodeName
    BY DEF IInv, NamesOk, NodesOk
  <2>3. n = <<n[1], n[2]>>
    BY <2>1, <2>2 DEF NodeName
  <2> SUFFICES ASSUME n[1] = m.dev PROVE FALSE
    OBVIOUS
  <2>4. Guarded(layout, <<m.dev, n[2]>>)
    BY <2>1, <2>3
  <2>5. PICK x \in ToSet(m.parts) : Kept(x)
    <3>1. Guarded(layout, <<m.dev, n[2]>>) <=> \E x \in ToSet(m.parts) : Kept(x) /\ n[2] = x.num
      BY <2>2, GuardedNodes
    <3> QED BY <2>4, <3>1
  <2>6. x.status # "create"
    BY <2>5 DEF Kept
  <2> QED BY <1>3, <2>2, <2>5, <2>6, LegalItems, Zenon
<1>5. Untouched
  BY <1>1, <1>3, <1>4, UntouchableGuarded DEF Untouched
<1>6. DOMAIN layers' = DOMAIN layers
  BY <1>1
<1>7. NamesOk'
  BY <1>1, <1>6, SameNodes
<1>8. \A x : ~Opens(Head(todo), x)
  BY <1>2 DEF Opens
<1>9. \A x : Held(x)' <=> Held(x)
  BY <1>1, StillHeld
<1>10. \A k \in DOMAIN open' : k \notin NodeName
  BY <1>1 DEF IInv
<1>11. IInv'
  BY <1>1, <1>2, <1>7, <1>8, <1>9, <1>10, Stepped
<1> QED BY <1>5, <1>11

\* wipefs, mkfs, luksFormat and the btrfs subvolumes: written is the partition of a new item,
\* or what is below its container.
LEMMA WriteAction ==
  ASSUME IInv, WriteDevice
  PROVE  IInv' /\ Untouched
<1> DEFINE x == Cmd.item
           f == File(Cmd)
           names == {"wipefs", "luksFormat", "mkfs", "subvolumes"}
<1>1. /\ \E ns : At(ns)
      /\ Cmd.do \in names
      /\ \E what : Write(f, what)
      /\ layout' = layout /\ path' = path /\ open' = open /\ todo' = Tail(todo)
  <2>1. \A ns : At(ns) => Cmd.do \in ns
    BY Zenon DEF At
  <2>2. \/ At({"wipefs"}) \/ At({"luksFormat"}) \/ At({"mkfs"}) \/ At({"subvolumes"})
    BY Zenon DEF WriteDevice
  <2>3. Cmd.do \in names
    BY <2>1, <2>2, Zenon
  <2>4. \E what : Write(f, what)
    BY Zenon DEF WriteDevice
  <2> QED BY <2>2, <2>3, <2>4, Zenon DEF WriteDevice, Advance
<1>2. /\ todo # <<>> /\ Cmd = Head(todo) /\ Cmd \in Command(layout)
      /\ \A y \in Through(layout, Cmd) : Held(y)
  BY <1>1, CmdType, Zenon
<1>3. x \in NewItems(layout) /\ (Cmd.on = "device" \/ (Cmd.on = "mapper" /\ Cmd.do \in {"mkfs", "subvolumes"}))
  BY <1>1, <1>2, CommandFields DEF Sides
<1>4. LayoutOk /\ path \in [Ids -> PathValue] /\ ~Guarded(layout, Node(x)) /\ x \in Items(layout)
  BY <1>3, Zenon DEF IInv, NamesOk, NewItems
<1>5. Node(x) \in NodeName /\ Mapper(x) \notin NodeName
  BY <1>4, NodeType, Zenon
<1>6. PICK what : Write(f, what)
  BY <1>1
<1>7. DOMAIN layers' = DOMAIN layers
  BY <1>6 DEF Write
<1>8. ASSUME NEW n \in DOMAIN layers, Guarded(layout, n)
      PROVE  layers'[n] = layers[n]
  <2>1. n \in NodeName
    BY DEF IInv, NamesOk, NodesOk
  <2>2. \A m \in DOMAIN open : m \notin NodeName
    BY DEF IInv
  <2>3. CASE Cmd.on = "device"
    <3>1. f = Node(x)
      BY <2>3 DEF File
    <3>2. f \notin DOMAIN open /\ n # f
      BY <1>4, <1>5, <1>8, <2>2, <3>1
    <3> HIDE DEF f
    <3> QED BY <1>6, <3>2 DEF Write
  <2>4. CASE Cmd.on = "mapper" /\ Cmd.do \in {"mkfs", "subvolumes"}
    <3>1. f = Mapper(x)
      BY <2>4 DEF File
    <3>2. x \in Through(layout, Cmd)
      BY <1>4, <2>4 DEF Through
    <3>3. Held(x)
      BY <1>2, <3>2
    <3>4. f \in DOMAIN open => n # open[f]
      BY <1>8, <3>1, <3>3 DEF Held
    <3>5. n # f
      BY <1>5, <2>1, <3>1
    <3> HIDE DEF f
    <3> QED BY <1>6, <3>4, <3>5 DEF Write
  <2> QED BY <1>3, <2>3, <2>4
<1>9. Untouched
  BY <1>7, <1>8, UntouchableGuarded DEF Untouched
<1>10. NamesOk'
  BY <1>1, <1>7, SameNodes
<1>11. \A y : ~Opens(Head(todo), y)
  BY <1>1, <1>2 DEF Opens
<1>12. \A y : Held(y)' <=> Held(y)
  BY <1>1, StillHeld
<1>13. \A k \in DOMAIN open' : k \notin NodeName
  BY <1>1 DEF IInv
<1>14. IInv'
  BY <1>1, <1>2, <1>10, <1>11, <1>12, <1>13, Stepped
<1> QED BY <1>9, <1>14

\* lvm_pv_create: no physical volume is kept, and their containers hold no kept partition.
LEMMA PvAction ==
  ASSUME IInv, CreatePvs
  PROVE  IInv' /\ Untouched
<1> DEFINE files == PvFiles(Cmd)
           inner == {open[f] : f \in files \cap DOMAIN open}
<1>1. /\ At({"pvcreate"})
      /\ layers' = [n \in DOMAIN layers |->
                      IF n \in files THEN <<"pv">>
                      ELSE IF n \in inner THEN <<"luks", "pv">> ELSE layers[n]]
      /\ layout' = layout /\ path' = path /\ open' = open /\ todo' = Tail(todo)
  BY Zenon DEF CreatePvs, Advance
<1>2. /\ todo # <<>> /\ Cmd = Head(todo) /\ Cmd \in Command(layout) /\ Cmd.do \in {"pvcreate"}
      /\ \A y \in Through(layout, Cmd) : Held(y)
  BY <1>1, CmdType, Zenon
<1>3. Cmd.pvs = GroupPvs(layout)
  BY <1>2, CommandFields
<1>4. LayoutOk /\ path \in [Ids -> PathValue]
  BY DEF IInv, NamesOk
<1>5. ASSUME NEW id \in Cmd.pvs
      PROVE  /\ ItemOf(id) \in NewItems(layout) /\ ItemOf(id).id = id
             /\ Node(ItemOf(id)) \in NodeName /\ Mapper(ItemOf(id)) \notin NodeName
             /\ ~Guarded(layout, Node(ItemOf(id)))
  <2>1. PICK x \in Partitions(layout) : x.id = id /\ ~Kept(x)
    BY <1>3, <1>4, LegalItems, Zenon
  <2>2. x \in Items(layout)
    BY Zenon DEF Items
  <2>3. ItemOf(id) = x
    BY <1>4, <2>1, <2>2, ItemOfId, Zenon
  <2>4. x \in NewItems(layout)
    BY <2>1, <2>2, Zenon DEF NewItems
  <2>5. ~Guarded(layout, Node(x))
    BY <2>4, Zenon DEF IInv, NamesOk
  <2> QED BY <1>4, <2>1, <2>2, <2>3, <2>4, <2>5, NodeType, Zenon
<1>6. \A f \in files : \E id \in Cmd.pvs :
        f = IF id \in Cmd.mapped THEN Mapper(ItemOf(id)) ELSE Node(ItemOf(id))
  BY DEF PvFiles
<1>7. ASSUME NEW n \in DOMAIN layers, Guarded(layout, n)
      PROVE  n \notin files /\ n \notin inner
  <2>1. n \in NodeName
    BY DEF IInv, NamesOk, NodesOk
  <2>2. \A m \in DOMAIN open : m \notin NodeName
    BY DEF IInv
  <2>3. ASSUME NEW f \in files
        PROVE  n # f /\ (f \in DOMAIN open => n # open[f])
    <3>1. PICK id \in Cmd.pvs :
            f = IF id \in Cmd.mapped THEN Mapper(ItemOf(id)) ELSE Node(ItemOf(id))
      BY <1>6
    <3>2. CASE id \in Cmd.mapped
      <4>1. f = Mapper(ItemOf(id)) /\ n # f
        BY <1>5, <2>1, <3>1, <3>2
      <4>2. ItemOf(id) \in Through(layout, Cmd)
        BY <1>2, <1>5, <3>2 DEF Through, NewItems
      <4>3. Held(ItemOf(id))
        BY <1>2, <4>2
      <4> QED BY <1>7, <4>1, <4>3 DEF Held
    <3>3. CASE id \notin Cmd.mapped
      BY <1>5, <1>7, <2>2, <3>1, <3>3
    <3> QED BY <3>2, <3>3
  <2> HIDE DEF files
  <2> QED BY <2>3
<1>8. DOMAIN layers' = DOMAIN layers
  BY <1>1
<1>9. Untouched
  <2> HIDE DEF files, inner
  <2>1. \A n \in DOMAIN layers : Guarded(layout, n) => layers'[n] = layers[n]
    BY <1>1, <1>7
  <2> QED BY <1>8, <2>1, UntouchableGuarded DEF Untouched
<1>10. NamesOk'
  BY <1>1, <1>8, SameNodes
<1>11. \A y : ~Opens(Head(todo), y)
  BY <1>2 DEF Opens
<1>12. \A y : Held(y)' <=> Held(y)
  BY <1>1, StillHeld
<1>13. \A k \in DOMAIN open' : k \notin NodeName
  BY <1>1 DEF IInv
<1>14. IInv'
  BY <1>1, <1>2, <1>10, <1>11, <1>12, <1>13, Stepped
<1> QED BY <1>9, <1>14

\* lvm_vol_create
LEMMA VolumeAction ==
  ASSUME IInv, CreateVolume
  PROVE  IInv' /\ Untouched
<1> DEFINE x == Cmd.item
           lv == <<x.dev, x.num>>
<1>1. /\ At({"lvcreate"}) /\ path' = [path EXCEPT ![x.id] = x.num]
      /\ \/ lv \notin DOMAIN layers /\ layers' = With(layers, lv, <<>>)
         \/ layers' = layers
      /\ layout' = layout /\ open' = open /\ todo' = Tail(todo)
  BY Zenon DEF CreateVolume, Advance
<1>2. todo # <<>> /\ Cmd = Head(todo) /\ Cmd \in Command(layout) /\ Cmd.do \in {"lvcreate"}
  BY <1>1, CmdType, Zenon
<1>3. x \in Volumes(layout)
  BY <1>2, CommandFields
<1>4. LayoutOk /\ NamesOk /\ path \in [Ids -> PathValue] /\ NodesOk
  BY DEF IInv, NamesOk
<1>5. x \in Items(layout) /\ x \in NewItems(layout) /\ x.id \in Ids
  BY <1>3, <1>4, VolumeItems, Zenon DEF Ids
<1>6. x.num \in Names /\ x.dev \in Names /\ \A m \in ToSet(layout.devices) : m.dev # x.dev
  <2>1. PICK g \in ToSet(layout.groups) : x \in ToSet(g.volumes)
    BY <1>3, <1>4, ItemsType, Zenon
  <2>2. x.num \in Names /\ x.dev = g.name
    BY <1>4, <2>1, LegalItems, Zenon
  <2>3. \A m \in ToSet(layout.devices) : m.dev # g.name
    BY <1>4, LegalItems, Zenon
  <2>4. g.name \in Names
    <3>1. g \in Group
      BY <1>4, LayoutType, Zenon
    <3> QED BY <3>1, Zenon DEF Group
  <2> QED BY <2>2, <2>3, <2>4
<1>7. /\ DOMAIN layers \subseteq DOMAIN layers'
      /\ DOMAIN layers' \subseteq DOMAIN layers \cup {lv}
      /\ \A n \in DOMAIN layers : layers'[n] = layers[n]
  <2>1. CASE lv \notin DOMAIN layers /\ layers' = With(layers, lv, <<>>)
    <3>1. layers' = [y \in DOMAIN layers \cup {lv} |-> IF y = lv THEN <<>> ELSE layers[y]]
      BY <2>1, Zenon DEF With
    <3> HIDE DEF lv
    <3> QED BY <2>1, <3>1
  <2>2. CASE layers' = layers
    BY <2>2
  <2> QED BY <1>1, <2>1, <2>2
<1>8. Untouched
  BY <1>7, UntouchableGuarded DEF Untouched
<1>9. lv \in NodeName /\ lv[1] = x.dev
  BY <1>6 DEF NodeName
<1>10. NodesOk'
  <2>1. IsFiniteSet(DOMAIN layers')
    <3> DEFINE S == DOMAIN layers \cup {lv}
    <3>1. IsFiniteSet(DOMAIN layers)
      BY <1>4, Zenon DEF NodesOk
    <3>2. IsFiniteSet(S)
      <4> HIDE DEF lv
      <4> QED BY <3>1, FS_AddElement, Zenon
    <3>3. DOMAIN layers' \in SUBSET S
      BY <1>7
    <3> HIDE DEF S
    <3> QED BY <3>2, <3>3, FS_Subset, Zenon
  <2> HIDE DEF lv
  <2>2. DOMAIN layers' \subseteq NodeName
    BY <1>4, <1>7, <1>9 DEF NodesOk
  <2>3. \A n \in DOMAIN layers' : \A m \in ToSet(layout.devices) : n[1] = m.dev => n[2] \in Nat
    BY <1>4, <1>6, <1>7, <1>9 DEF NodesOk
  <2> QED BY <1>1, <2>1, <2>2, <2>3 DEF NodesOk
<1>11. path' \in [Ids -> PathValue]
  BY <1>1, <1>4, <1>6 DEF PathValue
<1>12. ASSUME NEW y \in NewItems(layout)
       PROVE  ~Guarded(layout, <<y.dev, path'[y.id]>>)
  <2>1. y \in Items(layout) /\ y.id \in Ids
    BY Zenon DEF NewItems, Ids
  <2>2. CASE y = x
    <3>1. \A n : ~Guarded(layout, <<x.dev, n>>)
      BY <1>3, <1>4, GuardedNodes, Zenon
    <3> QED BY <2>2, <3>1, Zenon
  <2>3. CASE y # x
    <3>1. y.id # x.id
      BY <1>4, <1>5, <2>1, <2>3, LegalItems, Zenon
    <3>2. path'[y.id] = path[y.id]
      BY <1>1, <1>4, <2>1, <3>1
    <3>3. ~Guarded(layout, <<y.dev, path[y.id]>>)
      BY <1>4, Zenon DEF NamesOk, Node
    <3> QED BY <3>2, <3>3
  <2> QED BY <2>2, <2>3
<1>13. NamesOk'
  <2>1. Items(layout)' = Items(layout) /\ NewItems(layout)' = NewItems(layout) /\ Ids' = Ids
    BY <1>1 DEF Ids
  <2>2. \A y \in Items(layout) : Kept(y) => <<y.dev, y.num>> \in DOMAIN layers'
    BY <1>4, <1>7 DEF NamesOk
  <2> QED BY <1>1, <1>10, <1>11, <1>12, <2>1, <2>2 DEF NamesOk, Node
<1>14. Moves(Head(todo))
  BY <1>2 DEF Moves
<1>15. \A k \in DOMAIN open' : k \notin NodeName
  BY <1>1 DEF IInv
<1>16. IInv'
  BY <1>1, <1>2, <1>13, <1>14, <1>15, Stepped
<1> QED BY <1>8, <1>16

\* disk.commit: numbers that are in use are not given away, and what is kept is in use.
LEMMA CommitAction ==
  ASSUME IInv, Commit
  PROVE  IInv' /\ Untouched
<1> DEFINE m == Cmd.mod
           acc == Placed(m)
           new == {<<m.dev, n>> : n \in acc.used}
           rest == DOMAIN layers \ Nodes(m.dev)
<1>1. /\ At({"commit"}) /\ path' = acc.path /\ layers' = Repartitioned(m)
      /\ layout' = layout /\ open' = open /\ todo' = Tail(todo)
  BY Zenon DEF Commit, Advance
<1>2. todo # <<>> /\ Cmd = Head(todo) /\ Cmd \in Command(layout) /\ Cmd.do \in {"commit"}
  BY <1>1, CmdType, Zenon
<1>3. m \in ToSet(layout.devices)
  BY <1>2, CommandFields
<1>4. LayoutOk /\ NamesOk /\ NodesOk /\ path \in [Ids -> PathValue]
  BY DEF IInv, NamesOk
<1>5. PlacedOk(m, acc)
  BY <1>3, <1>4, PlacedType, Zenon
<1>6. /\ acc.path \in [Ids -> PathValue] /\ acc.used \in SUBSET Nat /\ IsFiniteSet(acc.used)
      /\ \A x \in ToSet(m.parts) : Kept(x) => x.num \in acc.used
      /\ \A x \in NewItems(layout) : ~Guarded(layout, <<x.dev, acc.path[x.id]>>)
  <2>1. acc \in [path : [Ids -> PathValue], used : SUBSET Nat]
    BY <1>5, Zenon DEF PlacedOk
  <2> QED BY <1>5, <2>1, Zenon DEF PlacedOk
<1> HIDE DEF m, acc
<1>7. /\ DOMAIN layers' = rest \cup new
      /\ \A n \in rest \cup new : n \in DOMAIN layers /\ n \notin Removed(m) => layers'[n] = layers[n]
  <2>1. layers' = [n \in rest \cup new |->
                     IF n \in DOMAIN layers /\ n \notin Removed(m) THEN layers[n] ELSE <<"stale">>]
    BY <1>1, Zenon DEF Repartitioned, acc
  <2> HIDE DEF rest, new
  <2> QED BY <2>1
<1>8. ASSUME NEW n \in DOMAIN layers, Guarded(layout, n)
      PROVE  n \in rest \cup new /\ n \notin Removed(m)
  <2>1. n = <<n[1], n[2]>>
    BY <1>4 DEF NodesOk, NodeName
  <2>2. \A x \in NewItems(layout) : n # Node(x)
    BY <1>4, <1>8, Zenon DEF NamesOk
  <2>3. CASE n[1] # m.dev
    <3>1. n \notin Nodes(m.dev)
      BY <2>3 DEF Nodes
    <3>2. ~m.wipe => n \notin Removed(m)
      <4> SUFFICES ASSUME ~m.wipe, n \in Removed(m) PROVE FALSE
        OBVIOUS
      <4>1. PICK x \in ToSet(m.parts) : x.status \in {"modify", "delete"} /\ n = Node(x)
        BY DEF Removed
      <4>2. x \in Items(layout)
        BY <1>3, <1>4, ItemsType, Zenon
      <4>3. x \in NewItems(layout)
        BY <4>1, <4>2 DEF NewItems, Kept
      <4> QED BY <2>2, <4>1, <4>3
    <3>3. m.wipe => n \notin Removed(m)
      BY <3>1 DEF Removed
    <3> QED BY <1>8, <3>1, <3>2, <3>3
  <2>4. CASE n[1] = m.dev
    <3>1. PICK x \in ToSet(m.parts) : Kept(x) /\ n[2] = x.num
      <4>1. Guarded(layout, <<m.dev, n[2]>>)
        BY <1>8, <2>1, <2>4
      <4>2. Guarded(layout, <<m.dev, n[2]>>) <=> \E x \in ToSet(m.parts) : Kept(x) /\ n[2] = x.num
        BY <1>3, <1>4, GuardedNodes
      <4> QED BY <4>1, <4>2
    <3>2. n[2] \in acc.used
      BY <1>6, <3>1
    <3>3. n \in new
      BY <2>1, <2>4, <3>2
    <3>4. ~m.wipe
      <4>1. x.status # "create"
        BY <3>1 DEF Kept
      <4> QED BY <1>3, <1>4, <4>1, LegalItems, Zenon
    <3>5. n \notin Removed(m)
      <4> SUFFICES ASSUME n \in Removed(m) PROVE FALSE
        OBVIOUS
      <4>1. PICK y \in ToSet(m.parts) : y.status \in {"modify", "delete"} /\ n = Node(y)
        BY <3>4 DEF Removed
      <4>2. y \in Items(layout)
        BY <1>3, <1>4, ItemsType, Zenon
      <4>3. y \in NewItems(layout)
        BY <4>1, <4>2 DEF NewItems, Kept
      <4> QED BY <2>2, <4>1, <4>3
    <3> QED BY <3>3, <3>5
  <2> QED BY <2>3, <2>4
<1>9. \A n \in DOMAIN layers : Guarded(layout, n) => n \in DOMAIN layers' /\ layers'[n] = layers[n]
  <2> HIDE DEF rest, new
  <2> QED BY <1>7, <1>8
<1>10. Untouched
  BY <1>9, UntouchableGuarded, Zenon DEF Untouched
<1>11. m.dev \in Names
  <2>1. m \in Device
    BY <1>3, <1>4, LayoutType, Zenon
  <2> QED BY <2>1, Zenon DEF Device
<1>12. \A n \in new : n \in NodeName /\ n[2] \in Nat
  BY <1>6, <1>11 DEF NodeName
<1>13. NodesOk'
  <2>1. IsFiniteSet(rest \cup new)
    <3>1. IsFiniteSet(new)
      <4> DEFINE u == acc.used
                 d == m.dev
                 g == [k \in u |-> <<d, k>>]
      <4>1. new = {<<d, k>> : k \in u}
        OBVIOUS
      <4> HIDE DEF u, d, new
      <4>2. g \in [u -> new] /\ \A v \in new : \E k \in u : g[k] = v
        BY <4>1
      <4> HIDE DEF g
      <4>3. g \in Surjection(u, new)
        BY <4>2, Fun_IsSurj, Zenon
      <4>4. IsFiniteSet(u)
        BY <1>6, Zenon DEF u
      <4> QED BY <4>3, <4>4, FS_Surjection, Zenon
    <3>2. IsFiniteSet(DOMAIN layers)
      BY <1>4, Zenon DEF NodesOk
    <3>3. rest \in SUBSET (DOMAIN layers)
      OBVIOUS
    <3> HIDE DEF rest, new
    <3>4. IsFiniteSet(rest)
      BY <3>2, <3>3, FS_Subset, Zenon
    <3> QED BY <3>1, <3>4, FS_Union, Zenon
  <2>2. rest \subseteq DOMAIN layers
    OBVIOUS
  <2> HIDE DEF rest, new
  <2>3. DOMAIN layers' \subseteq NodeName
    BY <1>4, <1>7, <1>12, <2>2 DEF NodesOk
  <2>4. \A n \in DOMAIN layers' : \A d \in ToSet(layout.devices) : n[1] = d.dev => n[2] \in Nat
    BY <1>4, <1>7, <1>12, <2>2 DEF NodesOk
  <2>5. IsFiniteSet(DOMAIN layers')
    BY <1>7, <2>1
  <2> QED BY <1>1, <2>3, <2>4, <2>5 DEF NodesOk
<1>14. ASSUME NEW x \in Items(layout), Kept(x)
       PROVE  <<x.dev, x.num>> \in DOMAIN layers'
  <2>1. <<x.dev, x.num>> \in DOMAIN layers
    BY <1>4, <1>14, Zenon DEF NamesOk
  <2>2. Guarded(layout, <<x.dev, x.num>>)
    BY <1>14, Zenon DEF Guarded
  <2> QED BY <1>9, <2>1, <2>2, Zenon
<1>15. NamesOk'
  <2>1. Items(layout)' = Items(layout) /\ NewItems(layout)' = NewItems(layout) /\ Ids' = Ids
    BY <1>1 DEF Ids
  <2>2. path' \in [Ids -> PathValue]
    BY <1>1, <1>6
  <2>3. \A y \in NewItems(layout) : ~Guarded(layout, <<y.dev, path'[y.id]>>)
    BY <1>1, <1>6
  <2> QED BY <1>1, <1>13, <1>14, <2>1, <2>2, <2>3 DEF NamesOk, Node
<1>16. Moves(Head(todo))
  BY <1>2 DEF Moves
<1>17. \A k \in DOMAIN open' : k \notin NodeName
  BY <1>1 DEF IInv
<1>18. IInv'
  BY <1>1, <1>2, <1>15, <1>16, <1>17, Stepped
<1> QED BY <1>10, <1>18

\* The devices the layout knows before anything is partitioned are no guarded partitions,
\* but for those of the items that are kept.
LEMMA KnownPathsOk ==
  ASSUME LayoutOk
  PROVE  /\ KnownPaths \in [Ids -> PathValue]
         /\ \A x \in NewItems(layout) : ~Guarded(layout, <<x.dev, KnownPaths[x.id]>>)
<1>1. ASSUME NEW x \in Items(layout)
      PROVE  x.id \in Ids /\ KnownPaths[x.id] = IF x.lv THEN Nowhere ELSE x.num
  <2>1. x.id \in Ids
    BY Zenon DEF Ids
  <2>2. ItemOf(x.id) = x
    BY ItemOfId, Zenon
  <2>3. KnownPaths[x.id] = IF ItemOf(x.id).lv THEN Nowhere ELSE ItemOf(x.id).num
    BY <2>1, Zenon DEF KnownPaths, Ids
  <2> QED BY <2>1, <2>2, <2>3
<1>2. \A x \in Items(layout) : x.num \in PathValue
  <2>1. \A x \in Items(layout) : x \in Item
    BY ItemsType, Zenon
  <2> QED BY <2>1, Zenon DEF Item, PathValue
<1>3. KnownPaths \in [Ids -> PathValue]
  <2>1. \A id \in Ids : \E x \in Items(layout) : x.id = id
    BY DEF Ids
  <2>2. \A id \in Ids : KnownPaths[id] \in PathValue
    <3> TAKE id \in Ids
    <3>1. PICK x \in Items(layout) : x.id = id
      BY <2>1
    <3>2. Nowhere \in PathValue
      BY Zenon DEF PathValue
    <3> QED BY <1>1, <1>2, <3>1, <3>2
  <2>3. KnownPaths = [id \in Ids |-> KnownPaths[id]]
    BY DEF KnownPaths, Ids
  <2> QED BY <2>2, <2>3
<1>4. ASSUME NEW x \in NewItems(layout)
      PROVE  ~Guarded(layout, <<x.dev, KnownPaths[x.id]>>)
  <2>1. x \in Items(layout) /\ ~Kept(x)
    BY Zenon DEF NewItems
  <2>2. CASE x \in Volumes(layout)
    BY <2>2, GuardedNodes, Zenon
  <2>3. CASE x \notin Volumes(layout)
    <3>1. PICK m \in ToSet(layout.devices) : x \in ToSet(m.parts)
      <4>1. x \in Partitions(layout)
        BY <2>1, <2>3, Zenon DEF Items
      <4> QED BY <4>1, ItemsType, Zenon
    <3>2. ~x.lv /\ x.dev = m.dev
      BY <3>1, LegalItems, Zenon
    <3>3. KnownPaths[x.id] = x.num
      BY <1>1, <2>1, <3>2
    <3>4. ASSUME NEW y \in ToSet(m.parts), Kept(y), x.num = y.num
          PROVE  FALSE
      <4>1. y \in Items(layout) /\ y.dev = m.dev
        BY ItemsType, LegalItems, Zenon
      <4>2. y.num \in Nat
        BY <3>4, <4>1, GuardedNodes, Zenon
      <4>3. y.num # Nowhere
        BY <4>2, MachinesAssumption
      <4>4. x = y
        <5>1. Legal(layout)
          BY DEF LayoutOk
        <5>2. \A v, w \in Items(layout) :
                v.id = w.id \/ (v.dev = w.dev /\ v.num = w.num /\ v.num # Nowhere) => v = w
          BY <5>1, Zenon DEF Legal
        <5> QED BY <2>1, <3>2, <3>4, <4>1, <4>3, <5>2
      <4> QED BY <2>1, <3>4, <4>4
    <3>5. Guarded(layout, <<m.dev, x.num>>) <=> \E y \in ToSet(m.parts) : Kept(y) /\ x.num = y.num
      BY GuardedNodes
    <3>6. ~Guarded(layout, <<m.dev, x.num>>)
      BY <3>4, <3>5, Zenon
    <3> QED BY <3>2, <3>3, <3>6
  <2> QED BY <2>2, <2>3
<1> QED BY <1>3, <1>4

\* A refused command and a failing device end the attempt, and nothing else.
LEMMA FailAction ==
  ASSUME IInv, Refused \/ DeviceError
  PROVE  IInv' /\ Untouched
<1>1. UNCHANGED <<layout, path, layers, open, todo>>
  BY DEF Refused, DeviceError, Fail, machine
<1>2. NamesOk'
  BY <1>1, SameNodes
<1>3. HeldItems' = HeldItems
  BY <1>1 DEF HeldItems, Held, Mapper, IsRoot
<1>4. LayoutOk' /\ Command(layout)' = Command(layout)
  BY <1>1 DEF IInv, LayoutOk
<1>5. Secured(layout, HeldItems, todo)'
  BY <1>1, <1>3 DEF IInv
<1> QED BY <1>1, <1>2, <1>4, <1>5 DEF IInv, Untouched, Untouchable

\* The line that a start computes holds on any machine, whatever is open there.
LEMMA LineIsSecured ==
  ASSUME LayoutOk, NodesOk
  PROVE  Commands \in Seq(Command(layout)) /\ \A H : Secured(layout, H, Commands)
<1>1. Commands \in Safe(layout)
  BY CommandsType, Zenon
<1>2. Commands \in Seq(Command(layout))
  BY <1>1, Zenon DEF Safe
<1> QED BY <1>1, <1>2, SecuredSafe, Zenon

\* Another start meets the partitions as the last attempt left them.
LEMMA RestartAction ==
  ASSUME IInv, Restart
  PROVE  IInv' /\ Untouched
<1>1. layout' = layout /\ layers' = layers /\ open' = open /\ path' = KnownPaths /\ todo' = Commands
  BY DEF Restart, machine
<1>2. LayoutOk /\ NodesOk /\ NamesOk
  BY DEF IInv, NamesOk
<1>3. /\ KnownPaths \in [Ids -> PathValue]
      /\ \A x \in NewItems(layout) : ~Guarded(layout, <<x.dev, KnownPaths[x.id]>>)
  BY <1>2, KnownPathsOk, Zenon
<1>4. Items(layout)' = Items(layout) /\ NewItems(layout)' = NewItems(layout) /\ Ids' = Ids
  BY <1>1 DEF Ids
<1>5. NamesOk'
  BY <1>1, <1>2, <1>3, <1>4 DEF NamesOk, NodesOk, Node
<1>6. Commands \in Seq(Command(layout)) /\ \A H : Secured(layout, H, Commands)
  BY <1>2, LineIsSecured, Zenon
<1>7. LayoutOk' /\ Command(layout)' = Command(layout)
  BY <1>1, <1>2 DEF LayoutOk
<1>8. (todo \in Seq(Command(layout)))'
  BY <1>1, <1>6, <1>7
<1>9. Secured(layout, HeldItems, todo)'
  BY <1>1, <1>6
<1>10. \A m \in DOMAIN open' : m \notin NodeName
  BY <1>1 DEF IInv
<1>11. Untouched
  BY <1>1 DEF Untouched, Untouchable
<1> QED BY <1>5, <1>7, <1>8, <1>9, <1>10, <1>11 DEF IInv

\* The first start.
LEMMA InitIInv ==
  ASSUME Init
  PROVE  IInv
<1>1. PICK s \in Scenarios : layout = s.layout /\ layers = s.layers /\ open = s.open
  BY Zenon DEF Init
<1>2. path = KnownPaths /\ todo = Commands
  BY Zenon DEF Init
<1>3. LayoutOk
  BY <1>1, LayoutsAssumption, Zenon DEF LayoutOk
<1>4. /\ DOMAIN layers \subseteq NodeName /\ IsFiniteSet(DOMAIN layers)
      /\ \A n \in DOMAIN layers : \A m \in ToSet(layout.devices) : n[1] = m.dev => n[2] \in Nat
      /\ \A m \in DOMAIN open : m \notin NodeName
      /\ \A x \in Items(layout) : Kept(x) => <<x.dev, x.num>> \in DOMAIN layers
  BY <1>1, MachinesAssumption, Zenon
<1>5. NodesOk
  BY <1>4, Zenon DEF NodesOk
<1>6. NamesOk
  BY <1>2, <1>3, <1>4, <1>5, KnownPathsOk DEF NamesOk, Node
<1>7. Commands \in Seq(Command(layout)) /\ \A H : Secured(layout, H, Commands)
  BY <1>3, <1>5, LineIsSecured, Zenon
<1> QED BY <1>2, <1>3, <1>4, <1>6, <1>7 DEF IInv

\* Every step keeps the invariant, and what is untouchable.
LEMMA NextIInv ==
  ASSUME IInv, [Next]_vars
  PROVE  IInv' /\ [Untouched]_vars
<1>1. CASE Step
  <2>1. CASE Unmount \/ Mount \/ CreateGroup \/ AwaitVolume \/ HandOver \/ AddCrypttab
    BY <2>1, OtherActions, Zenon
  <2>2. CASE Lock
    BY <2>2, LockAction, Zenon
  <2>3. CASE WipeDevice
    BY <2>3, WipeAction, Zenon
  <2>4. CASE Commit
    BY <2>4, CommitAction, Zenon
  <2>5. CASE WriteDevice
    BY <2>5, WriteAction, Zenon
  <2>6. CASE Unlock
    BY <2>6, UnlockAction, Zenon
  <2>7. CASE CreatePvs
    BY <2>7, PvAction, Zenon
  <2>8. CASE CreateVolume
    BY <2>8, VolumeAction, Zenon
  <2>9. CASE Refused \/ DeviceError
    BY <2>9, FailAction, Zenon
  <2> QED BY <1>1, <2>1, <2>2, <2>3, <2>4, <2>5, <2>6, <2>7, <2>8, <2>9 DEF Step
<1>2. CASE Restart
  BY <1>2, RestartAction, Zenon
<1>3. CASE UNCHANGED vars
  <2>1. UNCHANGED <<layout, path, layers, open, todo>>
    BY <1>3 DEF vars, machine
  <2>2. NamesOk'
    BY <2>1, SameNodes
  <2>3. HeldItems' = HeldItems
    BY <2>1 DEF HeldItems, Held, Mapper, IsRoot
  <2>4. LayoutOk' /\ Command(layout)' = Command(layout)
    BY <2>1 DEF IInv, LayoutOk
  <2>5. Secured(layout, HeldItems, todo)'
    BY <2>1, <2>3 DEF IInv
  <2>6. IInv'
    BY <2>1, <2>2, <2>4, <2>5 DEF IInv
  <2> QED BY <1>3, <2>6
<1> QED BY <1>1, <1>2, <1>3 DEF Next

\* At every moment of every attempt the commands still to run are commands of the layout,
\* none of which writes to a kept partition under the number it has or into a container
\* that holds one: what they write into is open on an item's own device, or will be opened
\* on it before, with no new numbers in between.
THEOREM LineStaysSecured == Spec => []IInv
<1>1. Init => IInv
  BY InitIInv, Zenon
<1>2. IInv /\ [Next]_vars => IInv'
  BY NextIInv, Zenon
<1> QED BY <1>1, <1>2, PTL DEF Spec

\* No command of any attempt changes what is on a partition that the layout keeps or does
\* not know, for every legal layout, every machine with the kept partitions on it, whatever
\* is open there, and any number of failed attempts before.
THEOREM KeptPartitionsStayUntouched == Spec => KeptPartitionsUntouched
<1>1. IInv /\ [Next]_vars =>
        [\A n \in Untouchable : n \in DOMAIN layers' /\ layers'[n] = layers[n]]_vars
  BY NextIInv DEF Untouched
<1> QED BY <1>1, LineStaysSecured, PTL DEF Spec, KeptPartitionsUntouched

=============================================================================
