------------------------------ MODULE MenuProofs ------------------------------
(***************************************************************************)
(* The two menus behind the global menu in which most can be chosen: the   *)
(* layout editor and the profile menu.  They share nothing; every lemma is *)
(* about one of them.                                                      *)
(*                                                                         *)
(* The layout editor, for every set of disks and every series of edits and *)
(* openings.  First the arithmetic of DiskLayout: suggested layouts load,  *)
(* for every size of a disk and of a sector.  Then the list on the screen: *)
(* as_segments keeps every partition once and fills the space between      *)
(* them (SegmentsOf).  EditorInv is inductive: the list and the layout     *)
(* that is kept are sound (Sound: what is on the disk is listed once, what *)
(* is new lies where it may), and free space lies between neighbours.      *)
(*                                                                         *)
(* The profile menu, for any desktops, servers, greeters and drivers, and  *)
(* for any number of answers, saves and restarts.  IInv carries each       *)
(* property from the configuration into the open menu and into the file,   *)
(* and back.                                                               *)
(***************************************************************************)
EXTENDS PartitionEditor, Profiles, FiniteSetTheorems, FunctionTheorems, SequenceTheorems,
        WellFoundedInduction, TLAPS

-----------------------------------------------------------------------------
(* The layout editor *)

\* Aligning rounds down to a multiple of one MiB (Size.align).
LEMMA AlignRoundsDown ==
    ASSUME NEW n \in Nat
    PROVE  /\ Align(n) \in Nat
           /\ Align(n) <= n
           /\ n < Align(n) + MiB
           /\ Align(n) % MiB = 0
  <1>1. n % MiB \in 0..(MiB - 1) /\ n % MiB <= n
    BY MiBAssumption, SMT
  <1>2. Align(n) = n - (n % MiB)
    BY <1>1, MiBAssumption, SMT DEF Align, Minus
  <1> QED BY <1>1, <1>2, MiBAssumption, SMT

\* A multiple of one MiB is aligned (Size.align).
LEMMA MultiplesAreAligned ==
    ASSUME NEW n \in Nat, n % MiB = 0
    PROVE  Align(n) = n
  BY MiBAssumption, SMT DEF Align, Minus

\* Division with a remainder (the modulo of Size.align).
LEMMA DivisionByMiB ==
    ASSUME NEW n \in Nat
    PROVE  n \div MiB \in Nat /\ n = MiB * (n \div MiB) + (n % MiB)
  BY MiBAssumption, SMT

\* Sums, differences and multiples of aligned sizes are aligned.
LEMMA SumsOfMultiples ==
    ASSUME NEW a \in Nat, NEW b \in Nat, a % MiB = 0, b % MiB = 0
    PROVE  /\ (a + b) % MiB = 0
           /\ a <= b => (b - a) % MiB = 0
  <1>1. PICK k \in Nat : a = MiB * k + (a % MiB)
    BY DivisionByMiB
  <1>2. PICK l \in Nat : b = MiB * l + (b % MiB)
    BY DivisionByMiB
  <1>3. a + b = MiB * (k + l) /\ b - a = MiB * (l - k)
    BY <1>1, <1>2, MiBAssumption, SMT
  <1>4. a <= b => l - k \in Nat
    BY <1>1, <1>2, MiBAssumption, SMT
  <1>5. \A m \in Nat : (MiB * m) % MiB = 0
    BY MiBAssumption, SMT
  <1> QED BY <1>3, <1>4, <1>5, SMT

\* A whole number of GiB is aligned (the sizes of the suggestions).
LEMMA MultiplesOfGiB ==
    ASSUME NEW n \in Nat
    PROVE  n * GiB \in Nat /\ (n * GiB) % MiB = 0
  <1>1. n * GiB = MiB * (1024 * n)
    BY MiBAssumption, SMT DEF GiB
  <1>2. \A m \in Nat : (MiB * m) % MiB = 0 /\ MiB * m \in Nat
    BY MiBAssumption, SMT
  <1>3. 1024 * n \in Nat
    OBVIOUS
  <1> QED BY <1>1, <1>2, <1>3

\* New partitions listed in order, aligned, behind the first MiB and before the
\* usable end pass the checks of parse_arg.
LEMMA OrderedLayoutsLoad ==
    ASSUME NEW total \in Nat, NEW gpt \in BOOLEAN, NEW parts,
           NEW limit \in Nat,
           limit <= IF gpt THEN GptEnd(total) ELSE Align(total),
           NEW n \in Nat, DOMAIN parts = 1..n,
           \A i \in 1..n :
              /\ parts[i].status = "create"
              /\ parts[i].start \in Nat /\ parts[i].len \in Nat
              /\ parts[i].start % MiB = 0 /\ parts[i].len % MiB = 0
              /\ parts[i].start >= MiB
              /\ PartitionEnd(parts[i]) <= limit,
           \A i, j \in 1..n : i < j => PartitionEnd(parts[i]) <= parts[j].start
    PROVE  Loads(total, gpt, parts)
  <1>1. Live(parts) = 1..n /\ Created(parts) = 1..n
    BY DEF Live, Created, IsDelete
  <1>2. \A i, j \in 1..n : i < j => parts[i].start <= parts[j].start
    BY SMT DEF PartitionEnd
  <1>3. \A i, j \in 1..n : StartsBefore(parts, i, j) <=> i < j
    BY <1>2, SMT DEF StartsBefore
  <1>4. \A i \in Created(parts) :
           (\A j \in Live(parts) : ~StartsBefore(parts, j, i)) => parts[i].start >= MiB
    BY <1>1
  <1>5. \A i \in Live(parts), j \in Created(parts) :
           Follows(parts, i, j) => parts[j].start >= PartitionEnd(parts[i])
    <2> SUFFICES ASSUME NEW i \in 1..n, NEW j \in 1..n, i < j
                 PROVE  parts[j].start >= PartitionEnd(parts[i])
      BY <1>1, <1>3 DEF Follows
    <2> QED BY SMT DEF PartitionEnd
  <1>6. \A i \in Created(parts) :
           parts[i].start = Align(parts[i].start) /\ parts[i].len = Align(parts[i].len)
    BY <1>1, MultiplesAreAligned
  <1>7. \A i \in Created(parts) :
           (\A j \in Created(parts) : ~StartsBefore(parts, i, j))
              => PartitionEnd(parts[i]) <= IF gpt THEN GptEnd(total) ELSE Align(total)
    <2> SUFFICES ASSUME NEW i \in 1..n
                 PROVE  PartitionEnd(parts[i]) <= IF gpt THEN GptEnd(total) ELSE Align(total)
      BY <1>1
    <2>1. Align(total) \in Nat /\ GptEnd(total) \in Nat
      <3>1. Align(total) \in Nat
        BY AlignRoundsDown
      <3>2. GptEnd(total) \in Nat
        BY MiBAssumption, SMT DEF GptEnd, Minus
      <3> QED BY <3>1, <3>2
    <2>2. PartitionEnd(parts[i]) \in Nat /\ PartitionEnd(parts[i]) <= limit
      BY SMT DEF PartitionEnd
    <2> HIDE DEF PartitionEnd
    <2> QED BY <2>1, <2>2, SMT
  <1> QED BY <1>4, <1>5, <1>6, <1>7 DEF Loads

\* The usable end is aligned and leaves room for a boot partition.
LEMMA UsableEndFacts ==
    ASSUME NEW total \in Nat, NEW gpt \in BOOLEAN, total >= GiB + 3 * MiB
    PROVE  /\ UsableEnd(total, gpt) \in Nat
           /\ UsableEnd(total, gpt) % MiB = 0
           /\ UsableEnd(total, gpt) >= MiB + GiB
           /\ UsableEnd(total, gpt) + 2 * MiB > total
           /\ UsableEnd(total, gpt) <= IF gpt THEN GptEnd(total) ELSE Align(total)
  <1> DEFINE room == IF gpt THEN GptEnd(total) ELSE total
  <1>1. /\ room \in Nat /\ room <= total /\ total <= room + MiB
        /\ GptEnd(total) = total - MiB
    BY MiBAssumption, SMT DEF GptEnd, Minus, GiB
  <1>2. UsableEnd(total, gpt) = Align(room)
    BY DEF UsableEnd
  <1>3. /\ Align(room) \in Nat /\ Align(room) <= room
        /\ room < Align(room) + MiB /\ Align(room) % MiB = 0
    BY <1>1, AlignRoundsDown
  <1>4. Align(room) <= IF gpt THEN GptEnd(total) ELSE Align(total)
    BY <1>3
  <1> HIDE DEF room
  <1> QED BY <1>1, <1>2, <1>3, <1>4, MiBAssumption, SMT DEF GiB

\* The root partition beside a /home partition is a whole number of GiB, at most
\* 50, or at most a tenth of the disk (process_root_partition_size).
LEMMA RootSizeFacts ==
    ASSUME NEW total \in Nat
    PROVE  /\ RootSize(total) \in Nat
           /\ RootSize(total) % MiB = 0
           /\ RootSize(total) <= 50 * GiB
  <1> DEFINE n == total \div GiB
             k == CASE n > 500 -> 50 [] n < 320 -> 32 [] OTHER -> n \div 10
  <1>1. n \in Nat
    BY MiBAssumption, SMT DEF GiB
  <1>2. RootSize(total) = k * GiB
    BY DEF RootSize
  <1>3. k \in Nat /\ k <= 50
    <2> HIDE DEF n
    <2> QED BY <1>1, SMT
  <1> HIDE DEF k
  <1>4. k * GiB \in Nat /\ (k * GiB) % MiB = 0
    BY <1>3, MultiplesOfGiB
  <1>5. k * GiB <= 50 * GiB
    BY <1>3, MiBAssumption, SMT DEF GiB
  <1> QED BY <1>2, <1>4, <1>5

\* What is suggested: new partitions in order, aligned, behind the first MiB,
\* before the usable end, and starting where either table kind is usable.
SuggestedWell(total, gpt, parts) ==
    \E n \in {2, 3} :
       /\ DOMAIN parts = 1..n
       /\ \A i \in 1..n :
             /\ parts[i].status = "create"
             /\ parts[i].start \in Nat /\ parts[i].len \in Nat
             /\ parts[i].start % MiB = 0 /\ parts[i].len % MiB = 0
             /\ parts[i].start >= MiB /\ parts[i].start <= UsableEnd(total, TRUE)
             /\ PartitionEnd(parts[i]) <= UsableEnd(total, gpt)
       /\ \A i, j \in 1..n : i < j => PartitionEnd(parts[i]) <= parts[j].start

LEMMA SuggestedPlaces ==
    ASSUME NEW id, NEW total \in Nat, NEW gpt \in BOOLEAN, NEW fs,
           NEW subvols \in BOOLEAN, NEW home \in BOOLEAN, total >= GiB + 3 * MiB
    PROVE  SuggestedWell(total, gpt, SuggestSingle(id, total, gpt, fs, subvols, home))
  <1> DEFINE end   == UsableEnd(total, gpt)
             other == UsableEnd(total, TRUE)
             boot  == BootPartition(id, gpt)
             root  == SuggestedRoot(id + 1, total, gpt, fs, subvols, home)
             house == SuggestedHome(id + 2, total, gpt, fs, root)
             parts == SuggestSingle(id, total, gpt, fs, subvols, home)
             Sound(p) == /\ p.status = "create"
                         /\ p.start \in Nat /\ p.len \in Nat
                         /\ p.start % MiB = 0 /\ p.len % MiB = 0
                         /\ p.start >= MiB /\ p.start <= other
                         /\ PartitionEnd(p) <= end
  <1>0. other \in Nat /\ other >= MiB + GiB /\ other + 2 * MiB > total
    BY UsableEndFacts, Zenon
  <1> HIDE DEF other
  <1>1. /\ end \in Nat /\ end % MiB = 0 /\ end >= MiB + GiB /\ end + 2 * MiB > total
        /\ end <= IF gpt THEN GptEnd(total) ELSE Align(total)
    BY UsableEndFacts
  <1>2. /\ MiB \in Nat /\ MiB % MiB = 0 /\ GiB \in Nat /\ GiB % MiB = 0
        /\ (MiB + GiB) % MiB = 0
    <2>1. MiB \in Nat /\ MiB % MiB = 0
      BY MiBAssumption, SMT
    <2>2. 1 * GiB = GiB
      BY MiBAssumption, SMT DEF GiB
    <2>3. GiB \in Nat /\ GiB % MiB = 0
      BY <2>2, MultiplesOfGiB
    <2> QED BY <2>1, <2>3, SumsOfMultiples
  <1>3. /\ boot.status = "create" /\ boot.start = MiB /\ boot.len = GiB
        /\ PartitionEnd(boot) = MiB + GiB
    BY DEF BootPartition, NewPartition, PartitionEnd
  <1>4. Sound(boot)
    <2>1. MiB <= other
      <3>1. \A a, m, g \in Nat : a >= m + g => m <= a
        OBVIOUS
      <3> QED BY <1>0, <1>2, <3>1, Zenon
    <2> QED BY <1>1, <1>2, <1>3, <2>1
  <1>5. /\ root.status = "create" /\ root.start = MiB + GiB
        /\ root.len = IF SeparateHome(total, subvols, home)
                      THEN RootSize(total) ELSE Minus(end, MiB + GiB)
        /\ PartitionEnd(root) = root.start + root.len
    BY DEF SuggestedRoot, BootPartition, NewPartition, PartitionEnd
  <1>6. /\ house.status = "create" /\ house.start = PartitionEnd(root)
        /\ house.len = Minus(end, PartitionEnd(root))
        /\ PartitionEnd(house) = house.start + house.len
    BY DEF SuggestedHome, NewPartition, PartitionEnd
  <1> HIDE DEF end, boot, root, house
  <1>7. CASE SeparateHome(total, subvols, home)
    <2>1. /\ root.len \in Nat /\ root.len % MiB = 0 /\ root.len <= 50 * GiB
      BY <1>5, <1>7, RootSizeFacts
    <2>2. PartitionEnd(root) \in Nat /\ PartitionEnd(root) % MiB = 0
      <3>1. root.start \in Nat /\ root.start % MiB = 0
        BY <1>2, <1>5, SMT
      <3>2. root.start + root.len \in Nat /\ (root.start + root.len) % MiB = 0
        BY <3>1, <2>1, SumsOfMultiples
      <3> QED BY <3>2, <1>5
    <2>3. PartitionEnd(root) <= end
      <3>1. total >= 64 * GiB
        BY <1>7 DEF SeparateHome
      <3> QED BY <3>1, <2>1, <1>1, <1>2, <1>5, MiBAssumption, SMT DEF GiB
    <2>4. house.len = end - PartitionEnd(root) /\ house.len \in Nat /\ house.len % MiB = 0
      <3>1. house.len = end - PartitionEnd(root) /\ house.len \in Nat
        BY <2>2, <2>3, <1>1, <1>6, SMT DEF Minus
      <3> QED BY <3>1, <2>2, <2>3, <1>1, SumsOfMultiples
    <2>5. Sound(root)
      <3>1. root.start \in Nat /\ root.start >= MiB /\ root.start % MiB = 0
        BY <1>2, <1>5, SMT
      <3> QED BY <3>1, <2>1, <2>3, <1>0, <1>5
    <2>6. Sound(house)
      <3>1. PartitionEnd(root) >= MiB
        BY <2>1, <1>2, <1>5, SMT
      <3>2. PartitionEnd(house) <= end
        BY <2>2, <2>4, <1>1, <1>6, SMT
      <3>3. PartitionEnd(root) <= other
        <4>1. total >= 64 * GiB
          BY <1>7 DEF SeparateHome
        <4> QED BY <4>1, <2>1, <1>0, <1>2, <1>5, MiBAssumption, SMT DEF GiB
      <3> QED BY <3>1, <3>2, <3>3, <2>2, <2>4, <1>6
    <2>7. parts = <<boot, root, house>>
      BY <1>7 DEF SuggestSingle, boot, root, house
    <2> HIDE DEF parts
    <2>8. DOMAIN parts = 1..3 /\ parts[1] = boot /\ parts[2] = root /\ parts[3] = house
      BY <2>7
    <2>9. \A i \in 1..3 : Sound(parts[i])
      BY <2>5, <2>6, <2>8, <1>4
    <2>10. \A i, j \in 1..3 : i < j => PartitionEnd(parts[i]) <= parts[j].start
      <3>1. /\ PartitionEnd(boot) <= root.start
            /\ PartitionEnd(root) <= house.start
            /\ PartitionEnd(boot) <= house.start
        BY <2>1, <1>2, <1>3, <1>5, <1>6, SMT
      <3> QED BY <3>1, <2>8, SMT
    <2> QED BY <2>8, <2>9, <2>10, Zenon DEF SuggestedWell, end, other, parts
  <1>8. CASE ~SeparateHome(total, subvols, home)
    <2>1. root.len = end - (MiB + GiB) /\ root.len \in Nat /\ root.len % MiB = 0
      <3>1. root.len = end - (MiB + GiB) /\ root.len \in Nat /\ MiB + GiB \in Nat
        BY <1>1, <1>2, <1>5, <1>8, SMT DEF Minus
      <3>2. MiB + GiB <= end
        BY <1>1, <1>2, SMT
      <3>3. (end - (MiB + GiB)) % MiB = 0
        BY <3>1, <3>2, <1>1, <1>2, SumsOfMultiples
      <3> QED BY <3>1, <3>3
    <2>2. Sound(root)
      <3>1. root.start \in Nat /\ root.start >= MiB /\ root.start % MiB = 0
        BY <1>2, <1>5, SMT
      <3>2. PartitionEnd(root) <= end
        BY <2>1, <1>1, <1>2, <1>5, SMT
      <3> QED BY <3>1, <3>2, <2>1, <1>0, <1>5
    <2>3. parts = <<boot, root>>
      BY <1>8 DEF SuggestSingle, boot, root
    <2> HIDE DEF parts
    <2>4. DOMAIN parts = 1..2 /\ parts[1] = boot /\ parts[2] = root
      BY <2>3
    <2>5. \A i \in 1..2 : Sound(parts[i])
      BY <2>2, <2>4, <1>4
    <2>6. \A i, j \in 1..2 : i < j => PartitionEnd(parts[i]) <= parts[j].start
      <3>1. PartitionEnd(boot) <= root.start
        BY <1>2, <1>3, <1>5, SMT
      <3> QED BY <3>1, <2>4, SMT
    <2> QED BY <2>4, <2>5, <2>6, Zenon DEF SuggestedWell, end, other, parts
  <1> QED BY <1>7, <1>8

\* The suggestion for one disk loads again, for every answer and every size of
\* the disk and of its sectors (suggest_single_disk_layout, parse_arg).
THEOREM SuggestionLoads ==
    ASSUME NEW id, NEW total \in Nat, NEW gpt \in BOOLEAN, NEW fs,
           NEW subvols \in BOOLEAN, NEW home \in BOOLEAN, total >= GiB + 3 * MiB
    PROVE  Loads(total, gpt, SuggestSingle(id, total, gpt, fs, subvols, home))
  <1> DEFINE parts == SuggestSingle(id, total, gpt, fs, subvols, home)
             end   == UsableEnd(total, gpt)
  <1>1. SuggestedWell(total, gpt, parts)
    BY SuggestedPlaces
  <1>2. end \in Nat /\ end <= IF gpt THEN GptEnd(total) ELSE Align(total)
    BY UsableEndFacts
  <1> HIDE DEF parts, end
  <1>3. PICK n \in {2, 3} :
          /\ DOMAIN parts = 1..n
          /\ \A i \in 1..n :
                /\ parts[i].status = "create"
                /\ parts[i].start \in Nat /\ parts[i].len \in Nat
                /\ parts[i].start % MiB = 0 /\ parts[i].len % MiB = 0
                /\ parts[i].start >= MiB
                /\ PartitionEnd(parts[i]) <= end
          /\ \A i, j \in 1..n : i < j => PartitionEnd(parts[i]) <= parts[j].start
    BY <1>1, Zenon DEF SuggestedWell, end
  <1>4. n \in Nat
    OBVIOUS
  <1>5. Loads(total, gpt, parts)
    BY <1>2, <1>3, <1>4, OrderedLayoutsLoad
  <1> QED BY <1>5 DEF parts

-----------------------------------------------------------------------------
(* Parts of sequences. *)

\* Rank and Nth number the elements of K from 1, in their order.
Numbered(K) ==
    /\ Cardinality(K) \in Nat
    /\ \A m \in 1..Cardinality(K) : Nth(K, m) \in K
    /\ \A m, l \in 1..Cardinality(K) : m < l => Nth(K, m) < Nth(K, l)
    /\ \A m \in 1..Cardinality(K) : Rank(K, Nth(K, m)) = m
    /\ \A i \in K : Rank(K, i) \in 1..Cardinality(K) /\ Nth(K, Rank(K, i)) = i
    /\ \A i, j \in K : i < j => Rank(K, i) < Rank(K, j)

LEMMA Numbering ==
    ASSUME NEW n \in Nat, NEW K \in SUBSET (1..n)
    PROVE  Numbered(K)
  <1> DEFINE Below(i) == {j \in K : j <= i}
             c == Cardinality(K)
             f == [i \in K |-> Rank(K, i)]
  <1>0. \A i \in K : i \in Nat
    OBVIOUS
  <1>1. IsFiniteSet(K) /\ c \in Nat
    <2>1. 1 \in Int /\ n \in Int
      OBVIOUS
    <2>2. IsFiniteSet(1..n)
      BY <2>1, FS_Interval, Zenon
    <2>3. IsFiniteSet(K)
      BY <2>2, FS_Subset, Zenon
    <2> QED BY <2>3, FS_CardinalityType, Zenon
  <1>2. ASSUME NEW i
        PROVE  IsFiniteSet(Below(i)) /\ Rank(K, i) \in Nat /\ Rank(K, i) <= c
    <2>1. Below(i) \in SUBSET K
      OBVIOUS
    <2>2. IsFiniteSet(Below(i)) /\ Cardinality(Below(i)) <= c
      BY <1>1, <2>1, FS_Subset, Zenon
    <2>3. Cardinality(Below(i)) \in Nat
      BY <2>2, FS_CardinalityType, Zenon
    <2> QED BY <2>2, <2>3, Zenon DEF Rank
  <1>3. ASSUME NEW i \in K, NEW j \in K, i < j
        PROVE  Rank(K, i) < Rank(K, j)
    <2>1. Below(i) \in SUBSET Below(j) /\ j \in Below(j) /\ j \notin Below(i)
      <3>1. i \in Nat /\ j \in Nat
        BY <1>0, Zenon
      <3>2. \A k \in Nat : k <= i => k <= j
        BY <1>3, <3>1
      <3>3. j <= j /\ ~(j <= i)
        BY <1>3, <3>1
      <3> QED BY <1>0, <3>2, <3>3, Zenon
    <2>2. Rank(K, i) <= Rank(K, j) /\ Rank(K, i) # Rank(K, j)
      <3>1. Cardinality(Below(i)) <= Cardinality(Below(j))
        BY <1>2, <2>1, FS_Subset, Zenon
      <3>2. Cardinality(Below(j)) = Cardinality(Below(i)) => Below(j) = Below(i)
        BY <1>2, <2>1, FS_Subset, Zenon
      <3> QED BY <2>1, <3>1, <3>2, Zenon DEF Rank
    <2>3. Rank(K, i) \in Nat /\ Rank(K, j) \in Nat
      BY <1>2
    <2> QED BY <2>2, <2>3
  <1>4. ASSUME NEW i \in K
        PROVE  Rank(K, i) \in 1..c
    <2>1. i \in Below(i)
      BY <1>0
    <2>2. Rank(K, i) # 0
      <3>1. Cardinality(Below(i)) = 0 => Below(i) = {}
        BY <1>2, FS_EmptySet, Zenon
      <3> QED BY <2>1, <3>1, Zenon DEF Rank
    <2>3. Rank(K, i) \in Nat /\ Rank(K, i) <= c
      BY <1>2
    <2> QED BY <1>1, <2>2, <2>3
  <1>5. \A m \in 1..c : \E i \in K : Rank(K, i) = m
    <2>1. f \in [K -> 1..c]
      BY <1>4
    <2>2. \A i, j \in K : f[i] = f[j] => i = j
      BY <1>3, <1>4
    <2>3. f \in Injection(K, 1..c)
      <3> HIDE DEF f
      <3> QED BY <2>1, <2>2, Fun_IsInj, Zenon
    <2>4. IsFiniteSet(1..c) /\ Cardinality(1..c) = c
      <3>1. 1 \in Int /\ c \in Int
        BY <1>1
      <3>2. IsFiniteSet(1..c) /\ Cardinality(1..c) = IF 1 > c THEN 0 ELSE c - 1 + 1
        BY <3>1, FS_Interval, Zenon
      <3> HIDE DEF c
      <3> QED BY <3>2, <1>1
    <2>5. f \in Surjection(K, 1..c)
      <3> HIDE DEF f
      <3> QED BY <2>3, <2>4, FS_Injection, Zenon
    <2>6. \A m \in 1..c : \E i \in K : f[i] = m
      <3> HIDE DEF f
      <3> QED BY <2>5, Fun_SurjectionProperties, Zenon
    <2> QED BY <2>6
  <1>6. ASSUME NEW m \in 1..c
        PROVE  Nth(K, m) \in K /\ Rank(K, Nth(K, m)) = m
    BY <1>5, Zenon DEF Nth
  <1>7. ASSUME NEW m \in 1..c, NEW l \in 1..c, m < l
        PROVE  Nth(K, m) < Nth(K, l)
    <2>1. /\ Nth(K, m) \in K /\ Rank(K, Nth(K, m)) = m
          /\ Nth(K, l) \in K /\ Rank(K, Nth(K, l)) = l
      BY <1>6
    <2>2. ~(l < m) /\ l # m
      BY <1>1, <1>7
    <2>3. ~(Nth(K, l) < Nth(K, m)) /\ Nth(K, l) # Nth(K, m)
      BY <1>3, <2>1, <2>2
    <2>4. Nth(K, m) \in Nat /\ Nth(K, l) \in Nat
      BY <1>0, <2>1, Zenon
    <2> QED BY <2>3, <2>4
  <1>8. ASSUME NEW i \in K
        PROVE  Nth(K, Rank(K, i)) = i
    <2>1. Nth(K, Rank(K, i)) \in K /\ Rank(K, Nth(K, Rank(K, i))) = Rank(K, i)
      BY <1>4, <1>6
    <2>2. ~(Rank(K, i) < Rank(K, i))
      BY <1>1, <1>4
    <2>3. ~(Nth(K, Rank(K, i)) < i) /\ ~(i < Nth(K, Rank(K, i)))
      BY <1>3, <2>1, <2>2, Zenon
    <2>4. i \in Nat /\ Nth(K, Rank(K, i)) \in Nat
      BY <1>0, <2>1, Zenon
    <2> QED BY <2>3, <2>4
  <1> QED BY <1>1, <1>3, <1>4, <1>6, <1>7, <1>8 DEF Numbered

\* A subsequence has the elements at the places in K.
LEMMA SubsequenceFacts ==
    ASSUME NEW n \in Nat, NEW K \in SUBSET (1..n), NEW s, NEW T, \A i \in K : s[i] \in T
    PROVE  /\ Subsequence(s, K) \in Seq(T)
           /\ Len(Subsequence(s, K)) = Cardinality(K)
           /\ DOMAIN Subsequence(s, K) = 1..Cardinality(K)
           /\ \A m \in 1..Cardinality(K) : Subsequence(s, K)[m] = s[Nth(K, m)]
  <1>1. Cardinality(K) \in Nat /\ \A m \in 1..Cardinality(K) : Nth(K, m) \in K
    BY Numbering DEF Numbered
  <1>2. Subsequence(s, K) = [m \in 1..Cardinality(K) |-> s[Nth(K, m)]]
    BY DEF Subsequence
  <1>3. \A m \in 1..Cardinality(K) : s[Nth(K, m)] \in T
    BY <1>1
  <1> QED BY <1>1, <1>2, <1>3

-----------------------------------------------------------------------------
(* The list on the screen. *)

FreeType == [status : {"free"}, start : Nat, len : Nat]
Segments == PartitionType \cup FreeType

\* What the proofs use of a segment.
LEMMA SegmentFacts ==
    /\ \A p \in PartitionType :
          /\ p.status \in {"exist", "modify", "create", "delete"} /\ ~IsFree(p)
          /\ p.start \in Nat /\ p.len \in Nat /\ PartitionEnd(p) \in Nat
    /\ \A f \in FreeType :
          IsFree(f) /\ f.start \in Nat /\ f.len \in Nat /\ PartitionEnd(f) \in Nat
    /\ \A s \in Segments : ~IsFree(s) => s \in PartitionType
  <1>1. ASSUME NEW p \in PartitionType
        PROVE  /\ p.status \in {"exist", "modify", "create", "delete"} /\ ~IsFree(p)
               /\ p.start \in Nat /\ p.len \in Nat /\ PartitionEnd(p) \in Nat
    BY DEF PartitionType, IsFree, PartitionEnd
  <1>2. ASSUME NEW f \in FreeType
        PROVE  IsFree(f) /\ f.start \in Nat /\ f.len \in Nat /\ PartitionEnd(f) \in Nat
    BY DEF FreeType, IsFree, PartitionEnd
  <1> QED BY <1>1, <1>2, Zenon DEF Segments

\* Partition r is at the even place 2 * r, the spaces are at the odd ones.
LEMMA SpacedFacts ==
    ASSUME NEW parts \in Seq(PartitionType), NEW end
    PROVE  /\ DOMAIN Spaced(parts, end) = 1..(2 * Len(parts) + 1)
           /\ \A r \in 1..Len(parts) : Spaced(parts, end)[2 * r] = parts[r]
           /\ \A r \in 0..Len(parts) :
                 Spaced(parts, end)[2 * r + 1]
                   = FreeSpace(EndBefore(parts, r + 1), StartBehind(parts, r + 1, end))
  <1>1. Len(parts) \in Nat
    OBVIOUS
  <1>2. \A r \in 1..Len(parts) :
          2 * r \in 1..(2 * Len(parts) + 1) /\ (2 * r) % 2 = 0 /\ (2 * r) \div 2 = r
    BY <1>1
  <1>3. \A r \in 0..Len(parts) :
          2 * r + 1 \in 1..(2 * Len(parts) + 1) /\ (2 * r + 1) % 2 # 0 /\ (2 * r + 1) \div 2 = r
    BY <1>1
  <1> QED BY <1>2, <1>3, Zenon DEF Spaced

\* The places of the partitions that stay, and two of them with none in between;
\* 0 and Len(s) + 1 stand for the ends of the disk.
Staying(s) == {i \in DOMAIN s : ~IsFree(s[i]) /\ ~IsDelete(s[i])}

Neighbours(s, l, r) ==
    /\ l \in {0} \cup Staying(s) /\ r \in Staying(s) \cup {Len(s) + 1}
    /\ l < r
    /\ \A k \in Staying(s) : k <= l \/ r <= k

EndAt(s, l) == IF l = 0 THEN MiB ELSE PartitionEnd(s[l])
StartAt(s, r, end) == IF r = Len(s) + 1 THEN end ELSE s[r].start

Fills(s, i, l, r, end) ==
    /\ IsFree(s[i])
    /\ s[i].start = EndAt(s, l)
    /\ s[i].len = StartAt(s, r, end) - EndAt(s, l)

\* The free space on the screen fills the stretches between neighbours that are
\* larger than the buffer.
FreeIsBetween(s, end) ==
    /\ \A i \in DOMAIN s : IsFree(s[i]) =>
          \E l, r \in 0..(Len(s) + 1) : Neighbours(s, l, r) /\ Fills(s, i, l, r, end) /\ s[i].len > MiB
    /\ \A l, r \in 0..(Len(s) + 1) :
          Neighbours(s, l, r) /\ StartAt(s, r, end) - EndAt(s, l) > MiB
            => \E i \in DOMAIN s : Fills(s, i, l, r, end)

\* The partitions of parts are the ones in s.
CarriedBy(g, parts, s) ==
    /\ g \in [DOMAIN parts -> DOMAIN s]
    /\ \A i \in DOMAIN parts : s[g[i]] = parts[i]
    /\ \A i, j \in DOMAIN parts : g[i] = g[j] => i = j
    /\ \A k \in DOMAIN s : ~IsFree(s[k]) => \E i \in DOMAIN parts : g[i] = k

Carries(parts, s) == \E g : CarriedBy(g, parts, s)

\* as_segments keeps every partition once and fills the space between them.
LEMMA SegmentsOf ==
    ASSUME NEW total, NEW gpt, NEW parts \in Seq(PartitionType), UsableEnd(total, gpt) \in Nat
    PROVE  /\ AsSegments(total, gpt, parts) \in Seq(Segments)
           /\ Carries(parts, AsSegments(total, gpt, parts))
           /\ FreeIsBetween(AsSegments(total, gpt, parts), UsableEnd(total, gpt))
  <1> DEFINE end  == UsableEnd(total, gpt)
             L    == Live(parts)
             D    == DOMAIN parts \ L
             live == Subsequence(parts, L)
             gone == Subsequence(parts, D)
             n    == Len(live)
             d    == Len(gone)
             sp   == Spaced(live, end)
             E    == LargeEnough(sp)
             tail == Subsequence(sp, E)
             m    == Len(tail)
             s    == gone \o tail
             Pos(q) == d + Rank(E, q)
  <1>1. AsSegments(total, gpt, parts) = s
    BY DEF AsSegments
  <1>2. /\ Len(parts) \in Nat /\ DOMAIN parts = 1..Len(parts)
        /\ L \in SUBSET (1..Len(parts)) /\ D \in SUBSET (1..Len(parts))
        /\ \A i \in DOMAIN parts : parts[i] \in PartitionType /\ (i \in L <=> ~IsDelete(parts[i]))
        /\ \A i \in DOMAIN parts : i \in D <=> i \notin L
    BY DEF Live
  <1> HIDE DEF L, D
  <1>3. Numbered(L) /\ Numbered(D)
    BY <1>2, Numbering
  <1>4. /\ live \in Seq(PartitionType) /\ n \in Nat /\ n = Cardinality(L)
        /\ \A r \in 1..n : Nth(L, r) \in L /\ live[r] = parts[Nth(L, r)]
        /\ \A r \in 1..n : live[r] \in PartitionType /\ ~IsDelete(live[r])
    <2>1. \A i \in L : parts[i] \in PartitionType /\ ~IsDelete(parts[i])
      BY <1>2
    <2>2. /\ live \in Seq(PartitionType) /\ n = Cardinality(L)
          /\ \A r \in 1..Cardinality(L) : live[r] = parts[Nth(L, r)]
      BY <1>2, <2>1, SubsequenceFacts
    <2> HIDE DEF live
    <2> QED BY <1>3, <2>1, <2>2 DEF Numbered
  <1>5. /\ gone \in Seq(PartitionType) /\ d \in Nat /\ d = Cardinality(D)
        /\ \A r \in 1..d : Nth(D, r) \in D /\ gone[r] = parts[Nth(D, r)]
        /\ \A r \in 1..d : gone[r] \in PartitionType /\ IsDelete(gone[r])
    <2>1. \A i \in D : parts[i] \in PartitionType /\ IsDelete(parts[i])
      BY <1>2
    <2>2. /\ gone \in Seq(PartitionType) /\ d = Cardinality(D)
          /\ \A r \in 1..Cardinality(D) : gone[r] = parts[Nth(D, r)]
      BY <1>2, <2>1, SubsequenceFacts
    <2> HIDE DEF gone
    <2> QED BY <1>3, <2>1, <2>2 DEF Numbered
  <1> HIDE DEF live, gone
  <1>6. /\ DOMAIN sp = 1..(2 * n + 1)
        /\ \A r \in 1..n : sp[2 * r] = live[r]
        /\ \A r \in 0..n : sp[2 * r + 1] = FreeSpace(EndBefore(live, r + 1), StartBehind(live, r + 1, end))
    BY <1>4, SpacedFacts
  <1>7. \A q \in 1..(2 * n + 1) : (\E r \in 1..n : q = 2 * r) \/ (\E r \in 0..n : q = 2 * r + 1)
    <2>1. ASSUME NEW q \in 1..(2 * n + 1)
          PROVE  (\E r \in 1..n : q = 2 * r) \/ (\E r \in 0..n : q = 2 * r + 1)
      <3>1. CASE q % 2 = 0
        <4>1. q \div 2 \in 1..n /\ q = 2 * (q \div 2)
          BY <3>1, <1>4
        <4> QED BY <4>1
      <3>2. CASE q % 2 # 0
        <4>1. q \div 2 \in 0..n /\ q = 2 * (q \div 2) + 1
          BY <3>2, <1>4
        <4> QED BY <4>1
      <3> QED BY <3>1, <3>2
    <2> QED BY <2>1
  <1>8. ASSUME NEW r \in 0..n
        PROVE  /\ IsFree(sp[2 * r + 1])
               /\ sp[2 * r + 1].start = IF r = 0 THEN MiB ELSE PartitionEnd(live[r])
               /\ sp[2 * r + 1].start \in Nat
               /\ sp[2 * r + 1].len \in Int
               /\ sp[2 * r + 1].len
                    = (IF r = n THEN end ELSE live[r + 1].start) - (IF r = 0 THEN MiB ELSE PartitionEnd(live[r]))
               /\ sp[2 * r + 1] = [status |-> "free", start |-> sp[2 * r + 1].start, len |-> sp[2 * r + 1].len]
    <2>1. EndBefore(live, r + 1) = IF r = 0 THEN MiB ELSE PartitionEnd(live[r])
      BY <1>4 DEF EndBefore
    <2>2. StartBehind(live, r + 1, end) = IF r = n THEN end ELSE live[r + 1].start
      BY <1>4 DEF StartBehind
    <2>3. sp[2 * r + 1] = FreeSpace(EndBefore(live, r + 1), StartBehind(live, r + 1, end))
      BY <1>6
    <2>4. EndBefore(live, r + 1) \in Nat
      BY <1>4, <2>1, SegmentFacts, MiBAssumption
    <2>5. StartBehind(live, r + 1, end) \in Nat
      BY <1>4, <2>2, SegmentFacts
    <2> HIDE DEF sp, end
    <2> QED BY <2>1, <2>2, <2>3, <2>4, <2>5 DEF FreeSpace, IsFree
  <1>9. /\ E \in SUBSET (1..(2 * n + 1))
        /\ \A r \in 1..n : 2 * r \in E
        /\ \A r \in 0..n : 2 * r + 1 \in E <=> sp[2 * r + 1].len > MiB
    <2>1. \A r \in 1..n : ~IsFree(sp[2 * r]) /\ 2 * r \in 1..(2 * n + 1)
      BY <1>4, <1>6, SegmentFacts
    <2>2. \A r \in 0..n : 2 * r + 1 \in 1..(2 * n + 1)
      BY <1>4
    <2> HIDE DEF sp
    <2> QED BY <1>6, <1>8, <2>1, <2>2 DEF LargeEnough
  <1>10. \A q \in E : sp[q] \in Segments
    <2>1. \A r \in 1..n : sp[2 * r] \in Segments
      BY <1>4, <1>6, Zenon DEF Segments
    <2>2. ASSUME NEW r \in 0..n, 2 * r + 1 \in E
          PROVE  sp[2 * r + 1] \in Segments
      <3>1. sp[2 * r + 1].len \in Nat /\ sp[2 * r + 1].start \in Nat
        <4>1. sp[2 * r + 1].len > MiB
          BY <1>9, <2>2
        <4>2. sp[2 * r + 1].len \in Int /\ sp[2 * r + 1].start \in Nat
          BY <1>8
        <4> HIDE DEF sp
        <4> QED BY <4>1, <4>2, MiBAssumption
      <3>2. sp[2 * r + 1] = [status |-> "free", start |-> sp[2 * r + 1].start, len |-> sp[2 * r + 1].len]
        BY <1>8
      <3> DEFINE x == sp[2 * r + 1]
      <3> HIDE DEF x
      <3>3. x.len \in Nat /\ x.start \in Nat /\ x = [status |-> "free", start |-> x.start, len |-> x.len]
        BY <3>1, <3>2, Zenon DEF x
      <3>4. x \in FreeType
        BY <3>3 DEF FreeType
      <3> QED BY <3>4, Zenon DEF x, Segments
    <2> HIDE DEF sp, E
    <2> QED BY <1>7, <1>9, <2>1, <2>2
  <1> HIDE DEF sp, E, end
  <1>11. /\ Numbered(E)
         /\ tail \in Seq(Segments) /\ m \in Nat /\ m = Cardinality(E)
         /\ \A j \in 1..m : tail[j] = sp[Nth(E, j)]
    <2>1. 2 * n + 1 \in Nat
      BY <1>4
    <2>2. Numbered(E)
      BY <1>9, <2>1, Numbering
    <2>3. /\ tail \in Seq(Segments) /\ m = Cardinality(E)
          /\ \A j \in 1..Cardinality(E) : tail[j] = sp[Nth(E, j)]
      BY <1>9, <1>10, <2>1, SubsequenceFacts
    <2> HIDE DEF tail
    <2> QED BY <2>2, <2>3 DEF Numbered
  <1> HIDE DEF tail
  <1>12. /\ s \in Seq(Segments) /\ Len(s) = d + m /\ DOMAIN s = 1..(d + m)
         /\ \A k \in 1..d : s[k] = gone[k]
         /\ \A j \in 1..m : s[d + j] = tail[j]
    <2>1. gone \in Seq(Segments)
      <3>1. \A r \in 1..d : gone[r] \in Segments
        BY <1>5, Zenon DEF Segments
      <3> QED BY <1>5, <3>1
    <2>2. /\ s \in Seq(Segments) /\ Len(s) = Len(gone) + Len(tail)
          /\ \A i \in 1..(Len(gone) + Len(tail)) :
               s[i] = IF i <= Len(gone) THEN gone[i] ELSE tail[i - Len(gone)]
      BY <1>11, <2>1, ConcatProperties
    <2> HIDE DEF s
    <2>3. \A k \in 1..d : s[k] = gone[k]
      BY <1>5, <1>11, <2>2
    <2>4. ASSUME NEW j \in 1..m
          PROVE  s[d + j] = tail[j]
      <3>1. d + j \in 1..(d + m) /\ ~(d + j <= d) /\ d + j - d = j
        BY <1>5, <1>11
      <3> QED BY <2>2, <3>1
    <2> QED BY <1>5, <1>11, <2>2, <2>3, <2>4
  <1> HIDE DEF s
  <1>13. /\ \A q \in E : Rank(E, q) \in 1..m /\ Pos(q) \in (d + 1)..(d + m) /\ s[Pos(q)] = sp[q]
         /\ \A q1, q2 \in E : q1 < q2 => Pos(q1) < Pos(q2)
         /\ \A q1, q2 \in E : Pos(q1) = Pos(q2) => q1 = q2
         /\ \A k \in 1..(d + m) : k <= d \/ \E q \in E : k = Pos(q)
    <2>1. ASSUME NEW q \in E
          PROVE  Rank(E, q) \in 1..m /\ Pos(q) \in (d + 1)..(d + m) /\ s[Pos(q)] = sp[q]
      <3>1. Rank(E, q) \in 1..m /\ Nth(E, Rank(E, q)) = q
        BY <1>11 DEF Numbered
      <3> QED BY <3>1, <1>5, <1>11, <1>12
    <2>2. ASSUME NEW q1 \in E, NEW q2 \in E, q1 < q2
          PROVE  Pos(q1) < Pos(q2)
      <3>1. Rank(E, q1) < Rank(E, q2)
        BY <1>11, <2>2 DEF Numbered
      <3>2. Rank(E, q1) \in 1..m /\ Rank(E, q2) \in 1..m
        BY <2>1
      <3> QED BY <3>1, <3>2, <1>5, <1>11
    <2>3. ASSUME NEW q1 \in E, NEW q2 \in E, Pos(q1) = Pos(q2)
          PROVE  q1 = q2
      <3>1. q1 \in Nat /\ q2 \in Nat
        BY <1>9
      <3>2. Pos(q1) \in Int /\ Pos(q2) \in Int
        BY <2>1, <1>5, <1>11
      <3>3. ~(q1 < q2) /\ ~(q2 < q1)
        BY <2>2, <2>3, <3>2
      <3> QED BY <3>1, <3>3
    <2>4. ASSUME NEW k \in 1..(d + m), k > d
          PROVE  \E q \in E : k = Pos(q)
      <3>1. k - d \in 1..m
        BY <1>5, <1>11, <2>4
      <3>2. Nth(E, k - d) \in E /\ Rank(E, Nth(E, k - d)) = k - d
        BY <3>1, <1>11 DEF Numbered
      <3> QED BY <3>1, <3>2, <1>5
    <2> QED BY <2>1, <2>2, <2>3, <2>4, <1>5
  <1> HIDE DEF Pos
  <1>14. /\ \A r \in 1..n : s[Pos(2 * r)] = live[r] /\ Pos(2 * r) \in (d + 1)..(d + m)
         /\ \A k \in 1..d : s[k] \in PartitionType /\ IsDelete(s[k])
         /\ \A r \in 0..n : 2 * r + 1 \in E => IsFree(s[Pos(2 * r + 1)])
         /\ \A k \in 1..(d + m) :
              \/ k <= d
              \/ \E r \in 1..n : k = Pos(2 * r)
              \/ \E r \in 0..n : 2 * r + 1 \in E /\ k = Pos(2 * r + 1)
    <2>1. \A r \in 1..n : s[Pos(2 * r)] = live[r] /\ Pos(2 * r) \in (d + 1)..(d + m)
      BY <1>6, <1>9, <1>13
    <2>2. \A k \in 1..d : s[k] \in PartitionType /\ IsDelete(s[k])
      BY <1>5, <1>12
    <2>3. \A r \in 0..n : 2 * r + 1 \in E => IsFree(s[Pos(2 * r + 1)])
      BY <1>8, <1>13
    <2>4. ASSUME NEW k \in 1..(d + m), ~(k <= d)
          PROVE  \/ \E r \in 1..n : k = Pos(2 * r)
                 \/ \E r \in 0..n : 2 * r + 1 \in E /\ k = Pos(2 * r + 1)
      <3>1. PICK q \in E : k = Pos(q)
        BY <1>13, <2>4
      <3>2. (\E r \in 1..n : q = 2 * r) \/ (\E r \in 0..n : q = 2 * r + 1)
        BY <1>7, <1>9
      <3> QED BY <3>1, <3>2, Zenon
    <2> QED BY <2>1, <2>2, <2>3, <2>4, Zenon
  <1>15. /\ Staying(s) \subseteq 1..(d + m)
         /\ \A r \in 1..n : Pos(2 * r) \in Staying(s)
         /\ \A k \in Staying(s) : \E r \in 1..n : k = Pos(2 * r)
    <2>1. \A r \in 1..n : ~IsFree(live[r]) /\ ~IsDelete(live[r])
      BY <1>4, SegmentFacts
    <2>2. (d + 1)..(d + m) \subseteq 1..(d + m)
      BY <1>5, <1>11
    <2>3. ASSUME NEW r \in 1..n
          PROVE  Pos(2 * r) \in Staying(s)
      <3>1. Pos(2 * r) \in DOMAIN s /\ s[Pos(2 * r)] = live[r]
        BY <1>12, <1>14, <2>2, Zenon
      <3> QED BY <3>1, <2>1, Zenon DEF Staying
    <2>4. ASSUME NEW k \in Staying(s)
          PROVE  k \in 1..(d + m) /\ \E r \in 1..n : k = Pos(2 * r)
      <3>1. k \in 1..(d + m) /\ ~IsFree(s[k]) /\ ~IsDelete(s[k])
        BY <1>12, Zenon DEF Staying
      <3>2. k <= d => k \in 1..d
        BY <3>1, <1>5, <1>11
      <3> QED BY <1>14, <3>1, <3>2, Zenon
    <2> QED BY <2>3, <2>4, Zenon
  <1>16. Carries(parts, s)
    <2> DEFINE g == [i \in DOMAIN parts |-> IF i \in L THEN Pos(2 * Rank(L, i)) ELSE Rank(D, i)]
    <2>1. ASSUME NEW i \in L
          PROVE  /\ i \in DOMAIN parts /\ Rank(L, i) \in 1..n
                 /\ g[i] = Pos(2 * Rank(L, i))
                 /\ g[i] \in (d + 1)..(d + m) /\ s[g[i]] = parts[i]
      <3>1. Rank(L, i) \in 1..n /\ Nth(L, Rank(L, i)) = i
        BY <1>3, <1>4 DEF Numbered
      <3>2. i \in DOMAIN parts /\ g[i] = Pos(2 * Rank(L, i))
        BY <1>2
      <3> QED BY <3>1, <3>2, <1>4, <1>14
    <2>2. ASSUME NEW i \in D
          PROVE  /\ i \in DOMAIN parts /\ g[i] = Rank(D, i)
                 /\ g[i] \in 1..d /\ s[g[i]] = parts[i]
      <3>1. Rank(D, i) \in 1..d /\ Nth(D, Rank(D, i)) = i
        BY <1>3, <1>5 DEF Numbered
      <3>2. i \in DOMAIN parts /\ g[i] = Rank(D, i)
        BY <1>2
      <3> QED BY <3>1, <3>2, <1>5, <1>12
    <2>3. \A i \in DOMAIN parts : i \in L \/ i \in D
      BY <1>2
    <2>4. DOMAIN g = DOMAIN parts /\ g = [i \in DOMAIN parts |-> g[i]]
      OBVIOUS
    <2> HIDE DEF g
    <2>5. \A i \in DOMAIN parts : g[i] \in DOMAIN s /\ s[g[i]] = parts[i]
      <3>1. (d + 1)..(d + m) \subseteq DOMAIN s /\ 1..d \subseteq DOMAIN s
        BY <1>5, <1>11, <1>12
      <3> QED BY <2>1, <2>2, <2>3, <3>1, Zenon
    <2>6. ASSUME NEW i \in DOMAIN parts, NEW j \in DOMAIN parts, g[i] = g[j]
          PROVE  i = j
      <3>1. CASE i \in L /\ j \in L
        <4>1. 2 * Rank(L, i) \in E /\ 2 * Rank(L, j) \in E
          BY <2>1, <3>1, <1>9
        <4>2. Pos(2 * Rank(L, i)) = Pos(2 * Rank(L, j))
          BY <2>1, <2>6, <3>1
        <4>3. 2 * Rank(L, i) = 2 * Rank(L, j)
          BY <4>1, <4>2, <1>13
        <4>4. Rank(L, i) = Rank(L, j)
          BY <4>3, <2>1, <3>1, <1>4
        <4> QED BY <4>4, <3>1, <1>3 DEF Numbered
      <3>2. CASE i \in D /\ j \in D
        <4>1. Rank(D, i) = Rank(D, j)
          BY <2>2, <2>6, <3>2
        <4> QED BY <4>1, <3>2, <1>3 DEF Numbered
      <3>3. CASE (i \in L /\ j \in D) \/ (i \in D /\ j \in L)
        <4>1. \A x \in 1..d, y \in (d + 1)..(d + m) : x # y
          BY <1>5
        <4> QED BY <4>1, <2>1, <2>2, <2>6, <3>3
      <3> QED BY <2>3, <3>1, <3>2, <3>3, Zenon
    <2>7. ASSUME NEW k \in DOMAIN s, ~IsFree(s[k])
          PROVE  \E i \in DOMAIN parts : g[i] = k
      <3>1. CASE k <= d
        <4>1. k \in 1..d
          BY <3>1, <1>12, <1>5, <1>11
        <4>2. Nth(D, k) \in D /\ Rank(D, Nth(D, k)) = k
          BY <4>1, <1>3, <1>5 DEF Numbered
        <4> QED BY <4>2, <2>2, Zenon
      <3>2. ASSUME NEW r \in 1..n, k = Pos(2 * r)
            PROVE  \E i \in DOMAIN parts : g[i] = k
        <4>1. Nth(L, r) \in L /\ Rank(L, Nth(L, r)) = r
          BY <1>3, <1>4 DEF Numbered
        <4> QED BY <4>1, <2>1, <3>2, Zenon
      <3> QED BY <1>12, <1>14, <2>7, <3>1, <3>2, Zenon
    <2>8. g \in [DOMAIN parts -> DOMAIN s]
      BY <2>4, <2>5
    <2> QED BY <2>5, <2>6, <2>7, <2>8, Zenon DEF Carries, CarriedBy
  <1> DEFINE At(r) == IF r = 0 THEN 0 ELSE IF r = n + 1 THEN d + m + 1 ELSE Pos(2 * r)
             From(r) == IF r = 0 THEN MiB ELSE PartitionEnd(live[r])
             To(r) == IF r = n + 1 THEN end ELSE live[r].start
  <1>17. /\ At(0) = 0 /\ At(n + 1) = d + m + 1
         /\ \A r \in 1..n : At(r) = Pos(2 * r) /\ At(r) \in Staying(s)
         /\ \A r \in 0..(n + 1) : At(r) \in 0..(d + m + 1) /\ At(r) \in Int
         /\ \A r \in 0..n : EndAt(s, At(r)) = From(r)
         /\ \A r \in 1..(n + 1) : StartAt(s, At(r), end) = To(r)
    <2>1. At(0) = 0 /\ At(n + 1) = d + m + 1
      BY <1>4
    <2>2. \A r \in 1..n : At(r) = Pos(2 * r) /\ At(r) \in Staying(s)
      BY <1>4, <1>15
    <2>3. \A r \in 1..n : At(r) \in 1..(d + m)
      BY <2>2, <1>15
    <2>4. \A r \in 0..(n + 1) : r = 0 \/ r = n + 1 \/ r \in 1..n
      BY <1>4
    <2>5. \A r \in 0..(n + 1) : At(r) \in 0..(d + m + 1) /\ At(r) \in Int
      <3>1. 0..(d + m + 1) \subseteq Int /\ 0 \in 0..(d + m + 1) /\ d + m + 1 \in 0..(d + m + 1) /\ 1..(d + m) \subseteq 0..(d + m + 1)
        BY <1>5, <1>11
      <3> QED BY <3>1, <2>1, <2>3, <2>4, Zenon
    <2>6. ASSUME NEW r \in 0..n
          PROVE  EndAt(s, At(r)) = From(r)
      <3>1. CASE r = 0
        BY <3>1 DEF EndAt
      <3>2. CASE r # 0
        <4>1. r \in 1..n
          BY <3>2
        <4>2. At(r) # 0 /\ s[At(r)] = live[r]
          BY <4>1, <2>2, <2>3, <1>14
        <4> QED BY <4>1, <4>2 DEF EndAt
      <3> QED BY <3>1, <3>2
    <2>7. ASSUME NEW r \in 1..(n + 1)
          PROVE  StartAt(s, At(r), end) = To(r)
      <3>1. CASE r = n + 1
        BY <3>1, <2>1, <1>12 DEF StartAt
      <3>2. CASE r # n + 1
        <4>1. r \in 1..n
          BY <3>2, <1>4
        <4>2. At(r) # d + m + 1 /\ s[At(r)] = live[r]
          BY <4>1, <2>2, <2>3, <1>14, <1>5, <1>11
        <4> QED BY <4>1, <4>2, <3>2, <1>12 DEF StartAt
      <3> QED BY <3>1, <3>2
    <2> QED BY <2>1, <2>2, <2>5, <2>6, <2>7
  <1>18. \A a, b \in 0..(n + 1) : a < b => At(a) < At(b)
    <2>1. ASSUME NEW a \in 0..(n + 1), NEW b \in 0..(n + 1), a < b
          PROVE  At(a) < At(b)
      <3>1. \A r \in 1..n : At(r) \in 1..(d + m)
        BY <1>14, <1>17, <1>5
      <3>2. CASE a \in 1..n /\ b \in 1..n
        <4>1. 2 * a \in E /\ 2 * b \in E /\ 2 * a < 2 * b
          BY <3>2, <2>1, <1>9
        <4>2. Pos(2 * a) < Pos(2 * b)
          BY <4>1, <1>13
        <4> QED BY <4>2, <3>2, <1>17
      <3>3. CASE a = 0
        <4>1. b \in 1..n \/ b = n + 1
          BY <3>3, <2>1, <1>4
        <4>2. At(b) \in 1..(d + m + 1)
          BY <4>1, <3>1, <1>17, <1>5, <1>11
        <4> QED BY <4>2, <3>3, <1>17
      <3>4. CASE b = n + 1
        <4>1. a \in 1..n \/ a = 0
          BY <3>4, <2>1, <1>4
        <4>2. At(a) \in 0..(d + m)
          BY <4>1, <3>1, <1>17, <1>5, <1>11
        <4> QED BY <4>2, <3>4, <1>17, <1>5, <1>11
      <3>5. a = 0 \/ b = n + 1 \/ (a \in 1..n /\ b \in 1..n)
        BY <2>1, <1>4
      <3> QED BY <3>2, <3>3, <3>4, <3>5, Zenon
    <2> QED BY <2>1
  <1> HIDE DEF At
  <1>19. ASSUME NEW r \in 0..n
         PROVE  Neighbours(s, At(r), At(r + 1))
    <2>1. r \in 0..(n + 1) /\ r + 1 \in 0..(n + 1) /\ r < r + 1
      BY <1>4
    <2>2. At(r) < At(r + 1)
      BY <2>1, <1>18
    <2>3. At(r) \in {0} \cup Staying(s) /\ At(r + 1) \in Staying(s) \cup {Len(s) + 1}
      <3>1. r = 0 \/ r \in 1..n
        BY <1>4
      <3>2. r + 1 = n + 1 \/ r + 1 \in 1..n
        BY <1>4
      <3> QED BY <3>1, <3>2, <1>17, <1>12
    <2>4. ASSUME NEW k \in Staying(s)
          PROVE  k <= At(r) \/ At(r + 1) <= k
      <3>1. PICK q \in 1..n : k = Pos(2 * q)
        BY <1>15
      <3>2. k = At(q) /\ q \in 0..(n + 1)
        BY <3>1, <1>17, <1>4
      <3>3. q = r \/ q = r + 1 \/ q < r \/ r + 1 < q
        BY <1>4
      <3>4. At(q) \in Int /\ At(r) \in Int /\ At(r + 1) \in Int
        BY <2>1, <3>2, <1>17
      <3> QED BY <2>1, <3>2, <3>3, <3>4, <1>18
    <2> QED BY <2>2, <2>3, <2>4 DEF Neighbours
  <1>20. ASSUME NEW l, NEW r, Neighbours(s, l, r)
         PROVE  \E a \in 0..n : l = At(a) /\ r = At(a + 1)
    <2>1. PICK a \in 0..n : l = At(a)
      <3>1. l = 0 \/ l \in Staying(s)
        BY <1>20 DEF Neighbours
      <3>2. CASE l = 0
        BY <3>2, <1>4, <1>17
      <3>3. CASE l \in Staying(s)
        <4>1. PICK q \in 1..n : l = Pos(2 * q)
          BY <3>3, <1>15
        <4> QED BY <4>1, <1>17
      <3> QED BY <3>1, <3>2, <3>3
    <2>2. PICK b \in 1..(n + 1) : r = At(b)
      <3>1. r = Len(s) + 1 \/ r \in Staying(s)
        BY <1>20 DEF Neighbours
      <3>2. CASE r = Len(s) + 1
        <4>1. n + 1 \in 1..(n + 1)
          BY <1>4
        <4> QED BY <4>1, <3>2, <1>12, <1>17
      <3>3. CASE r \in Staying(s)
        <4>1. PICK q \in 1..n : r = Pos(2 * q)
          BY <3>3, <1>15
        <4> QED BY <4>1, <1>17, <1>4
      <3> QED BY <3>1, <3>2, <3>3
    <2>3. a \in 0..(n + 1) /\ b \in 0..(n + 1) /\ a + 1 \in 0..(n + 1)
      BY <1>4
    <2>4. At(a) \in Int /\ At(b) \in Int /\ At(a + 1) \in Int
      BY <2>3, <1>17
    <2>5. a < b
      <3>1. At(a) < At(b)
        BY <1>20, <2>1, <2>2 DEF Neighbours
      <3>2. b < a => At(b) < At(a)
        BY <2>3, <1>18
      <3> QED BY <3>1, <3>2, <2>3, <2>4
    <2>6. b = a + 1
      <3>1. SUFFICES ASSUME a + 1 < b
                     PROVE  FALSE
        BY <2>5, <2>3
      <3>2. a + 1 \in 1..n
        BY <3>1, <1>4
      <3>3. At(a + 1) \in Staying(s)
        BY <3>2, <1>17
      <3>4. At(a + 1) <= l \/ r <= At(a + 1)
        BY <3>3, <1>20 DEF Neighbours
      <3>5. At(a) < At(a + 1)
        BY <2>3, <1>18
      <3>6. At(a + 1) < At(b)
        BY <2>3, <3>1, <1>18
      <3> QED BY <2>1, <2>2, <2>4, <3>4, <3>5, <3>6
    <2> QED BY <2>1, <2>2, <2>6
  <1>21. ASSUME NEW r \in 0..n, 2 * r + 1 \in E
         PROVE  /\ Pos(2 * r + 1) \in DOMAIN s
                /\ Fills(s, Pos(2 * r + 1), At(r), At(r + 1), end)
                /\ s[Pos(2 * r + 1)].len > MiB
    <2>1. /\ Pos(2 * r + 1) \in (d + 1)..(d + m) /\ s[Pos(2 * r + 1)] = sp[2 * r + 1]
      BY <1>13, <1>21
    <2>2. Pos(2 * r + 1) \in DOMAIN s
      BY <2>1, <1>12, <1>5, <1>11
    <2>3. sp[2 * r + 1].start = From(r) /\ sp[2 * r + 1].len = To(r + 1) - From(r)
      <3>1. r = n <=> r + 1 = n + 1
        BY <1>4
      <3> QED BY <3>1, <1>8
    <2>4. EndAt(s, At(r)) = From(r) /\ StartAt(s, At(r + 1), end) = To(r + 1)
      <3>1. r + 1 \in 1..(n + 1)
        BY <1>4
      <3> QED BY <3>1, <1>17
    <2>5. IsFree(sp[2 * r + 1]) /\ sp[2 * r + 1].len > MiB
      BY <1>8, <1>9, <1>21
    <2> HIDE DEF From, To
    <2> QED BY <2>1, <2>2, <2>3, <2>4, <2>5, Zenon DEF Fills
  <1>22. FreeIsBetween(s, end)
    <2>1. ASSUME NEW i \in DOMAIN s, IsFree(s[i])
          PROVE  \E l, r \in 0..(Len(s) + 1) : Neighbours(s, l, r) /\ Fills(s, i, l, r, end) /\ s[i].len > MiB
      <3>1. ~(i <= d)
        <4>1. i <= d => i \in 1..d
          BY <1>5, <1>11, <1>12
        <4> QED BY <4>1, <2>1, <1>14, SegmentFacts
      <3>2. ~\E r \in 1..n : i = Pos(2 * r)
        BY <2>1, <1>14, <1>4, SegmentFacts
      <3>3. PICK r \in 0..n : 2 * r + 1 \in E /\ i = Pos(2 * r + 1)
        BY <3>1, <3>2, <1>12, <1>14, Zenon
      <3>4. At(r) \in 0..(Len(s) + 1) /\ At(r + 1) \in 0..(Len(s) + 1)
        <4>1. r \in 0..(n + 1) /\ r + 1 \in 0..(n + 1)
          BY <1>4
        <4> QED BY <4>1, <1>12, <1>17
      <3>5. Neighbours(s, At(r), At(r + 1))
        BY <1>19
      <3>6. Fills(s, i, At(r), At(r + 1), end) /\ s[i].len > MiB
        BY <1>21, <3>3
      <3> QED BY <3>4, <3>5, <3>6, Zenon
    <2>2. ASSUME NEW l \in 0..(Len(s) + 1), NEW r \in 0..(Len(s) + 1), Neighbours(s, l, r),
                 StartAt(s, r, end) - EndAt(s, l) > MiB
          PROVE  \E i \in DOMAIN s : Fills(s, i, l, r, end)
      <3>1. PICK a \in 0..n : l = At(a) /\ r = At(a + 1)
        BY <2>2, <1>20
      <3>2. EndAt(s, l) = From(a) /\ StartAt(s, r, end) = To(a + 1)
        <4>1. a + 1 \in 1..(n + 1)
          BY <1>4
        <4> QED BY <4>1, <3>1, <1>17
      <3>3. sp[2 * a + 1].len = To(a + 1) - From(a)
        <4>1. a = n <=> a + 1 = n + 1
          BY <1>4
        <4> QED BY <4>1, <1>8
      <3>4. 2 * a + 1 \in E
        <4> HIDE DEF From, To
        <4> QED BY <2>2, <3>2, <3>3, <1>9
      <3> QED BY <3>1, <3>4, <1>21, Zenon
    <2> QED BY <2>1, <2>2, Zenon DEF FreeIsBetween
  <1> QED BY <1>1, <1>12, <1>16, <1>22 DEF end

LEMMA PartModsFacts ==
    ASSUME NEW s \in Seq(Segments)
    PROVE  PartMods(s) \in Seq(PartitionType) /\ Carries(PartMods(s), s)
  <1> DEFINE K == {i \in DOMAIN s : ~IsFree(s[i])}
             g == [r \in 1..Cardinality(K) |-> Nth(K, r)]
  <1>1. Len(s) \in Nat /\ DOMAIN s = 1..Len(s) /\ K \in SUBSET (1..Len(s))
    OBVIOUS
  <1>2. \A i \in K : s[i] \in PartitionType
    BY SegmentFacts
  <1>3. PartMods(s) = Subsequence(s, K)
    BY DEF PartMods
  <1>4. \A i \in DOMAIN s : ~IsFree(s[i]) => i \in K
    OBVIOUS
  <1> HIDE DEF K
  <1>5. /\ PartMods(s) \in Seq(PartitionType)
        /\ DOMAIN PartMods(s) = 1..Cardinality(K)
        /\ \A r \in 1..Cardinality(K) : PartMods(s)[r] = s[Nth(K, r)]
    BY <1>1, <1>2, <1>3, SubsequenceFacts
  <1>6. Numbered(K)
    BY <1>1, Numbering
  <1>7. /\ \A r \in 1..Cardinality(K) : g[r] = Nth(K, r) /\ g[r] \in K /\ g[r] \in DOMAIN s
        /\ g \in [1..Cardinality(K) -> DOMAIN s]
    BY <1>1, <1>6 DEF Numbered
  <1>8. \A i, j \in 1..Cardinality(K) : g[i] = g[j] => i = j
    BY <1>6, <1>7, Zenon DEF Numbered
  <1>9. \A k \in DOMAIN s : ~IsFree(s[k]) => \E r \in 1..Cardinality(K) : g[r] = k
    BY <1>4, <1>6, <1>7, Zenon DEF Numbered
  <1> HIDE DEF g
  <1>10. \A i \in DOMAIN PartMods(s) : s[g[i]] = PartMods(s)[i]
    BY <1>5, <1>7
  <1>11. CarriedBy(g, PartMods(s), s)
    BY <1>5, <1>7, <1>8, <1>9, <1>10 DEF CarriedBy
  <1> QED BY <1>5, <1>11, Zenon DEF Carries

-----------------------------------------------------------------------------
(* What is true of the partitions listed, on the screen or in a layout. d is *)
(* the disk, w whether it is wiped.                                          *)

Kind(d, w) == IF w THEN d.made ELSE d.gpt

\* p is partition n of the disk.
Sits(d, p, n) ==
    /\ ~IsFree(p) /\ p.id = n /\ p.status # "create"
    /\ p.start = d.parts[n].start /\ p.len = d.parts[n].len

Once(d, s, n) ==
    \E i \in DOMAIN s : Sits(d, s[i], n) /\ \A j \in DOMAIN s : Sits(d, s[j], n) => j = i

\* The start of a new partition is usable with either table kind.
Placed(d, w, p) ==
    IF p.status = "create"
    THEN /\ p.start >= MiB /\ p.start <= UsableEnd(d.total, TRUE)
         /\ (d.made => d.gpt) => PartitionEnd(p) <= UsableEnd(d.total, Kind(d, w))
    ELSE PartitionEnd(p) >= MiB /\ p.start <= UsableEnd(d.total, d.gpt)

Sound(d, w, s) ==
    /\ w => \A i \in DOMAIN s : IsFree(s[i]) \/ s[i].status = "create"
    /\ ~w => \A n \in DOMAIN d.parts : Once(d, s, n)
    /\ TableIsSound(d) => \A i \in DOMAIN s : IsFree(s[i]) \/ Placed(d, w, s[i])

\* It is true of a list as it is of the partitions it carries.
LEMMA CarriedAreSound ==
    ASSUME NEW parts \in Seq(PartitionType), NEW s, Carries(parts, s), NEW d, NEW w \in BOOLEAN
    PROVE  Sound(d, w, parts) <=> Sound(d, w, s)
  <1>1. PICK g : CarriedBy(g, parts, s)
    BY Zenon DEF Carries
  <1>2. \A i \in DOMAIN parts : g[i] \in DOMAIN s /\ s[g[i]] = parts[i]
    BY <1>1 DEF CarriedBy
  <1>3. \A i \in DOMAIN parts : ~IsFree(parts[i])
    BY SegmentFacts
  <1>4. \A k \in DOMAIN s : IsFree(s[k]) \/ \E i \in DOMAIN parts : g[i] = k
    BY <1>1, Zenon DEF CarriedBy
  <1>5. ASSUME NEW n
        PROVE  Once(d, parts, n) <=> Once(d, s, n)
    <2>1. ASSUME Once(d, parts, n)
          PROVE  Once(d, s, n)
      <3>1. PICK i \in DOMAIN parts : Sits(d, parts[i], n) /\ \A j \in DOMAIN parts : Sits(d, parts[j], n) => j = i
        BY <2>1, Zenon DEF Once
      <3>2. g[i] \in DOMAIN s /\ Sits(d, s[g[i]], n)
        BY <1>2, <3>1, Zenon
      <3>3. ASSUME NEW k \in DOMAIN s, Sits(d, s[k], n)
            PROVE  k = g[i]
        <4>1. PICK j \in DOMAIN parts : g[j] = k
          BY <1>4, <3>3, Zenon DEF Sits
        <4> QED BY <1>2, <3>1, <3>3, <4>1, Zenon
      <3> QED BY <3>2, <3>3, Zenon DEF Once
    <2>2. ASSUME Once(d, s, n)
          PROVE  Once(d, parts, n)
      <3>1. PICK k \in DOMAIN s : Sits(d, s[k], n) /\ \A j \in DOMAIN s : Sits(d, s[j], n) => j = k
        BY <2>2, Zenon DEF Once
      <3>2. PICK i \in DOMAIN parts : g[i] = k
        BY <1>4, <3>1, Zenon DEF Sits
      <3>3. Sits(d, parts[i], n)
        BY <1>2, <3>1, <3>2, Zenon
      <3>4. ASSUME NEW j \in DOMAIN parts, Sits(d, parts[j], n)
            PROVE  j = i
        <4>1. g[j] = g[i]
          BY <1>2, <3>1, <3>2, <3>4, Zenon
        <4> QED BY <1>1, <4>1, Zenon DEF CarriedBy
      <3> QED BY <3>3, <3>4, Zenon DEF Once
    <2> QED BY <2>1, <2>2
  <1>6. (\A i \in DOMAIN parts : IsFree(parts[i]) \/ parts[i].status = "create")
        <=> (\A k \in DOMAIN s : IsFree(s[k]) \/ s[k].status = "create")
    <2>1. ASSUME \A i \in DOMAIN parts : IsFree(parts[i]) \/ parts[i].status = "create", NEW k \in DOMAIN s
          PROVE  IsFree(s[k]) \/ s[k].status = "create"
      BY <1>2, <1>3, <1>4, <2>1
    <2>2. ASSUME \A k \in DOMAIN s : IsFree(s[k]) \/ s[k].status = "create", NEW i \in DOMAIN parts
          PROVE  IsFree(parts[i]) \/ parts[i].status = "create"
      BY <1>2, <2>2
    <2> QED BY <2>1, <2>2, Zenon
  <1>7. (\A i \in DOMAIN parts : IsFree(parts[i]) \/ Placed(d, w, parts[i]))
        <=> (\A k \in DOMAIN s : IsFree(s[k]) \/ Placed(d, w, s[k]))
    BY <1>2, <1>3, <1>4, Zenon
  <1> QED BY <1>5, <1>6, <1>7, Zenon DEF Sound

\* Changing entries in place, as most actions do.
Alike(p, q) ==
    IF IsFree(p) THEN q = p
    ELSE /\ ~IsFree(q) /\ q.id = p.id /\ q.start = p.start /\ q.len = p.len
         /\ q.status = "create" <=> p.status = "create"

LEMMA AlikeAreSound ==
    ASSUME NEW s, NEW t, DOMAIN t = DOMAIN s, \A i \in DOMAIN s : Alike(s[i], t[i]),
           NEW d, NEW w \in BOOLEAN, Sound(d, w, s)
    PROVE  Sound(d, w, t)
  <1>1. ASSUME NEW i \in DOMAIN s
        PROVE  /\ IsFree(t[i]) <=> IsFree(s[i])
               /\ ~IsFree(s[i]) => (t[i].status = "create" <=> s[i].status = "create")
               /\ \A n : Sits(d, t[i], n) <=> Sits(d, s[i], n)
               /\ ~IsFree(s[i]) => (Placed(d, w, t[i]) <=> Placed(d, w, s[i]))
    <2>1. CASE IsFree(s[i])
      BY <2>1, Zenon DEF Alike, Sits
    <2>2. CASE ~IsFree(s[i])
      <3>1. /\ ~IsFree(t[i]) /\ t[i].id = s[i].id /\ t[i].start = s[i].start /\ t[i].len = s[i].len
            /\ t[i].status = "create" <=> s[i].status = "create"
        BY <2>2, Zenon DEF Alike
      <3>2. PartitionEnd(t[i]) = PartitionEnd(s[i])
        BY <3>1, Zenon DEF PartitionEnd
      <3> QED BY <2>2, <3>1, <3>2, Zenon DEF Sits, Placed
    <2> QED BY <2>1, <2>2, Zenon
  <1>2. \A n : Once(d, s, n) => Once(d, t, n)
    BY <1>1, Zenon DEF Once
  <1> QED BY <1>1, <1>2, Zenon DEF Sound

\* What is new may disappear.
LEMMA RestIsSound ==
    ASSUME NEW s \in Seq(PartitionType), NEW K \in SUBSET (DOMAIN s),
           \A i \in DOMAIN s \ K : s[i].status = "create",
           NEW d, NEW w \in BOOLEAN, Sound(d, w, s)
    PROVE  Subsequence(s, K) \in Seq(PartitionType) /\ Sound(d, w, Subsequence(s, K))
  <1> DEFINE t == Subsequence(s, K)
             c == Cardinality(K)
  <1>1. Len(s) \in Nat /\ DOMAIN s = 1..Len(s) /\ \A i \in DOMAIN s : s[i] \in PartitionType
    OBVIOUS
  <1>2. Numbered(K)
    BY <1>1, Numbering
  <1>3. /\ t \in Seq(PartitionType) /\ DOMAIN t = 1..c
        /\ \A r \in 1..c : t[r] = s[Nth(K, r)]
    BY <1>1, SubsequenceFacts
  <1> HIDE DEF t
  <1>4. /\ \A r \in 1..c : Nth(K, r) \in DOMAIN s
        /\ \A i \in K : Rank(K, i) \in 1..c /\ t[Rank(K, i)] = s[i]
    BY <1>2, <1>3, Zenon DEF Numbered
  <1>5. ASSUME NEW n, Once(d, s, n)
        PROVE  Once(d, t, n)
    <2>1. PICK i \in DOMAIN s : Sits(d, s[i], n) /\ \A j \in DOMAIN s : Sits(d, s[j], n) => j = i
      BY <1>5, Zenon DEF Once
    <2>2. i \in K
      BY <2>1, Zenon DEF Sits
    <2>3. Rank(K, i) \in DOMAIN t /\ Sits(d, t[Rank(K, i)], n)
      BY <1>3, <1>4, <2>1, <2>2, Zenon
    <2>4. ASSUME NEW r \in DOMAIN t, Sits(d, t[r], n)
          PROVE  r = Rank(K, i)
      <3>1. Nth(K, r) = i
        BY <1>3, <1>4, <2>1, <2>4, Zenon
      <3> QED BY <1>2, <1>3, <3>1, Zenon DEF Numbered
    <2> QED BY <2>3, <2>4, Zenon DEF Once
  <1>6. Sound(d, w, t)
    BY <1>3, <1>4, <1>5, Zenon DEF Sound
  <1> QED BY <1>3, <1>6, Zenon DEF t

\* t is s with x at place p.
Inserted(S, s, p, x, t) ==
  /\ t \in Seq(S)
  /\ Len(t) = Len(s) + 1
  /\ \A i \in 1..(Len(s) + 1) : t[i] = IF i < p THEN s[i] ELSE IF i = p THEN x ELSE s[i - 1]

\* list.insert, where a new partition is listed.
LEMMA InsertAtFacts ==
  ASSUME NEW S, NEW s \in Seq(S), NEW p \in 1..(Len(s) + 1), NEW x \in S
  PROVE  Inserted(S, s, p, x, InsertAt(s, p, x))
<1> DEFINE front == SubSeq(s, 1, p - 1)
           back  == SubSeq(s, p, Len(s))
<1>0. Len(s) \in Nat /\ p \in Nat /\ 1 <= p /\ p <= Len(s) + 1
  BY LenProperties
<1>1. /\ front \in Seq(S) /\ Len(front) = p - 1
      /\ \A i \in 1..(p - 1) : front[i] = s[i]
  <2>1. \A i \in 1..(p - 1) : s[i] \in S
    OBVIOUS
  <2>2. /\ front \in Seq(S) /\ Len(front) = IF 1 <= p - 1 THEN p - 1 - 1 + 1 ELSE 0
        /\ \A i \in 1..(p - 1 - 1 + 1) : front[i] = s[1 + i - 1]
    BY <2>1, SubSeqProperties
  <2> HIDE DEF front
  <2>3. QED BY <2>2
<1>2. /\ back \in Seq(S) /\ Len(back) = Len(s) - p + 1
      /\ \A i \in 1..(Len(s) - p + 1) : back[i] = s[p + i - 1]
  <2>1. \A i \in p..Len(s) : s[i] \in S
    OBVIOUS
  <2>2. /\ back \in Seq(S) /\ Len(back) = IF p <= Len(s) THEN Len(s) - p + 1 ELSE 0
        /\ \A i \in 1..(Len(s) - p + 1) : back[i] = s[p + i - 1]
    BY <2>1, SubSeqProperties
  <2> HIDE DEF back
  <2>3. QED BY <2>2
<1>3. InsertAt(s, p, x) = (front \o <<x>>) \o back
  BY DEF InsertAt
<1> HIDE DEF front, back
<1>4. <<x>> \in Seq(S) /\ Len(<<x>>) = 1 /\ <<x>>[1] = x
  <2>1. <<x>> \in Seq(S)
    OBVIOUS
  <2>2. QED BY <2>1
<1>5. /\ front \o <<x>> \in Seq(S) /\ Len(front \o <<x>>) = p
      /\ \A i \in 1..p : (front \o <<x>>)[i] = IF i < p THEN s[i] ELSE x
  <2>1. /\ front \o <<x>> \in Seq(S) /\ Len(front \o <<x>>) = Len(front) + Len(<<x>>)
        /\ \A i \in 1..(Len(front) + Len(<<x>>)) :
             (front \o <<x>>)[i] = IF i <= Len(front) THEN front[i] ELSE <<x>>[i - Len(front)]
    BY <1>1, <1>4, ConcatProperties
  <2>2. QED BY <1>0, <1>1, <1>4, <2>1
<1> DEFINE t == front \o <<x>>
<1> HIDE DEF t
<1>6. /\ t \in Seq(S) /\ Len(t) = p
      /\ \A i \in 1..p : t[i] = IF i < p THEN s[i] ELSE x
  BY <1>5 DEF t
<1>7. /\ t \o back \in Seq(S)
      /\ Len(t \o back) = Len(t) + Len(back)
      /\ \A i \in 1..(Len(t) + Len(back)) :
           (t \o back)[i] = IF i <= Len(t) THEN t[i] ELSE back[i - Len(t)]
  BY <1>2, <1>6, ConcatProperties
<1>8. /\ t \o back \in Seq(S)
      /\ Len(t \o back) = Len(s) + 1
      /\ \A i \in 1..(Len(s) + 1) : (t \o back)[i] = IF i <= p THEN t[i] ELSE back[i - p]
  <2>1. Len(t) + Len(back) = Len(s) + 1
    BY <1>0, <1>2, <1>6
  <2>2. QED BY <1>6, <1>7, <2>1
<1>9. ASSUME NEW i \in 1..(Len(s) + 1)
      PROVE  (t \o back)[i] = IF i < p THEN s[i] ELSE IF i = p THEN x ELSE s[i - 1]
  <2>1. CASE i <= p
    BY <1>0, <1>6, <1>8, <2>1
  <2>2. CASE i > p
    <3>1. i - p \in 1..(Len(s) - p + 1) /\ p + (i - p) - 1 = i - 1
      BY <1>0, <2>2
    <3>2. QED BY <1>0, <1>2, <1>8, <2>2, <3>1
  <2>3. i <= p \/ i > p
    BY <1>0
  <2>4. QED BY <2>1, <2>2, <2>3, Zenon
<1>10. InsertAt(s, p, x) = t \o back
  BY <1>3 DEF t
<1>11. QED BY <1>8, <1>9, <1>10, Zenon DEF Inserted

LEMMA InsertedIsSound ==
    ASSUME NEW s \in Seq(PartitionType), NEW p \in 1..(Len(s) + 1), NEW x \in PartitionType,
           NEW d, NEW w \in BOOLEAN, Sound(d, w, s),
           x.status = "create", TableIsSound(d) => Placed(d, w, x)
    PROVE  InsertAt(s, p, x) \in Seq(PartitionType) /\ Sound(d, w, InsertAt(s, p, x))
  <1>0. Inserted(PartitionType, s, p, x, InsertAt(s, p, x))
    BY InsertAtFacts, Zenon
  <1> DEFINE t == InsertAt(s, p, x)
             New(i) == IF i < p THEN i ELSE i + 1
             Old(i) == IF i < p THEN i ELSE i - 1
  <1>1. /\ t \in Seq(PartitionType) /\ Len(t) = Len(s) + 1
        /\ \A i \in 1..(Len(s) + 1) : t[i] = IF i < p THEN s[i] ELSE IF i = p THEN x ELSE s[i - 1]
    BY <1>0, Zenon DEF Inserted
  <1> HIDE DEF t
  <1>2. /\ DOMAIN s = 1..Len(s) /\ DOMAIN t = 1..(Len(s) + 1) /\ Len(s) \in Nat
        /\ p \in Nat /\ 1 <= p /\ p <= Len(s) + 1
    BY <1>1, LenProperties
  <1>3. t[p] = x
    BY <1>1, <1>2
  <1>4. ASSUME NEW i \in DOMAIN s
        PROVE  New(i) \in DOMAIN t /\ t[New(i)] = s[i]
    <2>1. New(i) \in 1..(Len(s) + 1) /\ New(i) # p /\ (i < p <=> New(i) < p) /\ (i >= p => New(i) - 1 = i)
      BY <1>2
    <2> QED BY <1>1, <1>2, <2>1
  <1>5. ASSUME NEW i \in DOMAIN t, i # p
        PROVE  Old(i) \in DOMAIN s /\ t[i] = s[Old(i)] /\ i = New(Old(i))
    <2>1. Old(i) \in DOMAIN s /\ i = New(Old(i))
      BY <1>2, <1>5
    <2>2. t[i] = s[Old(i)]
      BY <1>1, <1>2, <1>5
    <2> QED BY <2>1, <2>2
  <1> HIDE DEF New, Old
  <1>6. ASSUME NEW n, Once(d, s, n)
        PROVE  Once(d, t, n)
    <2>1. PICK i \in DOMAIN s : Sits(d, s[i], n) /\ \A j \in DOMAIN s : Sits(d, s[j], n) => j = i
      BY <1>6, Zenon DEF Once
    <2>2. New(i) \in DOMAIN t /\ Sits(d, t[New(i)], n)
      BY <1>4, <2>1, Zenon
    <2>3. ASSUME NEW j \in DOMAIN t, Sits(d, t[j], n)
          PROVE  j = New(i)
      <3>1. j # p
        BY <1>3, <2>3, Zenon DEF Sits
      <3> QED BY <1>5, <2>1, <2>3, <3>1, Zenon
    <2> QED BY <2>2, <2>3, Zenon DEF Once
  <1>7. Sound(d, w, t)
    <2>1. ASSUME NEW i \in DOMAIN t
          PROVE  t[i] = x \/ \E j \in DOMAIN s : t[i] = s[j]
      BY <1>3, <1>5, Zenon
    <2>2. ASSUME w, NEW i \in DOMAIN t
          PROVE  IsFree(t[i]) \/ t[i].status = "create"
      BY <2>1, <2>2, Zenon DEF Sound
    <2>3. ASSUME TableIsSound(d), NEW i \in DOMAIN t
          PROVE  IsFree(t[i]) \/ Placed(d, w, t[i])
      BY <2>1, <2>3, Zenon DEF Sound
    <2>4. ~w => \A n \in DOMAIN d.parts : Once(d, t, n)
      BY <1>6, Zenon DEF Sound
    <2> QED BY <2>2, <2>3, <2>4, Zenon DEF Sound
  <1> QED BY <1>1, <1>7, Zenon DEF t

\* The backup header of a GPT takes one MiB from the usable end.
LEMMA UsableEnds ==
    ASSUME NEW total \in Nat, total >= GiB + 3 * MiB
    PROVE  /\ UsableEnd(total, TRUE) \in Nat /\ UsableEnd(total, FALSE) \in Nat
           /\ UsableEnd(total, FALSE) = UsableEnd(total, TRUE) + MiB
           /\ UsableEnd(total, TRUE) >= MiB + GiB
  <1> DEFINE x == UsableEnd(total, TRUE)
             y == UsableEnd(total, FALSE)
  <1>1. x \in Nat /\ x % MiB = 0 /\ x >= MiB + GiB
    BY UsableEndFacts, Zenon
  <1>2. y \in Nat /\ y % MiB = 0
    BY UsableEndFacts, Zenon
  <1>3. GptEnd(total) = total - MiB /\ total - MiB \in Nat
    BY MiBAssumption, SMT DEF GptEnd, Minus, GiB
  <1>4. x <= total - MiB /\ total - MiB < x + MiB
    BY <1>3, AlignRoundsDown DEF UsableEnd
  <1>5. y <= total /\ total < y + MiB
    BY AlignRoundsDown DEF UsableEnd
  <1> HIDE DEF x, y
  <1>6. MiB \in Nat /\ MiB > 0 /\ MiB % MiB = 0
    BY MiBAssumption, SMT
  <1>7. x + MiB \in Nat /\ (x + MiB) % MiB = 0
    BY <1>1, <1>6, SumsOfMultiples
  <1>0. x \in Nat /\ y \in Nat /\ MiB \in Nat
    BY <1>1, <1>2, <1>6, Zenon
  <1>8. \A z \in Nat : z % MiB = 0 /\ z < MiB => z = 0
    BY <1>6, SMT
  <1>9. y = x + MiB
    <2>1. CASE x + MiB <= y
      <3>1. (y - (x + MiB)) % MiB = 0
        BY <1>2, <1>7, <2>1, SumsOfMultiples
      <3>2. y - (x + MiB) \in Nat /\ y - (x + MiB) < MiB
        BY <1>0, <1>4, <1>5, <2>1
      <3>3. y - (x + MiB) = 0
        BY <1>8, <3>1, <3>2
      <3> QED BY <1>2, <1>7, <3>3
    <2>2. CASE y <= x + MiB
      <3>1. ((x + MiB) - y) % MiB = 0
        BY <1>2, <1>7, <2>2, SumsOfMultiples
      <3>2. (x + MiB) - y \in Nat /\ (x + MiB) - y < MiB
        BY <1>0, <1>4, <1>5, <2>2
      <3>3. (x + MiB) - y = 0
        BY <1>8, <3>1, <3>2
      <3> QED BY <1>2, <1>7, <3>3
    <2> QED BY <1>2, <1>7, <2>1, <2>2
  <1>10. /\ x \in Nat /\ y \in Nat /\ y = x + MiB /\ x >= MiB + GiB
    BY <1>1, <1>2, <1>9, Zenon
  <1> QED BY <1>10, Zenon DEF x, y

\* The table kind the list was opened with is the one in use, or the disk was
\* taken to be wiped since then (_using_gpt is not refreshed).
KindFits(d, w, u) == u = Kind(d, w) \/ (w /\ u = d.gpt)

\* A partition made in free space that is shown is where it may be.
LEMMA NewIsPlaced ==
    ASSUME NEW d \in Disks, NEW w \in BOOLEAN, NEW u \in BOOLEAN, KindFits(d, w, u),
           NEW s \in Seq(Segments), Sound(d, w, s), FreeIsBetween(s, UsableEnd(d.total, u)),
           TableIsSound(d), NEW i \in DOMAIN s, IsFree(s[i]),
           NEW x \in PartitionType, x.status = "create", x.start = s[i].start, x.len <= s[i].len
    PROVE  Placed(d, w, x)
  <1> DEFINE U(gpt) == UsableEnd(d.total, gpt)
  <1>1. /\ d.total \in Nat /\ d.total >= GiB + 3 * MiB /\ d.gpt \in BOOLEAN /\ d.made \in BOOLEAN
    BY DisksAssumption
  <1>2. U(TRUE) \in Nat /\ U(FALSE) \in Nat /\ U(FALSE) = U(TRUE) + MiB /\ U(TRUE) >= MiB + GiB
    BY <1>1, UsableEnds
  <1> HIDE DEF U
  <1>ends. /\ \A g \in BOOLEAN : U(g) \in Nat /\ U(TRUE) <= U(g) /\ U(g) <= U(FALSE)
           /\ Kind(d, w) \in BOOLEAN
           /\ (d.made => d.gpt) => U(d.gpt) <= U(Kind(d, w))
    <2>1. /\ U(TRUE) <= U(FALSE) /\ U(TRUE) <= U(TRUE) /\ U(FALSE) <= U(FALSE)
      <3>1. \A p, q, m \in Nat : q = p + m => p <= q /\ p <= p /\ q <= q
        OBVIOUS
      <3> QED BY <1>2, <3>1, MiBAssumption, Zenon
    <2>2. \A g \in BOOLEAN : U(g) \in Nat /\ U(TRUE) <= U(g) /\ U(g) <= U(FALSE)
      BY <1>2, <2>1, Zenon
    <2>3. Kind(d, w) \in BOOLEAN
      BY <1>1, Zenon DEF Kind
    <2>4. (d.made => d.gpt) => U(d.gpt) <= U(Kind(d, w))
      <3>1. d.gpt = TRUE => U(d.gpt) <= U(Kind(d, w))
        BY <2>2, <2>3, Zenon
      <3>2. d.gpt = FALSE /\ (d.made => d.gpt) => d.made = FALSE
        BY <1>1, Zenon
      <3>3. d.gpt = FALSE /\ d.made = FALSE => Kind(d, w) = FALSE
        BY Zenon DEF Kind
      <3> QED BY <1>1, <2>1, <3>1, <3>2, <3>3, Zenon
    <2> QED BY <2>2, <2>3, <2>4
  <1>3. PICK l \in 0..(Len(s) + 1), r \in 0..(Len(s) + 1) :
          Neighbours(s, l, r) /\ Fills(s, i, l, r, U(u)) /\ s[i].len > MiB
    BY Zenon DEF FreeIsBetween, U
  <1> DEFINE a == EndAt(s, l)
             b == StartAt(s, r, U(u))
  <1>4. s[i].start = a /\ s[i].len = b - a
    BY <1>3 DEF Fills
  <1>5. ASSUME NEW k \in Staying(s)
        PROVE  k \in DOMAIN s /\ s[k] \in PartitionType /\ Placed(d, w, s[k])
    <2>1. k \in DOMAIN s /\ ~IsFree(s[k]) /\ s[k] \in Segments
      BY DEF Staying
    <2> QED BY <2>1, SegmentFacts DEF Sound
  <1>6. a \in Nat /\ a >= MiB
    <2>1. CASE l = 0
      BY <2>1, MiBAssumption DEF EndAt
    <2>2. CASE l # 0
      <3>1. l \in Staying(s)
        BY <1>3, <2>2 DEF Neighbours
      <3>2. a = PartitionEnd(s[l])
        BY <2>2 DEF EndAt
      <3>3. /\ s[l].start \in Nat /\ s[l].len \in Nat /\ PartitionEnd(s[l]) = s[l].start + s[l].len
            /\ Placed(d, w, s[l])
        BY <1>5, <3>1, SegmentFacts DEF PartitionEnd
      <3>4. s[l].start >= MiB \/ PartitionEnd(s[l]) >= MiB
        BY <3>3, Zenon DEF Placed
      <3> QED BY <3>2, <3>3, <3>4, MiBAssumption
    <2> QED BY <2>1, <2>2
  <1>7. /\ b \in Nat /\ b <= U(FALSE)
        /\ (d.made => d.gpt) => b <= U(Kind(d, w))
    <2>1. U(u) \in Nat /\ U(u) <= U(FALSE) /\ ((d.made => d.gpt) => U(u) <= U(Kind(d, w)))
      BY <1>ends, Zenon DEF KindFits
    <2>2. CASE r = Len(s) + 1
      BY <2>1, <2>2 DEF StartAt
    <2>3. CASE r # Len(s) + 1
      <3>1. r \in Staying(s)
        BY <1>3, <2>3 DEF Neighbours
      <3>2. b = s[r].start
        BY <2>3 DEF StartAt
      <3>3. s[r].start \in Nat /\ Placed(d, w, s[r])
        BY <1>5, <3>1, SegmentFacts
      <3>4. PICK g \in BOOLEAN : s[r].start <= U(g) /\ (g = TRUE \/ g = d.gpt)
        BY <1>1, <3>3, Zenon DEF Placed, U
      <3>5. /\ U(g) \in Nat /\ U(FALSE) \in Nat /\ U(Kind(d, w)) \in Nat /\ U(g) <= U(FALSE)
            /\ (d.made => d.gpt) => U(g) <= U(Kind(d, w))
        BY <1>ends, <3>4, Zenon
      <3>6. s[r].start <= U(FALSE) /\ ((d.made => d.gpt) => s[r].start <= U(Kind(d, w)))
        <4>1. \A p, q, m \in Nat : p <= q /\ q <= m => p <= m
          OBVIOUS
        <4> QED BY <3>3, <3>4, <3>5, <4>1, Zenon
      <3> QED BY <3>2, <3>3, <3>6, Zenon
    <2> QED BY <2>2, <2>3
  <1> HIDE DEF a, b
  <1>8. /\ x.start = a /\ x.len \in Nat /\ x.len <= b - a /\ b - a > MiB
        /\ PartitionEnd(x) = x.start + x.len
    BY <1>3, <1>4, SegmentFacts DEF PartitionEnd
  <1>9. x.start >= MiB /\ x.start <= U(TRUE)
    <2>1. b - a > MiB /\ b <= U(TRUE) + MiB /\ MiB \in Nat /\ U(TRUE) \in Nat
      BY <1>2, <1>7, <1>8, MiBAssumption
    <2>2. a <= U(TRUE)
      <3>1. \A k, t, m \in Nat : b - a > m /\ b <= t + m => a <= t
        BY <1>6, <1>7
      <3> QED BY <2>1, <3>1, Zenon
    <2> QED BY <1>6, <1>8, <2>2
  <1>10. PartitionEnd(x) <= b
    BY <1>6, <1>7, <1>8
  <1>11. (d.made => d.gpt) => PartitionEnd(x) <= U(Kind(d, w))
    <2>1. U(Kind(d, w)) \in Nat
      BY <1>1, <1>2 DEF Kind
    <2> QED BY <1>6, <1>7, <1>8, <1>10, <2>1
  <1> QED BY <1>9, <1>11, Zenon DEF Placed, U

\* A set of places has a first and a last element.
LEMMA FirstAndLast ==
    ASSUME NEW n \in Nat, NEW K \in SUBSET (1..n), K # {}
    PROVE  /\ \E a \in K : \A k \in K : a <= k
           /\ \E b \in K : \A k \in K : k <= b
  <1> DEFINE c == Cardinality(K)
             a == Nth(K, 1)
             b == Nth(K, c)
  <1>1. Numbered(K)
    BY Numbering
  <1>2. c \in Nat /\ \A k \in K : k \in Nat /\ Rank(K, k) \in 1..c /\ Nth(K, Rank(K, k)) = k
    BY <1>1 DEF Numbered
  <1>3. 1 \in 1..c /\ c \in 1..c
    <2>1. PICK k \in K : TRUE
      OBVIOUS
    <2> QED BY <1>2, <2>1
  <1>4. a \in K /\ b \in K
    BY <1>1, <1>3, Zenon DEF Numbered
  <1>5. ASSUME NEW k \in K
        PROVE  a <= k /\ k <= b
    <2>1. a \in Nat /\ b \in Nat /\ k \in Nat
      BY <1>2, <1>4
    <2>2. (Rank(K, k) = 1 \/ 1 < Rank(K, k)) /\ (Rank(K, k) = c \/ Rank(K, k) < c)
      BY <1>2
    <2>3. (a = k \/ a < k) /\ (k = b \/ k < b)
      BY <1>1, <1>2, <1>3, <2>2, Zenon DEF Numbered
    <2> HIDE DEF a, b
    <2> QED BY <2>1, <2>3
  <1> QED BY <1>4, <1>5

-----------------------------------------------------------------------------
(* The partitions the editor makes. *)

LEMMA NewPartitionType ==
    ASSUME NEW id \in Nat, NEW start \in Nat, NEW len \in Nat, NEW fs \in Filesystems,
           NEW mount \in Mountpoints \cup {NoMount, "/", "/boot", "/home"},
           NEW flags \in SUBSET {"BOOT", "ESP", "XBOOTLDR", "SWAP", "LINUX_HOME"}
    PROVE  NewPartition(id, start, len, fs, mount, flags) \in PartitionType
  <1>1. "create" \in {"exist", "modify", "create", "delete"} /\ fs \in Filesystems \cup {"luks", "unknown"}
    OBVIOUS
  <1> QED BY <1>1, Zenon DEF NewPartition, PartitionType

\* The number of a new partition: there are more numbers than partitions.
LEMMA FreshIdType ==
    ASSUME NEW parts \in Seq(PartitionType), Len(parts) <= Len(data), data \in Seq(Segments),
           PartMods(data) = parts, disk.parts \in Seq(PartitionType)
    PROVE  FreshId \in Nat
  <1> DEFINE n   == Len(disk.parts)
             m   == Len(data)
             I   == n + 1 .. n + m + 1
             ids == {p.id : p \in ToSet(parts)}
             f   == [i \in 1..Len(parts) |-> parts[i].id]
             S   == I \ ids
  <1>1. n \in Nat /\ m \in Nat /\ Len(parts) \in Nat
    OBVIOUS
  <1>2. FreshId = Min(S)
    BY DEF FreshId
  <1>3. ids \subseteq {f[i] : i \in 1..Len(parts)}
    BY DEF ToSet
  <1>4. IsFiniteSet(1..Len(parts)) /\ Cardinality(1..Len(parts)) = Len(parts)
    <2>1. 1 \in Int /\ Len(parts) \in Int
      BY <1>1
    <2>2. /\ IsFiniteSet(1..Len(parts))
          /\ Cardinality(1..Len(parts)) = IF 1 > Len(parts) THEN 0 ELSE Len(parts) - 1 + 1
      BY <2>1, FS_Interval, Zenon
    <2> QED BY <2>2, <1>1
  <1>5. IsFiniteSet(I) /\ Cardinality(I) = m + 1
    <2>1. n + 1 \in Int /\ n + m + 1 \in Int
      BY <1>1
    <2>2. /\ IsFiniteSet(I)
          /\ Cardinality(I) = IF n + 1 > n + m + 1 THEN 0 ELSE (n + m + 1) - (n + 1) + 1
      BY <2>1, FS_Interval, Zenon
    <2> HIDE DEF I
    <2> QED BY <2>2, <1>1
  <1> DEFINE img == {f[i] : i \in 1..Len(parts)}
  <1>6. IsFiniteSet(img) /\ Cardinality(img) <= Len(parts) /\ Cardinality(img) \in Nat
    <2>1. f \in Surjection(1..Len(parts), img)
      <3>1. f \in [1..Len(parts) -> img]
        OBVIOUS
      <3>2. \A y \in img : \E i \in 1..Len(parts) : f[i] = y
        OBVIOUS
      <3> HIDE DEF f, img
      <3> QED BY <3>1, <3>2, Fun_IsSurj, Zenon
    <2> HIDE DEF f, img
    <2>2. IsFiniteSet(img) /\ Cardinality(img) <= Cardinality(1..Len(parts))
      BY <2>1, <1>4, FS_Surjection, Zenon
    <2>3. Cardinality(img) \in Nat
      BY <2>2, FS_CardinalityType, Zenon
    <2> QED BY <2>2, <2>3, <1>4
  <1> HIDE DEF img, f, I, ids
  <1>7. S # {}
    <2>1. SUFFICES ASSUME S = {} PROVE FALSE
      OBVIOUS
    <2>2. I \in SUBSET img
      BY <2>1, <1>3 DEF img
    <2>3. Cardinality(I) <= Cardinality(img)
      BY <2>2, <1>6, FS_Subset, Zenon
    <2> QED BY <2>3, <1>1, <1>5, <1>6
  <1>8. S \in SUBSET (1..(n + m + 1)) /\ n + m + 1 \in Nat
    BY <1>1 DEF I
  <1>9. \E a \in S : \A k \in S : a <= k
    <2> HIDE DEF S, n, m
    <2> QED BY <1>7, <1>8, FirstAndLast, Zenon
  <1>10. Min(S) \in S
    <2> HIDE DEF S
    <2> QED BY <1>9, Zenon DEF Min
  <1> QED BY <1>2, <1>8, <1>10

\* A suggestion makes partitions where they may be, on a wiped disk.
LEMMA SuggestionFacts ==
    ASSUME disk \in Disks, NEW fs \in {"plain", "btrfs"}, NEW subvols \in BOOLEAN, NEW home \in BOOLEAN
    PROVE  /\ Suggestion(fs, subvols, home) \in Seq(PartitionType)
           /\ Suggestion(fs, subvols, home) # <<>>
           /\ Sound(disk, TRUE, Suggestion(fs, subvols, home))
  <1> DEFINE id    == Len(disk.parts) + 1
             total == disk.total
             gpt   == disk.made
             boot  == BootPartition(id, gpt)
             root  == SuggestedRoot(id + 1, total, gpt, fs, subvols, home)
             house == SuggestedHome(id + 2, total, gpt, fs, root)
             parts == SuggestSingle(id, total, gpt, fs, subvols, home)
  <1>1. /\ total \in Nat /\ gpt \in BOOLEAN /\ total >= GiB + 3 * MiB
        /\ disk.parts \in Seq(PartitionType)
    BY DisksAssumption
  <1>2. id \in Nat /\ id + 1 \in Nat /\ id + 2 \in Nat
    BY <1>1
  <1>3. SuggestedWell(total, gpt, parts)
    <2> HIDE DEF id, total, gpt
    <2> QED BY <1>1, <1>2, SuggestedPlaces
  <1>4. parts = Suggestion(fs, subvols, home)
    BY DEF Suggestion
  <1>5. parts = IF SeparateHome(total, subvols, home) THEN <<boot, root, house>> ELSE <<boot, root>>
    BY DEF SuggestSingle
  <1> HIDE DEF parts
  <1>6. PICK n \in {2, 3} :
          /\ DOMAIN parts = 1..n
          /\ \A i \in 1..n :
                /\ parts[i].status = "create"
                /\ parts[i].start \in Nat /\ parts[i].len \in Nat
                /\ parts[i].start >= MiB /\ parts[i].start <= UsableEnd(total, TRUE)
                /\ PartitionEnd(parts[i]) <= UsableEnd(total, gpt)
    BY <1>3, Zenon DEF SuggestedWell
  <1> HIDE DEF id, total, gpt, boot, root, house
  <1>7. n = (IF SeparateHome(total, subvols, home) THEN 3 ELSE 2) /\ parts[1] = boot /\ parts[2] = root
        /\ (n = 3 => parts[3] = house)
    BY <1>5, <1>6
  <1>8. fs \in Filesystems /\ MiB \in Nat /\ GiB \in Nat
    BY MiBAssumption DEF Filesystems, GiB
  <1>9. boot \in PartitionType
    <2>1. BootFlags(gpt) \in SUBSET {"BOOT", "ESP", "XBOOTLDR", "SWAP", "LINUX_HOME"}
      BY DEF BootFlags
    <2>2. "plain" \in Filesystems /\ "/boot" \in Mountpoints \cup {NoMount, "/", "/boot", "/home"}
      BY DEF Filesystems
    <2> QED BY <1>2, <1>8, <2>1, <2>2, NewPartitionType, Zenon DEF boot, BootPartition
  <1>10. root \in PartitionType
    <2> DEFINE start == PartitionEnd(BootPartition(id + 1, gpt))
               len   == IF SeparateHome(total, subvols, home)
                        THEN RootSize(total) ELSE Minus(UsableEnd(total, gpt), start)
               mount == IF subvols THEN NoMount ELSE "/"
               plain == NewPartition(id + 1, start, len, fs, mount, {})
    <2>1. root = [plain EXCEPT !.subvols = subvols]
      BY Zenon DEF root, SuggestedRoot
    <2>2. root.start = start /\ root.len = len
      BY <2>1, Zenon DEF NewPartition
    <2>3. start \in Nat /\ len \in Nat
      <3>1. root.start \in Nat /\ root.len \in Nat
        <4>1. 2 \in 1..n
          OBVIOUS
        <4> QED BY <1>6, <1>7, <4>1, Zenon
      <3> QED BY <2>2, <3>1, Zenon
    <2>4. mount \in Mountpoints \cup {NoMount, "/", "/boot", "/home"}
      OBVIOUS
    <2>5. {} \in SUBSET {"BOOT", "ESP", "XBOOTLDR", "SWAP", "LINUX_HOME"}
      OBVIOUS
    <2> HIDE DEF start, len, mount
    <2>6. plain \in PartitionType
      BY <1>2, <1>8, <2>3, <2>4, <2>5, NewPartitionType, Zenon
    <2> HIDE DEF plain
    <2> QED BY <2>1, <2>6 DEF PartitionType
  <1>11. n = 3 => house \in PartitionType
    <2> DEFINE start == PartitionEnd(root)
               len   == Minus(UsableEnd(total, gpt), PartitionEnd(root))
               flags == IF gpt THEN {"LINUX_HOME"} ELSE {}
    <2>1. house = NewPartition(id + 2, start, len, fs, "/home", flags)
      BY Zenon DEF house, SuggestedHome
    <2>2. house.start = start /\ house.len = len
      BY <2>1, Zenon DEF NewPartition
    <2>3. n = 3 => start \in Nat /\ len \in Nat
      <3>1. n = 3 => house.start \in Nat /\ house.len \in Nat
        <4>1. n = 3 => 3 \in 1..n
          OBVIOUS
        <4> QED BY <1>6, <1>7, <4>1, Zenon
      <3> QED BY <2>2, <3>1, Zenon
    <2>4. "/home" \in Mountpoints \cup {NoMount, "/", "/boot", "/home"}
      OBVIOUS
    <2>5. flags \in SUBSET {"BOOT", "ESP", "XBOOTLDR", "SWAP", "LINUX_HOME"}
      OBVIOUS
    <2> HIDE DEF start, len, flags
    <2> QED BY <1>2, <1>8, <2>1, <2>3, <2>4, <2>5, NewPartitionType, Zenon
  <1>12. parts \in Seq(PartitionType) /\ parts # <<>>
    <2>1. \A a, b, c \in PartitionType :
             /\ <<a, b>> \in Seq(PartitionType) /\ <<a, b>> # <<>>
             /\ <<a, b, c>> \in Seq(PartitionType) /\ <<a, b, c>> # <<>>
      OBVIOUS
    <2> QED BY <1>5, <1>7, <1>9, <1>10, <1>11, <2>1
  <1>13. Sound(disk, TRUE, parts)
    <2>1. Kind(disk, TRUE) = gpt
      BY DEF Kind, gpt
    <2>2. \A i \in DOMAIN parts : parts[i].status = "create" /\ Placed(disk, TRUE, parts[i])
      BY <1>6, <2>1, Zenon DEF Placed, total
    <2> QED BY <2>2, Zenon DEF Sound
  <1> QED BY <1>4, <1>12, <1>13

-----------------------------------------------------------------------------
(* The free space that is shown. *)

\* With the partitions in order, the stretches between neighbours are the gaps.
LEMMA GapsAreShown ==
    ASSUME data \in Seq(Segments), UsableEnd(disk.total, usingGpt) \in Nat,
           FreeIsBetween(data, UsableEnd(disk.total, usingGpt)), InOrder(data),
           \A k \in Staying(data) : /\ PartitionEnd(data[k]) >= MiB
                                    /\ data[k].start <= UsableEnd(disk.total, usingGpt)
    PROVE  {<<data[i].start, PartitionEnd(data[i])>> : i \in DOMAIN data \ Listed} = Gaps
  <1> DEFINE U     == UsableEnd(disk.total, usingGpt)
             n     == Len(data)
             S     == Staying(data)
             St(k) == data[k].start
             En(k) == PartitionEnd(data[k])
             IsGap(a, b) ==
                 /\ a \in {MiB} \cup {En(k) : k \in S} /\ b \in {U} \cup {St(k) : k \in S}
                 /\ b - a > MiB
                 /\ \A k \in S : En(k) <= a \/ b <= St(k)
  <1>1. n \in Nat /\ DOMAIN data = 1..n /\ U \in Nat /\ MiB \in Nat
    BY MiBAssumption
  <1>2. S \in SUBSET (1..n) /\ \A k \in S : data[k] \in PartitionType
    BY SegmentFacts DEF Staying
  <1>3. \A k \in S : /\ St(k) \in Nat /\ En(k) \in Nat /\ St(k) <= En(k)
                     /\ MiB <= En(k) /\ St(k) <= U
    <2>1. ASSUME NEW k \in S
          PROVE  St(k) \in Nat /\ En(k) \in Nat /\ St(k) <= En(k) /\ MiB <= En(k) /\ St(k) <= U
      <3>1. St(k) \in Nat /\ data[k].len \in Nat /\ En(k) = St(k) + data[k].len
        BY <1>2, SegmentFacts DEF PartitionEnd
      <3>2. En(k) >= MiB /\ St(k) <= U
        OBVIOUS
      <3> HIDE DEF St, En, U
      <3> QED BY <1>1, <3>1, <3>2
    <2> QED BY <2>1
  <1>4. \A i, j \in S : i < j => En(i) <= St(j)
    BY Zenon DEF InOrder, Staying
  <1>5. /\ \A i \in DOMAIN data \ Listed : IsFree(data[i])
        /\ \A i \in DOMAIN data : IsFree(data[i]) => i \in DOMAIN data \ Listed
        /\ {j \in Listed : Stays(j)} = S
        /\ \A i \in Listed : Stays(i) <=> i \in S
    BY DEF Listed, Stays, Staying
  <1>6. \A a, b : <<a, b>> \in Gaps <=> IsGap(a, b)
    <2>1. \A i : (i \in Listed /\ Stays(i)) <=> i \in S
      BY Zenon DEF Listed, Stays, Staying
    <2>2. Gaps = {gap \in ({MiB} \cup {En(k) : k \in S}) \X ({U} \cup {St(k) : k \in S}) :
                    /\ gap[2] - gap[1] > MiB
                    /\ \A i \in Listed : Stays(i) => En(i) <= gap[1] \/ gap[2] <= St(i)}
      BY <1>5, Zenon DEF Gaps
    <2>3. \A a, b : <<a, b>>[1] = a /\ <<a, b>>[2] = b
      OBVIOUS
    <2> QED BY <2>1, <2>2, <2>3
  <1>7. \A gap \in Gaps : gap = <<gap[1], gap[2]>>
    BY DEF Gaps
  <1>8. \A l \in {0} \cup S : EndAt(data, l) = IF l = 0 THEN MiB ELSE En(l)
    BY DEF EndAt
  <1>9. \A r \in S \cup {n + 1} : StartAt(data, r, U) = IF r = n + 1 THEN U ELSE St(r)
    BY DEF StartAt
  <1>10. ASSUME NEW i, NEW l, NEW r, Neighbours(data, l, r), Fills(data, i, l, r, U)
         PROVE  /\ l \in {0} \cup S /\ r \in S \cup {n + 1} /\ l < r
                /\ \A k \in S : k <= l \/ r <= k
                /\ St(i) = EndAt(data, l) /\ En(i) = StartAt(data, r, U)
    <2>1. /\ l \in {0} \cup S /\ r \in S \cup {n + 1} /\ l < r
          /\ \A k \in S : k <= l \/ r <= k
      BY <1>10 DEF Neighbours
    <2>2. EndAt(data, l) \in Nat /\ StartAt(data, r, U) \in Nat
      BY <1>1, <1>3, <1>8, <1>9, <2>1
    <2>3. St(i) = EndAt(data, l) /\ data[i].len = StartAt(data, r, U) - EndAt(data, l)
      BY <1>10 DEF Fills
    <2>4. En(i) = St(i) + data[i].len
      BY DEF PartitionEnd
    <2> HIDE DEF U, S, St, En
    <2>5. En(i) = StartAt(data, r, U)
      BY <2>2, <2>3, <2>4
    <2> QED BY <2>1, <2>3, <2>5
  <1>11. \A i \in DOMAIN data : IsFree(data[i]) =>
            \E l, r : Neighbours(data, l, r) /\ Fills(data, i, l, r, U) /\ data[i].len > MiB
    BY Zenon DEF FreeIsBetween
  <1>12. \A l, r \in 0..(n + 1) : Neighbours(data, l, r) /\ StartAt(data, r, U) - EndAt(data, l) > MiB
            => \E i \in DOMAIN data : Fills(data, i, l, r, U) /\ IsFree(data[i])
    BY Zenon DEF FreeIsBetween, Fills
  <1> HIDE DEF U, n, S, St, En
  <1>13. ASSUME NEW i \in DOMAIN data \ Listed
         PROVE  IsGap(St(i), En(i))
    <2>1. PICK l, r : Neighbours(data, l, r) /\ Fills(data, i, l, r, U) /\ data[i].len > MiB
      BY <1>5, <1>11
    <2>2. /\ l \in {0} \cup S /\ r \in S \cup {n + 1} /\ l < r
          /\ \A k \in S : k <= l \/ r <= k
          /\ St(i) = EndAt(data, l) /\ En(i) = StartAt(data, r, U)
      BY <1>10, <2>1
    <2>3. /\ St(i) = IF l = 0 THEN MiB ELSE En(l)
          /\ En(i) = IF r = n + 1 THEN U ELSE St(r)
      BY <1>8, <1>9, <2>2
    <2>4. En(i) - St(i) > MiB
      BY <2>1, <2>2 DEF Fills
    <2>5. ASSUME NEW k \in S
          PROVE  En(k) <= St(i) \/ En(i) <= St(k)
      <3>1. k \in 1..n /\ l \in Nat /\ r \in Nat
        BY <1>1, <1>2, <2>2
      <3>2. CASE k <= l
        <4>1. l # 0 /\ l \in S /\ (k = l \/ k < l)
          BY <3>1, <3>2, <2>2
        <4> QED BY <4>1, <2>3, <1>3, <1>4
      <3>3. CASE r <= k
        <4>1. r # n + 1 /\ r \in S /\ (k = r \/ r < k)
          BY <3>1, <3>3, <2>2, <1>1
        <4> QED BY <4>1, <2>3, <1>3, <1>4
      <3> QED BY <2>2, <3>2, <3>3
    <2>6. St(i) \in {MiB} \cup {En(k) : k \in S} /\ En(i) \in {U} \cup {St(k) : k \in S}
      BY <2>2, <2>3
    <2> QED BY <2>4, <2>5, <2>6
  <1>14. ASSUME NEW a, NEW b, IsGap(a, b)
         PROVE  \E i \in DOMAIN data \ Listed : St(i) = a /\ En(i) = b
    <2> DEFINE L == {k \in S : En(k) <= a}
               R == {k \in S : b <= St(k)}
    <2>1. a \in Nat /\ b \in Nat /\ b - a > MiB /\ a < b
      BY <1>1, <1>3, <1>14
    <2>2. \A k \in S : k \in L \/ k \in R
      BY <1>14
    <2>3. PICK l \in {0} \cup L : /\ l = 0 => L = {}
                                  /\ \A k \in L : k <= l
      <3>1. CASE L = {}
        BY <3>1
      <3>2. CASE L # {}
        <4>1. L \in SUBSET (1..n) /\ n \in Nat
          BY <1>1, <1>2
        <4>2. PICK l \in L : \A k \in L : k <= l
          <5> HIDE DEF L
          <5> QED BY <3>2, <4>1, FirstAndLast, Zenon
        <4>3. l # 0
          BY <4>1, <4>2
        <4> QED BY <4>2, <4>3
      <3> QED BY <3>1, <3>2
    <2>4. PICK r \in R \cup {n + 1} : /\ r = n + 1 => R = {}
                                      /\ \A k \in R : r <= k
      <3>1. CASE R = {}
        BY <3>1
      <3>2. CASE R # {}
        <4>1. R \in SUBSET (1..n) /\ n \in Nat
          BY <1>1, <1>2
        <4>2. PICK r \in R : \A k \in R : r <= k
          <5> HIDE DEF R
          <5> QED BY <3>2, <4>1, FirstAndLast, Zenon
        <4>3. r # n + 1
          BY <4>1, <4>2
        <4> QED BY <4>2, <4>3
      <3> QED BY <3>1, <3>2
    <2>5. /\ l \in {0} \cup S /\ r \in S \cup {n + 1} /\ l \in 0..(n + 1) /\ r \in 0..(n + 1)
          /\ l # 0 => l \in S /\ En(l) <= a
          /\ r # n + 1 => r \in S /\ b <= St(r)
      BY <1>1, <1>2, <2>3, <2>4
    <2>6. EndAt(data, l) = a
      <3>1. CASE l = 0
        <4>1. \A k \in S : En(k) # a
          BY <2>1, <2>3, <3>1, <1>3
        <4>2. a = MiB
          BY <4>1, <1>14
        <4> QED BY <1>8, <2>5, <3>1, <4>2
      <3>2. CASE l # 0
        <4>1. l \in S /\ En(l) <= a /\ En(l) \in Nat /\ MiB <= En(l)
          BY <2>5, <3>2, <1>3
        <4>2. a <= En(l)
          <5>1. CASE a = MiB
            BY <4>1, <5>1
          <5>2. CASE a # MiB
            <6>1. PICK k \in S : a = En(k)
              BY <1>14, <5>2
            <6>2. k \in L
              BY <6>1, <2>1
            <6>3. k <= l /\ k \in Nat /\ l \in Nat
              <7>1. k <= l
                BY <6>2, <2>3, Zenon
              <7>2. k \in 1..n /\ l \in 1..n
                BY <4>1, <1>2, Zenon
              <7> QED BY <7>1, <7>2
            <6>4. k = l \/ k < l
              BY <6>3
            <6> QED BY <6>1, <6>4, <4>1, <1>3, <1>4
          <5> QED BY <5>1, <5>2
        <4> QED BY <4>1, <4>2, <2>1, <2>5, <3>2, <1>8
      <3> QED BY <3>1, <3>2
    <2>7. StartAt(data, r, U) = b
      <3>1. CASE r = n + 1
        <4>1. \A k \in S : St(k) # b
          BY <2>1, <2>4, <3>1, <1>3
        <4>2. b = U
          BY <4>1, <1>14
        <4> QED BY <1>9, <2>5, <3>1, <4>2
      <3>2. CASE r # n + 1
        <4>1. r \in S /\ b <= St(r) /\ St(r) \in Nat /\ St(r) <= U
          BY <2>5, <3>2, <1>3
        <4>2. St(r) <= b
          <5>1. CASE b = U
            BY <4>1, <5>1
          <5>2. CASE b # U
            <6>1. PICK k \in S : b = St(k)
              BY <1>14, <5>2
            <6>2. k \in R
              BY <6>1, <2>1
            <6>3. r <= k /\ k \in Nat /\ r \in Nat
              <7>1. r <= k
                BY <6>2, <2>4, Zenon
              <7>2. k \in 1..n /\ r \in 1..n
                BY <4>1, <1>2, Zenon
              <7> QED BY <7>1, <7>2
            <6>4. k = r \/ r < k
              BY <6>3
            <6> QED BY <6>1, <6>4, <4>1, <1>3, <1>4
          <5> QED BY <5>1, <5>2
        <4> QED BY <4>1, <4>2, <2>1, <2>5, <3>2, <1>9
      <3> QED BY <3>1, <3>2
    <2>8. l < r
      <3>1. l \in Nat /\ r \in Nat
        BY <1>1, <2>5
      <3>2. SUFFICES ASSUME r <= l PROVE FALSE
        BY <3>1
      <3>3. l # 0 /\ r # n + 1
        BY <1>1, <1>2, <2>5, <3>1, <3>2
      <3>4. l \in S /\ En(l) <= a /\ r \in S /\ b <= St(r)
        BY <2>5, <3>3
      <3>5. r = l \/ r < l
        BY <3>1, <3>2
      <3>6. En(r) <= En(l)
        BY <1>3, <1>4, <3>4, <3>5
      <3> QED BY <1>3, <2>1, <3>4, <3>6
    <2>9. Neighbours(data, l, r)
      <3>1. \A k \in S : k <= l \/ r <= k
        <4> HIDE DEF L, R
        <4> QED BY <2>2, <2>3, <2>4, Zenon
      <3> QED BY <2>5, <2>8, <3>1, Zenon DEF Neighbours, S, n
    <2>10. PICK i \in DOMAIN data : Fills(data, i, l, r, U) /\ IsFree(data[i])
      BY <1>12, <2>1, <2>5, <2>6, <2>7, <2>9
    <2> QED BY <1>5, <1>10, <2>6, <2>7, <2>9, <2>10
  <1>15. \A i \in DOMAIN data \ Listed : <<St(i), En(i)>> \in Gaps
    BY <1>6, <1>13
  <1>16. \A gap \in Gaps : \E i \in DOMAIN data \ Listed : gap = <<St(i), En(i)>>
    <2> HIDE DEF IsGap
    <2>1. ASSUME NEW gap \in Gaps
          PROVE  \E i \in DOMAIN data \ Listed : gap = <<St(i), En(i)>>
      <3>1. gap = <<gap[1], gap[2]>>
        BY <1>7
      <3>2. IsGap(gap[1], gap[2])
        BY <1>6, <3>1, Zenon
      <3>3. PICK i \in DOMAIN data \ Listed : St(i) = gap[1] /\ En(i) = gap[2]
        BY <1>14, <3>2
      <3> QED BY <3>1, <3>3, Zenon
    <2> QED BY <2>1
  <1> QED BY <1>15, <1>16, Zenon DEF St, En

-----------------------------------------------------------------------------
(* The inductive invariant. *)

LEMMA CarriedAreFewer ==
    ASSUME NEW parts \in Seq(PartitionType), NEW s \in Seq(Segments), Carries(parts, s)
    PROVE  Len(parts) <= Len(s)
  <1>1. PICK g : CarriedBy(g, parts, s)
    BY Zenon DEF Carries
  <1>2. Len(parts) \in Nat /\ Len(s) \in Nat /\ DOMAIN parts = 1..Len(parts) /\ DOMAIN s = 1..Len(s)
    OBVIOUS
  <1>3. \A n \in Nat : IsFiniteSet(1..n) /\ Cardinality(1..n) = n
    <2>1. ASSUME NEW n \in Nat
          PROVE  IsFiniteSet(1..n) /\ Cardinality(1..n) = n
      <3>1. 1 \in Int /\ n \in Int
        OBVIOUS
      <3>2. IsFiniteSet(1..n) /\ Cardinality(1..n) = IF 1 > n THEN 0 ELSE n - 1 + 1
        BY <3>1, FS_Interval, Zenon
      <3> QED BY <3>2
    <2> QED BY <2>1
  <1>4. g \in Injection(DOMAIN parts, DOMAIN s)
    <2>1. g \in [DOMAIN parts -> DOMAIN s] /\ \A i, j \in DOMAIN parts : g[i] = g[j] => i = j
      BY <1>1, Zenon DEF CarriedBy
    <2> QED BY <2>1, Fun_IsInj, Zenon
  <1>5. Cardinality(DOMAIN parts) <= Cardinality(DOMAIN s)
    <2>1. IsFiniteSet(DOMAIN s)
      BY <1>2, <1>3, Zenon
    <2> QED BY <1>4, <2>1, FS_Injection, Zenon
  <1> QED BY <1>2, <1>3, <1>5, Zenon

\* Changing a partition in place leaves the free space where it is.
LEMMA FreeStaysBetween ==
    ASSUME NEW s \in Seq(Segments), NEW t \in Seq(Segments), DOMAIN t = DOMAIN s,
           \A i \in DOMAIN s : Alike(s[i], t[i]) /\ (IsDelete(t[i]) <=> IsDelete(s[i])),
           NEW end, FreeIsBetween(s, end)
    PROVE  FreeIsBetween(t, end)
  <1>1. Len(t) = Len(s) /\ Len(s) \in Nat
    BY LenProperties
  <1>2. \A i \in DOMAIN s : /\ IsFree(t[i]) <=> IsFree(s[i])
                            /\ IsFree(s[i]) => t[i] = s[i]
                            /\ t[i].start = s[i].start /\ PartitionEnd(t[i]) = PartitionEnd(s[i])
    BY Zenon DEF Alike, PartitionEnd
  <1>3. Staying(t) = Staying(s)
    BY <1>2, Zenon DEF Staying
  <1>4. \A l, r : Neighbours(t, l, r) <=> Neighbours(s, l, r)
    BY <1>1, <1>3, Zenon DEF Neighbours
  <1>5. ASSUME NEW l, NEW r, Neighbours(s, l, r)
        PROVE  EndAt(t, l) = EndAt(s, l) /\ StartAt(t, r, end) = StartAt(s, r, end)
    <2>1. (l = 0 \/ l \in DOMAIN s) /\ (r = Len(s) + 1 \/ r \in DOMAIN s)
      BY <1>5, Zenon DEF Neighbours, Staying
    <2> QED BY <1>1, <1>2, <2>1, Zenon DEF EndAt, StartAt
  <1>6. \A l, r : \A i \in DOMAIN s : Neighbours(s, l, r) => (Fills(t, i, l, r, end) <=> Fills(s, i, l, r, end))
    BY <1>2, <1>5, Zenon DEF Fills
  <1> QED BY <1>1, <1>2, <1>4, <1>5, <1>6, Zenon DEF FreeIsBetween

\* What is on the disk is what is listed first.
LEMMA TableIsListed ==
    ASSUME NEW d \in Disks
    PROVE  Sound(d, FALSE, d.parts)
  <1>1. \A n \in DOMAIN d.parts : d.parts[n].id = n /\ d.parts[n].status = "exist"
    BY DisksAssumption
  <1>2. \A n \in DOMAIN d.parts : ~IsFree(d.parts[n]) /\ d.parts[n].status # "create"
    BY <1>1 DEF IsFree
  <1>3. \A n \in DOMAIN d.parts : Once(d, d.parts, n)
    BY <1>1, <1>2, Zenon DEF Once, Sits
  <1>4. TableIsSound(d) => \A i \in DOMAIN d.parts : Placed(d, FALSE, d.parts[i])
    BY <1>2, Zenon DEF TableIsSound, Placed
  <1> QED BY <1>3, <1>4, Zenon DEF Sound

\* What is true of a list, and of the layout that is kept.
ListIsSound(d, w, u, s) ==
    KindFits(d, w, u) /\ Sound(d, w, s) /\ FreeIsBetween(s, UsableEnd(d.total, u))

LayoutIsSound ==
    IF layout.parts = <<>> THEN ~layout.wipe ELSE Sound(disk, layout.wipe, layout.parts)

EditorInv ==
    /\ TypeOK
    /\ LayoutIsSound
    /\ at = "list" => ListIsSound(disk, wipe, usingGpt, data)

DataType(s) == s \in Seq(Segments) /\ \A i \in DOMAIN s : IsFree(s[i]) => s[i].len > MiB

LEMMA SegmentsAreSound ==
    ASSUME NEW d \in Disks, NEW w \in BOOLEAN, NEW u \in BOOLEAN, KindFits(d, w, u),
           NEW parts \in Seq(PartitionType), Sound(d, w, parts)
    PROVE  /\ DataType(AsSegments(d.total, u, parts))
           /\ ListIsSound(d, w, u, AsSegments(d.total, u, parts))
  <1> DEFINE s == AsSegments(d.total, u, parts)
  <1>1. UsableEnd(d.total, u) \in Nat
    <2>1. d.total \in Nat /\ d.total >= GiB + 3 * MiB
      BY DisksAssumption
    <2> QED BY <2>1, UsableEndFacts, Zenon
  <1>2. s \in Seq(Segments) /\ Carries(parts, s) /\ FreeIsBetween(s, UsableEnd(d.total, u))
    BY <1>1, SegmentsOf, Zenon
  <1> HIDE DEF s
  <1>3. Sound(d, w, s)
    BY <1>2, CarriedAreSound, Zenon
  <1>4. \A i \in DOMAIN s : IsFree(s[i]) => s[i].len > MiB
    BY <1>2, Zenon DEF FreeIsBetween
  <1> QED BY <1>2, <1>3, <1>4, Zenon DEF DataType, ListIsSound, s

LEMMA TypeIsData == TypeOK <=>
    /\ disk \in Disks
    /\ layout.wipe \in BOOLEAN /\ layout.parts \in Seq(PartitionType)
    /\ at \in {"menu", "list"}
    /\ wipe \in BOOLEAN /\ usingGpt \in BOOLEAN
    /\ DataType(data)
    /\ edits \in 0..MaxEdits
  BY Zenon DEF TypeOK, DataType, Segments, FreeType

LEMMA ListedAreSound ==
    ASSUME NEW d, NEW w \in BOOLEAN, NEW s \in Seq(Segments), Sound(d, w, s)
    PROVE  PartMods(s) \in Seq(PartitionType) /\ Sound(d, w, PartMods(s)) /\ Len(PartMods(s)) <= Len(s)
  <1>1. PartMods(s) \in Seq(PartitionType) /\ Carries(PartMods(s), s)
    BY PartModsFacts
  <1> QED BY <1>1, CarriedAreSound, CarriedAreFewer, Zenon

\* A change of the list keeps the rest.
LEMMA EditKeeps ==
    ASSUME EditorInv, Edit, wipe' \in BOOLEAN, DataType(data'),
           ListIsSound(disk, wipe', usingGpt, data')
    PROVE  EditorInv'
  <1>1. /\ edits < MaxEdits /\ edits' = edits + 1
        /\ disk' = disk /\ layout' = layout /\ at' = at /\ usingGpt' = usingGpt
    BY DEF Edit
  <1>2. /\ disk \in Disks /\ layout.wipe \in BOOLEAN /\ layout.parts \in Seq(PartitionType)
        /\ at \in {"menu", "list"} /\ usingGpt \in BOOLEAN /\ edits \in 0..MaxEdits
    BY TypeIsData, Zenon DEF EditorInv
  <1>3. edits' \in 0..MaxEdits
    BY <1>1, <1>2, BoundsAssumption
  <1>4. TypeOK'
    <2>1. TypeOK' <=>
            /\ disk' \in Disks
            /\ layout'.wipe \in BOOLEAN /\ layout'.parts \in Seq(PartitionType)
            /\ at' \in {"menu", "list"}
            /\ wipe' \in BOOLEAN /\ usingGpt' \in BOOLEAN
            /\ DataType(data')
            /\ edits' \in 0..MaxEdits
      BY Zenon DEF TypeOK, DataType, Segments, FreeType
    <2> QED BY <1>1, <1>2, <1>3, <2>1, Zenon
  <1>5. LayoutIsSound' /\ ListIsSound(disk', wipe', usingGpt', data')
    <2>1. LayoutIsSound
      BY Zenon DEF EditorInv
    <2>2. LayoutIsSound'
      BY <1>1, <2>1, Zenon DEF LayoutIsSound
    <2> QED BY <1>1, <2>2, Zenon
  <1> QED BY <1>4, <1>5, Zenon DEF EditorInv

\* Changing a partition of the list in place.
LEMMA ChangeKeeps ==
    ASSUME EditorInv, NEW i \in DOMAIN data, NEW p \in PartitionType, ~IsFree(data[i]),
           Alike(data[i], p), IsDelete(p) <=> IsDelete(data[i]), Change(i, p)
    PROVE  EditorInv'
  <1>1. Edit /\ data' = [data EXCEPT ![i] = p] /\ wipe' = wipe
    BY DEF Change
  <1>2. /\ disk \in Disks /\ wipe \in BOOLEAN /\ data \in Seq(Segments)
        /\ \A j \in DOMAIN data : IsFree(data[j]) => data[j].len > MiB
    BY TypeIsData, Zenon DEF EditorInv, DataType
  <1>3. KindFits(disk, wipe, usingGpt) /\ Sound(disk, wipe, data)
        /\ FreeIsBetween(data, UsableEnd(disk.total, usingGpt))
    BY <1>1, Zenon DEF EditorInv, ListIsSound, Edit
  <1>4. /\ DOMAIN data' = DOMAIN data
        /\ \A j \in DOMAIN data : data'[j] = IF j = i THEN p ELSE data[j]
    BY <1>1
  <1>5. data' \in Seq(Segments)
    <2>1. p \in Segments
      BY Zenon DEF Segments
    <2> QED BY <1>1, <1>2, <2>1
  <1>6. ~IsFree(p)
    BY SegmentFacts
  <1>7. \A j \in DOMAIN data : /\ Alike(data[j], data'[j])
                               /\ IsDelete(data'[j]) <=> IsDelete(data[j])
    <2>1. \A j \in DOMAIN data : Alike(data[j], data[j])
      BY Zenon DEF Alike
    <2> QED BY <1>4, <2>1, Zenon
  <1>8. Sound(disk, wipe, data')
    BY <1>2, <1>3, <1>4, <1>7, AlikeAreSound, Zenon
  <1>9. FreeIsBetween(data', UsableEnd(disk.total, usingGpt))
    BY <1>2, <1>3, <1>4, <1>5, <1>7, FreeStaysBetween, Zenon
  <1>10. DataType(data')
    <2>1. \A j \in DOMAIN data' : IsFree(data'[j]) => data'[j].len > MiB
      BY <1>2, <1>4, <1>6, Zenon
    <2> QED BY <1>5, <2>1, Zenon DEF DataType
  <1>11. ListIsSound(disk, wipe', usingGpt, data')
    BY <1>1, <1>3, <1>8, <1>9, Zenon DEF ListIsSound
  <1> QED BY <1>1, <1>2, <1>10, <1>11, EditKeeps, Zenon

AllFlags == {"BOOT", "ESP", "XBOOTLDR", "SWAP", "LINUX_HOME"}

LEMMA FlagsType ==
    /\ \A flags \in SUBSET AllFlags, flag \in AllFlags : Invert(flags, flag) \in SUBSET AllFlags
    /\ \A gpt : BootFlags(gpt) \in SUBSET AllFlags
    /\ \A mount : \A p \in PartitionType : MountFlags(p, mount) \in SUBSET AllFlags
  <1>1. \A flags \in SUBSET AllFlags, flag \in AllFlags : Invert(flags, flag) \in SUBSET AllFlags
    BY Zenon DEF Invert
  <1>2. \A gpt : BootFlags(gpt) \in SUBSET AllFlags
    BY DEF BootFlags, AllFlags
  <1>3. ASSUME NEW p \in PartitionType, NEW mount
        PROVE  MountFlags(p, mount) \in SUBSET AllFlags
    <2>1. p.flags \in SUBSET AllFlags
      BY DEF PartitionType, AllFlags
    <2>2. Invert(p.flags, "LINUX_HOME") \in SUBSET AllFlags
      BY <1>1, <2>1 DEF AllFlags
    <2>3. {} \in SUBSET AllFlags /\ {"LINUX_HOME"} \in SUBSET AllFlags
      BY DEF AllFlags
    <2>4. BootFlags(usingGpt) \in SUBSET AllFlags
      BY <1>2
    <2> DEFINE flags == IF IsHome(p) THEN Invert(p.flags, "LINUX_HOME") ELSE p.flags
    <2>5. flags \in SUBSET AllFlags
      BY <2>1, <2>2
    <2>6. MountFlags(p, mount) = CASE mount = "/"      -> {}
                                   [] mount = "/home"  -> {"LINUX_HOME"}
                                   [] mount \notin {"/", "/home"} /\ "BOOT" \in flags -> BootFlags(usingGpt)
                                   [] OTHER            -> flags
      BY DEF MountFlags
    <2> HIDE DEF flags
    <2> QED BY <2>3, <2>4, <2>5, <2>6
  <1> QED BY <1>1, <1>2, <1>3

\* The partitions of the list keep their types, and are on the disk if they were.
LEMMA ChangedType ==
    ASSUME NEW p \in PartitionType, NEW q,
           \/ \E mount \in Mountpoints \cup {NoMount}, flags \in SUBSET AllFlags :
                 q = [p EXCEPT !.mount = mount, !.flags = flags]
           \/ \E fs \in Filesystems \cup {"unknown"}, mount \in {p.mount, NoMount} :
                 /\ p.status = "exist"
                 /\ q = [p EXCEPT !.status = "modify", !.fs = fs, !.mount = mount]
           \/ \E flags \in SUBSET AllFlags : q = [p EXCEPT !.flags = flags]
           \/ \E fs \in Filesystems, mount \in {p.mount, NoMount}, flags \in SUBSET AllFlags :
                 q = [p EXCEPT !.fs = fs, !.mount = mount, !.flags = flags]
           \/ \E subvols \in BOOLEAN : q = [p EXCEPT !.subvols = subvols]
    PROVE  q \in PartitionType /\ Alike(p, q) /\ (IsDelete(q) <=> IsDelete(p))
  <1>1. ~IsFree(p)
    BY SegmentFacts
  <1>2. CASE \E mount \in Mountpoints \cup {NoMount}, flags \in SUBSET AllFlags :
                 q = [p EXCEPT !.mount = mount, !.flags = flags]
    <2>1. PICK mount \in Mountpoints \cup {NoMount}, flags \in SUBSET AllFlags :
                 q = [p EXCEPT !.mount = mount, !.flags = flags]
      BY <1>2
    <2>2. q \in PartitionType
      BY <2>1 DEF PartitionType, AllFlags
    <2>3. q.id = p.id /\ q.start = p.start /\ q.len = p.len /\ q.status = p.status
      BY <2>1 DEF PartitionType
    <2> QED BY <1>1, <2>2, <2>3, Zenon DEF Alike, IsFree, IsDelete
  <1>3. CASE \E fs \in Filesystems \cup {"unknown"}, mount \in {p.mount, NoMount} :
                 /\ p.status = "exist"
                 /\ q = [p EXCEPT !.status = "modify", !.fs = fs, !.mount = mount]
    <2>1. PICK fs \in Filesystems \cup {"unknown"}, mount \in {p.mount, NoMount} :
                 /\ p.status = "exist"
                 /\ q = [p EXCEPT !.status = "modify", !.fs = fs, !.mount = mount]
      BY <1>3
    <2>2. q \in PartitionType
      BY <2>1 DEF PartitionType
    <2>3. q.id = p.id /\ q.start = p.start /\ q.len = p.len /\ q.status = "modify" /\ p.status = "exist"
      BY <2>1 DEF PartitionType
    <2>4. "modify" # "create" /\ "exist" # "create" /\ "modify" # "delete" /\ "exist" # "delete"
          /\ "modify" # "free"
      OBVIOUS
    <2> QED BY <1>1, <2>2, <2>3, <2>4, Zenon DEF Alike, IsFree, IsDelete
  <1>4. CASE \E flags \in SUBSET AllFlags : q = [p EXCEPT !.flags = flags]
    <2>1. PICK flags \in SUBSET AllFlags : q = [p EXCEPT !.flags = flags]
      BY <1>4
    <2>2. q \in PartitionType
      BY <2>1 DEF PartitionType, AllFlags
    <2>3. q.id = p.id /\ q.start = p.start /\ q.len = p.len /\ q.status = p.status
      BY <2>1 DEF PartitionType
    <2> QED BY <1>1, <2>2, <2>3, Zenon DEF Alike, IsFree, IsDelete
  <1>5. CASE \E fs \in Filesystems, mount \in {p.mount, NoMount}, flags \in SUBSET AllFlags :
                 q = [p EXCEPT !.fs = fs, !.mount = mount, !.flags = flags]
    <2>1. PICK fs \in Filesystems, mount \in {p.mount, NoMount}, flags \in SUBSET AllFlags :
                 q = [p EXCEPT !.fs = fs, !.mount = mount, !.flags = flags]
      BY <1>5
    <2>2. q \in PartitionType
      BY <2>1 DEF PartitionType, AllFlags
    <2>3. q.id = p.id /\ q.start = p.start /\ q.len = p.len /\ q.status = p.status
      BY <2>1 DEF PartitionType
    <2> QED BY <1>1, <2>2, <2>3, Zenon DEF Alike, IsFree, IsDelete
  <1>6. CASE \E subvols \in BOOLEAN : q = [p EXCEPT !.subvols = subvols]
    <2>1. PICK subvols \in BOOLEAN : q = [p EXCEPT !.subvols = subvols]
      BY <1>6
    <2>2. q \in PartitionType
      BY <2>1 DEF PartitionType
    <2>3. q.id = p.id /\ q.start = p.start /\ q.len = p.len /\ q.status = p.status
      BY <2>1 DEF PartitionType
    <2> QED BY <1>1, <2>2, <2>3, Zenon DEF Alike, IsFree, IsDelete
  <1> QED BY <1>2, <1>3, <1>4, <1>5, <1>6, Zenon

\* The invariant holds at first.
LEMMA InitIsSound == Init => EditorInv
  <1> SUFFICES ASSUME Init PROVE EditorInv
    OBVIOUS
  <1>1. /\ disk \in Disks /\ layout.wipe = FALSE /\ layout.parts = <<>> /\ at = "menu"
        /\ wipe = FALSE /\ usingGpt = FALSE /\ data = <<>> /\ edits = 0
    BY DEF Init, NoLayout
  <1>2. <<>> \in Seq(PartitionType) /\ DataType(<<>>)
    BY DEF DataType
  <1>3. edits \in 0..MaxEdits
    BY <1>1, BoundsAssumption
  <1>4. TypeOK
    BY <1>1, <1>2, <1>3, TypeIsData
  <1>5. LayoutIsSound /\ at # "list"
    BY <1>1 DEF LayoutIsSound
  <1> QED BY <1>4, <1>5, Zenon DEF EditorInv

\* Opening the list computes the segments of what is kept or of what is there.
LEMMA OpenIsSound == EditorInv /\ Open => EditorInv'
  <1> SUFFICES ASSUME EditorInv, Open PROVE EditorInv'
    OBVIOUS
  <1> DEFINE w     == layout.wipe
             u     == UsingGpt(layout.wipe)
             parts == IF layout.parts = <<>> THEN disk.parts ELSE layout.parts
  <1>1. /\ disk \in Disks /\ w \in BOOLEAN /\ layout.parts \in Seq(PartitionType) /\ edits \in 0..MaxEdits
        /\ LayoutIsSound
    BY TypeIsData, Zenon DEF EditorInv
  <1>2. /\ at' = "list" /\ wipe' = w /\ usingGpt' = u
        /\ data' = AsSegments(disk.total, u, parts)
        /\ disk' = disk /\ layout' = layout /\ edits' = edits
    BY DEF Open
  <1>3. disk.gpt \in BOOLEAN /\ disk.made \in BOOLEAN /\ disk.parts \in Seq(PartitionType)
    BY <1>1, DisksAssumption
  <1>4. u = Kind(disk, w) /\ u \in BOOLEAN
    BY <1>3, Zenon DEF UsingGpt, Kind
  <1>5. parts \in Seq(PartitionType) /\ Sound(disk, w, parts)
    <2>1. CASE layout.parts = <<>>
      <3>1. w = FALSE
        BY <1>1, <2>1, Zenon DEF LayoutIsSound
      <3> QED BY <1>1, <1>3, <2>1, <3>1, TableIsListed, Zenon
    <2>2. CASE layout.parts # <<>>
      BY <1>1, <2>2, Zenon DEF LayoutIsSound
    <2> QED BY <2>1, <2>2, Zenon
  <1> HIDE DEF w, u, parts
  <1>6. DataType(data') /\ ListIsSound(disk, w, u, data')
    <2>1. KindFits(disk, w, u)
      BY <1>4, Zenon DEF KindFits
    <2> QED BY <1>1, <1>2, <1>4, <1>5, <2>1, SegmentsAreSound, Zenon
  <1>7. TypeOK'
    <2>1. TypeOK' <=>
            /\ disk' \in Disks
            /\ layout'.wipe \in BOOLEAN /\ layout'.parts \in Seq(PartitionType)
            /\ at' \in {"menu", "list"}
            /\ wipe' \in BOOLEAN /\ usingGpt' \in BOOLEAN
            /\ DataType(data')
            /\ edits' \in 0..MaxEdits
      BY Zenon DEF TypeOK, DataType, Segments, FreeType
    <2>2. at' \in {"menu", "list"} /\ layout'.wipe \in BOOLEAN
      BY <1>1, <1>2 DEF w
    <2> QED BY <1>1, <1>2, <1>4, <1>6, <2>1, <2>2, Zenon
  <1>8. LayoutIsSound' /\ ListIsSound(disk', wipe', usingGpt', data')
    <2>1. LayoutIsSound'
      BY <1>1, <1>2, Zenon DEF LayoutIsSound
    <2> QED BY <1>2, <1>6, <2>1, Zenon
  <1> QED BY <1>7, <1>8, Zenon DEF EditorInv

\* Leaving the list, and the choices of select_disk_config, keep or set the layout.
LEMMA MenuIsSound ==
    ASSUME EditorInv, at' = "menu", disk' = disk, edits' = edits,
           layout'.wipe \in BOOLEAN, layout'.parts \in Seq(PartitionType),
           IF layout'.parts = <<>> THEN ~layout'.wipe ELSE Sound(disk, layout'.wipe, layout'.parts),
           wipe' \in BOOLEAN, usingGpt' \in BOOLEAN, DataType(data')
    PROVE  EditorInv'
  <1>1. disk \in Disks /\ edits \in 0..MaxEdits
    BY TypeIsData, Zenon DEF EditorInv
  <1>2. TypeOK'
    <2>1. TypeOK' <=>
            /\ disk' \in Disks
            /\ layout'.wipe \in BOOLEAN /\ layout'.parts \in Seq(PartitionType)
            /\ at' \in {"menu", "list"}
            /\ wipe' \in BOOLEAN /\ usingGpt' \in BOOLEAN
            /\ DataType(data')
            /\ edits' \in 0..MaxEdits
      BY Zenon DEF TypeOK, DataType, Segments, FreeType
    <2> QED BY <1>1, <2>1, Zenon
  <1>3. LayoutIsSound' /\ at' # "list"
    BY Zenon DEF LayoutIsSound
  <1> QED BY <1>2, <1>3, Zenon DEF EditorInv

LEMMA LeavingIsSound == EditorInv /\ (Confirm \/ Cancel \/ Reset) => EditorInv'
  <1> SUFFICES ASSUME EditorInv, Confirm \/ Cancel \/ Reset PROVE EditorInv'
    OBVIOUS
  <1>1. /\ disk \in Disks /\ layout.wipe \in BOOLEAN /\ layout.parts \in Seq(PartitionType)
        /\ wipe \in BOOLEAN /\ usingGpt \in BOOLEAN /\ DataType(data)
        /\ LayoutIsSound
    BY TypeIsData, Zenon DEF EditorInv
  <1>2. DataType(<<>>) /\ <<>> \in Seq(PartitionType)
    BY DEF DataType
  <1>3. CASE Confirm
    <2>1. /\ at = "list" /\ at' = "menu" /\ data' = <<>> /\ wipe' = FALSE /\ usingGpt' = FALSE
          /\ disk' = disk /\ edits' = edits
      BY <1>3 DEF Confirm
    <2>2. CASE PartMods(data) = <<>>
      <3>1. layout' = layout
        BY <1>3, <2>2 DEF Confirm
      <3>2. layout'.wipe \in BOOLEAN /\ layout'.parts \in Seq(PartitionType)
        BY <1>1, <3>1, Zenon
      <3>3. IF layout'.parts = <<>> THEN ~layout'.wipe ELSE Sound(disk, layout'.wipe, layout'.parts)
        BY <1>1, <3>1, Zenon DEF LayoutIsSound
      <3>4. wipe' \in BOOLEAN /\ usingGpt' \in BOOLEAN /\ DataType(data')
        BY <1>2, <2>1
      <3> QED BY <2>1, <3>2, <3>3, <3>4, MenuIsSound, Zenon
    <2>3. CASE PartMods(data) # <<>>
      <3>1. layout'.wipe = wipe /\ layout'.parts = PartMods(data)
        BY <1>3, <2>3 DEF Confirm
      <3>2. Sound(disk, wipe, data) /\ data \in Seq(Segments)
        BY <1>1, <2>1, Zenon DEF EditorInv, ListIsSound, DataType
      <3>3. PartMods(data) \in Seq(PartitionType) /\ Sound(disk, wipe, PartMods(data))
        BY <1>1, <3>2, ListedAreSound, Zenon
      <3>4. wipe' \in BOOLEAN /\ usingGpt' \in BOOLEAN /\ DataType(data')
        BY <1>2, <2>1
      <3> QED BY <1>1, <2>1, <2>3, <3>1, <3>3, <3>4, MenuIsSound, Zenon
    <2> QED BY <2>2, <2>3
  <1>4. CASE Cancel
    <2>1. /\ at' = "menu" /\ data' = <<>> /\ wipe' = FALSE /\ usingGpt' = FALSE
          /\ disk' = disk /\ edits' = edits /\ layout' = layout
      BY <1>4 DEF Cancel
    <2>2. layout'.wipe \in BOOLEAN /\ layout'.parts \in Seq(PartitionType)
      BY <1>1, <2>1, Zenon
    <2>3. IF layout'.parts = <<>> THEN ~layout'.wipe ELSE Sound(disk, layout'.wipe, layout'.parts)
      BY <1>1, <2>1, Zenon DEF LayoutIsSound
    <2>4. wipe' \in BOOLEAN /\ usingGpt' \in BOOLEAN /\ DataType(data')
      BY <1>2, <2>1
    <2> QED BY <2>1, <2>2, <2>3, <2>4, MenuIsSound, Zenon
  <1>5. CASE Reset
    <2>1. /\ at' = "menu" /\ disk' = disk /\ edits' = edits
          /\ wipe' = wipe /\ usingGpt' = usingGpt /\ data' = data
          /\ layout'.wipe = FALSE /\ layout'.parts = <<>>
      BY <1>5 DEF Reset, NoLayout
    <2>2. FALSE \in BOOLEAN
      OBVIOUS
    <2> QED BY <1>1, <1>2, <2>1, <2>2, MenuIsSound, Zenon
  <1> QED BY <1>3, <1>4, <1>5

\* The two suggestions.
LEMMA SuggestingIsSound ==
    ASSUME EditorInv, NEW fs \in {"plain", "btrfs"}, NEW subvols \in BOOLEAN, NEW home \in BOOLEAN,
           ChooseDefault(fs, subvols, home) \/ SuggestLayout(fs, subvols, home)
    PROVE  EditorInv'
  <1> DEFINE parts == Suggestion(fs, subvols, home)
  <1>1. /\ disk \in Disks /\ wipe \in BOOLEAN /\ usingGpt \in BOOLEAN /\ DataType(data) /\ TRUE \in BOOLEAN
    BY TypeIsData, Zenon DEF EditorInv
  <1>2. parts \in Seq(PartitionType) /\ parts # <<>> /\ Sound(disk, TRUE, parts)
    BY <1>1, SuggestionFacts, Zenon
  <1>3. CASE ChooseDefault(fs, subvols, home)
    <2>1. /\ at' = "menu" /\ disk' = disk /\ edits' = edits
          /\ wipe' = wipe /\ usingGpt' = usingGpt /\ data' = data
          /\ layout'.wipe = TRUE /\ layout'.parts = parts
      BY <1>3 DEF ChooseDefault
    <2> HIDE DEF parts
    <2> QED BY <1>1, <1>2, <2>1, MenuIsSound, Zenon
  <1>4. CASE SuggestLayout(fs, subvols, home)
    <2>1. /\ Edit /\ wipe' = TRUE /\ data' = AsSegments(disk.total, usingGpt, parts)
      BY <1>4 DEF SuggestLayout
    <2> HIDE DEF parts
    <2>2. KindFits(disk, wipe, usingGpt)
      BY <2>1, Zenon DEF EditorInv, ListIsSound, Edit
    <2>3. KindFits(disk, TRUE, usingGpt)
      BY <2>2, <1>1, Zenon DEF KindFits, Kind
    <2>4. DataType(data') /\ ListIsSound(disk, TRUE, usingGpt, data')
      BY <1>1, <1>2, <2>1, <2>3, SegmentsAreSound, Zenon
    <2> QED BY <1>1, <2>1, <2>4, EditKeeps, Zenon
  <1> QED BY <1>3, <1>4

\* A new partition is made in free space that is shown (_create_new_partition).
LEMMA CreateIsSound ==
    ASSUME EditorInv, NEW i \in DOMAIN data, NEW len \in TypedSizes \cup {data[i].len},
           NEW fs \in Filesystems, NEW mount \in Mountpoints \cup {NoMount}, Create(i, len, fs, mount)
    PROVE  EditorInv'
  <1> DEFINE parts == PartMods(data)
             x     == Partition(data[i], len, fs, mount)
             flags == CASE mount = "/boot" -> BootFlags(usingGpt)
                        [] fs = "swap"     -> {"SWAP"}
                        [] OTHER           -> {}
  <1>1. /\ IsFree(data[i]) /\ Edit /\ len \in Lengths(data[i].len) /\ wipe' = wipe
        /\ data' = AsSegments(disk.total, usingGpt, InsertAt(parts, Place(i), x))
    BY Zenon DEF Create
  <1>2. /\ disk \in Disks /\ wipe \in BOOLEAN /\ usingGpt \in BOOLEAN /\ data \in Seq(Segments)
        /\ KindFits(disk, wipe, usingGpt) /\ Sound(disk, wipe, data)
        /\ FreeIsBetween(data, UsableEnd(disk.total, usingGpt))
        /\ data[i].len > MiB
    BY <1>1, TypeIsData, Zenon DEF EditorInv, ListIsSound, DataType, Edit
  <1>3. parts \in Seq(PartitionType) /\ Sound(disk, wipe, parts) /\ Len(parts) <= Len(data)
    BY <1>2, ListedAreSound, Zenon
  <1>4. data[i].start \in Nat /\ data[i].len \in Nat
    <2>1. data[i] \in Segments
      BY <1>2
    <2> QED BY <1>1, <2>1, SegmentFacts DEF Segments
  <1>5. len \in Nat /\ len <= data[i].len
    <2>1. len = data[i].len \/ (len <= data[i].len /\ len >= MiB)
      BY <1>1, Zenon DEF Lengths
    <2>2. len \in Nat
      BY <1>4, SizesAssumption
    <2> QED BY <1>4, <2>1, <2>2
  <1>6. FreshId \in Nat
    <2>1. disk.parts \in Seq(PartitionType)
      BY <1>2, DisksAssumption
    <2> QED BY <1>2, <1>3, <2>1, FreshIdType, Zenon
  <1>7. /\ x = NewPartition(FreshId, data[i].start, len, fs, mount, flags)
        /\ flags \in SUBSET {"BOOT", "ESP", "XBOOTLDR", "SWAP", "LINUX_HOME"}
    <2>1. x = NewPartition(FreshId, data[i].start, len, fs, mount, flags)
      BY DEF Partition
    <2>2. BootFlags(usingGpt) \in SUBSET {"BOOT", "ESP", "XBOOTLDR", "SWAP", "LINUX_HOME"}
      BY FlagsType, Zenon DEF AllFlags
    <2>3. flags \in SUBSET {"BOOT", "ESP", "XBOOTLDR", "SWAP", "LINUX_HOME"}
      BY <2>2
    <2> QED BY <2>1, <2>3
  <1> HIDE DEF flags, x
  <1>8. /\ x \in PartitionType /\ x.status = "create" /\ x.start = data[i].start /\ x.len = len
    <2>1. mount \in Mountpoints \cup {NoMount, "/", "/boot", "/home"}
      OBVIOUS
    <2>2. x \in PartitionType
      BY <1>4, <1>5, <1>6, <1>7, <2>1, NewPartitionType, Zenon
    <2> QED BY <1>7, <2>2, Zenon DEF NewPartition
  <1>9. TableIsSound(disk) => Placed(disk, wipe, x)
    BY <1>1, <1>2, <1>5, <1>8, NewIsPlaced, Zenon
  <1>10. Place(i) \in 1..(Len(parts) + 1)
    <2>1. i \in 1..Len(data) /\ Len(parts) \in Nat
      BY <1>2, <1>3
    <2>2. Place(i) = IF i - 1 < Len(parts) THEN i ELSE Len(parts) + 1
      BY DEF Place
    <2> HIDE DEF parts
    <2> QED BY <2>1, <2>2
  <1> HIDE DEF parts
  <1>11. /\ InsertAt(parts, Place(i), x) \in Seq(PartitionType)
         /\ Sound(disk, wipe, InsertAt(parts, Place(i), x))
    BY <1>2, <1>3, <1>8, <1>9, <1>10, InsertedIsSound, Zenon
  <1>12. DataType(data') /\ ListIsSound(disk, wipe, usingGpt, data')
    BY <1>1, <1>2, <1>11, SegmentsAreSound, Zenon
  <1> QED BY <1>1, <1>2, <1>12, EditKeeps, Zenon

\* What is on the disk stays listed when it is deleted (_delete_partition).
LEMMA WithoutIsSound ==
    ASSUME NEW w \in BOOLEAN, data \in Seq(Segments), Sound(disk, w, data),
           NEW p \in PartitionType, ~IsDelete(p)
    PROVE  WithoutPartition(p) \in Seq(PartitionType) /\ Sound(disk, w, WithoutPartition(p))
  <1> DEFINE parts == PartMods(data)
             gone  == [p EXCEPT !.status = "delete"]
             t     == [j \in DOMAIN parts |-> IF parts[j] = p THEN gone ELSE parts[j]]
             K     == {j \in DOMAIN parts : parts[j] # p}
  <1>1. parts \in Seq(PartitionType) /\ Sound(disk, w, parts)
    BY ListedAreSound, Zenon
  <1>2. WithoutPartition(p) = IF p.status \in {"exist", "modify"} THEN t ELSE Subsequence(parts, K)
    BY DEF WithoutPartition
  <1> HIDE DEF parts
  <1>3. CASE p.status \in {"exist", "modify"}
    <2>1. gone \in PartitionType /\ gone.id = p.id /\ gone.start = p.start /\ gone.len = p.len
          /\ gone.status = "delete"
      BY DEF PartitionType
    <2>2. ~IsFree(gone) /\ ~IsFree(p)
      BY <2>1, SegmentFacts
    <2>3. Alike(p, gone)
      <3>1. gone.status = "create" <=> p.status = "create"
        BY <1>3, <2>1
      <3> HIDE DEF gone
      <3> QED BY <2>1, <2>2, <3>1, Zenon DEF Alike
    <2> HIDE DEF gone
    <2>4. t \in Seq(PartitionType) /\ DOMAIN t = DOMAIN parts
      BY <1>1, <2>1
    <2>5. \A j \in DOMAIN parts : Alike(parts[j], t[j])
      <3>1. \A j \in DOMAIN parts : t[j] = IF parts[j] = p THEN gone ELSE parts[j]
        OBVIOUS
      <3>2. \A q : Alike(q, q)
        BY Zenon DEF Alike
      <3>3. ASSUME NEW j \in DOMAIN parts
            PROVE  Alike(parts[j], t[j])
        <4>1. CASE parts[j] = p
          BY <2>3, <3>1, <4>1
        <4>2. CASE parts[j] # p
          <5>1. t[j] = parts[j]
            BY <3>1, <4>2
          <5> QED BY <3>2, <5>1
        <4> QED BY <4>1, <4>2
      <3> QED BY <3>3
    <2> HIDE DEF t
    <2>6. Sound(disk, w, t)
      BY <1>1, <2>4, <2>5, AlikeAreSound, Zenon
    <2> QED BY <1>2, <1>3, <2>4, <2>6, Zenon
  <1>4. CASE p.status \notin {"exist", "modify"}
    <2>1. p.status = "create"
      BY <1>4, SegmentFacts DEF IsDelete
    <2>2. K \in SUBSET (DOMAIN parts) /\ \A j \in DOMAIN parts \ K : parts[j].status = "create"
      BY <2>1
    <2> HIDE DEF K
    <2>3. Subsequence(parts, K) \in Seq(PartitionType) /\ Sound(disk, w, Subsequence(parts, K))
      BY <1>1, <2>2, RestIsSound, Zenon
    <2> QED BY <1>2, <1>4, <2>3, Zenon
  <1> QED BY <1>3, <1>4

LEMMA DeleteIsSound ==
    ASSUME EditorInv, NEW i \in DOMAIN data, Delete(i)
    PROVE  EditorInv'
  <1>1. /\ data[i].status # "free" /\ data[i].status # "delete" /\ Edit /\ wipe' = wipe
        /\ data' = AsSegments(disk.total, usingGpt, WithoutPartition(data[i]))
    BY DEF Delete
  <1>2. /\ disk \in Disks /\ wipe \in BOOLEAN /\ usingGpt \in BOOLEAN /\ data \in Seq(Segments)
        /\ KindFits(disk, wipe, usingGpt) /\ Sound(disk, wipe, data)
    BY <1>1, TypeIsData, Zenon DEF EditorInv, ListIsSound, DataType, Edit
  <1>3. data[i] \in PartitionType /\ ~IsDelete(data[i])
    <2>1. data[i] \in Segments
      BY <1>2
    <2> QED BY <1>1, <2>1, SegmentFacts DEF IsFree, IsDelete
  <1>4. /\ WithoutPartition(data[i]) \in Seq(PartitionType)
        /\ Sound(disk, wipe, WithoutPartition(data[i]))
    BY <1>2, <1>3, WithoutIsSound, Zenon
  <1>5. DataType(data') /\ ListIsSound(disk, wipe, usingGpt, data')
    BY <1>1, <1>2, <1>4, SegmentsAreSound, Zenon
  <1> QED BY <1>1, <1>2, <1>5, EditKeeps, Zenon

\* The actions that change a partition in place.
LEMMA ChangesAreSound ==
    ASSUME EditorInv, NEW i \in DOMAIN data,
           \/ \E mount \in Mountpoints : AssignMountpoint(i, mount)
           \/ \E fs \in Filesystems \cup {"unknown"} : MarkFormatting(i, fs)
           \/ MarkBootable(i)
           \/ MarkType(i, "ESP", "XBOOTLDR") \/ MarkType(i, "XBOOTLDR", "ESP")
           \/ \E fs \in Filesystems : SetFilesystem(i, fs)
           \/ \E root \in BOOLEAN : SetSubvolumes(i, root)
    PROVE  EditorInv'
  <1> DEFINE p == data[i]
  <1>1. data \in Seq(Segments)
    BY TypeIsData, Zenon DEF EditorInv, DataType
  <1>2. p.status \in {"exist", "modify", "create"}
    BY DEF AssignMountpoint, MarkFormatting, MarkBootable, MarkType, SetFilesystem, SetSubvolumes, Formatted
  <1>3. p \in PartitionType /\ ~IsFree(p) /\ p.flags \in SUBSET AllFlags
    <2>1. p \in Segments /\ ~IsFree(p)
      BY <1>1, <1>2 DEF IsFree
    <2>2. p \in PartitionType
      BY <2>1, SegmentFacts
    <2> QED BY <2>1, <2>2 DEF PartitionType, AllFlags
  <1>4. "BOOT" \in AllFlags /\ "ESP" \in AllFlags /\ "XBOOTLDR" \in AllFlags /\ "SWAP" \in AllFlags
    BY DEF AllFlags
  <1>5. \E q : Change(i, q) /\ q \in PartitionType /\ Alike(p, q) /\ (IsDelete(q) <=> IsDelete(p))
    <2>1. ASSUME NEW mount \in Mountpoints, AssignMountpoint(i, mount)
          PROVE  \E q : Change(i, q) /\ q \in PartitionType /\ Alike(p, q) /\ (IsDelete(q) <=> IsDelete(p))
      <3> DEFINE flags == MountFlags(p, mount)
                 q     == [p EXCEPT !.mount = mount, !.flags = flags]
      <3>1. Change(i, q)
        BY <2>1 DEF AssignMountpoint
      <3>2. flags \in SUBSET AllFlags /\ mount \in Mountpoints \cup {NoMount}
        BY <1>3, FlagsType
      <3> HIDE DEF p, flags
      <3>3. q \in PartitionType /\ Alike(p, q) /\ (IsDelete(q) <=> IsDelete(p))
        BY <1>3, <3>2, ChangedType, Zenon
      <3> HIDE DEF q
      <3> QED BY <3>1, <3>3
    <2>2. ASSUME NEW fs \in Filesystems \cup {"unknown"}, MarkFormatting(i, fs)
          PROVE  \E q : Change(i, q) /\ q \in PartitionType /\ Alike(p, q) /\ (IsDelete(q) <=> IsDelete(p))
      <3> DEFINE mount == IF p.fs = "luks" /\ fs = "btrfs" THEN NoMount ELSE p.mount
                 q     == [p EXCEPT !.status = "modify", !.fs = fs, !.mount = mount]
      <3>1. p.status = "exist" /\ Change(i, q)
        BY <2>2 DEF MarkFormatting
      <3>2. mount \in {p.mount, NoMount}
        OBVIOUS
      <3> HIDE DEF p, mount
      <3>3. q \in PartitionType /\ Alike(p, q) /\ (IsDelete(q) <=> IsDelete(p))
        BY <1>3, <3>1, <3>2, ChangedType, Zenon
      <3> HIDE DEF q
      <3> QED BY <3>1, <3>3
    <2>3. ASSUME MarkBootable(i) \/ MarkType(i, "ESP", "XBOOTLDR") \/ MarkType(i, "XBOOTLDR", "ESP")
          PROVE  \E q : Change(i, q) /\ q \in PartitionType /\ Alike(p, q) /\ (IsDelete(q) <=> IsDelete(p))
      <3>1. PICK flags \in SUBSET AllFlags : Change(i, [p EXCEPT !.flags = flags])
        <4>1. /\ Invert(p.flags, "BOOT") \in SUBSET AllFlags
              /\ Invert(p.flags \ {"XBOOTLDR"}, "ESP") \in SUBSET AllFlags
              /\ Invert(p.flags \ {"ESP"}, "XBOOTLDR") \in SUBSET AllFlags
          BY <1>3, <1>4, FlagsType
        <4>2. CASE MarkBootable(i)
          BY <4>1, <4>2 DEF MarkBootable
        <4>3. CASE MarkType(i, "ESP", "XBOOTLDR")
          BY <4>1, <4>3 DEF MarkType
        <4>4. CASE MarkType(i, "XBOOTLDR", "ESP")
          BY <4>1, <4>4 DEF MarkType
        <4> QED BY <2>3, <4>2, <4>3, <4>4
      <3> DEFINE q == [p EXCEPT !.flags = flags]
      <3> HIDE DEF p
      <3>3. q \in PartitionType /\ Alike(p, q) /\ (IsDelete(q) <=> IsDelete(p))
        BY <1>3, <3>1, ChangedType, Zenon
      <3> HIDE DEF q
      <3> QED BY <3>1, <3>3 DEF q
    <2>4. ASSUME NEW fs \in Filesystems, SetFilesystem(i, fs)
          PROVE  \E q : Change(i, q) /\ q \in PartitionType /\ Alike(p, q) /\ (IsDelete(q) <=> IsDelete(p))
      <3> DEFINE mount == IF fs \in {"swap", "btrfs"} THEN NoMount ELSE p.mount
                 flags == IF fs = "swap" THEN {"SWAP"}
                          ELSE IF IsSwap(p) THEN Invert(p.flags, "SWAP") ELSE p.flags
                 q     == [p EXCEPT !.fs = fs, !.mount = mount, !.flags = flags]
      <3>1. Change(i, q)
        BY <2>4 DEF SetFilesystem
      <3>2. mount \in {p.mount, NoMount}
        OBVIOUS
      <3>3. flags \in SUBSET AllFlags
        BY <1>3, <1>4, FlagsType
      <3> HIDE DEF p, mount, flags
      <3>4. q \in PartitionType /\ Alike(p, q) /\ (IsDelete(q) <=> IsDelete(p))
        BY <1>3, <3>2, <3>3, ChangedType, Zenon
      <3> HIDE DEF q
      <3> QED BY <3>1, <3>4
    <2>5. ASSUME NEW root \in BOOLEAN, SetSubvolumes(i, root)
          PROVE  \E q : Change(i, q) /\ q \in PartitionType /\ Alike(p, q) /\ (IsDelete(q) <=> IsDelete(p))
      <3> DEFINE q == [p EXCEPT !.subvols = root]
      <3>1. Change(i, q)
        BY <2>5 DEF SetSubvolumes
      <3> HIDE DEF p
      <3>2. q \in PartitionType /\ Alike(p, q) /\ (IsDelete(q) <=> IsDelete(p))
        BY <1>3, ChangedType, Zenon
      <3> HIDE DEF q
      <3> QED BY <3>1, <3>2
    <2> QED BY <2>1, <2>2, <2>3, <2>4, <2>5
  <1> HIDE DEF p
  <1> QED BY <1>3, <1>5, ChangeKeeps, Zenon DEF p

LEMMA StepIsSound == EditorInv /\ [Next]_vars => EditorInv'
  <1> SUFFICES ASSUME EditorInv, [Next]_vars PROVE EditorInv'
    OBVIOUS
  <1>1. CASE UNCHANGED vars
    BY <1>1, Zenon DEF vars, EditorInv, TypeOK, LayoutIsSound
  <1>2. CASE Open
    BY <1>2, OpenIsSound
  <1>3. CASE Confirm \/ Cancel \/ Reset
    BY <1>3, LeavingIsSound
  <1>4. CASE \E fs \in {"plain", "btrfs"}, subvols, home \in BOOLEAN :
                ChooseDefault(fs, subvols, home) \/ SuggestLayout(fs, subvols, home)
    BY <1>4, SuggestingIsSound
  <1>5. CASE \E i \in DOMAIN data, fs \in Filesystems, mount \in Mountpoints \cup {NoMount} :
                \E len \in TypedSizes \cup {data[i].len} : Create(i, len, fs, mount)
    BY <1>5, CreateIsSound
  <1>6. CASE \E i \in DOMAIN data : Delete(i)
    BY <1>6, DeleteIsSound
  <1>7. CASE \E i \in DOMAIN data :
                \/ \E mount \in Mountpoints : AssignMountpoint(i, mount)
                \/ \E fs \in Filesystems \cup {"unknown"} : MarkFormatting(i, fs)
                \/ MarkBootable(i)
                \/ MarkType(i, "ESP", "XBOOTLDR") \/ MarkType(i, "XBOOTLDR", "ESP")
                \/ \E fs \in Filesystems : SetFilesystem(i, fs)
                \/ \E root \in BOOLEAN : SetSubvolumes(i, root)
    BY <1>7, ChangesAreSound
  <1> QED BY <1>1, <1>2, <1>3, <1>4, <1>5, <1>6, <1>7, Zenon DEF Next

\* Every variable of the editor keeps its type (PartitioningList).
THEOREM EditorTypes == Spec => []TypeOK
  <1>1. EditorInv => TypeOK
    BY Zenon DEF EditorInv
  <1> QED BY <1>1, InitIsSound, StepIsSound, PTL DEF Spec

\* New partitions stay between the first MiB and the usable end, for every disk,
\* any number of edits and openings, and every length and mount point the user
\* types: the invariant of the editor's run.
THEOREM NewPartitionsAlwaysStayInside == Spec => []NewPartitionsStayInside
  <1>1. EditorInv => NewPartitionsStayInside
    <2> SUFFICES ASSUME EditorInv, at = "list", TableIsSound(disk), disk.made => disk.gpt,
                        NEW i \in Listed, data[i].status = "create"
                 PROVE  /\ data[i].start >= MiB
                        /\ PartitionEnd(data[i]) <= UsableEnd(disk.total, UsingGpt(wipe))
      BY Zenon DEF NewPartitionsStayInside
    <2>1. Sound(disk, wipe, data)
      BY Zenon DEF EditorInv, ListIsSound
    <2>2. i \in DOMAIN data /\ ~IsFree(data[i])
      BY DEF Listed
    <2>3. Placed(disk, wipe, data[i])
      BY <2>1, <2>2, Zenon DEF Sound
    <2>4. UsingGpt(wipe) = Kind(disk, wipe)
      BY Zenon DEF UsingGpt, Kind
    <2> QED BY <2>3, <2>4, Zenon DEF Placed
  <1> QED BY <1>1, InitIsSound, StepIsSound, PTL DEF Spec

\* No partition of the disk gets lost or is listed twice, whatever is done to the
\* list and however often it is opened: the invariant of the editor's run.
THEOREM ListAlwaysMatchesDisk == Spec => []ListMatchesDisk
  <1>1. EditorInv => ListMatchesDisk
    <2> SUFFICES ASSUME EditorInv, at = "list" PROVE ListMatchesDisk
      BY Zenon DEF ListMatchesDisk
    <2>1. Sound(disk, wipe, data) /\ wipe \in BOOLEAN
      BY TypeIsData, Zenon DEF EditorInv, ListIsSound
    <2>2. \A i : i \in Listed <=> i \in DOMAIN data /\ ~IsFree(data[i])
      BY Zenon DEF Listed
    <2>3. CASE wipe
      BY <2>1, <2>2, <2>3, Zenon DEF ListMatchesDisk, Sound
    <2>4. CASE ~wipe
      <3>1. ASSUME NEW n \in DOMAIN disk.parts
            PROVE  Cardinality({i \in Listed :
                       /\ data[i].id = n
                       /\ data[i].status # "create"
                       /\ data[i].start = disk.parts[n].start
                       /\ data[i].len = disk.parts[n].len}) = 1
        <4> DEFINE S == {i \in Listed :
                           /\ data[i].id = n
                           /\ data[i].status # "create"
                           /\ data[i].start = disk.parts[n].start
                           /\ data[i].len = disk.parts[n].len}
        <4>1. PICK i \in DOMAIN data :
                Sits(disk, data[i], n) /\ \A j \in DOMAIN data : Sits(disk, data[j], n) => j = i
          BY <2>1, <2>4, Zenon DEF Sound, Once
        <4>2. \A j : j \in S <=> j \in DOMAIN data /\ Sits(disk, data[j], n)
          BY <2>2, Zenon DEF Sits
        <4>3. S = {i}
          <5> HIDE DEF S
          <5> QED BY <4>1, <4>2, Zenon
        <4>4. Cardinality(S) = 1
          <5> HIDE DEF S
          <5> QED BY <4>3, FS_Singleton, Zenon
        <4> QED BY <4>4
      <3> QED BY <2>4, <3>1, Zenon DEF ListMatchesDisk
    <2> QED BY <2>3, <2>4
  <1> QED BY <1>1, InitIsSound, StepIsSound, PTL DEF Spec

\* While the partitions are in order, the free space that is shown is the free
\* space there is: the invariant of the editor's run, for every disk.
THEOREM ShownSpaceIsAlwaysFree == Spec => []ShownSpaceIsTheFreeSpace
  <1>1. EditorInv => ShownSpaceIsTheFreeSpace
    <2> SUFFICES ASSUME EditorInv, at = "list", TableIsSound(disk), InOrder(data)
                 PROVE  {<<data[i].start, PartitionEnd(data[i])>> : i \in DOMAIN data \ Listed} = Gaps
      BY Zenon DEF ShownSpaceIsTheFreeSpace
    <2> DEFINE U(gpt) == UsableEnd(disk.total, gpt)
    <2>1. /\ disk \in Disks /\ wipe \in BOOLEAN /\ usingGpt \in BOOLEAN /\ data \in Seq(Segments)
          /\ KindFits(disk, wipe, usingGpt) /\ Sound(disk, wipe, data) /\ FreeIsBetween(data, U(usingGpt))
      BY TypeIsData, Zenon DEF EditorInv, ListIsSound, DataType
    <2>2. disk.total \in Nat /\ disk.total >= GiB + 3 * MiB /\ disk.gpt \in BOOLEAN
      BY <2>1, DisksAssumption
    <2>3. U(TRUE) \in Nat /\ U(FALSE) \in Nat /\ U(FALSE) = U(TRUE) + MiB
      BY <2>2, UsableEnds, Zenon
    <2> HIDE DEF U
    <2>4. \A gpt \in BOOLEAN : U(gpt) \in Nat /\ U(TRUE) <= U(gpt)
      <3>1. \A a, b, c \in Nat : b = a + c => a <= b /\ a <= a
        OBVIOUS
      <3> QED BY <2>3, <3>1, MiBAssumption, Zenon
    <2>5. ASSUME NEW k \in Staying(data)
          PROVE  PartitionEnd(data[k]) >= MiB /\ data[k].start <= U(usingGpt)
      <3>1. k \in DOMAIN data /\ ~IsFree(data[k]) /\ data[k] \in PartitionType
        BY <2>1, SegmentFacts DEF Staying
      <3>2. /\ data[k].start \in Nat /\ data[k].len \in Nat
            /\ PartitionEnd(data[k]) = data[k].start + data[k].len
        BY <3>1, SegmentFacts DEF PartitionEnd
      <3>3. Placed(disk, wipe, data[k])
        BY <2>1, <3>1, Zenon DEF Sound
      <3>4. CASE data[k].status = "create"
        <4>1. data[k].start >= MiB /\ data[k].start <= U(TRUE)
          BY <3>3, <3>4, Zenon DEF Placed, U
        <4>2. /\ \A s, l, m \in Nat : s >= m => s + l >= m
              /\ \A s, a, b \in Nat : s <= a /\ a <= b => s <= b
          OBVIOUS
        <4>3. PartitionEnd(data[k]) \in Nat
          BY <3>2
        <4>4. U(usingGpt) \in Nat /\ U(TRUE) \in Nat /\ U(TRUE) <= U(usingGpt) /\ MiB \in Nat
          BY <2>1, <2>3, <2>4, MiBAssumption, Zenon
        <4>5. PartitionEnd(data[k]) >= MiB /\ data[k].start <= U(usingGpt)
          <5>1. data[k].start + data[k].len >= MiB
            BY <3>2, <4>1, <4>2, <4>4, Zenon
          <5>2. data[k].start <= U(usingGpt)
            <6>1. data[k].start \in Nat /\ data[k].start <= U(TRUE)
              BY <3>2, <4>1, Zenon
            <6> QED BY <6>1, <4>2, <4>4, Zenon
          <5> QED BY <3>2, <5>1, <5>2, Zenon
        <4> QED BY <4>5
      <3>5. CASE data[k].status # "create"
        <4>1. ~wipe
          BY <2>1, <3>1, <3>5, Zenon DEF Sound
        <4>2. usingGpt = disk.gpt
          BY <2>1, <4>1, Zenon DEF KindFits, Kind
        <4> QED BY <3>3, <3>5, <4>2, Zenon DEF Placed, U
      <3> QED BY <3>4, <3>5
    <2> QED BY <2>1, <2>4, <2>5, GapsAreShown, Zenon DEF U
  <1> QED BY <1>1, InitIsSound, StepIsSound, PTL DEF Spec

\* Every suggestion the menus make passes the checks of parse_arg: the invariant
\* of the editor's run, for every set of disks.
THEOREM SuggestionsAlwaysLoad == Spec => []SuggestionsLoad
  <1>1. EditorInv => SuggestionsLoad
    <2> SUFFICES ASSUME EditorInv PROVE SuggestionsLoad
      OBVIOUS
    <2>1. disk \in Disks
      BY TypeIsData, Zenon DEF EditorInv
    <2> QED BY <2>1, DisksAssumption, SuggestionLoads DEF SuggestionsLoad, Suggestion
  <1> QED BY <1>1, InitIsSound, StepIsSound, PTL DEF Spec

-----------------------------------------------------------------------------
(* The profile menu *)

\* p is the only profile with a selection.
Only(p) == p # None => \A t \in Tops : t # p => selection[t] = <<>>

SeatsAnswered == \A d \in ToSet(selection["Desktop"]) \cap Seated : settings[d] # None

\* Driver and greeter of c fit the selection.
Fits(c) ==
  c.profile # None =>
    /\ c.gfx # None => GfxSupported(c.profile, selection)
    /\ ~picked => c.greeter = DefaultGreeter(c.profile, selection)

\* The configuration that was saved, key by key.
FileInv ==
  file # None =>
    /\ file.main = "Desktop" =>
         \A d \in ToSet(file.details) \cap Seated :
           d \in DOMAIN file.custom_settings /\ file.custom_settings[d] # None
    /\ file.main # None /\ file.gfx # None => GfxSupported(file.main, ParsedSelection(file))

SourceInv ==
  source # None =>
    /\ source.config = None <=> file = None
    /\ file # None =>
         /\ source.config = [profile |-> file.main, gfx |-> file.gfx, greeter |-> file.greeter]
         /\ file.main # None => file.details = source.selection[file.main]
         /\ file.main = "Desktop" =>
              \A d \in DOMAIN source.settings :
                /\ d \in Seated /\ d \in DOMAIN file.custom_settings
                /\ file.custom_settings[d] = source.settings[d]

IInv ==
  /\ ProfileTypeOK
  /\ pc = "global" /\ config # None => Only(config.profile) /\ Fits(config)
  /\ pc = "profile" => Only(item.profile) /\ Fits(item)
  /\ SeatsAnswered
  /\ FileInv
  /\ SourceInv

-----------------------------------------------------------------------------

LEMMA NoneIsNoProfile == \A p \in Tops : p # None
BY ProfilesAssumption DEF Tops

LEMMA NoneIsNoConfiguration == \A c \in Configuration : c # None
BY ConfigurationAssumption

\* A set of positions has a first one.
LEMMA FirstPosition ==
  ASSUME NEW S \in SUBSET Nat, S # {}
  PROVE  \E i \in S : \A j \in S : i <= j
<1>1. PICK m \in S : \A k \in S : ~(<<k, m>> \in OpToRel(<, Nat))
  BY NatLessThanWellFounded, WFMin, Zenon
<1>2. \A k \in S : ~(k < m)
  BY <1>1, Zenon DEF OpToRel
<1>3. QED BY <1>2

\* The greeter a selection of desktops starts with is that of the first of them
\* that has one.
LEMMA DefaultGreeterFacts ==
  ASSUME NEW p \in Tops, NEW sel, sel["Desktop"] \in Seq(Desktops)
  PROVE  /\ DefaultGreeter(p, sel) \in Greeters \cup {None}
         /\ IF p = "Desktop" THEN ComesWith(DefaultGreeter(p, sel), sel[p])
            ELSE DefaultGreeter(p, sel) = None
<1>1. CASE p # "Desktop"
  BY <1>1 DEF DefaultGreeter
<1>2. CASE p = "Desktop"
  <2> DEFINE s     == sel[p]
             able  == {i \in DOMAIN s : GreeterOf[s[i]] # None}
             first == CHOOSE i \in able : \A j \in able : i <= j
  <2>1. DefaultGreeter(p, sel) = IF able # {} THEN GreeterOf[s[first]] ELSE None
    BY <1>2 DEF DefaultGreeter
  <2>2. s \in Seq(Desktops) /\ DOMAIN s = 1 .. Len(s) /\ Len(s) \in Nat
    BY <1>2
  <2>3. \A i \in DOMAIN s : GreeterOf[s[i]] \in Greeters \cup {None}
    BY <2>2, ProfilesAssumption
  <2>4. CASE able = {}
    <3>1. \A i \in DOMAIN s : GreeterOf[s[i]] = None
      BY <2>4
    <3>2. ComesWith(None, s)
      BY <3>1 DEF ComesWith, ToSet
    <3> QED BY <1>2, <2>1, <2>4, <3>2
  <2>5. CASE able # {}
    <3>1. able \in SUBSET Nat
      BY <2>2
    <3>2. first \in able /\ \A j \in able : first <= j
      BY <2>5, <3>1, FirstPosition, Zenon
    <3> HIDE DEF first
    <3>3. first \in DOMAIN s /\ GreeterOf[s[first]] # None
      BY <3>2
    <3>4. \A j \in 1 .. first - 1 : GreeterOf[s[j]] = None
      BY <2>2, <3>2, <3>3
    <3>5. ComesWith(GreeterOf[s[first]], s)
      BY <3>3, <3>4 DEF ComesWith
    <3> QED BY <1>2, <2>1, <2>3, <2>5, <3>3, <3>5
  <2> QED BY <2>4, <2>5
<1> QED BY <1>1, <1>2

\* Whatever is taken from the menu of types, the item fits the selection.
LEMMA TakenFits ==
  ASSUME NEW p \in Tops \cup {None}, Taken(p, selection'), picked' = FALSE,
         selection' \in [Tops -> Seq(Desktops \cup Servers)],
         selection'["Desktop"] \in Seq(Desktops),
         enabled \in [gfx : BOOLEAN, greeter : BOOLEAN]
  PROVE  /\ item' \in Configuration /\ item'.profile = p
         /\ Fits(item)'
         /\ enabled' \in [gfx : BOOLEAN, greeter : BOOLEAN]
<1>1. CASE p = None
  BY <1>1 DEF Taken, Blank, Configuration, Fits
<1>2. CASE p # None
  <2>1. item' = [profile |-> p,
                 gfx     |-> IF GfxSupported(p, selection') THEN "open" ELSE None,
                 greeter |-> IF GreeterSupported(p) THEN DefaultGreeter(p, selection') ELSE None]
        /\ enabled' = [gfx |-> GfxSupported(p, selection'), greeter |-> GreeterSupported(p)]
    BY <1>2 DEF Taken
  <2>2. GfxSupported(p, selection') \in BOOLEAN /\ GreeterSupported(p) \in BOOLEAN
    BY <1>2 DEF GfxSupported, GreeterSupported, Tops
  <2>3. DefaultGreeter(p, selection') \in Greeters \cup {None}
    BY <1>2, DefaultGreeterFacts
  <2>4. ~GreeterSupported(p) => DefaultGreeter(p, selection') = None
    BY DEF GreeterSupported, DefaultGreeter
  <2>5. item' \in Configuration /\ enabled' \in [gfx : BOOLEAN, greeter : BOOLEAN]
    BY <1>2, <2>1, <2>2, <2>3, ProfilesAssumption DEF Configuration
  <2>6. item'.profile = p
        /\ item'.gfx = (IF GfxSupported(p, selection') THEN "open" ELSE None)
        /\ item'.greeter = DefaultGreeter(p, selection')
    BY <2>1, <2>4
  <2>7. Fits(item)'
    BY <2>6 DEF Fits
  <2> QED BY <2>5, <2>6, <2>7
<1> QED BY <1>1, <1>2

LEMMA InitInv == ProfileInit => IInv
<1> SUFFICES ASSUME ProfileInit PROVE IInv
  OBVIOUS
<1>1. ProfileTypeOK
  <2>1. selection \in [Tops -> Seq(Desktops \cup Servers)] /\ selection["Desktop"] \in Seq(Desktops)
    BY DEF ProfileInit, Tops
  <2>2. settings \in [Seated -> Accesses \cup {None}]
    BY DEF ProfileInit
  <2>3. Blank \in Configuration
    BY DEF Blank, Configuration
  <2>4. enabled \in [gfx : BOOLEAN, greeter : BOOLEAN]
    BY DEF ProfileInit
  <2>5. 0 \in 0..MaxSteps
    BY ProfilesAssumption
  <2> QED BY <2>1, <2>2, <2>3, <2>4, <2>5 DEF ProfileInit, ProfileTypeOK
<1>2. SeatsAnswered
  BY DEF ProfileInit, SeatsAnswered, ToSet, Tops
<1> QED BY <1>1, <1>2 DEF ProfileInit, IInv, FileInv, SourceInv

\* The shape of the configuration and the selection, which the steps in the menu
\* rely on.
LEMMA TypeSelection ==
  ASSUME ProfileTypeOK
  PROVE  /\ selection \in [Tops -> Seq(Desktops \cup Servers)]
         /\ selection["Desktop"] \in Seq(Desktops)
         /\ enabled \in [gfx : BOOLEAN, greeter : BOOLEAN]
         /\ item \in Configuration
BY DEF ProfileTypeOK

LEMMA StepsCount == ASSUME ProfileTypeOK, Limited PROVE steps' \in 0..MaxSteps
BY ProfilesAssumption DEF ProfileTypeOK, Limited

\* What is kept in files and what they were saved from does not change in the menu.
LEMMA FilesKept ==
  ASSUME FileInv, SourceInv, UNCHANGED <<file, source>>
  PROVE  FileInv' /\ SourceInv'
BY DEF FileInv, SourceInv, ParsedSelection

\* A step in the menu of types that takes p and leaves the selection to p alone.
LEMMA TypeStep ==
  ASSUME NEW p \in Tops \cup {None}, IInv, TypeItem, Taken(p, selection'),
         selection' \in [Tops -> Seq(Desktops \cup Servers)],
         selection'["Desktop"] \in Seq(Desktops),
         Only(p)', SeatsAnswered',
         settings' \in [Seated -> Accesses \cup {None}],
         UNCHANGED <<pc, config, file, source>>
  PROVE  IInv'
<1>1. picked' = FALSE /\ pc' = "profile"
  BY DEF TypeItem
<1>2. /\ item' \in Configuration /\ item'.profile = p
      /\ Fits(item)'
      /\ enabled' \in [gfx : BOOLEAN, greeter : BOOLEAN]
  BY <1>1, TakenFits, TypeSelection DEF IInv
<1>3. ProfileTypeOK'
  BY <1>1, <1>2, StepsCount DEF IInv, ProfileTypeOK, TypeItem
<1>4. Only(item.profile)'
  BY <1>2 DEF Only
<1>5. FileInv' /\ SourceInv'
  BY FilesKept DEF IInv
<1> QED BY <1>1, <1>2, <1>3, <1>4, <1>5 DEF IInv

LEMMA ItemProfile == ASSUME IInv PROVE item.profile \in Tops \cup {None}
BY DEF IInv, ProfileTypeOK, Configuration

LEMMA SkipTypeInv == ASSUME IInv, SkipType PROVE IInv'
<1>1. Taken(item.profile, selection')
  BY DEF SkipType
<1>2. Only(item.profile)
  BY DEF IInv, SkipType, TypeItem
<1> DEFINE p == item.profile
<1>3. p \in Tops \cup {None}
  BY ItemProfile
<1>4. \A q : q = p => Only(q)'
  BY <1>2 DEF Only, SkipType
<1>5. SeatsAnswered' /\ settings' \in [Seated -> Accesses \cup {None}]
  BY DEF IInv, ProfileTypeOK, SeatsAnswered, SkipType
<1>6. /\ selection' \in [Tops -> Seq(Desktops \cup Servers)]
      /\ selection'["Desktop"] \in Seq(Desktops)
  BY TypeSelection DEF IInv, SkipType
<1>7. \A q \in Tops \cup {None} : q = p => IInv'
  <2> SUFFICES ASSUME NEW q \in Tops \cup {None}, q = p PROVE IInv'
    OBVIOUS
  <2>1. Taken(q, selection') /\ Only(q)'
    BY <1>1, <1>4
  <2> QED BY <1>5, <1>6, <2>1, TypeStep DEF SkipType
<1> QED BY <1>3, <1>7

LEMMA ResetTypeInv == ASSUME IInv, ResetType PROVE IInv'
<1>1. Only(None)'
  BY DEF Only
<1>2. SeatsAnswered' /\ settings' \in [Seated -> Accesses \cup {None}]
  BY DEF IInv, ProfileTypeOK, SeatsAnswered, ResetType
<1>3. /\ selection' \in [Tops -> Seq(Desktops \cup Servers)]
      /\ selection'["Desktop"] \in Seq(Desktops)
      /\ Taken(None, selection')
  BY TypeSelection DEF IInv, ResetType
<1> QED BY <1>1, <1>2, <1>3, TypeStep DEF ResetType

LEMMA ResetSelectionInv == ASSUME IInv, ResetSelection PROVE IInv'
<1>1. Only(None)'
  BY DEF Only
<1>2. /\ selection' \in [Tops -> Seq(Desktops \cup Servers)]
      /\ selection'["Desktop"] = <<>> /\ selection'["Desktop"] \in Seq(Desktops)
  BY DEF ResetSelection, Tops
<1>3. SeatsAnswered' /\ settings' \in [Seated -> Accesses \cup {None}]
  BY <1>2 DEF IInv, ProfileTypeOK, SeatsAnswered, ResetSelection, ToSet
<1> QED BY <1>1, <1>2, <1>3, TypeStep DEF ResetSelection

\* No selection but p's is left.
LEMMA OthersReset ==
  ASSUME NEW p \in Tops, NEW sel, sel \in [Tops -> Seq(Desktops \cup Servers)],
         sel["Desktop"] \in Seq(Desktops)
  PROVE  /\ ResetOthers(p, sel) \in [Tops -> Seq(Desktops \cup Servers)]
         /\ ResetOthers(p, sel)["Desktop"] \in Seq(Desktops)
         /\ \A t \in Tops : t # p => ResetOthers(p, sel)[t] = <<>>
         /\ ResetOthers(p, sel)[p] = sel[p]
BY DEF ResetOthers, Tops

LEMMA SelectPlainInv ==
  ASSUME IInv, NEW p \in {"Xorg", "Minimal"}, SelectPlain(p)
  PROVE  IInv'
<1>1. p \in Tops /\ p # "Desktop" /\ "Desktop" \in Tops
  BY DEF Tops
<1>2. selection' = ResetOthers(p, selection)
  BY DEF SelectPlain
<1>3. /\ selection' \in [Tops -> Seq(Desktops \cup Servers)]
      /\ selection'["Desktop"] \in Seq(Desktops)
      /\ \A t \in Tops : t # p => selection'[t] = <<>>
  BY <1>1, <1>2, OthersReset, TypeSelection DEF IInv
<1>4. Only(p)' /\ selection'["Desktop"] = <<>>
  BY <1>1, <1>3 DEF Only
<1>5. SeatsAnswered' /\ settings' \in [Seated -> Accesses \cup {None}]
  BY <1>4 DEF IInv, ProfileTypeOK, SeatsAnswered, SelectPlain, ToSet
<1> QED BY <1>1, <1>3, <1>4, <1>5, TypeStep DEF SelectPlain

\* The entries of a menu that can be chosen are its own.
LEMMA ChosenType ==
  ASSUME NEW S, NEW c \in TupleOf(S, 1) \cup TupleOf(S, 2)
  PROVE  c \in Seq(S)
<1>1. PICK n \in Nat : c \in [1..n -> S]
  BY DEF TupleOf
<1> QED BY <1>1, SeqDef

LEMMA SelectSubInv ==
  ASSUME IInv, NEW p \in {"Desktop", "Server"}, SelectSub(p)
  PROVE  IInv'
<1>1. p \in Tops /\ "Desktop" \in Tops
  BY DEF Tops
<1>2. PICK c \in TupleOf(SubProfiles(p), 1) \cup TupleOf(SubProfiles(p), 2) :
        selection' = ResetOthers(p, [selection EXCEPT ![p] = c])
  BY DEF SelectSub
<1>3. c \in Seq(SubProfiles(p))
  BY <1>2, ChosenType
<1>4. c \in Seq(Desktops \cup Servers) /\ (p = "Desktop" => c \in Seq(Desktops))
  BY <1>3 DEF SubProfiles
<1> DEFINE sel == [selection EXCEPT ![p] = c]
<1>5. sel \in [Tops -> Seq(Desktops \cup Servers)] /\ sel["Desktop"] \in Seq(Desktops)
  BY <1>1, <1>4, TypeSelection DEF IInv
<1>6. selection' = ResetOthers(p, sel)
  BY <1>2
<1> HIDE DEF sel
<1>7. /\ selection' \in [Tops -> Seq(Desktops \cup Servers)]
      /\ selection'["Desktop"] \in Seq(Desktops)
      /\ \A t \in Tops : t # p => selection'[t] = <<>>
  BY <1>1, <1>5, <1>6, OthersReset
<1>8. Only(p)'
  BY <1>7 DEF Only
<1> DEFINE asked == IF p = "Desktop" THEN Asked(selection[p], selection'[p]) ELSE {}
<1>9. PICK answers \in [asked -> Accesses] :
        settings' = [d \in Seated |-> IF d \in asked THEN answers[d] ELSE settings[d]]
  BY DEF SelectSub
<1>10. settings' \in [Seated -> Accesses \cup {None}]
  BY <1>9 DEF IInv, ProfileTypeOK
<1>11. \A a \in Accesses : a # None
  BY ProfilesAssumption DEF Accesses
<1>12. SeatsAnswered'
  <2>1. CASE p = "Desktop"
    <3>1. asked = ToSet(selection'["Desktop"]) \cap Seated
      BY <2>1 DEF Asked
    <3> QED BY <1>9, <1>11, <3>1 DEF SeatsAnswered
  <2>2. CASE p # "Desktop"
    BY <1>1, <1>7, <2>2 DEF SeatsAnswered, ToSet
  <2> QED BY <2>1, <2>2
<1> QED BY <1>1, <1>7, <1>8, <1>10, <1>12, TypeStep DEF SelectSub

LEMMA OpenInv == ASSUME IInv, OpenMenu PROVE IInv'
<1>1. pc = "global" /\ pc' = "profile" /\ UNCHANGED <<selection, settings, config, file, source, picked>>
  BY DEF OpenMenu
<1>2. CASE config = None
  <2>1. item' = Blank /\ Blank \in Configuration /\ Blank.profile = None
    BY <1>2 DEF OpenMenu, Blank, Configuration
  <2>2. enabled' = [gfx |-> FALSE, greeter |-> FALSE]
    BY <2>1 DEF OpenMenu
  <2>3. Only(item.profile)' /\ Fits(item)'
    BY <2>1 DEF Only, Fits
  <2>4. ProfileTypeOK'
    BY <1>1, <2>1, <2>2, StepsCount DEF IInv, ProfileTypeOK, OpenMenu
  <2>5. FileInv' /\ SourceInv' /\ SeatsAnswered'
    BY <1>1, FilesKept DEF IInv, SeatsAnswered
  <2> QED BY <1>1, <2>3, <2>4, <2>5 DEF IInv
<1>3. CASE config # None
  <2>1. item' = config /\ config \in Configuration
    BY <1>3 DEF OpenMenu, IInv, ProfileTypeOK
  <2>2. enabled' \in [gfx : BOOLEAN, greeter : BOOLEAN]
    <3> DEFINE on == item'.profile # None /\ GfxSupported(item'.profile, selection)
    <3>1. on \in BOOLEAN
      OBVIOUS
    <3>2. enabled' = [gfx |-> on, greeter |-> on]
      BY DEF OpenMenu
    <3> HIDE DEF on
    <3> QED BY <3>1, <3>2
  <2>3. Only(item.profile)' /\ Fits(item)'
    BY <1>1, <1>3, <2>1 DEF Only, Fits, GfxSupported, DefaultGreeter, IInv
  <2>4. ProfileTypeOK'
    BY <1>1, <2>1, <2>2, StepsCount DEF IInv, ProfileTypeOK, OpenMenu
  <2>5. FileInv' /\ SourceInv' /\ SeatsAnswered'
    BY <1>1, FilesKept DEF IInv, SeatsAnswered
  <2> QED BY <1>1, <2>3, <2>4, <2>5 DEF IInv
<1> QED BY <1>2, <1>3

LEMMA SelectGfxInv == ASSUME IInv, SelectGfx PROVE IInv'
<1>1. PICK d \in Drivers \cup {None} : item' = [item EXCEPT !.gfx = d]
  BY DEF SelectGfx
<1>2. item' \in Configuration /\ item'.profile = item.profile /\ item'.greeter = item.greeter
  BY <1>1 DEF IInv, ProfileTypeOK, Configuration
<1>3. GfxSupported(item.profile, selection)
  BY DEF SelectGfx
<1>4. Only(item.profile)' /\ Fits(item)'
  BY <1>2, <1>3 DEF Only, Fits, GfxSupported, DefaultGreeter, IInv, SelectGfx
<1>5. ProfileTypeOK'
  BY <1>2, StepsCount DEF IInv, ProfileTypeOK, SelectGfx
<1>6. FileInv' /\ SourceInv' /\ SeatsAnswered'
  BY FilesKept DEF IInv, SeatsAnswered, SelectGfx
<1> QED BY <1>4, <1>5, <1>6 DEF IInv, SelectGfx

LEMMA SelectGreeterInv == ASSUME IInv, SelectGreeter PROVE IInv'
<1>1. PICK g \in Greeters : item' = [item EXCEPT !.greeter = g]
  BY DEF SelectGreeter
<1>2. item' \in Configuration /\ item'.profile = item.profile /\ item'.gfx = item.gfx
  BY <1>1 DEF IInv, ProfileTypeOK, Configuration
<1>3. picked'
  BY DEF SelectGreeter
<1>4. Only(item.profile)' /\ Fits(item)'
  BY <1>2, <1>3 DEF Only, Fits, GfxSupported, DefaultGreeter, IInv, SelectGreeter
<1>5. ProfileTypeOK'
  BY <1>2, StepsCount DEF IInv, ProfileTypeOK, SelectGreeter
<1>6. FileInv' /\ SourceInv' /\ SeatsAnswered'
  BY FilesKept DEF IInv, SeatsAnswered, SelectGreeter
<1> QED BY <1>4, <1>5, <1>6 DEF IInv, SelectGreeter

\* The menu hands its items over as the configuration.
LEMMA BackInv == ASSUME IInv, Back PROVE IInv'
<1>1. config' = item /\ pc = "profile" /\ pc' = "global"
  BY DEF Back
<1>2. Only(config.profile)' /\ Fits(config)'
  BY <1>1 DEF Only, Fits, GfxSupported, DefaultGreeter, IInv, Back
<1>3. ProfileTypeOK'
  BY <1>1 DEF IInv, ProfileTypeOK, Back
<1>4. FileInv' /\ SourceInv' /\ SeatsAnswered'
  BY FilesKept DEF IInv, SeatsAnswered, Back
<1> QED BY <1>1, <1>2, <1>3, <1>4 DEF IInv

LEMMA ResetMenuInv == ASSUME IInv, ResetMenu PROVE IInv'
<1>1. config' = None /\ pc' = "global"
  BY DEF ResetMenu
<1>2. ProfileTypeOK'
  BY <1>1 DEF IInv, ProfileTypeOK, ResetMenu
<1>3. FileInv' /\ SourceInv' /\ SeatsAnswered'
  BY FilesKept DEF IInv, SeatsAnswered, ResetMenu
<1> QED BY <1>1, <1>2, <1>3 DEF IInv

\* What a file without and with a profile holds.
LEMMA JsonParts ==
  ASSUME NEW f \in Json
  PROVE  /\ f.main \in Tops \cup {None}
         /\ f.gfx \in Drivers \cup {None} /\ f.greeter \in Greeters \cup {None}
         /\ f.main # None =>
              /\ f.details \in Seq(Desktops \cup Servers)
              /\ \E ds \in SUBSET Seated : f.custom_settings \in [ds -> Accesses \cup {None}]
<1>1. CASE f \in [main : {None}, gfx : Drivers \cup {None}, greeter : Greeters \cup {None}]
  BY <1>1
<1>2. CASE f \in [main : Tops, details : Seq(Desktops \cup Servers),
                  custom_settings : UNION {[ds -> Accesses \cup {None}] : ds \in SUBSET Seated},
                  gfx : Drivers \cup {None}, greeter : Greeters \cup {None}]
  BY <1>2
<1> QED BY <1>1, <1>2 DEF Json

\* The file of a configuration without a profile.
LEMMA ToJsonWithout ==
  ASSUME config \in Configuration, config.profile = None
  PROVE  /\ ToJson \in Json /\ ToJson.main = None
         /\ ToJson.gfx = config.gfx /\ ToJson.greeter = config.greeter
BY DEF ToJson, Json, Configuration

\* The file of a configuration with a profile.
LEMMA ToJsonWith ==
  ASSUME ProfileTypeOK, config \in Configuration, config.profile # None
  PROVE  /\ ToJson \in Json /\ ToJson.main = config.profile
         /\ ToJson.gfx = config.gfx /\ ToJson.greeter = config.greeter
         /\ ToJson.details = selection[config.profile]
         /\ ToJson.custom_settings =
              [d \in ToSet(selection[config.profile]) \cap Seated |-> settings[d]]
<1> DEFINE seats == ToSet(selection[config.profile]) \cap Seated
           answers == [d \in seats |-> settings[d]]
<1>1. config.profile \in Tops /\ config.gfx \in Drivers \cup {None}
      /\ config.greeter \in Greeters \cup {None}
  BY DEF Configuration
<1>2. selection[config.profile] \in Seq(Desktops \cup Servers)
  BY <1>1 DEF ProfileTypeOK
<1>3. answers \in [seats -> Accesses \cup {None}] /\ seats \in SUBSET Seated
  BY DEF ProfileTypeOK
<1>4. ToJson = [main |-> config.profile, details |-> selection[config.profile],
                custom_settings |-> answers, gfx |-> config.gfx, greeter |-> config.greeter]
  BY DEF ToJson
<1> HIDE DEF answers, seats
<1>5. answers \in UNION {[ds -> Accesses \cup {None}] : ds \in SUBSET Seated}
  BY <1>3
<1>6. ToJson \in Json
  BY <1>1, <1>2, <1>4, <1>5 DEF Json
<1> QED BY <1>4, <1>6 DEF answers, seats

\* The selection that is read from a file.
LEMMA ParsedSelectionOf ==
  ASSUME NEW f \in Json, f.main = "Desktop" => f.details \in Seq(Desktops)
  PROVE  /\ ParsedSelection(f) \in [Tops -> Seq(Desktops \cup Servers)]
         /\ ParsedSelection(f)["Desktop"] \in Seq(Desktops)
         /\ ParsedSelection(f)["Desktop"] = IF f.main = "Desktop" THEN f.details ELSE <<>>
         /\ \A t \in Tops : t # f.main => ParsedSelection(f)[t] = <<>>
         /\ f.main # None => ParsedSelection(f)[f.main] = f.details
<1>1. \A t \in Tops : ParsedSelection(f)[t] = IF f.main = t THEN f.details ELSE <<>>
  BY DEF ParsedSelection
<1>2. \A t \in Tops : ParsedSelection(f)[t] \in Seq(Desktops \cup Servers)
  <2>1. f.main # None => f.details \in Seq(Desktops \cup Servers)
    BY JsonParts
  <2>2. <<>> \in Seq(Desktops \cup Servers)
    OBVIOUS
  <2>3. \A t \in Tops : f.main = t => f.main # None
    BY NoneIsNoProfile
  <2> QED BY <1>1, <2>1, <2>2, <2>3
<1>3. ParsedSelection(f) \in [Tops -> Seq(Desktops \cup Servers)]
  BY <1>2 DEF ParsedSelection
<1>4. "Desktop" \in Tops
  BY DEF Tops
<1>5. f.main # None => f.main \in Tops
  BY JsonParts
<1> QED BY <1>1, <1>3, <1>4, <1>5

LEMMA SaveFile ==
  ASSUME IInv, Save, config # None
  PROVE  /\ file' \in Json
         /\ file'.main = "Desktop" => file'.details \in Seq(Desktops)
         /\ FileInv'
         /\ SourceInv'
<1>1. config \in Configuration /\ file' = ToJson
  BY DEF IInv, ProfileTypeOK, Save
<1>2. CASE config.profile = None
  <2>1. file' \in Json /\ file'.main = None
        /\ file'.gfx = config.gfx /\ file'.greeter = config.greeter
    BY <1>1, <1>2, ToJsonWithout
  <2>2. file'.main # "Desktop"
    BY <2>1, NoneIsNoProfile DEF Tops
  <2>3. config = [profile |-> None, gfx |-> file'.gfx, greeter |-> file'.greeter]
    BY <1>1, <1>2, <2>1 DEF Configuration
  <2>4. file' # None /\ source'.config = config
    BY <2>1, ConfigurationAssumption DEF Save, State
  <2> QED BY <2>1, <2>2, <2>3, <2>4 DEF FileInv, SourceInv
<1>3. CASE config.profile # None
  <2>1. /\ file' \in Json /\ file'.main = config.profile
        /\ file'.gfx = config.gfx /\ file'.greeter = config.greeter
        /\ file'.details = selection[config.profile]
        /\ file'.custom_settings =
              [d \in ToSet(selection[config.profile]) \cap Seated |-> settings[d]]
    BY <1>1, <1>3, ToJsonWith DEF IInv
  <2>2. file'.main = "Desktop" => file'.details \in Seq(Desktops)
    BY <2>1 DEF IInv, ProfileTypeOK
  <2>3. file'.main = "Desktop" =>
          \A d \in ToSet(file'.details) \cap Seated :
            d \in DOMAIN file'.custom_settings /\ file'.custom_settings[d] # None
    BY <2>1 DEF IInv, SeatsAnswered
  <2>4. file'.gfx # None => GfxSupported(file'.main, ParsedSelection(file'))
    <3>1. config.profile \in Tops
      BY <1>1, <1>3 DEF Configuration
    <3>2. ParsedSelection(file')[config.profile] = selection[config.profile]
      BY <2>1, <3>1 DEF ParsedSelection
    <3>3. config.gfx # None => GfxSupported(config.profile, selection)
      BY <1>3 DEF IInv, Fits, Save
    <3> QED BY <2>1, <3>2, <3>3 DEF GfxSupported
  <2>5. config = [profile |-> file'.main, gfx |-> file'.gfx, greeter |-> file'.greeter]
    BY <1>1, <2>1 DEF Configuration
  <2>6. /\ file' # None
        /\ source'.config = config /\ source'.selection = selection
        /\ source'.settings = [d \in ToSet(selection["Desktop"]) \cap Seated |-> settings[d]]
    BY <2>1, ConfigurationAssumption DEF Save, State
  <2>7. FileInv'
    BY <2>3, <2>4 DEF FileInv
  <2>8. SourceInv'
    BY <2>1, <2>5, <2>6 DEF SourceInv
  <2> QED BY <2>1, <2>2, <2>7, <2>8
<1> QED BY <1>2, <1>3

LEMMA SaveInv == ASSUME IInv, Save PROVE IInv'
<1>1. CASE config = None
  <2>1. file' = None /\ source'.config = None
    BY <1>1 DEF Save, State
  <2>2. ProfileTypeOK' /\ FileInv' /\ SourceInv' /\ SeatsAnswered'
    BY <2>1, StepsCount DEF IInv, ProfileTypeOK, Save, FileInv, SourceInv, SeatsAnswered
  <2> QED BY <1>1, <2>2 DEF IInv, Save
<1>2. CASE config # None
  <2>1. ProfileTypeOK'
    BY <1>2, SaveFile, StepsCount DEF IInv, ProfileTypeOK, Save
  <2>2. SeatsAnswered'
    BY DEF IInv, SeatsAnswered, Save
  <2>3. Only(config.profile)' /\ Fits(config)'
    BY <1>2 DEF IInv, Only, Fits, GfxSupported, DefaultGreeter, Save
  <2> QED BY <1>2, <2>1, <2>2, <2>3, SaveFile DEF IInv, Save
<1> QED BY <1>1, <1>2

\* What a file's settings become.
LEMMA ParsedSettingsOf ==
  ASSUME NEW f \in Json
  PROVE  /\ ParsedSettings(f) \in [Seated -> Accesses \cup {None}]
         /\ f.main # None =>
              \A d \in Seated : d \in DOMAIN f.custom_settings =>
                 ParsedSettings(f)[d] = f.custom_settings[d]
<1>1. CASE f.main = None
  BY <1>1 DEF ParsedSettings
<1>2. CASE f.main # None
  <2>1. PICK ds \in SUBSET Seated : f.custom_settings \in [ds -> Accesses \cup {None}]
    BY <1>2, JsonParts
  <2> QED BY <1>2, <2>1 DEF ParsedSettings
<1> QED BY <1>1, <1>2

LEMMA LoadInv == ASSUME IInv, Load PROVE IInv'
<1>1. /\ picked' /\ picked' \in BOOLEAN /\ pc' = "global" /\ UNCHANGED <<file, source>>
      /\ item' = Blank /\ Blank \in Configuration
      /\ enabled' \in [gfx : BOOLEAN, greeter : BOOLEAN]
  BY DEF Load, Blank, Configuration
<1>2. FileInv' /\ SourceInv'
  BY <1>1, FilesKept DEF IInv
<1>3. CASE file = None
  <2>1. config' = None /\ selection' = [t \in Tops |-> <<>>] /\ settings' = [d \in Seated |-> None]
    BY <1>3 DEF Load
  <2>2. /\ selection' \in [Tops -> Seq(Desktops \cup Servers)]
        /\ selection'["Desktop"] \in Seq(Desktops) /\ selection'["Desktop"] = <<>>
        /\ settings' \in [Seated -> Accesses \cup {None}]
    BY <2>1 DEF Tops
  <2>3. ProfileTypeOK'
    BY <1>1, <2>1, <2>2, StepsCount DEF IInv, ProfileTypeOK, Load
  <2>4. SeatsAnswered'
    BY <2>2 DEF SeatsAnswered, ToSet
  <2> QED BY <1>1, <1>2, <2>1, <2>3, <2>4 DEF IInv
<1>4. CASE file # None
  <2>1. /\ config' = [profile |-> file.main, gfx |-> file.gfx, greeter |-> file.greeter]
        /\ selection' = ParsedSelection(file) /\ settings' = ParsedSettings(file)
    BY <1>4 DEF Load
  <2>2. file \in Json /\ (file.main = "Desktop" => file.details \in Seq(Desktops))
    BY <1>4 DEF IInv, ProfileTypeOK
  <2>3. /\ selection' \in [Tops -> Seq(Desktops \cup Servers)]
        /\ selection'["Desktop"] \in Seq(Desktops)
        /\ selection'["Desktop"] = IF file.main = "Desktop" THEN file.details ELSE <<>>
        /\ \A t \in Tops : t # file.main => selection'[t] = <<>>
    BY <2>1, <2>2, ParsedSelectionOf
  <2>4. config' \in Configuration /\ config'.profile = file.main /\ config'.gfx = file.gfx
    BY <2>1, <2>2, JsonParts DEF Configuration
  <2>5. settings' \in [Seated -> Accesses \cup {None}]
    BY <2>1, <2>2, ParsedSettingsOf
  <2>6. ProfileTypeOK'
    BY <1>1, <2>3, <2>4, <2>5, StepsCount DEF IInv, ProfileTypeOK, Load
  <2>7. SeatsAnswered'
    <3>1. CASE file.main = "Desktop"
      <4>1. file.main # None
        BY <3>1, NoneIsNoProfile DEF Tops
      <4>2. \A d \in ToSet(file.details) \cap Seated :
               d \in DOMAIN file.custom_settings /\ file.custom_settings[d] # None
        BY <1>4, <3>1 DEF IInv, FileInv
      <4>3. \A d \in Seated : d \in DOMAIN file.custom_settings =>
               settings'[d] = file.custom_settings[d]
        BY <2>1, <2>2, <4>1, ParsedSettingsOf
      <4> QED BY <2>3, <3>1, <4>2, <4>3 DEF SeatsAnswered
    <3>2. CASE file.main # "Desktop"
      BY <2>3, <3>2 DEF SeatsAnswered, ToSet
    <3> QED BY <3>1, <3>2
  <2>8. Only(config.profile)'
    BY <2>3, <2>4 DEF Only
  <2>9. Fits(config)'
    <3>1. file.main # None /\ file.gfx # None => GfxSupported(file.main, ParsedSelection(file))
      BY <1>4 DEF IInv, FileInv
    <3> QED BY <1>1, <2>1, <2>4, <3>1 DEF Fits
  <2> QED BY <1>1, <1>2, <2>6, <2>7, <2>8, <2>9 DEF IInv
<1> QED BY <1>3, <1>4

LEMMA NextInv == ASSUME IInv, [ProfileNext]_profileVars PROVE IInv'
<1>1. CASE UNCHANGED profileVars
  BY <1>1 DEF profileVars, IInv, ProfileTypeOK, Only, Fits, GfxSupported, DefaultGreeter, SeatsAnswered,
              FileInv, SourceInv, ParsedSelection
<1>2. CASE ProfileNext
  BY <1>2, OpenInv, SkipTypeInv, ResetTypeInv, ResetSelectionInv, SelectPlainInv, SelectSubInv,
     SelectGfxInv, SelectGreeterInv, BackInv, ResetMenuInv, SaveInv, LoadInv DEF ProfileNext
<1> QED BY <1>1, <1>2

LEMMA SpecInv == ProfileSpec => []IInv
BY InitInv, NextInv, PTL DEF ProfileSpec

-----------------------------------------------------------------------------

\* The variables keep their types, and files hold what a configuration can become.
THEOREM ProfilesTypeCorrect == ProfileSpec => []ProfileTypeOK
<1>1. IInv => ProfileTypeOK
  BY DEF IInv
<1> QED BY <1>1, SpecInv, PTL

\* Nothing of a former choice stays beside a configuration's profile, and every
\* selected desktop that needs access to the seat has its answer (profile_menu.py:211).
THEOREM SelectionStaysWhole == ProfileSpec => []SelectionIsWhole
<1>1. IInv => SelectionIsWhole
  BY NoneIsNoProfile DEF IInv, SelectionIsWhole, AtRest, Only, SeatsAnswered
<1> QED BY <1>1, SpecInv, PTL

\* Driver and greeter belong to the selection, also after files and skipped menus.
THEOREM OptionsFollow == ProfileSpec => []OptionsFollowTheSelection
<1>1. IInv => OptionsFollowTheSelection
  <2> SUFFICES ASSUME IInv, NEW p \in Tops, AtRest(p)
               PROVE  /\ config.gfx # None => GfxSupported(p, selection)
                      /\ ~picked => IF p = "Desktop" THEN ComesWith(config.greeter, selection[p])
                                    ELSE config.greeter = None
    BY DEF OptionsFollowTheSelection
  <2>1. Fits(config) /\ config.profile = p
    BY DEF IInv, AtRest
  <2>2. selection["Desktop"] \in Seq(Desktops)
    BY DEF IInv, ProfileTypeOK
  <2>3. IF p = "Desktop" THEN ComesWith(DefaultGreeter(p, selection), selection[p])
        ELSE DefaultGreeter(p, selection) = None
    BY <2>2, DefaultGreeterFacts
  <2>4. QED BY <2>1, <2>3, NoneIsNoProfile DEF Fits
<1> QED BY <1>1, SpecInv, PTL

\* What was saved is what the next run starts with (profiles_handler.py:37, 55).
THEOREM SavedProfileComesBack == ProfileSpec => LoadRestoresTheProfile
<1>1. ASSUME IInv, Load
      PROVE  /\ config' = source.config
             /\ \A p \in Tops : config' # None /\ config'.profile = p =>
                  /\ selection'[p] = source.selection[p]
                  /\ p = "Desktop" =>
                       \A d \in DOMAIN source.settings : settings'[d] = source.settings[d]
  <2>1. source # None /\ SourceInv /\ ProfileTypeOK
    BY <1>1 DEF Load, IInv
  <2>2. CASE file = None
    BY <1>1, <2>1, <2>2 DEF Load, SourceInv
  <2>3. CASE file # None
    <3>1. /\ config' = [profile |-> file.main, gfx |-> file.gfx, greeter |-> file.greeter]
          /\ selection' = ParsedSelection(file) /\ settings' = ParsedSettings(file)
      BY <1>1, <2>3 DEF Load
    <3>2. file \in Json /\ (file.main = "Desktop" => file.details \in Seq(Desktops))
      BY <2>1, <2>3 DEF ProfileTypeOK
    <3>3. config' = source.config /\ config'.profile = file.main
      BY <2>1, <2>3, <3>1 DEF SourceInv
    <3>4. ASSUME NEW p \in Tops, file.main = p
          PROVE  selection'[p] = source.selection[p]
      BY <2>1, <2>3, <3>1, <3>2, <3>4, ParsedSelectionOf, NoneIsNoProfile DEF SourceInv
    <3>5. ASSUME file.main = "Desktop", NEW d \in DOMAIN source.settings
          PROVE  settings'[d] = source.settings[d]
      <4>1. file.main # None
        BY <3>5, NoneIsNoProfile DEF Tops
      <4>2. d \in Seated /\ d \in DOMAIN file.custom_settings
            /\ file.custom_settings[d] = source.settings[d]
        BY <2>1, <2>3, <3>5 DEF SourceInv
      <4> QED BY <3>1, <3>2, <4>1, <4>2, ParsedSettingsOf
    <3> QED BY <3>3, <3>4, <3>5
  <2> QED BY <2>2, <2>3
<1>2. IInv /\ [ProfileNext]_profileVars =>
        [Load => /\ config' = source.config
                 /\ \A p \in Tops : config' # None /\ config'.profile = p =>
                      /\ selection'[p] = source.selection[p]
                      /\ p = "Desktop" =>
                           \A d \in DOMAIN source.settings :
                              settings'[d] = source.settings[d]]_profileVars
  BY <1>1
<1> QED BY <1>2, SpecInv, PTL DEF ProfileSpec, LoadRestoresTheProfile

===============================================================================
