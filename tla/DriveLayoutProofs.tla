-------------------------- MODULE DriveLayoutProofs --------------------------
(***************************************************************************)
(* Proofs about CreatePartition() and FormatLargeFAT32(), for drives of    *)
(* any size and geometry.  They rest on four kinds of facts:               *)
(*                                                                         *)
(*  - rounding: what FLOOR_ALIGN and CEILING_ALIGN do to an offset;        *)
(*                                                                         *)
(*  - the layout: the offsets go up from the first one and down from the   *)
(*    last, losing less than two tracks to each extra partition;           *)
(*                                                                         *)
(*  - the file system: a FAT of the estimated size has an entry for each   *)
(*    of the clusters that it leaves;                                      *)
(*                                                                         *)
(*  - the invariant (IInv): the layout that is written is the one that was *)
(*    computed (Laying), the volume is its main partition (Opened), and    *)
(*    has passed the checks of the steps before (Making).                  *)
(***************************************************************************)
EXTENDS DriveLayout, TLAPS


-----------------------------------------------------------------------------
(* Rounding.                                                                *)

\* The provers have few facts about the quotient of two unknowns: these are stated once.
LEMMA Quotient ==
    ASSUME NEW x \in Int, NEW y \in Nat \ {0}
    PROVE  /\ x \div y \in Int
           /\ (x \div y) * y <= x /\ x < (x \div y) * y + y
           /\ x % y = x - (x \div y) * y
  OBVIOUS

\* A multiple leaves no remainder...
LEMMA MultipleOf ==
    ASSUME NEW q \in Int, NEW y \in Nat \ {0}
    PROVE  /\ (q * y) \div y = q
           /\ (q * y) % y = 0
<1> DEFINE s == (q * y) \div y
<1>0. q * y \in Int
  OBVIOUS
<1>1. s \in Int /\ s * y <= q * y /\ q * y < s * y + y /\ (q * y) % y = q * y - s * y
  BY <1>0, Quotient, Zenon
<1> HIDE DEF s
<1>2. s <= q
  <2>1. ~(s >= q + 1)
    <3> SUFFICES ASSUME s >= q + 1 PROVE FALSE
      OBVIOUS
    <3>1. (s - q) * y >= y
      BY <1>1
    <3>2. (s - q) * y = s * y - q * y
      BY <1>1
    <3> QED
      BY <1>1, <3>1, <3>2
  <2> QED
    BY <1>1, <2>1
<1>3. q <= s
  <2>1. ~(q >= s + 1)
    <3> SUFFICES ASSUME q >= s + 1 PROVE FALSE
      OBVIOUS
    <3>1. (q - s) * y >= y
      BY <1>1
    <3>2. (q - s) * y = q * y - s * y
      BY <1>1
    <3> QED
      BY <1>1, <3>1, <3>2
  <2> QED
    BY <1>1, <2>1
<1>4. s = q
  BY <1>1, <1>2, <1>3
<1> QED
  BY <1>1, <1>4 DEF s

\* ...and what leaves none is a multiple.
LEMMA IsMultiple ==
    ASSUME NEW x \in Int, NEW y \in Nat \ {0}, x % y = 0
    PROVE  x = (x \div y) * y
  BY Quotient

\* Multiples add up...
LEMMA SumOfMultiples ==
    ASSUME NEW a \in Int, NEW b \in Int, NEW y \in Nat \ {0}, a % y = 0, b % y = 0
    PROVE  (a + b) % y = 0
<1> DEFINE p == a \div y
           q == b \div y
<1>1. p \in Int /\ q \in Int /\ a = p * y /\ b = q * y
  BY IsMultiple, Quotient
<1> HIDE DEF p, q
<1>2. a + b = (p + q) * y
  BY <1>1
<1> QED
  BY <1>1, <1>2, MultipleOf

\* ...and a multiple of a multiple is one.
LEMMA MultipleOfMultiple ==
    ASSUME NEW a \in Int, NEW b \in Nat \ {0}, NEW c \in Nat \ {0}, a % b = 0, b % c = 0
    PROVE  a % c = 0
<1> DEFINE p == a \div b
           q == b \div c
<1>1. p \in Int /\ q \in Int /\ a = p * b /\ b = q * c
  BY IsMultiple, Quotient
<1> HIDE DEF p, q
<1>2. p * (q * c) = (p * q) * c
  BY <1>1
<1>3. a = (p * q) * c
  BY <1>1, <1>2
<1> QED
  BY <1>1, <1>3, MultipleOf

\* FLOOR_ALIGN...
LEMMA FloorLemma ==
    ASSUME NEW x \in Int, NEW y \in Nat \ {0}
    PROVE  /\ FloorAlign(x, y) \in Int
           /\ FloorAlign(x, y) <= x /\ x < FloorAlign(x, y) + y
           /\ FloorAlign(x, y) % y = 0
  BY Quotient, MultipleOf DEF FloorAlign

\* ...and CEILING_ALIGN
LEMMA CeilingLemma ==
    ASSUME NEW x \in Int, NEW y \in Nat \ {0}
    PROVE  /\ CeilingAlign(x, y) \in Int
           /\ CeilingAlign(x, y) >= x /\ CeilingAlign(x, y) < x + y
           /\ CeilingAlign(x, y) % y = 0
<1> DEFINE q == (x + y - 1) \div y
<1>1. q \in Int /\ q * y <= x + y - 1 /\ x + y - 1 < q * y + y
  BY Quotient
<1>2. (q * y) % y = 0
  BY <1>1, MultipleOf
<1> QED
  BY <1>1, <1>2 DEF CeilingAlign

\* Rounding down does not go below a multiple.
LEMMA FloorAbove ==
    ASSUME NEW x \in Int, NEW z \in Int, NEW y \in Nat \ {0}, x % y = 0, x <= z
    PROVE  x <= FloorAlign(z, y)
<1> DEFINE p == x \div y
           q == z \div y
<1>1. p \in Int /\ q \in Int /\ x = p * y /\ z < q * y + y
  BY IsMultiple, Quotient
<1>2. FloorAlign(z, y) = q * y
  BY DEF FloorAlign
<1> HIDE DEF p, q
<1>3. ~(p >= q + 1)
  <2> SUFFICES ASSUME p >= q + 1 PROVE FALSE
    OBVIOUS
  <2>1. (p - q) * y >= y
    BY <1>1
  <2>2. (p - q) * y = p * y - q * y
    BY <1>1
  <2> QED
    BY <1>1, <2>1, <2>2
<1>4. (q - p) * y >= 0
  BY <1>1, <1>3
<1>5. (q - p) * y = q * y - p * y
  BY <1>1
<1> QED
  BY <1>1, <1>2, <1>4, <1>5

-----------------------------------------------------------------------------
(* The drive, and the partitions before and after the main one.             *)

\* The sizes of a drive
LEMMA DriveLemma ==
    ASSUME d \in Drives
    PROVE  /\ d.SectorSize \in Nat \ {0} /\ d.SectorsPerTrack \in Nat \ {0}
           /\ d.SectorSize \in SectorSizes
           /\ d.ClusterSize \in ClusterSizes /\ d.ClusterSize \in Nat \ {0}
           /\ d.DiskSize \in Nat /\ d.persistence_size \in Nat
           /\ bytes_per_track \in Nat \ {0} /\ bytes_per_track <= MB
<1>1. /\ d.SectorSize \in SectorSizes /\ d.SectorsPerTrack \in SectorsPerTracks
      /\ d.ClusterSize \in ClusterSizes /\ d.DiskSize \in DiskSizes
      /\ d.persistence_size \in PersistenceSizes \union {0}
  BY DEF Drives
<1>2. /\ d.SectorSize \in Nat \ {0} /\ d.SectorsPerTrack \in Nat \ {0}
      /\ d.ClusterSize \in Nat \ {0} /\ d.DiskSize \in Nat /\ d.persistence_size \in Nat
  BY <1>1, LayoutAssumption
<1>3. d.SectorSize * d.SectorsPerTrack <= MB
  BY <1>1, LayoutAssumption
<1>4. bytes_per_track = d.SectorSize * d.SectorsPerTrack
  BY <1>2 DEF bytes_per_track
<1>5. d.SectorSize * d.SectorsPerTrack \in Nat \ {0}
  BY <1>2
<1> QED
  BY <1>1, <1>2, <1>3, <1>4, <1>5

\* Two sequences of one partition
LEMMA PairLemma ==
    ASSUME NEW a, NEW b
    PROVE  /\ Len(<<a>> \o <<b>>) = 2
           /\ (<<a>> \o <<b>>)[1] = a /\ (<<a>> \o <<b>>)[2] = b
  OBVIOUS

\* What goes before the main partition: only where there is an ESP, and then GPT
LEMMA FrontLemma ==
    ASSUME d \in Drives
    PROVE  \/ /\ ~d.esp /\ Len(Front) = 0
           \/ /\ d.esp /\ ~d.front /\ Len(Front) = 1
              /\ Front[1].size = msr_size
           \/ /\ d.esp /\ d.front /\ Len(Front) = 2
              /\ Front[1].size = esp_size /\ Front[2].size = msr_size
<1>0. d.esp \in BOOLEAN /\ d.front \in BOOLEAN
  BY DEF Drives
<1>1. CASE ~d.esp
  <2>1. Front = <<>>
    BY <1>1 DEF Front, If
  <2> QED
    BY <1>1, <2>1
<1>2. CASE d.esp /\ ~d.front
  <2>1. Front = <<Entry("msr", msr_size)>>
    BY <1>2 DEF Front, If
  <2> QED
    BY <1>2, <2>1 DEF Entry
<1>3. CASE d.esp /\ d.front
  <2>1. Front = <<Entry("esp", esp_size)>> \o <<Entry("msr", msr_size)>>
    BY <1>3 DEF Front, If
  <2> QED
    BY <1>3, <2>1, PairLemma DEF Entry
<1> QED
  BY <1>0, <1>1, <1>2, <1>3

\* The last of the partitions at the end, if there is any
LastSize ==
    CASE d.esp /\ ~d.front -> CeilingAlign(esp_size, bytes_per_track)
      [] d.uefi_ntfs       -> CeilingAlign(uefi_ntfs_size, bytes_per_track)
      [] OTHER             -> bytes_per_track
IsLast == (d.esp /\ ~d.front) \/ d.uefi_ntfs \/ d.old_bios

\* What goes after the main partition: the persistence, and one more
LEMMA RearLemma ==
    ASSUME d \in Drives
    PROVE  /\ Len(Rear) = (IF d.persistence_size # 0 THEN 1 ELSE 0) + (IF IsLast THEN 1 ELSE 0)
           /\ d.persistence_size # 0 =>
                  Rear[1].size = CeilingAlign(d.persistence_size, bytes_per_track)
           /\ IsLast => Rear[Len(Rear)].size = LastSize
           /\ d.uefi_ntfs => Rear[Len(Rear)].name = "uefi_ntfs"
<1> DEFINE P == Entry("persistence", CeilingAlign(d.persistence_size, bytes_per_track))
           L == CASE d.esp /\ ~d.front -> <<Entry("esp", CeilingAlign(esp_size, bytes_per_track))>>
                  [] d.uefi_ntfs       ->
                         <<Entry("uefi_ntfs", CeilingAlign(uefi_ntfs_size, bytes_per_track))>>
                  [] d.old_bios /\ ~d.uefi_ntfs /\ ~(d.esp /\ ~d.front)
                                       -> <<Entry("compat", bytes_per_track)>>
                  [] OTHER             -> <<>>
<1>1. Rear = If(d.persistence_size # 0, <<P>>) \o L
  BY DEF Rear
<1>2. IsLast => \E name : L = <<Entry(name, LastSize)>> /\ (d.uefi_ntfs => name = "uefi_ntfs")
  <2>1. d.uefi_ntfs => ~d.esp
    BY DEF Drives
  <2>2. CASE d.esp /\ ~d.front
    <3>1. L = <<Entry("esp", LastSize)>>
      BY <2>1, <2>2 DEF LastSize
    <3> QED
      BY <2>1, <2>2, <3>1
  <2>3. CASE d.uefi_ntfs
    BY <2>1, <2>3 DEF LastSize
  <2>4. CASE ~(d.esp /\ ~d.front) /\ ~d.uefi_ntfs /\ d.old_bios
    <3>1. L = <<Entry("compat", LastSize)>>
      BY <2>4 DEF LastSize
    <3> QED
      BY <2>4, <3>1
  <2> QED
    BY <2>2, <2>3, <2>4 DEF IsLast
<1>3. ~IsLast => L = <<>>
  BY DEF IsLast
<1> HIDE DEF P, L
<1>4. P.size = CeilingAlign(d.persistence_size, bytes_per_track)
  BY DEF P, Entry
<1>5. CASE IsLast
  <2>1. PICK name : L = <<Entry(name, LastSize)>> /\ (d.uefi_ntfs => name = "uefi_ntfs")
    BY <1>2, <1>5
  <2>2. Entry(name, LastSize).size = LastSize /\ Entry(name, LastSize).name = name
    BY DEF Entry
  <2>3. CASE d.persistence_size # 0
    <3>1. Rear = <<P>> \o <<Entry(name, LastSize)>>
      BY <1>1, <2>1, <2>3 DEF If
    <3>2. Len(Rear) = 2 /\ Rear[1] = P /\ Rear[2] = Entry(name, LastSize)
      BY <3>1, PairLemma
    <3> QED
      BY <1>4, <1>5, <2>1, <2>2, <2>3, <3>2
  <2>4. CASE d.persistence_size = 0
    <3>1. Rear = <<Entry(name, LastSize)>>
      BY <1>1, <2>1, <2>4 DEF If
    <3> QED
      BY <1>5, <2>1, <2>2, <2>4, <3>1
  <2> QED
    BY <2>3, <2>4
<1>6. CASE ~IsLast
  <2>1. ~d.uefi_ntfs
    BY <1>6 DEF IsLast
  <2>2. CASE d.persistence_size # 0
    <3>1. Rear = <<P>>
      BY <1>1, <1>3, <1>6, <2>2 DEF If
    <3> QED
      BY <1>4, <1>6, <2>1, <2>2, <3>1
  <2>3. CASE d.persistence_size = 0
    <3>1. Rear = <<>>
      BY <1>1, <1>3, <1>6, <2>3 DEF If
    <3> QED
      BY <1>6, <2>1, <2>3, <3>1
  <2> QED
    BY <2>2, <2>3
<1> QED
  BY <1>5, <1>6

-----------------------------------------------------------------------------
(* The offsets.                                                             *)

\* The next offset is not below a multiple of the cluster, though it is rounded down to one.
LEMMA AlignNextLemma ==
    ASSUME d \in Drives, NEW x \in Int
    PROVE  /\ AlignNext(x) \in Int /\ AlignNext(x) < x + bytes_per_track
           /\ UseClusters => AlignNext(x) % d.ClusterSize = 0
           /\ (UseClusters => x % d.ClusterSize = 0) => AlignNext(x) >= x
<1> DEFINE track == CeilingAlign(x, bytes_per_track)
           c == d.ClusterSize
<1>1. c \in Nat \ {0} /\ bytes_per_track \in Nat \ {0}
  BY DriveLemma
<1>2. track \in Int /\ track >= x /\ track < x + bytes_per_track
  BY <1>1, CeilingLemma
<1>3. AlignNext(x) = IF UseClusters THEN FloorAlign(track, c) ELSE track
  BY DEF AlignNext
<1> HIDE DEF track, c
<1>4. FloorAlign(track, c) \in Int /\ FloorAlign(track, c) <= track /\ FloorAlign(track, c) % c = 0
  BY <1>1, <1>2, FloorLemma
<1>5. x % c = 0 => x <= FloorAlign(track, c)
  BY <1>1, <1>2, FloorAbove
<1>6. bytes_per_track \in Int
  BY <1>1
<1> QED
  BY <1>1, <1>2, <1>3, <1>4, <1>5, <1>6 DEF c

\* The first offset leaves a track, and is a multiple of the cluster where it can be.
LEMMA FirstLemma ==
    ASSUME d \in Drives
    PROVE  /\ FirstOffset \in Nat /\ FirstOffset >= bytes_per_track
           /\ d.esp => FirstOffset = MB /\ MB % d.ClusterSize = 0
           /\ MB % d.ClusterSize = 0 \/ (~gpt /\ d.old_bios) => FirstOffset % d.ClusterSize = 0
<1> DEFINE round == CeilingAlign(bytes_per_track, d.ClusterSize)
           c == d.ClusterSize
<1>1. c \in Nat \ {0} /\ bytes_per_track \in Nat \ {0} /\ bytes_per_track <= MB /\ MB \in Nat
  BY DriveLemma, UnitAssumption
<1>2. round \in Int /\ round >= bytes_per_track /\ round % c = 0
  <2>1. bytes_per_track \in Int
    BY <1>1
  <2> QED
    BY <1>1, <2>1, CeilingLemma, Zenon
<1>3. FirstOffset = IF gpt \/ ~d.old_bios THEN MB ELSE 2 * round
  BY DEF FirstOffset
<1>4. d.esp => gpt /\ MB % c = 0
  BY DEF Drives, gpt
<1> HIDE DEF round, c
<1>5. (round + round) % c = 0
  BY <1>1, <1>2, SumOfMultiples
<1>6. 2 * round = round + round
  BY <1>2
<1> QED
  BY <1>1, <1>2, <1>3, <1>4, <1>5, <1>6 DEF c

\* The room of the partitions before the main one
FrontRoom == IF d.esp THEN (IF d.front THEN esp_size ELSE 0) + msr_size ELSE 0

\* Each partition begins after the one before it, by the choice of the clusters that go
\* with an ESP: the asserts on it never fail.
LEMMA FrontOffsets ==
    ASSUME d \in Drives
    PROVE  /\ FrontOffset(1) = FirstOffset
           /\ \A k \in 1 .. Len(Front) :
                  /\ FrontOffset(k) \in Int /\ FrontOffset(k + 1) \in Int
                  /\ Front[k].size \in Nat \ {0}
                  /\ FrontOffset(k + 1) >= FrontOffset(k) + Front[k].size
           /\ MainOffset \in Int /\ MainOffset >= FirstOffset
           /\ MainOffset <= FirstOffset + FrontRoom + 2 * bytes_per_track
           /\ UseClusters /\ (MB % d.ClusterSize = 0 \/ (~gpt /\ d.old_bios)) =>
                  MainOffset % d.ClusterSize = 0
<1> DEFINE c == d.ClusterSize
           second == AlignNext(FirstOffset + Front[1].size)
           third == AlignNext(second + Front[2].size)
<1>1. /\ FrontOffset(1) = FirstOffset /\ FrontOffset(2) = second /\ FrontOffset(3) = third
  BY DEF FrontOffset
<1>2. /\ c \in Nat \ {0} /\ bytes_per_track \in Nat \ {0} /\ MB \in Nat \ {0}
      /\ esp_size \in Nat \ {0} /\ msr_size \in Nat \ {0}
      /\ esp_size % MB = 0 /\ msr_size % MB = 0
      /\ FirstOffset \in Int
  BY DriveLemma, UnitAssumption, LayoutAssumption, FirstLemma
<1>3. MB % c = 0 => esp_size % c = 0 /\ msr_size % c = 0
  BY <1>2, MultipleOfMultiple
<1>4. CASE ~d.esp
  <2>1. Len(Front) = 0
    BY <1>4, FrontLemma
  <2>2. MainOffset = FirstOffset /\ FrontRoom = 0
    BY <1>1, <1>4, <2>1 DEF MainOffset, FrontRoom
  <2> QED
    BY <1>1, <1>2, <2>1, <2>2, FirstLemma
<1>5. ASSUME d.esp, Front[1].size \in {esp_size, msr_size}
      PROVE  /\ second \in Int /\ second >= FirstOffset + Front[1].size
             /\ second < FirstOffset + Front[1].size + bytes_per_track
             /\ UseClusters => second % c = 0
  <2> DEFINE x == FirstOffset + Front[1].size
  <2>1. FirstOffset % c = 0 /\ Front[1].size % c = 0 /\ Front[1].size \in Int
    BY <1>2, <1>3, <1>5, FirstLemma
  <2>2. x \in Int /\ x % c = 0
    BY <1>2, <2>1, SumOfMultiples
  <2> HIDE DEF x
  <2>3. /\ AlignNext(x) \in Int /\ AlignNext(x) < x + bytes_per_track /\ AlignNext(x) >= x
        /\ UseClusters => AlignNext(x) % d.ClusterSize = 0
    BY <2>2, AlignNextLemma
  <2> QED
    BY <2>3 DEF x
<1> HIDE DEF second
<1>6. CASE d.esp /\ ~d.front
  <2>1. Len(Front) = 1 /\ Front[1].size = msr_size
    BY <1>6, FrontLemma
  <2>2. MainOffset = second /\ FrontRoom = msr_size
    BY <1>1, <1>2, <1>6, <2>1 DEF MainOffset, FrontRoom
  <2>3. /\ second \in Int /\ second >= FirstOffset + msr_size
        /\ second < FirstOffset + msr_size + bytes_per_track
        /\ UseClusters => second % c = 0
    BY <1>5, <1>6, <2>1
  <2> QED
    BY <1>1, <1>2, <2>1, <2>2, <2>3
<1>7. CASE d.esp /\ d.front
  <2>1. Len(Front) = 2 /\ Front[1].size = esp_size /\ Front[2].size = msr_size
    BY <1>7, FrontLemma
  <2>2. MainOffset = third /\ FrontRoom = esp_size + msr_size
    BY <1>1, <1>2, <1>7, <2>1 DEF MainOffset, FrontRoom
  <2>3. /\ second \in Int /\ second >= FirstOffset + esp_size
        /\ second < FirstOffset + esp_size + bytes_per_track
        /\ UseClusters => second % c = 0
    BY <1>5, <1>7, <2>1
  <2> DEFINE x == second + msr_size
  <2>4. MB % c = 0
    BY <1>7, FirstLemma
  <2>5. x \in Int /\ (UseClusters => x % c = 0)
    BY <1>2, <1>3, <2>3, <2>4, SumOfMultiples
  <2> HIDE DEF x
  <2>6. /\ AlignNext(x) \in Int /\ AlignNext(x) < x + bytes_per_track /\ AlignNext(x) >= x
        /\ UseClusters => AlignNext(x) % d.ClusterSize = 0
    BY <2>5, AlignNextLemma
  <2>7. third = AlignNext(x)
    BY <2>1 DEF x
  <2> HIDE DEF third
  <2>8. third < second + msr_size + bytes_per_track /\ third >= second + msr_size /\ third \in Int
    BY <2>6, <2>7 DEF x
  <2> QED
    BY <1>1, <1>2, <2>1, <2>2, <2>3, <2>6, <2>7, <2>8
<1> QED
  BY <1>4, <1>6, <1>7

\* The room of the last partition
LastRoom ==
    CASE d.esp /\ ~d.front -> esp_size
      [] d.uefi_ntfs       -> uefi_ntfs_size
      [] OTHER             -> 0

\* It is rounded up to tracks.
LEMMA LastLemma ==
    ASSUME d \in Drives
    PROVE  /\ LastSize \in Nat \ {0}
           /\ LastRoom \in Nat /\ LastSize <= LastRoom + bytes_per_track
           /\ d.uefi_ntfs => LastSize >= uefi_ntfs_size
           /\ FrontRoom \in Nat /\ FrontRoom + LastRoom <= esp_size + msr_size + uefi_ntfs_size
<1> DEFINE bpt == bytes_per_track
<1>1. /\ bpt \in Nat \ {0} /\ esp_size \in Nat \ {0} /\ uefi_ntfs_size \in Nat \ {0}
      /\ msr_size \in Nat \ {0} /\ (d.uefi_ntfs => ~d.esp)
  <2>1. d.uefi_ntfs => ~d.esp
    BY DEF Drives
  <2> QED
    BY <2>1, DriveLemma, LayoutAssumption
<1>2. LastSize = CASE d.esp /\ ~d.front -> CeilingAlign(esp_size, bpt)
                   [] d.uefi_ntfs       -> CeilingAlign(uefi_ntfs_size, bpt)
                   [] OTHER             -> bpt
  BY DEF LastSize
<1> HIDE DEF bpt
<1>3. /\ CeilingAlign(esp_size, bpt) \in Int /\ CeilingAlign(esp_size, bpt) >= esp_size
      /\ CeilingAlign(esp_size, bpt) < esp_size + bpt
  BY <1>1, CeilingLemma
<1>4. /\ CeilingAlign(uefi_ntfs_size, bpt) \in Int /\ CeilingAlign(uefi_ntfs_size, bpt) >= uefi_ntfs_size
      /\ CeilingAlign(uefi_ntfs_size, bpt) < uefi_ntfs_size + bpt
  BY <1>1, CeilingLemma
<1>5. CASE d.esp /\ ~d.front
  <2>1. LastSize = CeilingAlign(esp_size, bpt) /\ LastRoom = esp_size /\ FrontRoom = msr_size
    BY <1>1, <1>2, <1>5 DEF LastRoom, FrontRoom
  <2> QED
    BY <1>1, <1>3, <1>5, <2>1 DEF bpt
<1>6. CASE d.uefi_ntfs
  <2>1. LastSize = CeilingAlign(uefi_ntfs_size, bpt) /\ LastRoom = uefi_ntfs_size /\ FrontRoom = 0
    BY <1>1, <1>2, <1>6 DEF LastRoom, FrontRoom
  <2> QED
    BY <1>1, <1>4, <1>6, <2>1 DEF bpt
<1>7. CASE ~(d.esp /\ ~d.front) /\ ~d.uefi_ntfs
  <2>1. LastSize = bpt /\ LastRoom = 0
    BY <1>1, <1>2, <1>7 DEF LastRoom
  <2>2. FrontRoom \in Nat /\ FrontRoom <= esp_size + msr_size
    BY <1>1 DEF FrontRoom
  <2> QED
    BY <1>1, <1>7, <2>1, <2>2 DEF bpt
<1> QED
  BY <1>5, <1>6, <1>7

\* From the end of the drive the partitions go down, each at a track, and lose less than
\* two tracks each to the rounding.
LEMMA RearOffsets ==
    ASSUME d \in Drives
    PROVE  /\ last_offset \in Int
           /\ last_offset = d.DiskSize - (IF gpt THEN GptSectors * d.SectorSize ELSE 0)
           /\ last_offset >= d.DiskSize - GptSectors * d.SectorSize
           /\ GptSectors * d.SectorSize \in Nat
           /\ RearOffset(0) = last_offset
           /\ \A k \in 1 .. Len(Rear) :
                  /\ RearOffset(k) \in Int /\ RearOffset(k - 1) \in Int
                  /\ Rear[Len(Rear) + 1 - k].size \in Nat \ {0}
                  /\ RearOffset(k) % bytes_per_track = 0
                  /\ RearOffset(k) + Rear[Len(Rear) + 1 - k].size <= RearOffset(k - 1)
           /\ Len(Rear) \in Nat /\ RearOffset(Len(Rear)) \in Int
           /\ RearOffset(Len(Rear)) >=
                  last_offset - (d.persistence_size + LastRoom + 4 * bytes_per_track)
<1> DEFINE bpt == bytes_per_track
           per == CeilingAlign(d.persistence_size, bpt)
           end == FloorAlign(last_offset - Rear[Len(Rear)].size, bpt)
           low == FloorAlign(end - Rear[1].size, bpt)
<1>1. /\ bpt \in Nat \ {0} /\ d.persistence_size \in Nat /\ LastSize \in Nat \ {0} /\ LastRoom \in Nat
      /\ LastSize <= LastRoom + bpt
  BY DriveLemma, LastLemma
<1>2. /\ GptSectors * d.SectorSize \in Nat /\ last_offset \in Int
      /\ last_offset = d.DiskSize - (IF gpt THEN GptSectors * d.SectorSize ELSE 0)
      /\ last_offset >= d.DiskSize - GptSectors * d.SectorSize
  <2>1. d.DiskSize \in Nat /\ GptSectors \in Nat /\ d.SectorSize \in Nat
    BY DriveLemma, LayoutAssumption
  <2>2. GptSectors * d.SectorSize \in Nat
    BY <2>1
  <2> QED
    BY <2>1, <2>2 DEF last_offset
<1>3. RearOffset(0) = last_offset /\ RearOffset(1) = end /\ RearOffset(2) = low
  BY DEF RearOffset
<1>4. /\ Len(Rear) = (IF d.persistence_size # 0 THEN 1 ELSE 0) + (IF IsLast THEN 1 ELSE 0)
      /\ d.persistence_size # 0 => Rear[1].size = per
      /\ IsLast => Rear[Len(Rear)].size = LastSize
  BY RearLemma
<1> HIDE DEF bpt, end, low
<1>5. /\ per \in Int /\ per >= d.persistence_size /\ per < d.persistence_size + bpt
  BY <1>1, CeilingLemma DEF per
<1> HIDE DEF per
<1>6. ASSUME Len(Rear) # 0, NEW s \in Int, Rear[Len(Rear)].size = s
      PROVE  /\ end \in Int /\ end <= last_offset - s /\ end > last_offset - s - bpt
             /\ end % bpt = 0
  <2> DEFINE x == last_offset - s
  <2>1. x \in Int /\ end = FloorAlign(x, bpt)
    BY <1>2, <1>6 DEF end
  <2> HIDE DEF x
  <2>2. FloorAlign(x, bpt) \in Int /\ FloorAlign(x, bpt) <= x /\ x < FloorAlign(x, bpt) + bpt
        /\ FloorAlign(x, bpt) % bpt = 0
    BY <1>1, <2>1, FloorLemma
  <2> QED
    BY <1>1, <2>1, <2>2, <1>2, <1>6 DEF x
<1>7. ASSUME end \in Int, Rear[1].size = per
      PROVE  /\ low \in Int /\ low <= end - per /\ low > end - per - bpt
             /\ low % bpt = 0
  <2> DEFINE x == end - per
  <2>1. x \in Int /\ low = FloorAlign(x, bpt)
    BY <1>5, <1>7 DEF low
  <2> HIDE DEF x
  <2>2. FloorAlign(x, bpt) \in Int /\ FloorAlign(x, bpt) <= x /\ x < FloorAlign(x, bpt) + bpt
        /\ FloorAlign(x, bpt) % bpt = 0
    BY <1>1, <2>1, FloorLemma
  <2> QED
    BY <1>1, <2>1, <2>2, <1>5, <1>7 DEF x
<1>8. CASE d.persistence_size = 0 /\ ~IsLast
  <2>1. Len(Rear) = 0
    BY <1>4, <1>8
  <2> QED
    BY <1>1, <1>2, <1>3, <2>1 DEF bpt
<1>9. CASE d.persistence_size = 0 /\ IsLast
  <2>1. Len(Rear) = 1 /\ Rear[1].size = LastSize
    BY <1>4, <1>9
  <2>2. /\ end \in Int /\ end <= last_offset - LastSize /\ end > last_offset - LastSize - bpt
        /\ end % bpt = 0
    BY <1>1, <1>6, <2>1
  <2> QED
    BY <1>1, <1>2, <1>3, <2>1, <2>2 DEF bpt
<1>10. CASE d.persistence_size # 0 /\ ~IsLast
  <2>1. Len(Rear) = 1 /\ Rear[1].size = per
    BY <1>4, <1>10
  <2>2. /\ end \in Int /\ end <= last_offset - per /\ end > last_offset - per - bpt
        /\ end % bpt = 0
    BY <1>5, <1>6, <2>1
  <2>3. per \in Nat \ {0}
    BY <1>1, <1>5, <1>10
  <2> QED
    BY <1>1, <1>2, <1>3, <1>5, <2>1, <2>2, <2>3 DEF bpt
<1>11. CASE d.persistence_size # 0 /\ IsLast
  <2>1. Len(Rear) = 2 /\ Rear[1].size = per /\ Rear[2].size = LastSize
    BY <1>4, <1>11
  <2>2. /\ end \in Int /\ end <= last_offset - LastSize /\ end > last_offset - LastSize - bpt
        /\ end % bpt = 0
    BY <1>1, <1>6, <2>1
  <2>3. /\ low \in Int /\ low <= end - per /\ low > end - per - bpt
        /\ low % bpt = 0
    BY <1>7, <2>1, <2>2
  <2>4. per \in Nat \ {0}
    BY <1>1, <1>5, <1>11
  <2>5. \A k \in 1 .. Len(Rear) : k = 1 \/ k = 2
    BY <2>1
  <2> QED
    BY <1>1, <1>2, <1>3, <1>5, <2>1, <2>2, <2>3, <2>4, <2>5 DEF bpt
<1> QED
  BY <1>8, <1>9, <1>10, <1>11

\* The main partition ends where the extra ones begin, at the latest.  A main partition
\* with the room of a cluster and a track has a cluster.
LEMMA MainLemma ==
    ASSUME d \in Drives
    PROVE  /\ MainSize \in Int
           /\ RearOffset(Len(Rear)) - MainOffset > 0 => MainSize \in Nat
           /\ MainSize > 0 => MainOffset + MainSize <= RearOffset(Len(Rear))
           /\ UseClusters => MainSize % d.ClusterSize = 0
           /\ RearOffset(Len(Rear)) - MainOffset >= d.ClusterSize + bytes_per_track => MainSize > 0
<1> DEFINE bpt == bytes_per_track
           c == d.ClusterSize
           room == RearOffset(Len(Rear)) - MainOffset
           size == FloorAlign(main_size, bpt)
<1>1. bpt \in Nat \ {0} /\ bpt <= MB /\ c \in Nat \ {0} /\ c \in ClusterSizes
  BY DriveLemma
<1>2. MaxIsoToEsp \in Nat \ {0} /\ MB \in Nat /\ c + MB <= MaxIsoToEsp
  BY <1>1, LayoutAssumption, UnitAssumption
<1>3. RearOffset(Len(Rear)) \in Int /\ MainOffset \in Int
  BY RearOffsets, FrontOffsets
<1>4. room \in Int
  BY <1>3
<1>5. main_size = IF d.write_as_esp /\ room > MaxIsoToEsp THEN MaxIsoToEsp ELSE room
  BY DEF main_size
<1>6. MainSize = IF UseClusters THEN FloorAlign(size, c) ELSE size
  BY DEF MainSize
<1>7. room = RearOffset(Len(Rear)) - MainOffset
  OBVIOUS
<1> HIDE DEF bpt, c, room
<1>8. main_size \in Int /\ main_size <= room
  BY <1>2, <1>4, <1>5
<1>9. size \in Int /\ size <= main_size /\ main_size < size + bpt /\ size % bpt = 0
  BY <1>1, <1>8, FloorLemma
<1> HIDE DEF size
<1>10. /\ FloorAlign(size, c) \in Int /\ FloorAlign(size, c) <= size
       /\ size < FloorAlign(size, c) + c /\ FloorAlign(size, c) % c = 0
  BY <1>1, <1>9, FloorLemma
<1>11. MainSize \in Int /\ MainSize <= room
  BY <1>4, <1>6, <1>8, <1>9, <1>10
<1>12. UseClusters => MainSize % c = 0
  BY <1>6, <1>10
<1>13. ASSUME room >= c + bpt PROVE MainSize > 0
  <2>1. main_size >= c + bpt
    BY <1>1, <1>2, <1>4, <1>5, <1>13
  <2>2. size > c
    BY <1>1, <1>8, <1>9, <2>1
  <2>3. FloorAlign(size, c) > 0
    BY <1>1, <1>9, <1>10, <2>2
  <2> QED
    BY <1>1, <1>6, <2>2, <2>3, <1>9
<1>14. ASSUME room > 0 PROVE MainSize >= 0
  <2>1. main_size >= 0
    BY <1>2, <1>4, <1>5, <1>14
  <2>2. 0 % bpt = 0 /\ 0 % c = 0
    BY <1>1
  <2>3. 0 <= size
    BY <1>1, <1>8, <2>1, <2>2, FloorAbove DEF size
  <2>4. 0 <= FloorAlign(size, c)
    BY <1>1, <1>9, <2>2, <2>3, FloorAbove
  <2> QED
    BY <1>6, <2>3, <2>4
<1>15. room >= c + bpt => MainSize > 0
  BY <1>13
<1>16. room > 0 => MainSize \in Nat
  BY <1>11, <1>14
<1>17. MainSize > 0 => MainOffset + MainSize <= RearOffset(Len(Rear))
  BY <1>3, <1>7, <1>11
<1> QED
  BY <1>7, <1>11, <1>12, <1>15, <1>16, <1>17 DEF bpt, c

\* What the layout consists of
LEMMA LayoutLemma ==
    ASSUME d \in Drives
    PROVE  /\ Len(Front) \in Nat /\ Len(Rear) \in Nat
           /\ Len(Layout) = Len(Front) + 1 + Len(Rear)
           /\ Layout # <<>>
           /\ \A k \in 1 .. Len(Front) : /\ Layout[k].Offset = FrontOffset(k)
                                         /\ Layout[k].Size = Front[k].size
           /\ Layout[Len(Front) + 1].Offset = MainOffset
           /\ Layout[Len(Front) + 1].Size = MainSize
           /\ \A j \in 1 .. Len(Rear) :
                  /\ Layout[Len(Front) + 1 + j].Offset = RearOffset(Len(Rear) + 1 - j)
                  /\ Layout[Len(Front) + 1 + j].Size = Rear[j].size
                  /\ Layout[Len(Front) + 1 + j].name = Rear[j].name
<1> DEFINE m == Len(Front)
           n == Len(Rear)
           f(k) == LET j == k - m - 1
                   IN  CASE j < 0 -> Partition(Front[k].name, FrontOffset(k), Front[k].size)
                         [] j = 0 -> Partition("main", MainOffset, MainSize)
                         [] j > 0 -> Partition(Rear[j].name, RearOffset(n + 1 - j), Rear[j].size)
<1>1. m \in Nat /\ n \in Nat
  BY FrontLemma, RearOffsets
<1>2. Layout = [k \in 1 .. m + 1 + n |-> f(k)]
  BY DEF Layout
<1> HIDE DEF m, n
<1>3. \A k \in 1 .. m : f(k) = Partition(Front[k].name, FrontOffset(k), Front[k].size)
  <2> SUFFICES ASSUME NEW k \in 1 .. m
               PROVE  f(k) = Partition(Front[k].name, FrontOffset(k), Front[k].size)
    OBVIOUS
  <2>1. k - m - 1 < 0
    BY <1>1
  <2> QED
    BY <1>1, <2>1
<1>4. f(m + 1) = Partition("main", MainOffset, MainSize)
  <2>1. (m + 1) - m - 1 = 0
    BY <1>1
  <2> QED
    BY <2>1
<1>5. \A j \in 1 .. n : f(m + 1 + j) = Partition(Rear[j].name, RearOffset(n + 1 - j), Rear[j].size)
  <2> SUFFICES ASSUME NEW j \in 1 .. n
               PROVE  f(m + 1 + j) = Partition(Rear[j].name, RearOffset(n + 1 - j), Rear[j].size)
    OBVIOUS
  <2>1. (m + 1 + j) - m - 1 = j /\ j > 0
    BY <1>1
  <2> QED
    BY <1>1, <2>1
<1> HIDE DEF f
<1>6. Len(Layout) = m + 1 + n
  BY <1>1, <1>2
<1>7. Layout # <<>>
  BY <1>1, <1>6
<1>8. \A k \in 1 .. m + 1 + n : Layout[k] = f(k)
  BY <1>2
<1>9. \A k \in 1 .. m : k \in 1 .. m + 1 + n
  BY <1>1
<1>10. m + 1 \in 1 .. m + 1 + n
  BY <1>1
<1>11. \A j \in 1 .. n : m + 1 + j \in 1 .. m + 1 + n
  BY <1>1
<1>12. \A k \in 1 .. m : Layout[k] = Partition(Front[k].name, FrontOffset(k), Front[k].size)
  BY <1>3, <1>8, <1>9, Zenon
<1>13. Layout[m + 1] = Partition("main", MainOffset, MainSize)
  BY <1>4, <1>8, <1>10, Zenon
<1>14. \A j \in 1 .. n :
           Layout[m + 1 + j] = Partition(Rear[j].name, RearOffset(n + 1 - j), Rear[j].size)
  BY <1>5, <1>8, <1>11, Zenon
<1>15. \A k \in 1 .. m : /\ Layout[k].Offset = FrontOffset(k)
                         /\ Layout[k].Size = Front[k].size
  <2> TAKE k \in 1 .. m
  <2>1. Layout[k] = Partition(Front[k].name, FrontOffset(k), Front[k].size)
    BY <1>12
  <2> QED
    BY <2>1 DEF Partition
<1>16. Layout[m + 1].Offset = MainOffset /\ Layout[m + 1].Size = MainSize
  BY <1>13 DEF Partition
<1>17. \A j \in 1 .. n : /\ Layout[m + 1 + j].Offset = RearOffset(n + 1 - j)
                         /\ Layout[m + 1 + j].Size = Rear[j].size
                         /\ Layout[m + 1 + j].name = Rear[j].name
  <2> TAKE j \in 1 .. n
  <2>1. Layout[m + 1 + j] = Partition(Rear[j].name, RearOffset(n + 1 - j), Rear[j].size)
    BY <1>14
  <2> QED
    BY <2>1 DEF Partition
<1> QED
  BY <1>1, <1>6, <1>7, <1>15, <1>16, <1>17 DEF m, n

\* The partitions after the main one, in the order of the layout
LEMMA RearAt ==
    ASSUME d \in Drives
    PROVE  /\ \A j \in 1 .. Len(Rear) :
                  /\ RearOffset(Len(Rear) + 1 - j) \in Int
                  /\ RearOffset(Len(Rear) - j) \in Int
                  /\ Rear[j].size \in Nat \ {0}
                  /\ RearOffset(Len(Rear) + 1 - j) % bytes_per_track = 0
                  /\ RearOffset(Len(Rear) + 1 - j) + Rear[j].size <= RearOffset(Len(Rear) - j)
                  /\ RearOffset(Len(Rear) + 1 - j) >= RearOffset(Len(Rear))
<1> DEFINE n == Len(Rear)
<1>1. n \in {0, 1, 2}
  BY RearLemma
<1>2. \A k \in 1 .. n :
          /\ RearOffset(k) \in Int /\ RearOffset(k - 1) \in Int
          /\ Rear[n + 1 - k].size \in Nat \ {0}
          /\ RearOffset(k) % bytes_per_track = 0
          /\ RearOffset(k) + Rear[n + 1 - k].size <= RearOffset(k - 1)
  BY RearOffsets
<1> HIDE DEF n
<1>3. CASE n = 0
  BY <1>3 DEF n
<1>4. CASE n = 1
  <2>1. /\ RearOffset(1) \in Int /\ RearOffset(0) \in Int
        /\ Rear[1].size \in Nat \ {0}
        /\ RearOffset(1) % bytes_per_track = 0
        /\ RearOffset(1) + Rear[1].size <= RearOffset(0)
    BY <1>2, <1>4
  <2>2. \A j \in 1 .. n : j = 1
    BY <1>4
  <2> QED
    BY <1>4, <2>1, <2>2 DEF n
<1>5. CASE n = 2
  <2>1. /\ RearOffset(1) \in Int /\ RearOffset(0) \in Int
        /\ Rear[2].size \in Nat \ {0}
        /\ RearOffset(1) % bytes_per_track = 0
        /\ RearOffset(1) + Rear[2].size <= RearOffset(0)
    BY <1>2, <1>5
  <2>2. /\ RearOffset(2) \in Int /\ RearOffset(1) \in Int
        /\ Rear[1].size \in Nat \ {0}
        /\ RearOffset(2) % bytes_per_track = 0
        /\ RearOffset(2) + Rear[1].size <= RearOffset(1)
    BY <1>2, <1>5
  <2>3. \A j \in 1 .. n : j = 1 \/ j = 2
    BY <1>5
  <2>4. RearOffset(1) >= RearOffset(2)
    BY <2>2
  <2> QED
    BY <1>5, <2>1, <2>2, <2>3, <2>4 DEF n
<1> QED
  BY <1>1, <1>3, <1>4, <1>5

\* The layout without the overlaps and the misalignments that its roundings could make
LEMMA SoundLayout ==
    ASSUME d \in Drives, layout = Layout, MainSize > 0
    PROVE  LayoutIsSound
<1> DEFINE m == Len(Front)
           n == Len(Rear)
<1>1. m \in Nat /\ n \in Nat /\ Len(layout) = m + 1 + n
  BY LayoutLemma
<1>2. \A k \in 1 .. m :
          /\ layout[k].Offset = FrontOffset(k) /\ layout[k].Size = Front[k].size
          /\ FrontOffset(k) \in Int /\ FrontOffset(k + 1) \in Int
          /\ Front[k].size \in Nat \ {0}
          /\ FrontOffset(k + 1) >= FrontOffset(k) + Front[k].size
  BY LayoutLemma, FrontOffsets
<1>3. /\ layout[m + 1].Offset = MainOffset /\ layout[m + 1].Size = MainSize
      /\ MainOffset \in Int /\ MainOffset >= FirstOffset /\ MainOffset = FrontOffset(m + 1)
      /\ FrontOffset(1) = FirstOffset
      /\ MainSize \in Int /\ MainOffset + MainSize <= RearOffset(n)
  BY LayoutLemma, FrontOffsets, MainLemma DEF MainOffset
<1>4. \A j \in 1 .. n :
          /\ layout[m + 1 + j].Offset = RearOffset(n + 1 - j)
          /\ layout[m + 1 + j].Size = Rear[j].size
          /\ RearOffset(n + 1 - j) \in Int /\ RearOffset(n - j) \in Int
          /\ Rear[j].size \in Nat \ {0}
          /\ RearOffset(n + 1 - j) % bytes_per_track = 0
          /\ RearOffset(n + 1 - j) + Rear[j].size <= RearOffset(n - j)
  BY LayoutLemma, RearAt
<1>5. /\ RearOffset(0) = d.DiskSize - (IF gpt THEN GptSectors * d.SectorSize ELSE 0)
      /\ RearOffset(n) \in Int
  BY RearOffsets
<1>6. FirstOffset \in Nat /\ FirstOffset >= bytes_per_track /\ bytes_per_track \in Nat
  BY FirstLemma, DriveLemma
<1>7. PartitionsAreApart
  <2>1. layout[1].Offset >= bytes_per_track
    <3>1. CASE m = 0
      BY <1>3, <1>6, <3>1
    <3>2. CASE m > 0
      <4>1. 1 \in 1 .. m
        BY <1>1, <3>2
      <4> QED
        BY <1>2, <1>3, <1>6, <4>1
    <3> QED
      BY <1>1, <3>1, <3>2
  <2>2. ASSUME NEW k \in 1 .. Len(layout)
        PROVE  k \in 1 .. m \/ k = m + 1 \/ (k - m - 1 \in 1 .. n /\ k = m + 1 + (k - m - 1))
    BY <1>1
  <2>3. ASSUME NEW k \in 1 .. Len(layout) PROVE layout[k].Size > 0
    <3>1. CASE k \in 1 .. m
      BY <1>2, <3>1
    <3>2. CASE k = m + 1
      BY <1>3, <3>2
    <3>3. ASSUME NEW j \in 1 .. n, k = m + 1 + j PROVE layout[k].Size > 0
      <4>1. layout[m + 1 + j].Size = Rear[j].size /\ Rear[j].size \in Nat \ {0}
        BY <1>4
      <4> QED
        BY <3>3, <4>1
    <3> QED
      BY <2>2, <3>1, <3>2, <3>3
  <2>4. ASSUME NEW k \in 1 .. Len(layout) - 1
        PROVE  layout[k].Offset + layout[k].Size <= layout[k + 1].Offset
    <3>1. CASE k \in 1 .. m /\ k # m
      <4>1. k + 1 \in 1 .. m
        BY <1>1, <3>1
      <4> QED
        BY <1>2, <3>1, <4>1
    <3>2. CASE k = m
      <4>1. k \in 1 .. m
        BY <1>1, <3>2
      <4> QED
        BY <1>2, <1>3, <3>2, <4>1
    <3>3. CASE k = m + 1
      <4>1. 1 \in 1 .. n /\ k + 1 = m + 1 + 1 /\ n + 1 - 1 = n
        BY <1>1, <3>3
      <4>2. layout[m + 1 + 1].Offset = RearOffset(n + 1 - 1)
        BY <1>4, <4>1, Zenon
      <4>3. layout[k + 1].Offset = RearOffset(n)
        BY <4>1, <4>2
      <4> QED
        BY <1>3, <3>3, <4>3
    <3>4. ASSUME NEW j \in 1 .. n, k = m + 1 + j
          PROVE  layout[k].Offset + layout[k].Size <= layout[k + 1].Offset
      <4>1. j + 1 \in 1 .. n /\ k + 1 = m + 1 + (j + 1) /\ n + 1 - (j + 1) = n - j
        BY <1>1, <3>4
      <4>2. layout[m + 1 + (j + 1)].Offset = RearOffset(n + 1 - (j + 1))
        BY <1>4, <4>1, Zenon
      <4>3. layout[k + 1].Offset = RearOffset(n - j)
        BY <4>1, <4>2
      <4> QED
        BY <1>4, <3>4, <4>3
    <3>5. k \in 1 .. Len(layout)
      BY <1>1
    <3> QED
      BY <2>2, <3>1, <3>2, <3>3, <3>4, <3>5
  <2>5. layout[Len(layout)].Offset + layout[Len(layout)].Size <= RearOffset(0)
    <3>1. CASE n = 0
      BY <1>1, <1>3, <3>1
    <3>2. CASE n > 0
      <4>1. n \in 1 .. n /\ n + 1 - n = 1 /\ n - n = 0
        BY <1>1, <3>2
      <4>2. /\ layout[m + 1 + n].Offset = RearOffset(n + 1 - n)
            /\ layout[m + 1 + n].Size = Rear[n].size
            /\ RearOffset(n + 1 - n) + Rear[n].size <= RearOffset(n - n)
        BY <1>4, <4>1, Zenon
      <4> QED
        BY <1>1, <4>1, <4>2
    <3> QED
      BY <1>1, <3>1, <3>2
  <2> QED
    BY <1>5, <2>1, <2>3, <2>4, <2>5 DEF PartitionsAreApart, End
<1>8. LayoutIsAligned
  <2>1. UseClusters => layout[m + 1].Size % d.ClusterSize = 0
    BY <1>3, MainLemma
  <2>2. UseClusters /\ (MB % d.ClusterSize = 0 \/ (~gpt /\ d.old_bios)) =>
            layout[m + 1].Offset % d.ClusterSize = 0
    BY <1>3, FrontOffsets
  <2>3. ASSUME NEW k \in m + 2 .. Len(layout) PROVE layout[k].Offset % bytes_per_track = 0
    <3>1. k - m - 1 \in 1 .. n /\ k = m + 1 + (k - m - 1)
      BY <1>1
    <3>2. ASSUME NEW j \in 1 .. n, k = m + 1 + j PROVE layout[k].Offset % bytes_per_track = 0
      BY <1>4, <3>2
    <3> QED
      BY <3>1, <3>2
  <2> QED
    BY <2>1, <2>2, <2>3 DEF LayoutIsAligned
<1> QED
  BY <1>7, <1>8 DEF LayoutIsSound

\* The sum of the rooms, with the 2 + 4 + 1 tracks that are lost
LEMMA RoomNeeded ==
    ASSUME NEW disk \in Int, NEW kept \in Int, NEW first \in Int, NEW per \in Int, NEW track \in Int,
           NEW cluster \in Int, NEW front \in Int, NEW last \in Int, NEW sizes \in Int,
           NEW offset \in Int, NEW end \in Int, NEW rear \in Int,
           disk >= first + sizes + per + cluster + 7 * track + kept,
           front + last <= sizes,
           offset <= first + front + 2 * track,
           end >= disk - kept,
           rear >= end - (per + last + 4 * track)
    PROVE  rear - offset >= cluster + track
  OBVIOUS

\* With enough room no assert fails, and there is a main partition.
LEMMA EnoughRoom ==
    ASSUME d \in Drives, d.DiskSize >= Needed
    PROVE  AssertsHold /\ MainSize > 0
<1> DEFINE bpt == bytes_per_track
           n == Len(Rear)
           kept == GptSectors * d.SectorSize
           sizes == esp_size + msr_size + uefi_ntfs_size
           main_room == RearOffset(n) - MainOffset
<1>1. /\ bpt \in Nat \ {0} /\ d.ClusterSize \in Nat \ {0} /\ d.DiskSize \in Nat
      /\ d.persistence_size \in Nat /\ kept \in Nat
      /\ esp_size \in Nat /\ msr_size \in Nat /\ uefi_ntfs_size \in Nat
  BY DriveLemma, LayoutAssumption, RearOffsets
<1>2. FirstOffset \in Nat
  BY FirstLemma
<1>3. MainOffset \in Int /\ MainOffset >= FirstOffset /\ MainOffset <= FirstOffset + FrontRoom + 2 * bpt
  BY FrontOffsets
<1>4. /\ RearOffset(n) \in Int /\ last_offset \in Int /\ last_offset >= d.DiskSize - kept
      /\ RearOffset(n) >= last_offset - (d.persistence_size + LastRoom + 4 * bpt)
  BY RearOffsets
<1>5. /\ LastRoom \in Nat /\ FrontRoom \in Nat
      /\ FrontRoom + LastRoom <= esp_size + msr_size + uefi_ntfs_size
  BY LastLemma
<1>6. d.DiskSize >= FirstOffset + esp_size + msr_size + uefi_ntfs_size + d.persistence_size
                        + d.ClusterSize + 7 * bpt + kept
  BY DEF Needed
<1>7. main_room \in Int /\ main_room = RearOffset(n) - MainOffset
  BY <1>3, <1>4
<1> HIDE DEF bpt, kept, main_room
<1>8. main_room >= d.ClusterSize + bpt
  <2>1. /\ d.DiskSize \in Int /\ kept \in Int /\ FirstOffset \in Int /\ d.persistence_size \in Int
        /\ bpt \in Int /\ d.ClusterSize \in Int /\ FrontRoom \in Int /\ LastRoom \in Int
        /\ sizes \in Int
    BY <1>1, <1>2, <1>5
  <2>2. d.DiskSize >= FirstOffset + sizes + d.persistence_size + d.ClusterSize + 7 * bpt + kept
    BY <1>1, <1>2, <1>6
  <2>3. FrontRoom + LastRoom <= sizes
    BY <1>1, <1>5
  <2> HIDE DEF sizes
  <2>4. RearOffset(n) - MainOffset >= d.ClusterSize + bpt
    BY <1>3, <1>4, <2>1, <2>2, <2>3, RoomNeeded, Zenon
  <2> QED
    BY <1>7, <2>4
<1>9. MainSize > 0
  BY <1>7, <1>8, MainLemma DEF bpt
<1>10. \A k \in 1 .. Len(Front) : FrontOffset(k + 1) >= FrontOffset(k) + Front[k].size
  BY FrontOffsets
<1>11. main_room > 0 /\ RearOffset(n) > 0
  BY <1>1, <1>2, <1>3, <1>4, <1>7, <1>8
<1>12. \A k \in 1 .. n : Rear[n + 1 - k].size < RearOffset(k - 1)
  <2> SUFFICES ASSUME NEW k \in 1 .. n PROVE Rear[n + 1 - k].size < RearOffset(k - 1)
    OBVIOUS
  <2>1. /\ n \in Nat /\ n + 1 - k \in 1 .. n /\ n + 1 - (n + 1 - k) = k
    BY RearOffsets
  <2>2. RearOffset(n + 1 - (n + 1 - k)) >= RearOffset(n)
    BY <2>1, RearAt, Zenon
  <2>3. /\ RearOffset(k) \in Int /\ RearOffset(k - 1) \in Int /\ Rear[n + 1 - k].size \in Nat \ {0}
        /\ RearOffset(k) + Rear[n + 1 - k].size <= RearOffset(k - 1)
    BY RearOffsets
  <2> QED
    BY <1>4, <1>11, <2>1, <2>2, <2>3
<1> QED
  BY <1>7, <1>9, <1>10, <1>11, <1>12 DEF AssertsHold

\* Offsets and sizes do not wrap below 0.
LEMMA LayoutType ==
    ASSUME d \in Drives, AssertsHold
    PROVE  \A k \in 1 .. Len(Layout) : Layout[k].Offset \in Nat /\ Layout[k].Size \in Nat
<1> DEFINE m == Len(Front)
           n == Len(Rear)
<1>1. m \in Nat /\ n \in Nat /\ Len(Layout) = m + 1 + n
  BY LayoutLemma
<1>2. FirstOffset \in Nat /\ FrontOffset(1) = FirstOffset
  BY FirstLemma, FrontOffsets
<1>3. \A k \in 1 .. m : Layout[k].Offset \in Nat /\ Layout[k].Size \in Nat
  <2>1. m \in {0, 1, 2}
    BY FrontLemma
  <2>2. \A k \in 1 .. m :
            /\ Layout[k].Offset = FrontOffset(k) /\ Layout[k].Size = Front[k].size
            /\ FrontOffset(k) \in Int /\ FrontOffset(k + 1) \in Int
            /\ Front[k].size \in Nat \ {0}
            /\ FrontOffset(k + 1) >= FrontOffset(k) + Front[k].size
    BY LayoutLemma, FrontOffsets
  <2>3. \A k \in 1 .. m : FrontOffset(k) \in Nat
    <3>1. \A k \in 1 .. m : k = 1 \/ (k = 2 /\ 1 \in 1 .. m)
      <4>1. m = 0 \/ m = 1 \/ m = 2
        BY <2>1
      <4>2. CASE m = 0
        BY <4>2
      <4>3. CASE m = 1
        BY <4>3
      <4>4. CASE m = 2
        BY <4>4
      <4> QED
        BY <4>1, <4>2, <4>3, <4>4
    <3>2. ASSUME 1 \in 1 .. m, 2 \in 1 .. m PROVE FrontOffset(2) \in Nat
      <4>1. FrontOffset(2) >= FrontOffset(1) + Front[1].size
        BY <2>2, <3>2
      <4> QED
        BY <1>2, <2>2, <3>2, <4>1
    <3> QED
      BY <1>2, <3>1, <3>2
  <2> QED
    BY <2>2, <2>3
<1>4. /\ Layout[m + 1].Offset = MainOffset /\ Layout[m + 1].Size = MainSize
      /\ MainOffset \in Int /\ MainOffset >= FirstOffset
      /\ RearOffset(n) \in Int /\ RearOffset(n) - MainOffset > 0 /\ MainSize \in Nat
  BY LayoutLemma, FrontOffsets, MainLemma, RearOffsets DEF AssertsHold
<1>5. ASSUME NEW j \in 1 .. n
      PROVE  Layout[m + 1 + j].Offset \in Nat /\ Layout[m + 1 + j].Size \in Nat
  <2>1. /\ Layout[m + 1 + j].Offset = RearOffset(n + 1 - j)
        /\ Layout[m + 1 + j].Size = Rear[j].size
    BY LayoutLemma
  <2>2. /\ RearOffset(n + 1 - j) \in Int /\ Rear[j].size \in Nat \ {0}
        /\ RearOffset(n + 1 - j) >= RearOffset(n)
    BY RearAt
  <2> QED
    BY <1>2, <1>4, <2>1, <2>2
<1>6. ASSUME NEW k \in 1 .. Len(Layout)
      PROVE  k \in 1 .. m \/ k = m + 1 \/ (k - m - 1 \in 1 .. n /\ k = m + 1 + (k - m - 1))
  BY <1>1
<1>7. ASSUME NEW k \in 1 .. Len(Layout)
      PROVE  Layout[k].Offset \in Nat /\ Layout[k].Size \in Nat
  <2>1. CASE k \in 1 .. m
    BY <1>3, <2>1
  <2>2. CASE k = m + 1
    BY <1>2, <1>4, <2>2
  <2>3. ASSUME k - m - 1 \in 1 .. n, k = m + 1 + (k - m - 1)
        PROVE  Layout[k].Offset \in Nat /\ Layout[k].Size \in Nat
    <3>1. Layout[m + 1 + (k - m - 1)].Offset \in Nat /\ Layout[m + 1 + (k - m - 1)].Size \in Nat
      BY <1>5, <2>3, Zenon
    <3> QED
      BY <2>3, <3>1
  <2> QED
    BY <1>6, <2>1, <2>2, <2>3
<1> QED
  BY <1>7

-----------------------------------------------------------------------------
(* The layout of FAT32.                                                     *)

\* A factor that both sides have
LEMMA CancelFactor ==
    ASSUME NEW a \in Int, NEW b \in Int, NEW c \in Nat \ {0}
    PROVE  /\ a * c < b * c => a < b
           /\ a * c <= b * c => a <= b
           /\ a * c = b * c => a = b
<1>1. ASSUME a >= b PROVE a * c >= b * c
  <2>1. (a - b) * c >= 0
    BY <1>1
  <2>2. (a - b) * c = a * c - b * c
    OBVIOUS
  <2> QED
    BY <2>1, <2>2
<1>2. ASSUME a > b PROVE a * c > b * c
  <2>1. (a - b) * c > 0
    BY <1>2
  <2>2. (a - b) * c = a * c - b * c
    OBVIOUS
  <2> QED
    BY <2>1, <2>2
<1>3. ASSUME b > a PROVE b * c > a * c
  <2>1. (b - a) * c > 0
    BY <1>3
  <2>2. (b - a) * c = b * c - a * c
    OBVIOUS
  <2> QED
    BY <2>1, <2>2
<1>4. a * c \in Int /\ b * c \in Int
  OBVIOUS
<1>5. a < b \/ a >= b
  OBVIOUS
<1>6. a < b \/ a = b \/ a > b
  OBVIOUS
<1>7. a * c < b * c => a < b
  BY <1>1, <1>4, <1>5
<1>8. a * c <= b * c => a <= b
  BY <1>2, <1>4, <1>6
<1>9. a * c = b * c => a = b
  BY <1>2, <1>3, <1>4, <1>6
<1> QED
  BY <1>7, <1>8, <1>9

\* A quotient is at least what fits.
LEMMA QuotientAbove ==
    ASSUME NEW x \in Int, NEW y \in Nat \ {0}, NEW q \in Int, q * y <= x
    PROVE  x \div y >= q
<1> DEFINE p == x \div y
<1>1. p \in Int /\ x < p * y + y
  BY Quotient
<1> HIDE DEF p
<1>2. q * y < (p + 1) * y
  BY <1>1
<1>3. p + 1 \in Int
  BY <1>1
<1>4. q < p + 1
  BY <1>2, <1>3, CancelFactor
<1> QED
  BY <1>1, <1>4 DEF p

\* The volume that is formatted
VolumeOK ==
    /\ volume.Length \in Nat /\ volume.SectorSize \in Nat \ {0}
    /\ BytesPerSect \in {512, 1024, 2048, 4096}
    /\ volume.ClusterSize # 0 =>
           /\ volume.ClusterSize \in Nat \ {0} /\ volume.ClusterSize % volume.SectorSize = 0
           /\ MB % volume.ClusterSize = 0

\* The sectors of the volume
LEMMA SectorsLemma ==
    ASSUME VolumeOK
    PROVE  /\ TotalSectors \in Nat
           /\ TotalSectors * volume.SectorSize <= volume.Length
<1> DEFINE l == volume.Length
           s == volume.SectorSize
<1>1. l \in Nat /\ s \in Nat \ {0}
  BY DEF VolumeOK
<1>2. TotalSectors = l \div s
  BY DEF TotalSectors
<1> HIDE DEF l, s
<1>3. l \in Int /\ 0 * s <= l
  BY <1>1
<1>4. l \div s \in Int /\ (l \div s) * s <= l
  BY <1>1, <1>3, Quotient
<1>5. l \div s >= 0
  BY <1>1, <1>3, QuotientAbove
<1> QED
  BY <1>2, <1>4, <1>5 DEF l, s

\* The default clusters grow with the volume.
LEMMA DefaultTable ==
    ASSUME NEW mb \in Int
    PROVE  /\ DefaultClusterSize(mb) \in {512, 1024, 2048, 4096, 8192, 16384, 32768, 65536}
           /\ mb >= 64 => DefaultClusterSize(mb) >= 1024
           /\ mb >= 128 => DefaultClusterSize(mb) >= 2048
           /\ mb >= 256 => DefaultClusterSize(mb) >= 4096
  BY DEF DefaultClusterSize

\* The default clusters of a volume of 65536 sectors or more are at least a sector.
LEMMA DefaultClusters ==
    ASSUME VolumeOK, TotalSectors >= MinSectors
    PROVE  /\ DefaultClusterSize(volume.Length \div MB) \in Nat
           /\ DefaultClusterSize(volume.Length \div MB) >= BytesPerSect
<1> DEFINE s == volume.SectorSize
           l == volume.Length
           t == TotalSectors
           b == BytesPerSect
           mb == l \div MB
<1>1. s \in Nat \ {0} /\ l \in Nat /\ b = s * Unit /\ b \in {512, 1024, 2048, 4096}
  BY DEF VolumeOK, BytesPerSect
<1>2. Unit \in Nat \ {0} /\ MB \in Nat \ {0} /\ MB * Unit = 1048576
  BY UnitAssumption
<1>3. t \in Nat /\ t * s <= l /\ t >= 65536
  BY SectorsLemma DEF MinSectors
<1> HIDE DEF s, l, t, b, mb
<1>4. t * s >= 65536 * s
  BY <1>1, <1>3
<1>5. l >= 65536 * s
  <2>1. t * s \in Int /\ 65536 * s \in Int
    BY <1>1, <1>3
  <2> QED
    BY <1>1, <1>3, <1>4, <2>1
<1>6. ASSUME NEW k \in Nat, b = 16 * k PROVE mb >= k
  <2>1. (65536 * s) * Unit = 65536 * (s * Unit)
    BY <1>1, <1>2
  <2>2. (65536 * s) * Unit = k * 1048576
    BY <1>1, <1>6, <2>1
  <2>3. (k * MB) * Unit = k * (MB * Unit)
    BY <1>2
  <2>4. (k * MB) * Unit = (65536 * s) * Unit
    BY <1>2, <2>2, <2>3
  <2>5. k * MB \in Int /\ 65536 * s \in Int
    BY <1>1, <1>2
  <2>6. k * MB = 65536 * s
    BY <1>2, <2>4, <2>5, CancelFactor
  <2>7. k * MB <= l /\ l \in Int /\ k \in Int
    BY <1>1, <1>5, <2>5, <2>6
  <2> QED
    BY <1>2, <2>7, QuotientAbove DEF mb
<1>7. mb \in Int
  BY <1>1, <1>2, Quotient DEF mb
<1>8. mb \in Int /\ mb >= 32
  BY <1>1, <1>6, <1>7
<1>9. /\ b = 1024 => mb >= 64
      /\ b = 2048 => mb >= 128
      /\ b = 4096 => mb >= 256
  BY <1>6
<1>10. /\ DefaultClusterSize(mb) \in {512, 1024, 2048, 4096, 8192, 16384, 32768, 65536}
       /\ mb >= 64 => DefaultClusterSize(mb) >= 1024
       /\ mb >= 128 => DefaultClusterSize(mb) >= 2048
       /\ mb >= 256 => DefaultClusterSize(mb) >= 4096
  BY <1>8, DefaultTable
<1>11. DefaultClusterSize(mb) \in Nat /\ DefaultClusterSize(mb) >= b
  BY <1>1, <1>9, <1>10
<1> QED
  BY <1>11 DEF mb, l, b

\* A cluster has a sector, at least, and the assert on it never fails.
LEMMA ClustersLemma ==
    ASSUME VolumeOK, TotalSectors >= MinSectors
    PROVE  SectorsPerCluster \in Nat \ {0}
<1> DEFINE s == volume.SectorSize
           c == volume.ClusterSize
           b == BytesPerSect
           x == ClusterBytes
<1>1. s \in Nat \ {0} /\ b = s * Unit /\ b \in Nat \ {0} /\ Unit \in Nat \ {0}
  BY UnitAssumption DEF VolumeOK, BytesPerSect
<1>2. x \in Nat /\ x >= b
  <2>1. CASE c = 0
    BY <2>1, DefaultClusters DEF ClusterBytes
  <2>2. CASE c # 0
    <3>1. c \in Nat \ {0} /\ c % s = 0 /\ x = c * Unit
      BY <2>2 DEF VolumeOK, ClusterBytes
    <3> HIDE DEF s, c, b, x
    <3>2. c \in Int /\ s <= c
      <4>1. c \in Int /\ c = (c \div s) * s /\ c \div s \in Int
        BY <1>1, <3>1, IsMultiple, Quotient
      <4> DEFINE q == c \div s
      <4> HIDE DEF q
      <4>2. c = q * s /\ q \in Int
        BY <4>1 DEF q
      <4>3. ~(q <= 0)
        <5> SUFFICES ASSUME q <= 0 PROVE FALSE
          OBVIOUS
        <5>1. q * s <= 0
          BY <1>1, <4>2
        <5> QED
          BY <3>1, <4>2, <5>1
      <4>4. q * s >= s
        BY <1>1, <4>2, <4>3
      <4> QED
        BY <4>1, <4>2, <4>4
    <3>3. s * Unit <= c * Unit /\ c * Unit \in Nat
      BY <1>1, <3>1, <3>2
    <3> QED
      BY <1>1, <3>1, <3>3
  <2> QED
    BY <2>1, <2>2
<1>3. SectorsPerCluster = x \div b
  BY DEF SectorsPerCluster
<1> HIDE DEF s, c, b, x
<1>4. x \in Int /\ 1 * b <= x
  BY <1>1, <1>2
<1>5. x \div b \in Int /\ x \div b >= 1
  BY <1>1, <1>4, Quotient, QuotientAbove
<1> QED
  BY <1>3, <1>5

\* The sectors of a megabyte
LEMMA AlignLemma ==
    ASSUME VolumeOK
    PROVE  /\ AlignSectors \in Nat \ {0} /\ AlignSectors <= 2048
           /\ AlignSectors * volume.SectorSize = MB
<1> DEFINE s == volume.SectorSize
           b == BytesPerSect
           a == AlignSectors
<1>1. s \in Nat \ {0} /\ b = s * Unit /\ b \in {512, 1024, 2048, 4096}
  BY DEF VolumeOK, BytesPerSect
<1>2. Unit \in Nat \ {0} /\ MB \in Nat \ {0} /\ MB * Unit = 1048576
  BY UnitAssumption
<1>3. a = 1048576 \div b
  BY <1>2 DEF AlignSectors
<1> HIDE DEF s, b, a
<1>4. a \in Nat \ {0} /\ a <= 2048 /\ a * b = 1048576
  BY <1>1, <1>3
<1>5. (a * s) * Unit = a * (s * Unit)
  BY <1>1, <1>2, <1>4
<1>6. (a * s) * Unit = MB * Unit
  BY <1>1, <1>2, <1>4, <1>5
<1>7. a * s \in Int /\ MB \in Int
  BY <1>1, <1>2, <1>4
<1>8. a * s = MB
  BY <1>2, <1>6, <1>7, CancelFactor
<1> QED
  BY <1>4, <1>8 DEF a, s

\* What is rounded up to megabytes, in sectors
LEMMA Megabytes ==
    ASSUME NEW x \in Int, NEW a \in Nat \ {0}, NEW s \in Nat \ {0}, a * s = MB, MB \in Nat \ {0}
    PROVE  /\ CeilingAlign(x, a) \in Int /\ CeilingAlign(x, a) >= x /\ CeilingAlign(x, a) < x + a
           /\ (CeilingAlign(x, a) * s) % MB = 0
<1> DEFINE area == CeilingAlign(x, a)
           q == area \div a
<1>1. area \in Int /\ area >= x /\ area < x + a /\ area % a = 0
  BY CeilingLemma
<1> HIDE DEF area
<1>2. q \in Int /\ area = q * a
  BY <1>1, IsMultiple, Quotient
<1> HIDE DEF q
<1>3. (q * a) * s = q * (a * s)
  BY <1>2
<1>4. area * s = q * MB
  BY <1>2, <1>3
<1>5. (q * MB) % MB = 0
  BY <1>2, MultipleOf
<1> QED
  BY <1>1, <1>4, <1>5 DEF area

\* The reserved sectors fill the system area up to a megabyte.
LEMMA ReservedLemma ==
    ASSUME VolumeOK, NEW f \in Nat
    PROVE  /\ AlignedReserved(f) \in Nat /\ AlignedReserved(f) >= 32 /\ AlignedReserved(f) <= 2079
           /\ ((AlignedReserved(f) + 2 * f) * volume.SectorSize) % MB = 0
<1> DEFINE s == volume.SectorSize
           a == AlignSectors
           x == 32 + 2 * f
           area == CeilingAlign(x, a)
<1>1. s \in Nat \ {0} /\ MB \in Nat \ {0}
  BY UnitAssumption DEF VolumeOK
<1>2. a \in Nat \ {0} /\ a <= 2048 /\ a * s = MB
  BY AlignLemma
<1>3. AlignedReserved(f) = area - 2 * f
  BY DEF AlignedReserved, NumFATs
<1>4. x \in Int /\ x = 32 + 2 * f
  OBVIOUS
<1> HIDE DEF s, a, x
<1>5. x \in Int /\ a \in Nat \ {0} /\ a * s = MB
  BY <1>2, <1>4
<1>6. area \in Int /\ area >= x /\ area < x + a /\ (area * s) % MB = 0
  BY <1>1, <1>5, Megabytes, Zenon
<1> HIDE DEF area
<1>7. AlignedReserved(f) \in Nat /\ AlignedReserved(f) >= 32 /\ AlignedReserved(f) <= 2079
  BY <1>2, <1>3, <1>4, <1>6
<1>8. AlignedReserved(f) + 2 * f = area
  BY <1>3, <1>6
<1> QED
  BY <1>6, <1>7, <1>8 DEF s

\* The estimate of the FAT is large enough, for it is rounded up.
LEMMA FatEstimate ==
    ASSUME VolumeOK, TotalSectors >= MinSectors
    PROVE  /\ GetFATSizeSectors \in Nat \ {0}
           /\ GetFATSizeSectors * (SectorsPerCluster * (BytesPerSect \div 4) + 2) >
                  TotalSectors + 2 * SectorsPerCluster
<1> DEFINE b == BytesPerSect
           k == b \div 4
           p == SectorsPerCluster
           t == TotalSectors
           x == t + 2 * p
           y == p * k + 2
<1>1. b \in {512, 1024, 2048, 4096} /\ p \in Nat \ {0} /\ t \in Nat
  BY ClustersLemma, SectorsLemma DEF VolumeOK
<1>2. k \in Nat \ {0} /\ b = k * 4
  BY <1>1
<1>3. GetFATSizeSectors = x \div ((p * b) \div 4 + 2) + 1
  <2>1. t - 0 + 2 * p = x
    BY <1>1
  <2> QED
    BY <2>1 DEF GetFATSizeSectors, FatElementSize, NumFATs
<1> HIDE DEF b, k, p, t
<1>4. (p * b) \div 4 = p * k
  <2>1. p * b = (p * k) * 4 /\ p * k \in Int
    BY <1>1, <1>2
  <2> DEFINE pk == p * k
  <2>2. pk \in Int
    BY <2>1
  <2> HIDE DEF pk
  <2>3. (pk * 4) \div 4 = pk
    BY <2>2, MultipleOf
  <2> QED
    BY <2>1, <2>3 DEF pk
<1>5. x \in Nat /\ y \in Nat \ {0}
  BY <1>1, <1>2
<1>6. GetFATSizeSectors = x \div y + 1
  BY <1>3, <1>4
<1> HIDE DEF x, y
<1> DEFINE q == x \div y
<1>7. x \in Int /\ 0 * y <= x
  BY <1>5
<1>8. q \in Int /\ x < q * y + y /\ q >= 0
  BY <1>5, <1>7, Quotient, QuotientAbove
<1>9. GetFATSizeSectors = q + 1
  BY <1>6
<1> HIDE DEF q
<1>10. (q + 1) * y = q * y + y
  BY <1>5, <1>8
<1>11. q * y + y > x
  <2>1. q * y \in Int
    BY <1>5, <1>8
  <2> QED
    BY <1>5, <1>8, <2>1
<1> QED
  BY <1>8, <1>9, <1>10, <1>11 DEF x, y, k, b, p, t

\* The FAT and the reserved sectors as they are computed
Computed ==
    FatSize = GetFATSizeSectors /\ ReservedSectCount = AlignedReserved(GetFATSizeSectors)

\* The clusters begin at a megabyte, and end within the volume.
LEMMA DataLemma ==
    ASSUME VolumeOK, TotalSectors >= MinSectors, Computed
    PROVE  /\ FatSize \in Nat \ {0}
           /\ ReservedSectCount \in Nat /\ ReservedSectCount >= 32 /\ ReservedSectCount <= 2079
           /\ DataStart \in Nat /\ DataStart >= 2 * FatSize
           /\ (DataStart * volume.SectorSize) % MB = 0
           /\ ClusterCount \in Int
           /\ DataStart + ClusterCount * SectorsPerCluster <= TotalSectors
<1> DEFINE f == FatSize
           p == SectorsPerCluster
           x == TotalSectors - DataStart
<1>1. f \in Nat \ {0} /\ f = GetFATSizeSectors
  BY FatEstimate DEF Computed
<1>2. /\ ReservedSectCount \in Nat /\ ReservedSectCount >= 32 /\ ReservedSectCount <= 2079
      /\ ((ReservedSectCount + 2 * f) * volume.SectorSize) % MB = 0
  BY <1>1, ReservedLemma DEF Computed
<1>3. DataStart = ReservedSectCount + 2 * f
  BY DEF DataStart, NumFATs
<1>4. p \in Nat \ {0} /\ TotalSectors \in Nat
  BY ClustersLemma, SectorsLemma
<1>5. DataStart \in Nat /\ DataStart >= 2 * f
  BY <1>1, <1>2, <1>3
<1>6. x \in Int
  BY <1>4, <1>5
<1>7. ClusterCount = x \div p
  BY DEF ClusterCount
<1>8. DataStart + x = TotalSectors
  BY <1>4, <1>5
<1> HIDE DEF f, p, x
<1>9. ClusterCount \in Int /\ ClusterCount * p <= x
  BY <1>4, <1>6, <1>7, Quotient
<1>10. ClusterCount * p \in Int
  BY <1>4, <1>9
<1>11. DataStart + ClusterCount * p <= TotalSectors
  BY <1>4, <1>5, <1>6, <1>8, <1>9, <1>10
<1> QED
  BY <1>1, <1>2, <1>3, <1>5, <1>9, <1>11 DEF f, p

\* A FAT that is too long for its own sectors leaves too few sectors for its entries: the
\* estimate is made without the reserved sectors, and is above what is needed with them.
LEMMA EntriesLemma ==
    ASSUME VolumeOK, TotalSectors >= MinSectors, Computed
    PROVE  (ClusterCount + 2) * FatElementSize <= FatSize * BytesPerSect
<1> DEFINE f == FatSize
           p == SectorsPerCluster
           b == BytesPerSect
           k == b \div 4
           t == TotalSectors
           n == ClusterCount
           data == DataStart
<1>1. f \in Nat \ {0} /\ n \in Int /\ data \in Nat /\ data >= 2 * f /\ data + n * p <= t
  BY DataLemma
<1>2. p \in Nat \ {0} /\ t \in Nat
  BY ClustersLemma, SectorsLemma
<1>3. b \in {512, 1024, 2048, 4096}
  BY DEF VolumeOK
<1>4. k \in Nat \ {0} /\ b = k * 4
  BY <1>3
<1>5. f * (p * k + 2) > t + 2 * p
  BY FatEstimate DEF Computed
<1> HIDE DEF f, p, b, k, t, n, data
<1>6. f * (p * k + 2) = (f * k) * p + 2 * f
  BY <1>1, <1>2, <1>4
<1>7. (n + 2) * p = n * p + 2 * p
  BY <1>1, <1>2
<1> DEFINE fk == f * k
           np == n * p
           fkp == fk * p
<1>8. fk \in Int /\ np \in Int /\ fkp \in Int
  BY <1>1, <1>2, <1>4
<1>9. fkp + 2 * f > t + 2 * p /\ data + np <= t
  BY <1>1, <1>5, <1>6
<1>10. (n + 2) * p = np + 2 * p
  BY <1>7
<1>11. f * b = fk * 4
  BY <1>1, <1>4
<1> HIDE DEF np, fk
<1>12. fkp = fk * p
  OBVIOUS
<1> HIDE DEF fkp
<1>13. np + 2 * p < fkp
  BY <1>1, <1>2, <1>8, <1>9
<1>14. (n + 2) * p < fk * p
  BY <1>10, <1>12, <1>13
<1>15. n + 2 \in Int
  BY <1>1
<1>16. n + 2 < fk
  BY <1>2, <1>8, <1>14, <1>15, CancelFactor
<1>17. (n + 2) * 4 <= fk * 4
  BY <1>1, <1>8, <1>16
<1>18. (n + 2) * 4 <= f * b
  BY <1>11, <1>17
<1> QED
  BY <1>18 DEF n, f, b, FatElementSize

\* With as many clusters as FAT32 has, the bursts of zeros end within the volume.
LEMMA BurstsLemma ==
    ASSUME VolumeOK, TotalSectors >= MinSectors, Computed, ClusterCount \in MinClusters .. MaxClusters
    PROVE  /\ SystemAreaSize \in Nat
           /\ CeilingAlign(SystemAreaSize + BurstSize - 1, BurstSize) <= TotalSectors
<1> DEFINE p == SectorsPerCluster
           t == TotalSectors
           n == ClusterCount
           data == DataStart
           x == SystemAreaSize + BurstSize - 1
<1>1. n \in Int /\ data \in Nat /\ data + n * p <= t /\ n >= 65536
  <2>1. n >= 65536
    BY DEF MinClusters
  <2>2. n \in Int /\ data \in Nat /\ data + n * p <= t
    BY DataLemma
  <2> QED
    BY <2>1, <2>2
<1>2. p \in Nat \ {0} /\ t \in Nat
  BY ClustersLemma, SectorsLemma
<1>3. SystemAreaSize = data + p
  BY DEF SystemAreaSize
<1>4. x = data + p + 127 /\ x \in Int
  BY <1>1, <1>2, <1>3 DEF BurstSize
<1> HIDE DEF p, t, n, data, x
<1>5. n * p >= 65536 * p
  BY <1>1, <1>2
<1>6. x + 128 <= t
  <2>1. n * p \in Int
    BY <1>1, <1>2
  <2> QED
    BY <1>1, <1>2, <1>4, <1>5, <2>1
<1>7. 128 \in Nat \ {0}
  OBVIOUS
<1>8. CeilingAlign(x, 128) \in Int /\ CeilingAlign(x, 128) < x + 128
  BY <1>4, <1>7, CeilingLemma
<1>9. CeilingAlign(x, 128) <= t
  BY <1>2, <1>4, <1>6, <1>8
<1>10. SystemAreaSize \in Nat
  BY <1>1, <1>2, <1>3
<1> QED
  BY <1>9, <1>10 DEF x, t, BurstSize

-----------------------------------------------------------------------------
(* The invariant.                                                           *)

\* CreatePartition(): what has been decided at each step of it
Laying ==
    /\ layout # <<>> => layout = Layout /\ AssertsHold
    /\ pc = "layout" => layout = <<>> /\ result = "none"
    /\ pc \in {"clear", "uefi_ntfs", "create_disk", "set_layout"} =>
           layout # <<>> /\ MainSize > 0 /\ result = "none"
    /\ pc \in {"create_disk", "set_layout"} => (d.uefi_ntfs => written)
    /\ result = "true" /\ d.style # "SFD" =>
           /\ pc = "done" /\ layout # <<>> /\ MainSize > 0 /\ table = "new"
           /\ d.uefi_ntfs => written
    /\ result = "assert" => ~AssertsHold

\* FAT32 is made of the main partition, with clusters of the sizes that are offered.
Opened ==
    fat_pc # "closed" =>
        /\ result = "true" /\ d.style # "SFD"
        /\ d.ClusterSize * Unit >= 512 /\ d.ClusterSize * Unit <= 65536
        /\ volume = [Offset |-> MainOffset, Length |-> MainSize, SectorSize |-> d.SectorSize,
                     ClusterSize |-> FormatClusterSize]

\* FormatLargeFAT32(): what has been checked at each step of it
Making ==
    /\ r => fat_pc = "done" /\ ~MustClear
    /\ fat_pc \in {"closed", "size", "layout", "check", "clear"} \/ r =>
           ErrorStatus \in {"none", "cancelled"}
    /\ fat_pc \in {"layout", "check", "clear"} \/ r => TotalSectors >= MinSectors
    /\ fat_pc \in {"check", "clear"} \/ r => Computed
    /\ Committed => ClusterCount \in MinClusters .. MaxClusters
    /\ fat_pc # "assert"

IInv == DriveTypeOK /\ Laying /\ Opened /\ Making

-----------------------------------------------------------------------------
(* What is computed from the drive and from the volume does not change.     *)

\* What CreatePartition() computes depends on the drive and the options only...
LEMMA SameDrive ==
    ASSUME d' = d
    PROVE  /\ (d \in Drives)' <=> d \in Drives
           /\ Layout' = Layout /\ AssertsHold' = AssertsHold
           /\ MainSize' = MainSize /\ MainOffset' = MainOffset
           /\ FormatClusterSize' = FormatClusterSize
<1>1. /\ gpt' = gpt /\ bytes_per_track' = bytes_per_track /\ UseClusters' = UseClusters
      /\ FormatClusterSize' = FormatClusterSize
  BY DEF gpt, bytes_per_track, UseClusters, FormatClusterSize
<1>2. FirstOffset' = FirstOffset /\ last_offset' = last_offset
  BY <1>1 DEF FirstOffset, last_offset
<1>3. Front' = Front
  BY DEF Front
<1>4. Rear' = Rear
  BY <1>1 DEF Rear
<1>5. \A x : AlignNext(x)' = AlignNext(x)
  BY <1>1 DEF AlignNext
<1>6. \A k : FrontOffset(k)' = FrontOffset(k)
  BY <1>2, <1>3, <1>5 DEF FrontOffset
<1>7. MainOffset' = MainOffset
  BY <1>3, <1>6 DEF MainOffset
<1>8. \A k : RearOffset(k)' = RearOffset(k)
  BY <1>1, <1>2, <1>4 DEF RearOffset
<1>9. main_size' = main_size
  BY <1>4, <1>7, <1>8 DEF main_size
<1>10. MainSize' = MainSize
  BY <1>1, <1>9 DEF MainSize
<1>11. Layout' = Layout
  BY <1>3, <1>4, <1>6, <1>7, <1>8, <1>10 DEF Layout
<1>12. AssertsHold' = AssertsHold
  BY <1>3, <1>4, <1>6, <1>7, <1>8 DEF AssertsHold
<1> QED
  BY <1>1, <1>7, <1>10, <1>11, <1>12

\* ...and what FormatLargeFAT32() computes on the volume.
LEMMA SameVolume ==
    ASSUME volume' = volume
    PROVE  /\ TotalSectors' = TotalSectors /\ SectorsPerCluster' = SectorsPerCluster
           /\ GetFATSizeSectors' = GetFATSizeSectors
           /\ AlignedReserved(GetFATSizeSectors)' = AlignedReserved(GetFATSizeSectors)
           /\ UNCHANGED layoutVars => /\ ClusterCount' = ClusterCount
                                      /\ SystemAreaSize' = SystemAreaSize
                                      /\ Computed' = Computed
<1>1. TotalSectors' = TotalSectors /\ BytesPerSect' = BytesPerSect /\ ClusterBytes' = ClusterBytes
  BY DEF TotalSectors, BytesPerSect, ClusterBytes
<1>2. SectorsPerCluster' = SectorsPerCluster /\ AlignSectors' = AlignSectors
  BY <1>1 DEF SectorsPerCluster, AlignSectors
<1>3. GetFATSizeSectors' = GetFATSizeSectors
  BY <1>1, <1>2 DEF GetFATSizeSectors
<1>4. AlignedReserved(GetFATSizeSectors)' = AlignedReserved(GetFATSizeSectors)
  BY <1>2, <1>3 DEF AlignedReserved
<1>5. UNCHANGED layoutVars => DataStart' = DataStart
  BY DEF layoutVars, DataStart
<1>6. UNCHANGED layoutVars => ClusterCount' = ClusterCount /\ SystemAreaSize' = SystemAreaSize
  BY <1>1, <1>2, <1>5 DEF ClusterCount, SystemAreaSize
<1>7. UNCHANGED layoutVars => Computed' = Computed
  BY <1>3, <1>4 DEF layoutVars, Computed
<1> QED
  BY <1>1, <1>2, <1>3, <1>4, <1>6, <1>7

-----------------------------------------------------------------------------
(* The steps of CreatePartition().                                          *)

\* Nothing has been laid out or opened at the start.
LEMMA InitLemma == DriveInit => IInv
<1> SUFFICES ASSUME DriveInit PROVE IInv
  OBVIOUS
<1> USE DEF DriveInit, Init, FatInit
<1>1. TypeOK
  <2>1. \A k \in 1 .. Len(layout) : layout[k].Offset \in Nat /\ layout[k].Size \in Nat
    OBVIOUS
  <2> QED
    BY <2>1, Zenon DEF TypeOK
<1>2. FatTypeOK
  BY DEF FatTypeOK
<1>3. Laying
  BY DEF Laying
<1>4. Opened /\ Making
  BY DEF Opened, Making, Committed
<1> QED
  BY <1>1, <1>2, <1>3, <1>4 DEF IInv, DriveTypeOK

\* The steps of CreatePartition() keep the types, of the offsets and the sizes too...
LEMMA TypeStep == IInv /\ CreatePartition => TypeOK'
<1> SUFFICES ASSUME IInv, CreatePartition PROVE TypeOK'
  OBVIOUS
<1> USE DEF IInv, DriveTypeOK
<1> DEFINE Entries(l) == \A k \in 1 .. Len(l) : l[k].Offset \in Nat /\ l[k].Size \in Nat
           Rest == /\ pc' \in {"layout", "clear", "uefi_ntfs", "create_disk", "set_layout", "done"}
                   /\ result' \in {"none", "true", "false", "assert"}
                   /\ table' \in {"old", "empty", "new"}
<1>1. d \in Drives /\ Entries(layout)
  BY DEF TypeOK
<1>2. d' = d
  BY DEF CreatePartition, ReturnEarly, ComputeLayout, ClearPartitions, WriteUefiNtfs,
         CreateDisk, SetLayout
<1>3. layout' = layout \/ (layout' = Layout /\ AssertsHold)
  BY DEF CreatePartition, ReturnEarly, ComputeLayout, ClearPartitions, WriteUefiNtfs,
         CreateDisk, SetLayout
<1>4. Entries(layout)'
  <2>1. AssertsHold => Entries(Layout)
    BY <1>1, LayoutType
  <2> HIDE DEF IInv
  <2> QED
    BY <1>1, <1>3, <2>1
<1>5. written' \in BOOLEAN
  <2>1. written' = written \/ written' = TRUE
    BY DEF CreatePartition, ReturnEarly, ComputeLayout, ClearPartitions, WriteUefiNtfs,
           CreateDisk, SetLayout
  <2>2. written \in BOOLEAN
    BY DEF TypeOK
  <2> QED
    BY <2>1, <2>2, Zenon
<1>6. Rest
  <2>1. CASE ReturnEarly
    BY <2>1 DEF ReturnEarly, TypeOK
  <2>2. CASE ComputeLayout
    BY <2>2 DEF ComputeLayout, TypeOK
  <2>3. CASE ClearPartitions
    BY <2>3 DEF ClearPartitions, Fail, TypeOK
  <2>4. CASE WriteUefiNtfs
    BY <2>4 DEF WriteUefiNtfs, Fail, TypeOK
  <2>5. CASE CreateDisk
    BY <2>5 DEF CreateDisk, Fail, TypeOK
  <2>6. CASE SetLayout
    BY <2>6 DEF SetLayout, Fail, TypeOK
  <2> QED
    BY <2>1, <2>2, <2>3, <2>4, <2>5, <2>6 DEF CreatePartition
<1>7. d' \in Drives'
  BY <1>1, <1>2, SameDrive
<1> QED
  BY <1>4, <1>5, <1>6, <1>7, Zenon DEF TypeOK

\* ...and what has been decided.
LEMMA LayingStep == IInv /\ CreatePartition => Laying'
<1> SUFFICES ASSUME IInv, CreatePartition PROVE Laying'
  OBVIOUS
<1>0. d \in Drives /\ Laying
  BY DEF IInv, DriveTypeOK, TypeOK
<1>1. d' = d
  BY DEF CreatePartition, ReturnEarly, ComputeLayout, ClearPartitions, WriteUefiNtfs,
         CreateDisk, SetLayout
<1>2. Layout' = Layout /\ AssertsHold' = AssertsHold /\ MainSize' = MainSize
  BY <1>1, SameDrive
<1>3. Layout # <<>>
  BY <1>0, LayoutLemma
<1>4. CASE ReturnEarly
  BY <1>0, <1>1, <1>2, <1>4 DEF ReturnEarly, Laying
<1>5. CASE ComputeLayout
  BY <1>0, <1>1, <1>2, <1>3, <1>5 DEF ComputeLayout, Laying
<1>6. CASE ClearPartitions
  BY <1>0, <1>1, <1>2, <1>6 DEF ClearPartitions, Fail, Laying
<1>7. CASE WriteUefiNtfs
  BY <1>0, <1>1, <1>2, <1>7 DEF WriteUefiNtfs, Fail, Laying
<1>8. CASE CreateDisk
  BY <1>0, <1>1, <1>2, <1>8 DEF CreateDisk, Fail, Laying
<1>9. CASE SetLayout
  BY <1>0, <1>1, <1>2, <1>9 DEF SetLayout, Fail, Laying
<1> QED
  BY <1>4, <1>5, <1>6, <1>7, <1>8, <1>9 DEF CreatePartition

\* FAT32 waits for the end of CreatePartition().
LEMMA NotOpened == IInv /\ CreatePartition => fat_pc = "closed"
<1> SUFFICES ASSUME IInv, CreatePartition, fat_pc # "closed" PROVE FALSE
  OBVIOUS
<1>1. pc = "done"
  BY DEF IInv, Opened, Laying
<1> QED
  BY <1>1 DEF CreatePartition, ReturnEarly, ComputeLayout, ClearPartitions, WriteUefiNtfs,
              CreateDisk, SetLayout

\* A step of CreatePartition() preserves the invariant.
LEMMA CreatePartitionStep == IInv /\ CreatePartition /\ UNCHANGED fatVars => IInv'
<1> SUFFICES ASSUME IInv, CreatePartition, UNCHANGED fatVars PROVE IInv'
  OBVIOUS
<1>1. TypeOK' /\ Laying'
  BY TypeStep, LayingStep
<1>2. fat_pc = "closed" /\ fat_pc' = fat_pc
  BY NotOpened DEF fatVars
<1>3. FatTypeOK'
  BY DEF IInv, DriveTypeOK, FatTypeOK, fatVars, layoutVars
<1>4. ~r' /\ ErrorStatus' \in {"none", "cancelled"}
  BY <1>2 DEF IInv, Making, fatVars
<1>5. Opened'
  BY <1>2 DEF Opened
<1>6. Making'
  BY <1>2, <1>4 DEF Making, Committed
<1> QED
  BY <1>1, <1>3, <1>5, <1>6 DEF IInv, DriveTypeOK

-----------------------------------------------------------------------------
(* The steps of FormatLargeFAT32().                                         *)

\* Clusters of up to 64 KB divide a megabyte.
LEMMA ClustersDivide ==
    ASSUME NEW c \in ClusterSizes, c * Unit <= 65536
    PROVE  MB % c = 0
<1>1. /\ c \in Nat \ {0} /\ (MB % c = 0 \/ c % MB = 0)
      /\ Unit \in Nat \ {0} /\ MB \in Nat \ {0} /\ MB * Unit = 1048576
  BY LayoutAssumption, UnitAssumption
<1>2. ASSUME c % MB = 0 PROVE FALSE
  <2> DEFINE q == c \div MB
  <2>1. q \in Int /\ c = q * MB
    BY <1>1, <1>2, IsMultiple, Quotient
  <2> HIDE DEF q
  <2>2. ~(q <= 0)
    <3> SUFFICES ASSUME q <= 0 PROVE FALSE
      OBVIOUS
    <3>1. q * MB <= 0
      BY <1>1, <2>1
    <3> QED
      BY <1>1, <2>1, <3>1
  <2>3. c * Unit = q * (MB * Unit)
    BY <1>1, <2>1
  <2> QED
    BY <1>1, <2>1, <2>2, <2>3
<1> QED
  BY <1>1, <1>2

\* The volume that FAT32 is made in
LEMMA OpenedVolume ==
    ASSUME IInv, fat_pc # "closed"
    PROVE  /\ d \in Drives /\ VolumeOK /\ layout = Layout /\ MainSize > 0
           /\ volume.Offset = MainOffset /\ volume.Length = MainSize
           /\ volume.ClusterSize # 0 => UseClusters /\ volume.ClusterSize = d.ClusterSize
<1> DEFINE c == d.ClusterSize
           s == d.SectorSize
<1>1. d \in Drives /\ Laying /\ Opened
  BY DEF IInv, DriveTypeOK, TypeOK
<1>2. /\ c * Unit >= 512 /\ c * Unit <= 65536 /\ result = "true" /\ d.style # "SFD"
      /\ volume = [Offset |-> MainOffset, Length |-> MainSize, SectorSize |-> d.SectorSize,
                   ClusterSize |-> FormatClusterSize]
  BY <1>1 DEF Opened
<1>3. layout = Layout /\ MainSize > 0 /\ AssertsHold
  BY <1>1, <1>2 DEF Laying
<1>4. /\ s \in Nat \ {0} /\ c \in Nat \ {0} /\ c \in ClusterSizes /\ s \in SectorSizes
  BY <1>1, DriveLemma
<1>5. MainSize \in Nat
  BY <1>1, <1>3, MainLemma
<1>6. s * Unit \in {512, 1024, 2048, 4096}
  BY <1>4, LayoutAssumption
<1>7. MB % c = 0
  BY <1>2, <1>4, ClustersDivide
<1>8. c % s = 0
  <2>1. c % s = 0 \/ c * Unit = 256
    BY <1>1 DEF Drives
  <2> QED
    BY <1>2, <2>1
<1>9. UseClusters
  BY <1>8 DEF UseClusters
<1>10. /\ volume.Offset = MainOffset /\ volume.Length = MainSize /\ volume.SectorSize = s
       /\ volume.ClusterSize = FormatClusterSize
  BY <1>2
<1>11. FormatClusterSize = 0 \/ FormatClusterSize = c
  BY DEF FormatClusterSize
<1>12. BytesPerSect = s * Unit
  BY <1>10 DEF BytesPerSect
<1> HIDE DEF c, s
<1>13. VolumeOK
  BY <1>4, <1>5, <1>6, <1>7, <1>8, <1>10, <1>11, <1>12 DEF VolumeOK
<1> QED
  BY <1>1, <1>3, <1>9, <1>10, <1>11, <1>13 DEF c

\* What the two agree on while the volume is made
LEMMA OpenedStep ==
    ASSUME IInv, UNCHANGED vars, UNCHANGED volume, fat_pc' # "closed" => fat_pc # "closed"
    PROVE  TypeOK' /\ Laying' /\ Opened'
<1>1. d' = d /\ UNCHANGED <<pc, layout, result, written, table>>
  BY DEF vars
<1>2. /\ Layout' = Layout /\ AssertsHold' = AssertsHold /\ MainSize' = MainSize
      /\ MainOffset' = MainOffset /\ FormatClusterSize' = FormatClusterSize
      /\ (d \in Drives)' <=> d \in Drives
  BY <1>1, SameDrive
<1>3. TypeOK'
  BY <1>1, <1>2, Zenon DEF IInv, DriveTypeOK, TypeOK
<1>4. Laying'
  BY <1>1, <1>2 DEF IInv, Laying
<1>5. Opened'
  BY <1>1, <1>2 DEF IInv, Opened
<1> QED
  BY <1>3, <1>4, <1>5

\* The main partition is opened.
LEMMA FormatStep == IInv /\ FormatMain /\ UNCHANGED vars => IInv'
<1> SUFFICES ASSUME IInv, FormatMain, UNCHANGED vars PROVE IInv'
  OBVIOUS
<1>1. d' = d /\ UNCHANGED <<pc, layout, result, written, table>>
  BY DEF vars
<1>2. /\ Layout' = Layout /\ AssertsHold' = AssertsHold /\ MainSize' = MainSize
      /\ MainOffset' = MainOffset /\ FormatClusterSize' = FormatClusterSize
      /\ (d \in Drives)' <=> d \in Drives
  BY <1>1, SameDrive
<1>3. TypeOK'
  BY <1>1, <1>2, Zenon DEF IInv, DriveTypeOK, TypeOK
<1>4. Laying'
  BY <1>1, <1>2 DEF IInv, Laying
<1>5. /\ fat_pc = "closed" /\ ~r /\ UNCHANGED <<FatSize, ReservedSectCount, cleared, r>>
      /\ \/ fat_pc' = "size" /\ UNCHANGED ErrorStatus
         \/ fat_pc' = "done" /\ ErrorStatus' = "open_failed"
  BY DEF FormatMain, Format, Continue, Die, layoutVars, IInv, Making
<1>6. ErrorStatus \in {"none", "cancelled"}
  BY <1>5 DEF IInv, Making
<1>7. FatTypeOK'
  <2>1. r' \in BOOLEAN
    BY <1>5, Zenon DEF IInv, DriveTypeOK, FatTypeOK
  <2> QED
    BY <1>5, <1>6, <2>1 DEF IInv, DriveTypeOK, FatTypeOK
<1>8. Opened'
  <2>1. /\ result = "true" /\ d.style # "SFD" /\ d.ClusterSize * Unit <= 65536
        /\ d.ClusterSize * Unit >= (IF d.DiskSize >= 32 * 1024 * MB THEN 16384 ELSE 512)
        /\ volume' = [Offset |-> main.Offset, Length |-> main.Size, SectorSize |-> d.SectorSize,
                      ClusterSize |-> FormatClusterSize]
    BY DEF FormatMain, Format
  <2>2. main.Offset = MainOffset /\ main.Size = MainSize
    <3>1. d \in Drives /\ layout = Layout
      BY <2>1 DEF IInv, DriveTypeOK, TypeOK, Laying
    <3> QED
      BY <3>1, LayoutLemma DEF main
  <2>3. d.ClusterSize * Unit >= 512
    <3>1. d.ClusterSize \in Nat /\ Unit \in Nat
      BY DriveLemma, UnitAssumption DEF IInv, DriveTypeOK, TypeOK
    <3> QED
      BY <2>1, <3>1
  <2> QED
    BY <1>1, <1>2, <2>1, <2>2, <2>3 DEF Opened
<1>9. Making'
  BY <1>5, <1>6 DEF Making, Committed
<1> QED
  BY <1>3, <1>4, <1>7, <1>8, <1>9 DEF IInv, DriveTypeOK

\* The sizes stay as they are computed.
LEMMA MakingKept ==
    ASSUME IInv, UNCHANGED volume, UNCHANGED layoutVars
    PROVE  /\ TotalSectors' = TotalSectors /\ ClusterCount' = ClusterCount
           /\ SystemAreaSize' = SystemAreaSize /\ Computed' = Computed
  BY SameVolume

\* The limits of FAT32 are numbers.
LEMMA Limits ==
    MinSectors' = MinSectors /\ MinClusters' = MinClusters /\ MaxClusters' = MaxClusters
  BY DEF MinSectors, MinClusters, MaxClusters

\* A volume that is not refused has 65536 sectors.
LEMMA CheckSizeStep == IInv /\ CheckSize => FatTypeOK' /\ Making'
<1> SUFFICES ASSUME IInv, CheckSize PROVE FatTypeOK' /\ Making'
  OBVIOUS
<1>1. /\ fat_pc = "size" /\ ~r /\ UNCHANGED <<volume, FatSize, ReservedSectCount, cleared, r>>
      /\ ErrorStatus \in {"none", "cancelled"}
      /\ \/ fat_pc' = "done"
         \/ fat_pc' = "layout" /\ UNCHANGED ErrorStatus /\ TotalSectors >= MinSectors
      /\ \/ UNCHANGED ErrorStatus
         \/ ErrorStatus' \in {"too_small", "not_enough_memory"}
  BY DEF CheckSize, Continue, Die, layoutVars, IInv, Making
<1>2. TotalSectors' = TotalSectors
  BY <1>1, SameVolume
<1>3. r' \in BOOLEAN
  BY <1>1, Zenon DEF IInv, DriveTypeOK, FatTypeOK
<1>4. FatTypeOK'
  BY <1>1, <1>3 DEF IInv, DriveTypeOK, FatTypeOK
<1>5. MinSectors' = MinSectors
  BY DEF MinSectors
<1>6. Making'
  BY <1>1, <1>2, <1>5 DEF Making, Committed
<1> QED
  BY <1>4, <1>6

\* The assert on the sectors of a cluster holds.
LEMMA ComputeFatStep == IInv /\ ComputeFat => FatTypeOK' /\ Making'
<1> SUFFICES ASSUME IInv, ComputeFat PROVE FatTypeOK' /\ Making'
  OBVIOUS
<1>1. /\ fat_pc = "layout" /\ ~r /\ UNCHANGED <<volume, cleared, r, ErrorStatus>>
      /\ FatSize' = GetFATSizeSectors /\ ReservedSectCount' = AlignedReserved(GetFATSizeSectors)
      /\ fat_pc' = IF SectorsPerCluster > 0 THEN "check" ELSE "assert"
      /\ ErrorStatus \in {"none", "cancelled"} /\ TotalSectors >= MinSectors
  BY DEF ComputeFat, Continue, IInv, Making
<1>2. VolumeOK
  BY <1>1, OpenedVolume
<1>3. SectorsPerCluster \in Nat \ {0} /\ GetFATSizeSectors \in Nat \ {0}
  BY <1>1, <1>2, ClustersLemma, FatEstimate
<1>4. AlignedReserved(GetFATSizeSectors) \in Nat
  BY <1>2, <1>3, ReservedLemma
<1>5. fat_pc' = "check"
  BY <1>1, <1>3
<1>6. TotalSectors' = TotalSectors /\ MinSectors' = MinSectors /\ Computed'
  BY <1>1, SameVolume DEF MinSectors, Computed
<1>7. r' \in BOOLEAN
  BY <1>1, Zenon DEF IInv, DriveTypeOK, FatTypeOK
<1>8. FatTypeOK'
  BY <1>1, <1>3, <1>4, <1>5, <1>7 DEF IInv, DriveTypeOK, FatTypeOK
<1>9. Making'
  BY <1>1, <1>5, <1>6 DEF Making, Committed
<1> QED
  BY <1>8, <1>9

\* A volume that is not refused has as many clusters as FAT32 may have.
LEMMA CheckClustersStep == IInv /\ CheckClusters => FatTypeOK' /\ Making'
<1> SUFFICES ASSUME IInv, CheckClusters PROVE FatTypeOK' /\ Making'
  OBVIOUS
<1>1. /\ fat_pc = "check" /\ ~r /\ UNCHANGED <<volume, FatSize, ReservedSectCount, cleared>>
      /\ ErrorStatus \in {"none", "cancelled"} /\ TotalSectors >= MinSectors /\ Computed
  BY DEF CheckClusters, layoutVars, IInv, Making
<1>2. VolumeOK
  BY <1>1, OpenedVolume
<1>3. ClusterCount \in Int
  BY <1>1, <1>2, DataLemma
<1>4. /\ UNCHANGED r
      /\ \/ /\ fat_pc' = "done"
            /\ ErrorStatus' \in {"invalid_cluster_size", "invalid_volume_size", "not_enough_memory"}
         \/ /\ fat_pc' = "clear" /\ UNCHANGED ErrorStatus
            /\ ClusterCount \in MinClusters .. MaxClusters
  <2>1. MinClusters \in Int /\ MaxClusters \in Int
    BY DEF MinClusters, MaxClusters
  <2>2. CASE ClusterCount > MaxClusters \/ ClusterCount < MinClusters
    <3>1. Die("invalid_cluster_size")
      BY <1>3, <2>1, <2>2 DEF CheckClusters
    <3> QED
      BY <3>1 DEF Die
  <2>3. CASE ClusterCount \in MinClusters .. MaxClusters /\ FatNeeded > FatSize
    <3>1. Die("invalid_volume_size")
      BY <1>3, <2>1, <2>3 DEF CheckClusters
    <3> QED
      BY <3>1 DEF Die
  <2>4. CASE ClusterCount \in MinClusters .. MaxClusters /\ ~(FatNeeded > FatSize)
    <3>1. Continue("clear") \/ Die("not_enough_memory")
      BY <1>3, <2>1, <2>4 DEF CheckClusters
    <3> QED
      BY <2>4, <3>1 DEF Die, Continue
  <2> QED
    BY <1>3, <2>1, <2>2, <2>3, <2>4
<1>5. /\ TotalSectors' = TotalSectors /\ ClusterCount' = ClusterCount /\ Computed' = Computed
      /\ MinSectors' = MinSectors /\ MinClusters' = MinClusters /\ MaxClusters' = MaxClusters
  BY <1>1, MakingKept, Limits DEF layoutVars
<1>6. r' \in BOOLEAN
  BY <1>4, Zenon DEF IInv, DriveTypeOK, FatTypeOK
<1>7. FatTypeOK'
  BY <1>1, <1>4, <1>6 DEF IInv, DriveTypeOK, FatTypeOK
<1>8. Making'
  BY <1>1, <1>4, <1>5 DEF Making, Committed
<1> QED
  BY <1>7, <1>8

\* The sizes stay while bursts are written...
LEMMA ClearStep == IInv /\ Clear => FatTypeOK' /\ Making'
<1> SUFFICES ASSUME IInv, Clear PROVE FatTypeOK' /\ Making'
  OBVIOUS
<1>1. /\ fat_pc = "clear" /\ ~r /\ UNCHANGED <<volume, FatSize, ReservedSectCount, r>>
      /\ ErrorStatus \in {"none", "cancelled"} /\ TotalSectors >= MinSectors /\ Computed
      /\ ClusterCount \in MinClusters .. MaxClusters
      /\ \/ fat_pc' = "done" /\ cleared' = cleared /\ ErrorStatus' \in {"cancelled", "write_fault"}
         \/ fat_pc' = "clear" /\ cleared' = cleared + BurstSize /\ ErrorStatus' = ErrorStatus
  BY DEF Clear, Continue, Die, layoutVars, IInv, Making, Committed
<1>2. /\ TotalSectors' = TotalSectors /\ ClusterCount' = ClusterCount /\ Computed' = Computed
      /\ MinSectors' = MinSectors /\ MinClusters' = MinClusters /\ MaxClusters' = MaxClusters
  BY <1>1, MakingKept, Limits DEF layoutVars
<1>3. r' \in BOOLEAN
  BY <1>1, Zenon DEF IInv, DriveTypeOK, FatTypeOK
<1>4. cleared' \in Nat
  BY <1>1 DEF IInv, DriveTypeOK, FatTypeOK, BurstSize
<1>5. FatTypeOK'
  BY <1>1, <1>3, <1>4 DEF IInv, DriveTypeOK, FatTypeOK
<1>6. Making'
  BY <1>1, <1>2 DEF Making, Committed
<1> QED
  BY <1>5, <1>6

\* ...and the function succeeds when no more of them are due.
LEMMA FinishStep == IInv /\ Finish => FatTypeOK' /\ Making'
<1> SUFFICES ASSUME IInv, Finish PROVE FatTypeOK' /\ Making'
  OBVIOUS
<1>1. /\ fat_pc = "clear" /\ ~MustClear /\ fat_pc' = "done" /\ r' = TRUE
      /\ UNCHANGED <<volume, FatSize, ReservedSectCount, cleared, ErrorStatus>>
      /\ ErrorStatus \in {"none", "cancelled"} /\ TotalSectors >= MinSectors /\ Computed
      /\ ClusterCount \in MinClusters .. MaxClusters
  BY DEF Finish, layoutVars, IInv, Making, Committed
<1>2. /\ TotalSectors' = TotalSectors /\ ClusterCount' = ClusterCount /\ Computed' = Computed
      /\ SystemAreaSize' = SystemAreaSize
      /\ MinSectors' = MinSectors /\ MinClusters' = MinClusters /\ MaxClusters' = MaxClusters
  BY <1>1, MakingKept, Limits DEF layoutVars
<1>3. MustClear' = MustClear
  BY <1>1, <1>2 DEF MustClear, BurstSize
<1>4. FatTypeOK'
  BY <1>1 DEF IInv, DriveTypeOK, FatTypeOK
<1>5. Making'
  BY <1>1, <1>2, <1>3 DEF Making, Committed
<1> QED
  BY <1>4, <1>5

\* The user may cancel at any time.
LEMMA CancelStep == IInv /\ UserCancel => FatTypeOK' /\ Making'
<1> SUFFICES ASSUME IInv, UserCancel PROVE FatTypeOK' /\ Making'
  OBVIOUS
<1>1. /\ fat_pc \notin {"closed", "done"} /\ ~r /\ ErrorStatus' = "cancelled"
      /\ UNCHANGED <<volume, fat_pc, FatSize, ReservedSectCount, cleared, r>>
  BY DEF UserCancel, layoutVars, IInv, Making
<1>2. /\ TotalSectors' = TotalSectors /\ ClusterCount' = ClusterCount /\ Computed' = Computed
      /\ MinSectors' = MinSectors /\ MinClusters' = MinClusters /\ MaxClusters' = MaxClusters
  BY <1>1, MakingKept, Limits DEF layoutVars
<1>3. r' \in BOOLEAN
  BY <1>1, Zenon DEF IInv, DriveTypeOK, FatTypeOK
<1>4. FatTypeOK'
  BY <1>1, <1>3 DEF IInv, DriveTypeOK, FatTypeOK
<1>5. Making'
  BY <1>1, <1>2 DEF IInv, Making, Committed
<1> QED
  BY <1>4, <1>5

\* Other parts of the program leave all of it alone.
LEMMA StutterStep == IInv /\ UNCHANGED allVars => IInv'
<1> SUFFICES ASSUME IInv, UNCHANGED allVars PROVE IInv'
  OBVIOUS
<1>1. UNCHANGED vars /\ UNCHANGED <<volume, fat_pc, FatSize, ReservedSectCount, cleared, r, ErrorStatus>>
  BY DEF allVars, fatVars, layoutVars
<1>2. TypeOK' /\ Laying' /\ Opened'
  BY <1>1, OpenedStep
<1>3. FatTypeOK'
  BY <1>1, Zenon DEF IInv, DriveTypeOK, FatTypeOK
<1>4. /\ TotalSectors' = TotalSectors /\ ClusterCount' = ClusterCount /\ Computed' = Computed
      /\ SystemAreaSize' = SystemAreaSize
      /\ MinSectors' = MinSectors /\ MinClusters' = MinClusters /\ MaxClusters' = MaxClusters
  BY <1>1, MakingKept, Limits DEF layoutVars
<1>5. MustClear' = MustClear
  BY <1>1, <1>4 DEF MustClear, BurstSize
<1>6. Making'
  BY <1>1, <1>4, <1>5 DEF IInv, Making, Committed
<1> QED
  BY <1>2, <1>3, <1>6 DEF IInv, DriveTypeOK

\* IInv is inductive.
LEMMA Invariance == DriveSpec => []IInv
<1>1. DriveInit => IInv
  BY InitLemma
<1>2. IInv /\ [DriveNext]_allVars => IInv'
  <2> SUFFICES ASSUME IInv, [DriveNext]_allVars PROVE IInv'
    OBVIOUS
  <2>1. CASE CreatePartition /\ UNCHANGED fatVars
    BY <2>1, CreatePartitionStep
  <2>2. CASE FormatMain /\ UNCHANGED vars
    BY <2>2, FormatStep
  <2>3. CASE (FormatLargeFAT32 \/ UserCancel) /\ UNCHANGED vars
    <3>1. FatTypeOK' /\ Making'
      BY <2>3, CheckSizeStep, ComputeFatStep, CheckClustersStep, ClearStep, FinishStep, CancelStep
         DEF FormatLargeFAT32
    <3>2. fat_pc # "closed" /\ UNCHANGED volume
      BY <2>3 DEF FormatLargeFAT32, CheckSize, ComputeFat, CheckClusters, Clear, Finish, UserCancel
    <3>3. TypeOK' /\ Laying' /\ Opened'
      <4>1. UNCHANGED vars
        BY <2>3
      <4> QED
        BY <3>2, <4>1, OpenedStep
    <3> QED
      BY <3>1, <3>3 DEF IInv, DriveTypeOK
  <2>4. CASE UNCHANGED allVars
    BY <2>4, StutterStep
  <2> QED
    BY <2>1, <2>2, <2>3, <2>4 DEF DriveNext
<1> QED
  BY <1>1, <1>2, PTL DEF DriveSpec

-----------------------------------------------------------------------------
(* The theorems.                                                            *)

\* Offsets and sizes of partitions, and the numbers of sectors of FAT32, are never negative,
\* though they are differences: the program keeps them in unsigned integers.
THEOREM TypeCorrect == DriveSpec => []DriveTypeOK
<1>1. IInv => DriveTypeOK
  BY DEF IInv
<1> QED
  BY <1>1, Invariance, PTL

\* Whatever the size and the geometry of the drive and the options, the partitions that
\* CreatePartition() writes are in order, do not overlap, end on the drive before the backup
\* of the GPT, and are aligned to clusters and tracks.
THEOREM PartitionsAreSound == DriveSpec => []LayoutIsSound
<1>1. IInv => LayoutIsSound
  <2> SUFFICES ASSUME IInv PROVE LayoutIsSound
    OBVIOUS
  <2>1. CASE Laid
    <3>1. d \in Drives /\ layout = Layout
      BY <2>1 DEF Laid, IInv, DriveTypeOK, TypeOK, Laying
    <3>2. MainSize > 0
      BY <2>1, <3>1, LayoutLemma DEF Laid
    <3> QED
      BY <3>1, <3>2, SoundLayout
  <2>2. CASE ~Laid
    BY <2>2 DEF LayoutIsSound, PartitionsAreApart, LayoutIsAligned
  <2> QED
    BY <2>1, <2>2
<1> QED
  BY <1>1, Invariance, PTL

\* On a drive with the room of its partitions and of seven tracks, none of the asserts of
\* CreatePartition() ends the program, and the main partition is not empty.
THEOREM AssertsNeverFail == DriveSpec => []RoomIsEnough
<1>1. IInv => RoomIsEnough
  <2> SUFFICES ASSUME IInv, d.DiskSize >= Needed
               PROVE  result # "assert" /\ (layout # <<>> => Laid)
    BY DEF RoomIsEnough
  <2>1. d \in Drives /\ Laying
    BY DEF IInv, DriveTypeOK, TypeOK
  <2>2. AssertsHold /\ MainSize > 0
    BY <2>1, EnoughRoom
  <2>3. result # "assert"
    BY <2>1, <2>2 DEF Laying
  <2>4. layout # <<>> => layout = Layout
    BY <2>1 DEF Laying
  <2>5. Layout[Len(Front) + 1].Size = MainSize
    BY <2>1, LayoutLemma
  <2> QED
    BY <2>2, <2>3, <2>4, <2>5 DEF Laid
<1> QED
  BY <1>1, Invariance, PTL

\* What the invariant says of a volume that is being zeroed, or was formatted
LEMMA CommittedLemma ==
    ASSUME IInv, Committed
    PROVE  /\ fat_pc # "closed" /\ VolumeOK /\ TotalSectors >= MinSectors /\ Computed
           /\ ClusterCount \in MinClusters .. MaxClusters
<1>1. /\ fat_pc # "closed" /\ TotalSectors >= MinSectors /\ Computed
      /\ ClusterCount \in MinClusters .. MaxClusters
  BY DEF IInv, Making, Committed
<1> QED
  BY <1>1, OpenedVolume

\* Whatever the volume, FormatLargeFAT32() makes a FAT with an entry for each cluster,
\* reserved sectors that put the clusters at a megabyte, and no cluster without a sector;
\* it zeroes all of the system area and succeeds only then.
THEOREM FileSystemIsSound == DriveSpec => []FatIsSound
<1>1. IInv => FatIsSound
  <2> SUFFICES ASSUME IInv PROVE FatIsSound
    OBVIOUS
  <2>1. EveryClusterHasAnEntry
    BY CommittedLemma, EntriesLemma, DataLemma DEF EveryClusterHasAnEntry
  <2>2. ReservedIsSound
    <3> SUFFICES ASSUME Committed
                 PROVE  /\ ReservedSectCount \in BackupBootSect + 3 .. 65535
                        /\ (DataStart * volume.SectorSize) % MB = 0
      BY DEF ReservedIsSound
    <3>1. /\ ReservedSectCount \in Nat /\ ReservedSectCount >= 32 /\ ReservedSectCount <= 2079
          /\ (DataStart * volume.SectorSize) % MB = 0
      BY CommittedLemma, DataLemma
    <3>2. BackupBootSect = 6
      BY DEF BackupBootSect
    <3> QED
      BY <3>1, <3>2
  <2>3. ClustersAreNotEmpty
    BY DEF IInv, Making, ClustersAreNotEmpty
  <2>4. SuccessIsCleared
    <3>1. Committed => CeilingAlign(SystemAreaSize + BurstSize - 1, BurstSize) <= TotalSectors
      BY CommittedLemma, BurstsLemma
    <3>2. r => cleared >= SystemAreaSize
      <4> SUFFICES ASSUME r PROVE cleared >= SystemAreaSize
        OBVIOUS
      <4>1. Committed
        BY DEF Committed
      <4>2. SystemAreaSize \in Nat
        BY <4>1, CommittedLemma, BurstsLemma
      <4>3. ~MustClear /\ cleared \in Nat
        BY DEF IInv, DriveTypeOK, FatTypeOK, Making
      <4> QED
        BY <4>2, <4>3 DEF MustClear, BurstSize
    <3>3. r => ErrorStatus \in {"none", "cancelled"}
      BY DEF IInv, Making
    <3> QED
      BY <3>1, <3>2, <3>3 DEF SuccessIsCleared
  <2> QED
    BY <2>1, <2>2, <2>3, <2>4 DEF FatIsSound
<1> QED
  BY <1>1, Invariance, PTL

\* The two together: the clusters are aligned on the drive, the file system stays within the
\* main partition and clear of the extra ones, and the boot loader of UEFI:NTFS is in place.
THEOREM FileSystemFits == DriveSpec => []FatFitsTheDrive
<1>1. IInv => FatFitsTheDrive
  <2> SUFFICES ASSUME IInv PROVE FatFitsTheDrive
    OBVIOUS
  <2>1. ASSUME Committed
        PROVE  /\ fat_pc # "closed" /\ VolumeOK /\ TotalSectors >= MinSectors /\ Computed
               /\ d \in Drives /\ layout = Layout /\ MainSize > 0
               /\ volume.Offset = MainOffset /\ volume.Length = MainSize
               /\ volume.ClusterSize # 0 => UseClusters /\ volume.ClusterSize = d.ClusterSize
    BY <2>1, CommittedLemma, OpenedVolume
  <2>2. ClustersAreAligned
    <3> SUFFICES ASSUME Committed, volume.ClusterSize # 0
                 PROVE  (volume.Offset + DataStart * volume.SectorSize) % volume.ClusterSize = 0
      BY DEF ClustersAreAligned
    <3> DEFINE c == volume.ClusterSize
               x == volume.Offset
               y == DataStart * volume.SectorSize
    <3>1. c \in Nat \ {0} /\ MB % c = 0 /\ MB \in Nat \ {0} /\ volume.SectorSize \in Nat
      BY <2>1, UnitAssumption DEF VolumeOK
    <3>2. x \in Int /\ x % c = 0
      BY <2>1, <3>1, FrontOffsets
    <3>3. DataStart \in Nat /\ y % MB = 0
      BY <2>1, DataLemma
    <3>4. y \in Int
      BY <3>1, <3>3
    <3> HIDE DEF c, x, y
    <3>5. y % c = 0
      BY <3>1, <3>3, <3>4, MultipleOfMultiple
    <3>6. (x + y) % c = 0
      BY <3>1, <3>2, <3>4, <3>5, SumOfMultiples
    <3> QED
      BY <3>6 DEF c, x, y
  <2>3. FatIsInMain
    <3> SUFFICES ASSUME Committed
                 PROVE  /\ volume.Offset + TotalSectors * volume.SectorSize <= End(main)
                        /\ \A k \in Len(Front) + 2 .. Len(layout) :
                               volume.Offset + (DataStart + ClusterCount * SectorsPerCluster)
                                                   * volume.SectorSize <= layout[k].Offset
      BY DEF FatIsInMain
    <3> DEFINE s == volume.SectorSize
               t == TotalSectors
               used == DataStart + ClusterCount * SectorsPerCluster
               m == Len(Front)
               n == Len(Rear)
    <3>1. s \in Nat \ {0} /\ t \in Nat /\ t * s <= MainSize
      BY <2>1, SectorsLemma DEF VolumeOK
    <3>2. used \in Int /\ used <= t
      <4>1. DataStart \in Nat /\ ClusterCount \in Int /\ used <= t
        BY <2>1, DataLemma
      <4>2. SectorsPerCluster \in Nat
        BY <2>1, ClustersLemma
      <4>3. ClusterCount * SectorsPerCluster \in Int
        BY <4>1, <4>2
      <4> QED
        BY <4>1, <4>3
    <3>3. /\ MainOffset \in Int /\ MainSize \in Int /\ RearOffset(n) \in Int
          /\ MainOffset + MainSize <= RearOffset(n)
      BY <2>1, FrontOffsets, RearOffsets, MainLemma
    <3>4. m \in Nat /\ n \in Nat /\ Len(layout) = m + 1 + n
      BY <2>1, LayoutLemma
    <3>5. End(main) = MainOffset + MainSize
      BY <2>1, LayoutLemma DEF End, main
    <3>6. ASSUME NEW k \in m + 2 .. Len(layout)
          PROVE  layout[k].Offset \in Int /\ layout[k].Offset >= RearOffset(n)
      <4> DEFINE j == k - m - 1
      <4>1. j \in 1 .. n /\ k = m + 1 + j
        BY <3>4
      <4> HIDE DEF j
      <4>2. layout[m + 1 + j].Offset = RearOffset(n + 1 - j)
        BY <2>1, <4>1, LayoutLemma
      <4>3. RearOffset(n + 1 - j) \in Int /\ RearOffset(n + 1 - j) >= RearOffset(n)
        BY <2>1, <4>1, RearAt
      <4> QED
        BY <4>1, <4>2, <4>3
    <3> HIDE DEF s, t, used, m, n
    <3>7. used * s <= t * s
      <4>1. (t - used) * s >= 0
        BY <3>1, <3>2
      <4>2. (t - used) * s = t * s - used * s
        BY <3>1, <3>2
      <4>3. t * s \in Int /\ used * s \in Int
        BY <3>1, <3>2
      <4> QED
        BY <4>1, <4>2, <4>3
    <3>8. t * s \in Int /\ used * s \in Int
      BY <3>1, <3>2
    <3>9. MainOffset + t * s <= MainOffset + MainSize
      BY <3>1, <3>3, <3>8
    <3>10. ASSUME NEW k \in m + 2 .. Len(layout) PROVE MainOffset + used * s <= layout[k].Offset
      BY <3>1, <3>3, <3>6, <3>7, <3>8
    <3> QED
      BY <2>1, <3>5, <3>9, <3>10 DEF s, t, used, m
  <2>4. UefiNtfsIsInPlace
    <3> SUFFICES ASSUME Committed
                 PROVE  /\ table = "new"
                        /\ d.uefi_ntfs => /\ written
                                          /\ layout[Len(layout)].name = "uefi_ntfs"
                                          /\ layout[Len(layout)].Size >= uefi_ntfs_size
      BY DEF UefiNtfsIsInPlace
    <3>1. table = "new" /\ (d.uefi_ntfs => written)
      BY <2>1 DEF IInv, Opened, Laying
    <3>2. ASSUME d.uefi_ntfs
          PROVE  /\ layout[Len(layout)].name = "uefi_ntfs"
                 /\ layout[Len(layout)].Size >= uefi_ntfs_size
      <4> DEFINE m == Len(Front)
                 n == Len(Rear)
      <4>1. IsLast
        BY <3>2 DEF IsLast
      <4>2. /\ n \in Nat \ {0} /\ Rear[n].size = LastSize /\ Rear[n].name = "uefi_ntfs"
        <5>1. d \in Drives
          BY <2>1
        <5>2. n = (IF d.persistence_size # 0 THEN 1 ELSE 0) + (IF IsLast THEN 1 ELSE 0)
          BY <5>1, RearLemma
        <5>3. n = 1 \/ n = 2
          BY <4>1, <5>2
        <5>4. Rear[n].size = LastSize /\ Rear[n].name = "uefi_ntfs"
          BY <3>2, <4>1, <5>1, RearLemma
        <5> QED
          BY <5>3, <5>4
      <4>3. LastSize >= uefi_ntfs_size
        BY <2>1, <3>2, LastLemma
      <4>4. n \in 1 .. n /\ Len(layout) = m + 1 + n
        BY <2>1, <4>2, LayoutLemma
      <4>5. layout[m + 1 + n].name = Rear[n].name /\ layout[m + 1 + n].Size = Rear[n].size
        BY <2>1, <4>4, LayoutLemma
      <4> QED
        BY <4>2, <4>3, <4>4, <4>5
    <3> QED
      BY <3>1, <3>2
  <2> QED
    BY <2>2, <2>3, <2>4 DEF FatFitsTheDrive
<1> QED
  BY <1>1, Invariance, PTL

=============================================================================
