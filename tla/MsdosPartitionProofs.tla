------------------------ MODULE MsdosPartitionProofs ------------------------
(***************************************************************************)
(* What holds of MsdosPartition for every set of disks, every limit on the *)
(* partition numbers and every width of sector_t.                          *)
(*                                                                         *)
(* The type invariant needs the place of the parser: a logical partition   *)
(* is put only where the table has room, because the loop is left when it  *)
(* is full (AtStep).  WholeDiskTried needs what the loop over the          *)
(* partition numbers has seen so far (SeenSoFar).                          *)
(***************************************************************************)
EXTENDS MsdosPartition, TLAPS

\* What the parser's place says of its counters.
AtStep ==
    /\ pc = "data" => next < Limit
    /\ pc \in {"chain", "data"} => slot <= 4

\* While the partitions are added to a disk that could still be unlocked,
\* nothing looked at so far lies beyond its end.
SeenSoFar ==
    pc = "add" /\ disk.unlock /\ ~unlocked =>
        /\ ~eod
        /\ \A n \in Slots : n < slot /\ parts[n].size # 0 => ~BeyondEOD(parts[n])

-----------------------------------------------------------------------------
(* Sector arithmetic, and what can be read from a disk.                    *)

\* A sum of sector numbers is a sector number.
LEMMA PlusType == ASSUME NEW a \in Sectors, NEW b \in Sectors PROVE Plus(a, b) \in Sectors
BY MsdosAssumption DEF Sectors, Plus

\* A product cut to a word is a sector number.
LEMMA ScaledType ==
    ASSUME NEW a \in Sectors, NEW b \in Nat
    PROVE  (a * b) % WordMod \in Sectors
<1>1. a \in Nat /\ WordMod \in Nat \ {0}
    BY MsdosAssumption DEF Sectors
<1>2. a * b \in Nat
    BY <1>1
<1> QED
    BY <1>1, <1>2 DEF Sectors

\* The capacity is a sector number other than 0.
LEMMA CapacityType == ASSUME disk \in Disks PROVE get_capacity \in Sectors \ {0}
BY MsdosAssumption DEF get_capacity, Sectors

\* Every entry of every sector, read or blank, starts at a sector number and
\* has a size.
LEMMA EntryType ==
    ASSUME disk \in Disks, NEW n, NEW k \in 1 .. 4
    PROVE  /\ Sector(n).ent[k].start \in Sectors
           /\ Sector(n).ent[k].size \in Sectors
           /\ start_sect(Sector(n).ent[k]) \in Sectors
           /\ nr_sects(Sector(n).ent[k]) \in Sectors
<1>1. Sector(n).ent[k].start \in Sectors /\ Sector(n).ent[k].size \in Sectors
    BY MsdosAssumption DEF Sector, Blank, NoEntry, Sectors
<1>2. disk.ss \in Nat
    BY MsdosAssumption
<1> QED
    BY <1>1, <1>2, ScaledType DEF start_sect, nr_sects

\* The first of a set of entries is one of them.
LEMMA MinEntry == ASSUME NEW S \in SUBSET (1 .. 4), S # {} PROVE Min(S) \in S
<1>1. \E x \in S : \A y \in S : x <= y
  <2>1. CASE 1 \in S
    BY <2>1
  <2>2. CASE 1 \notin S /\ 2 \in S
    BY <2>2
  <2>3. CASE 1 \notin S /\ 2 \notin S /\ 3 \in S
    BY <2>3
  <2>4. CASE 1 \notin S /\ 2 \notin S /\ 3 \notin S
    <3>1. PICK x \in S : TRUE
        OBVIOUS
    <3>2. \A y \in S : y = 4
        BY <2>4
    <3> QED
        BY <3>1, <3>2
  <2> QED
    BY <2>1, <2>2, <2>3, <2>4
<1> QED
    BY <1>1 DEF Min

-----------------------------------------------------------------------------
(* The type invariant, with the place of the parser.                       *)

TypeInv == TypeOK /\ disk \in Disks /\ AtStep

\* No partitions.
LEMMA EmptyType == [n \in Slots |-> NoPart] \in [Slots -> Extent]
<1>1. NoPart \in Extent
    BY MsdosAssumption DEF NoPart, Extent, Sectors
<1> QED
    BY <1>1

LEMMA TypeInit == Init => TypeInv
<1> SUFFICES ASSUME Init PROVE TypeInv
    OBVIOUS
<1>1. part_tbl \in [Slots -> Extent] /\ parts \in [Slots -> Extent]
    BY EmptyType DEF Init
<1>2. raid \subseteq Slots
    BY DEF Init
<1>3. 0 \in Sectors /\ 5 \in 5 .. Limit /\ 0 \in 0 .. MaxLinks
    BY MsdosAssumption DEF Sectors
<1>4. slot \in 1 .. (IF pc = "add" THEN Limit ELSE 5) /\ i \in 1 .. 5
    BY DEF Init
<1> QED
    BY <1>1, <1>2, <1>3, <1>4 DEF Init, TypeInv, TypeOK, AtStep

\* A new scan begins in a state of the right type.
LEMMA ScanType ==
    ASSUME TypeInv, Scan, unlocked' \in BOOLEAN
    PROVE  TypeInv'
<1>1. part_tbl' \in [Slots -> Extent] /\ parts' \in [Slots -> Extent]
    BY EmptyType DEF Scan
<1>2. raid' \subseteq Slots
    BY DEF Scan
<1>3. 5 \in 5 .. Limit
    BY MsdosAssumption
<1>4. slot' \in 1 .. (IF pc' = "add" THEN Limit ELSE 5) /\ pc' = "mbr"
    BY DEF Scan
<1> QED
    BY <1>1, <1>2, <1>3, <1>4 DEF Scan, ext, TypeInv, TypeOK, AtStep

\* parts stays an array of extents when an extent is put into it.
LEMMA PutType ==
    ASSUME parts \in [Slots -> Extent], NEW n \in Nat \ {0},
           NEW from \in Sectors, NEW size \in Sectors, put_partition(n, from, size)
    PROVE  parts' \in [Slots -> Extent]
BY MsdosAssumption DEF put_partition, Slots, Extent

\* A partition limited to the end of the disk is an extent.
LEMMA LimitedType ==
    ASSUME disk \in Disks, NEW p \in Extent, p.from < get_capacity
    PROVE  [from |-> p.from, size |-> Limited(p.from, p.size)] \in Extent
<1>1. get_capacity \in Sectors
    BY CapacityType
<1>2. p.from \in Sectors /\ p.size \in Sectors
    BY DEF Extent
<1>3. get_capacity - p.from \in Sectors
    BY <1>1, <1>2, MsdosAssumption DEF Sectors
<1>4. Limited(p.from, p.size) \in Sectors
    BY <1>2, <1>3 DEF Limited
<1> QED
    BY <1>2, <1>4 DEF Extent

LEMMA TypeStep == TypeInv /\ [Next]_vars => TypeInv'
<1> SUFFICES ASSUME TypeInv, [Next]_vars
             PROVE  TypeInv'
    OBVIOUS
<1>d. TypeOK /\ disk \in Disks /\ AtStep
    BY DEF TypeInv
<1>c. WordMod \in Nat /\ Limit \in Nat /\ Limit >= 5 /\ MaxLinks \in Nat
    BY MsdosAssumption
<1>p. parts \in [Slots -> Extent]
    BY <1>d DEF TypeOK
<1>1. CASE rescan_partitions
    BY <1>1, <1>d, ScanType DEF rescan_partitions, TypeOK
<1>2. CASE retry_unlocked
    BY <1>2, ScanType DEF retry_unlocked, UnlockAndRescan
<1>3. CASE no_table
    BY <1>3, <1>d DEF no_table, TypeInv, TypeOK, AtStep, ext
<1>4. CASE add_partitions
    BY <1>4, <1>d, <1>c DEF add_partitions, TypeInv, TypeOK, AtStep, ext
<1>5. CASE add_partition
  <2>1. CASE UnlockAndRescan
    BY <2>1, ScanType DEF UnlockAndRescan
  <2>2. CASE ~UnlockAndRescan
    <3>1. slot \in Slots
        BY <1>5, <1>d, <1>c DEF add_partition, TypeOK, Slots
    <3>2. parts[slot] \in Extent
        BY <1>p, <3>1
    <3>3. /\ pc = "add" /\ slot < Limit /\ slot' = slot + 1
          /\ UNCHANGED << disk, unlocked, parts, raid, next, eod, pc, ext, misread >>
        BY <1>5, <2>2 DEF add_partition
    <3>4. part_tbl' \in [Slots -> Extent]
      <4>1. CASE UNCHANGED part_tbl
        BY <4>1, <1>d DEF TypeOK
      <4>2. CASE /\ parts[slot].from < get_capacity
                 /\ part_tbl' = [part_tbl EXCEPT ![slot] =
                        [from |-> parts[slot].from,
                         size |-> Limited(parts[slot].from, parts[slot].size)]]
        <5>1. [from |-> parts[slot].from,
               size |-> Limited(parts[slot].from, parts[slot].size)] \in Extent
            BY <3>2, <4>2, <1>d, LimitedType DEF Limited, get_capacity, Plus
        <5> QED
            BY <4>2, <5>1, <1>d DEF TypeOK
      <4> QED
        BY <1>5, <2>2, <4>1, <4>2 DEF add_partition
    <3> QED
        BY <3>3, <3>4, <1>d, <1>c DEF TypeInv, TypeOK, AtStep, ext
  <2> QED
    BY <2>1, <2>2
<1>6. CASE added
    BY <1>6, <1>d, <1>c DEF added, TypeInv, TypeOK, AtStep, ext
<1>7. CASE read_mbr
  <2>1. /\ pc = "mbr"
        /\ UNCHANGED << disk, unlocked, part_tbl, parts, raid, next, slot, ext >>
        /\ pc' \in {"unknown", "known", "primary"}
    BY <1>7 DEF read_mbr
  <2>2. eod' \in BOOLEAN /\ misread' \in BOOLEAN
    BY <1>7, <1>d DEF read_mbr, ReadOK, ReadFails, TypeOK
  <2> QED
    BY <2>1, <2>2, <1>d DEF TypeInv, TypeOK, AtStep, ext
<1>8. CASE primary
  <2>1. slot \in 1 .. 4
    BY <1>8, <1>d DEF primary, TypeOK
  <2>2. /\ start_sect(Sector(0).ent[slot]) \in Sectors
        /\ nr_sects(Sector(0).ent[slot]) \in Sectors
    BY <2>1, <1>d, EntryType
  <2>3. parts' \in [Slots -> Extent]
    BY <1>8, <2>1, <2>2, <1>p, PutType DEF primary, put_partition
  <2>4. raid' \subseteq Slots
    <3>1. slot \in Slots /\ raid \subseteq Slots
        BY <2>1, <1>d, <1>c DEF TypeOK, Slots
    <3>2. raid' = raid \/ raid' = raid \cup {slot}
        BY <1>8 DEF primary
    <3> QED
        BY <3>1, <3>2
  <2> QED
    BY <1>8, <2>1, <2>3, <2>4, <1>d DEF primary, TypeInv, TypeOK, AtStep, ext
<1>9. CASE extended
  <2>1. slot \in 1 .. 4
    BY <1>9, <1>d DEF extended, TypeOK
  <2>2. /\ start_sect(Sector(0).ent[slot]) \in Sectors
        /\ nr_sects(Sector(0).ent[slot]) \in Sectors
    BY <2>1, <1>d, EntryType
  <2> DEFINE size == nr_sects(Sector(0).ent[slot])
             head == IF disk.ss > 2 THEN disk.ss ELSE 2
  <2>3. head \in Nat
    BY <1>d, MsdosAssumption
  <2>4. (IF size < head THEN size ELSE head) \in Sectors
    BY <2>2, <2>3, <1>c DEF Sectors
  <2>5. parts' \in [Slots -> Extent]
    <3>1. put_partition(slot, start_sect(Sector(0).ent[slot]),
                        IF size < head THEN size ELSE head)
        BY <1>9 DEF extended
    <3> HIDE DEF size, head
    <3>2. CASE parts' = parts
        BY <3>2, <1>p
    <3>3. CASE parts' = [parts EXCEPT ![slot] = [from |-> start_sect(Sector(0).ent[slot]),
                             size |-> IF size < head THEN size ELSE head]]
        BY <3>3, <2>2, <2>4, <1>p DEF Extent
    <3> QED
        BY <3>1, <3>2, <3>3 DEF put_partition
  <2>6. {first_sector', first_size', this_sector', this_size'} \subseteq Sectors
    BY <1>9, <2>2 DEF extended
  <2> HIDE DEF size, head
  <2> QED
    BY <1>9, <2>1, <2>5, <2>6, <1>d, <1>c DEF extended, TypeInv, TypeOK, AtStep
<1>10. CASE primary_done
    BY <1>10, <1>d DEF primary_done, TypeInv, TypeOK, AtStep, ext
<1>11. CASE read_table
  <2>1. pc = "chain" /\ slot \in 1 .. 4
    BY <1>11, <1>d DEF read_table, TypeOK, AtStep
  <2>2. eod' \in BOOLEAN /\ misread' \in BOOLEAN
    BY <1>11, <1>d DEF read_table, ReadOK, ReadFails, TypeOK
  <2>3. loopct' \in 0 .. MaxLinks /\ i' \in 1 .. 5
    BY <1>11, <1>d, <1>c DEF read_table, TooLong, Followed, TypeOK
  <2>4. \/ pc' = "primary" /\ slot' = slot + 1
        \/ pc' = "data" /\ slot' = slot /\ next # Limit
    BY <1>11 DEF read_table, Return
  <2> QED
    BY <1>11, <2>1, <2>2, <2>3, <2>4, <1>d, <1>c
    DEF read_table, TypeInv, TypeOK, AtStep
<1>12. CASE data_entry
  <2> DEFINE e == Sector(this_sector).ent[i]
  <2>1. i \in 1 .. 4 /\ pc = "data" /\ next < Limit /\ slot \in 1 .. 4 /\ next \in 5 .. Limit
    BY <1>12, <1>d DEF data_entry, TypeOK, AtStep
  <2>2. start_sect(e) \in Sectors /\ nr_sects(e) \in Sectors
    BY <2>1, <1>d, EntryType
  <2>3. this_sector \in Sectors
    BY <1>d DEF TypeOK
  <2>4. Plus(this_sector, start_sect(e)) \in Sectors
    BY <2>2, <2>3, PlusType
  <2>5. parts' \in [Slots -> Extent]
    BY <1>12, <2>1, <2>2, <2>4, <1>p, PutType DEF data_entry, put_partition
  <2>6. raid' \subseteq Slots
    <3>1. next \in Slots /\ raid \subseteq Slots
        BY <2>1, <1>d, <1>c DEF TypeOK, Slots
    <3>2. raid' = raid \/ raid' = raid \cup {next}
        BY <1>12 DEF data_entry
    <3> QED
        BY <3>1, <3>2
  <2>7. loopct' \in 0 .. MaxLinks
    BY <1>12, <1>d, <1>c DEF data_entry, TypeOK
  <2>8. \/ i' = i + 1 /\ pc' = pc /\ slot' = slot /\ next' = next
        \/ i' = i + 1 /\ pc' = pc /\ slot' = slot /\ next' = next + 1 /\ next + 1 # Limit
        \/ i' = i /\ pc' = "primary" /\ slot' = slot + 1 /\ next' = next + 1
    BY <1>12 DEF data_entry, Return
  <2> QED
    BY <1>12, <2>1, <2>5, <2>6, <2>7, <2>8, <1>d, <1>c
    DEF data_entry, TypeInv, TypeOK, AtStep
<1>13. CASE link
  <2>1. pc = "data" /\ slot \in 1 .. 4 /\ i = 5
    BY <1>13, <1>d DEF link, TypeOK, AtStep
  <2>2. {this_sector', this_size'} \subseteq Sectors
    <3>1. CASE Links(Sector(this_sector)) = {}
        BY <3>1, <1>13, <1>d DEF link, TypeOK
    <3>2. CASE Links(Sector(this_sector)) # {}
      <4> DEFINE k == Min(Links(Sector(this_sector)))
                 e == Sector(this_sector).ent[k]
      <4>1. k \in 1 .. 4
        BY <3>2, MinEntry DEF Links
      <4>2. start_sect(e) \in Sectors /\ nr_sects(e) \in Sectors
        BY <4>1, <1>d, EntryType
      <4>3. Plus(first_sector, start_sect(e)) \in Sectors
        BY <4>2, <1>d, PlusType DEF TypeOK
      <4>4. this_sector' = Plus(first_sector, start_sect(e)) /\ this_size' = nr_sects(e)
        BY <3>2, <1>13 DEF link
      <4> QED
        BY <4>2, <4>3, <4>4
    <3> QED
        BY <3>1, <3>2
  <2>3. \/ pc' = "primary" /\ slot' = slot + 1
        \/ pc' = "chain" /\ slot' = slot
    BY <1>13 DEF link, Return
  <2> QED
    BY <1>13, <2>1, <2>2, <2>3, <1>d, <1>c DEF link, TypeInv, TypeOK, AtStep
<1>14. CASE UNCHANGED vars
    BY <1>14, <1>d DEF vars, ext, TypeInv, TypeOK, AtStep
<1> QED
    BY <1>1, <1>2, <1>3, <1>4, <1>5, <1>6, <1>7, <1>8, <1>9, <1>10, <1>11, <1>12,
       <1>13, <1>14 DEF Next, Step

\* TypeOK at every step, whatever the tables of the disk say: the loops keep
\* within the partition numbers below state->limit, the entries of a table and
\* the links they may follow, and every extent is made of 32-bit sector numbers.
THEOREM TypeCorrect == Spec => []TypeOK
<1>1. TypeInv => TypeOK
    BY DEF TypeInv
<1> QED
    BY TypeInit, TypeStep, <1>1, PTL DEF Spec

-----------------------------------------------------------------------------
(* Partitions within the disk.                                             *)

\* A new scan begins without partitions.
LEMMA ScanInside == ASSUME Scan PROVE InsideUnlessWrapped'
<1>1. \A n \in Slots : part_tbl'[n].size = 0
    BY DEF Scan, NoPart
<1> QED
    BY <1>1 DEF InsideUnlessWrapped

\* A partition that starts on the disk, limited to its end, lies within it or
\* has an end that does not fit a word.
LEMMA LimitedInside ==
    ASSUME disk \in Disks, NEW p \in Extent, p.from < get_capacity
    PROVE  \/ p.from + Limited(p.from, p.size) <= get_capacity
           \/ p.from + Limited(p.from, p.size) >= WordMod
<1>1. get_capacity \in Sectors
    BY CapacityType
<1>2. p.from \in Sectors /\ p.size \in Sectors
    BY DEF Extent
<1>3. CASE Plus(p.from, p.size) > get_capacity
  <2>1. Limited(p.from, p.size) = get_capacity - p.from
    BY <1>3 DEF Limited
  <2> QED
    BY <2>1, <1>1, <1>2 DEF Sectors
<1>4. CASE ~(Plus(p.from, p.size) > get_capacity)
  <2>1. Limited(p.from, p.size) = p.size
    BY <1>4 DEF Limited
  <2>2. CASE p.from + p.size < WordMod
    <3>1. Plus(p.from, p.size) = p.from + p.size
        BY <2>2, <1>2, MsdosAssumption DEF Plus, Sectors
    <3> QED
        BY <3>1, <2>1, <1>4, <1>1, <1>2, MsdosAssumption DEF Sectors
  <2>3. CASE ~(p.from + p.size < WordMod)
    BY <2>3, <2>1, <1>2, MsdosAssumption DEF Sectors
  <2> QED
    BY <2>2, <2>3
<1> QED
    BY <1>3, <1>4

\* A step that leaves the disk's capacity and its partitions alone.
LEMMA InsideKept ==
    ASSUME InsideUnlessWrapped, UNCHANGED << disk, unlocked, part_tbl >>
    PROVE  InsideUnlessWrapped'
BY DEF InsideUnlessWrapped, get_capacity

LEMMA InsideStep == TypeInv /\ InsideUnlessWrapped /\ [Next]_vars => InsideUnlessWrapped'
<1> SUFFICES ASSUME TypeInv, InsideUnlessWrapped, [Next]_vars
             PROVE  InsideUnlessWrapped'
    OBVIOUS
<1>1. CASE rescan_partitions
    BY <1>1, ScanInside DEF rescan_partitions
<1>2. CASE retry_unlocked
    BY <1>2, ScanInside DEF retry_unlocked, UnlockAndRescan
<1>3. CASE add_partition
  <2>1. CASE UnlockAndRescan
    BY <2>1, ScanInside DEF UnlockAndRescan
  <2>2. CASE UNCHANGED << disk, unlocked, part_tbl >>
    BY <2>2, InsideKept
  <2>3. CASE /\ parts[slot].from < get_capacity
             /\ part_tbl' = [part_tbl EXCEPT ![slot] =
                    [from |-> parts[slot].from,
                     size |-> Limited(parts[slot].from, parts[slot].size)]]
             /\ UNCHANGED << disk, unlocked >>
    <3>1. slot \in Slots /\ parts[slot] \in Extent /\ disk \in Disks
        BY <1>3, MsdosAssumption DEF add_partition, TypeInv, TypeOK, Slots
    <3>2. \/ parts[slot].from + Limited(parts[slot].from, parts[slot].size) <= get_capacity
          \/ parts[slot].from + Limited(parts[slot].from, parts[slot].size) >= WordMod
        BY <2>3, <3>1, LimitedInside DEF Limited, get_capacity, Plus
    <3>3. get_capacity' = get_capacity
        BY <2>3 DEF get_capacity
    <3>4. part_tbl \in [Slots -> Extent]
        BY DEF TypeInv, TypeOK
    <3> QED
        BY <2>3, <3>1, <3>2, <3>3, <3>4 DEF InsideUnlessWrapped
  <2> QED
    BY <1>3, <2>1, <2>2, <2>3 DEF add_partition
<1>4. CASE UNCHANGED << disk, unlocked, part_tbl >>
    BY <1>4, InsideKept
<1>5. CASE no_table \/ add_partitions \/ added \/ read_mbr \/ primary \/ extended
    BY <1>4, <1>5 DEF no_table, add_partitions, added, read_mbr, primary, extended
<1>6. CASE primary_done \/ read_table \/ data_entry \/ link
    BY <1>4, <1>6 DEF primary_done, read_table, data_entry, link
<1>7. CASE UNCHANGED vars
    BY <1>4, <1>7 DEF vars
<1> QED
    BY <1>1, <1>2, <1>3, <1>5, <1>6, <1>7 DEF Next, Step

\* InsideUnlessWrapped: no partition that add_partition makes reaches over the end
\* of the disk, unless its end wraps around the 32 bits of a sector_t.
THEOREM PartitionsLimited == Spec => []InsideUnlessWrapped
<1>1. Init => InsideUnlessWrapped
    BY DEF Init, InsideUnlessWrapped, NoPart
<1> QED
    BY TypeInit, TypeStep, InsideStep, <1>1, PTL DEF Spec

-----------------------------------------------------------------------------
(* The native capacity is asked for.                                       *)

LEMMA SeenInit == Init => SeenSoFar
BY DEF Init, SeenSoFar

LEMMA SeenStep == TypeInv /\ SeenSoFar /\ [Next]_vars => SeenSoFar'
<1> SUFFICES ASSUME TypeInv, SeenSoFar, [Next]_vars
             PROVE  SeenSoFar'
    OBVIOUS
<1>1. CASE pc' # "add"
    BY <1>1 DEF SeenSoFar
<1>2. CASE add_partitions
  <2>1. disk.unlock /\ ~unlocked => ~eod
    BY <1>2 DEF add_partitions, CanUnlock
  <2>2. slot' = 1 /\ UNCHANGED << disk, unlocked, eod >>
    BY <1>2 DEF add_partitions
  <2>3. \A n \in Slots : ~(n < slot')
    BY <2>2, MsdosAssumption DEF Slots
  <2> QED
    BY <2>1, <2>2, <2>3 DEF SeenSoFar
<1>3. CASE add_partition
  <2>1. CASE UnlockAndRescan
    BY <2>1, <1>1 DEF UnlockAndRescan, Scan
  <2>2. CASE ~UnlockAndRescan
    <3>1. /\ ~(parts[slot].size # 0 /\ BeyondEOD(parts[slot]) /\ CanUnlock)
          /\ pc = "add" /\ slot' = slot + 1
          /\ UNCHANGED << disk, unlocked, parts, eod >>
        BY <1>3, <2>2 DEF add_partition
    <3>2. SUFFICES ASSUME disk.unlock, ~unlocked
                   PROVE  /\ ~eod
                          /\ \A n \in Slots : n < slot + 1 /\ parts[n].size # 0
                                                 => ~BeyondEOD(parts[n])
        BY <3>1 DEF SeenSoFar, BeyondEOD, get_capacity
    <3>3. /\ ~eod
          /\ \A n \in Slots : n < slot /\ parts[n].size # 0 => ~BeyondEOD(parts[n])
        BY <3>1, <3>2 DEF SeenSoFar
    <3>4. parts[slot].size # 0 => ~BeyondEOD(parts[slot])
        BY <3>1, <3>2 DEF CanUnlock
    <3>5. slot \in Nat /\ \A n \in Slots : n \in Nat /\ (n < slot + 1 => n < slot \/ n = slot)
        BY MsdosAssumption DEF TypeInv, TypeOK, Slots
    <3> QED
        BY <3>3, <3>4, <3>5
  <2> QED
    BY <2>1, <2>2
<1>4. CASE UNCHANGED vars
    BY <1>4 DEF vars, SeenSoFar, BeyondEOD, get_capacity
<1>5. CASE rescan_partitions \/ retry_unlocked \/ no_table \/ added
    BY <1>1, <1>5
    DEF rescan_partitions, retry_unlocked, UnlockAndRescan, Scan, no_table, added
<1>6. CASE read_mbr \/ primary \/ extended \/ primary_done
    BY <1>1, <1>6 DEF read_mbr, primary, extended, primary_done
<1>7. CASE read_table \/ data_entry \/ link
    BY <1>1, <1>7 DEF read_table, data_entry, link, Return
<1> QED
    BY <1>2, <1>3, <1>4, <1>5, <1>6, <1>7 DEF Next, Step

\* WholeDiskTried: rescan_partitions never returns from a disk whose driver
\* could still unlock the native capacity with a table or a partition beyond
\* the end.
THEOREM NativeCapacityTried == Spec => WholeDiskTried
<1> DEFINE A == pc # "idle" /\ pc' = "idle" /\ disk.unlock /\ ~unlocked =>
                    /\ ~eod
                    /\ pc = "add" =>
                           \A n \in Slots : parts[n].size # 0 => ~BeyondEOD(parts[n])
<1>1. TypeInv /\ SeenSoFar /\ [Next]_vars => [A]_vars
  <2> SUFFICES ASSUME TypeInv, SeenSoFar, Next, pc # "idle", pc' = "idle",
                      disk.unlock, ~unlocked
               PROVE  /\ ~eod
                      /\ pc = "add" =>
                             \A n \in Slots : parts[n].size # 0 => ~BeyondEOD(parts[n])
    OBVIOUS
  <2>1. CASE no_table
    BY <2>1 DEF no_table, CanUnlock
  <2>2. CASE added
    <3>1. \A n \in Slots : n < slot
        BY <2>2, MsdosAssumption DEF added, Slots
    <3> QED
        BY <2>2, <3>1 DEF added, SeenSoFar
  <2>3. CASE rescan_partitions \/ retry_unlocked \/ add_partitions \/ add_partition
    BY <2>3 DEF rescan_partitions, retry_unlocked, add_partitions, add_partition,
                UnlockAndRescan, Scan
  <2>4. CASE read_mbr \/ primary \/ extended \/ primary_done
    BY <2>4 DEF read_mbr, primary, extended, primary_done
  <2>5. CASE read_table \/ data_entry \/ link
    BY <2>5 DEF read_table, data_entry, link, Return
  <2> QED
    BY <2>1, <2>2, <2>3, <2>4, <2>5 DEF Next, Step
<1> QED
    BY TypeInit, TypeStep, SeenInit, SeenStep, <1>1, PTL DEF Spec, WholeDiskTried
=============================================================================
