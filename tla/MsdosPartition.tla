--------------------------- MODULE MsdosPartition ---------------------------
(***************************************************************************)
(* Reading a disk's partitions: rescan_partitions (block/                  *)
(* partition-generic.c) with the one table format gray386linux compiles    *)
(* in, msdos_partition (block/partitions/msdos.c).  No sub-partition       *)
(* parser is compiled in, so the second pass over the table does nothing.  *)
(*                                                                         *)
(* CONFIG_LBDAF is not set: a sector_t has 32 bits, and every sum and      *)
(* product of sector numbers is modulo WordMod.                            *)
(*                                                                         *)
(* A sector is what the parser looks at.  label: the marks of an AIX disk  *)
(* in sectors 0 and 7.  boot: the boot indicators of sector 0 are valid,   *)
(* the first is not and it looks like a FAT, or neither.                   *)
(***************************************************************************)
EXTENDS Integers, FiniteSets, FiniteSetsExt

CONSTANTS
    WordMod,    \* 2^32
    Disks,      \* the disks
    Limit,      \* state->limit: the partition numbers are below it
    MaxLinks    \* 100: links followed without finding a data partition

Sectors == 0 .. WordMod - 1
Table   == [1 .. 4 -> [sys : {"dos", "linux", "raid", "ext"}, start : Sectors, size : Sectors]]
Content == [magic : BOOLEAN, label : {"none", "aix", "lvm"}, boot : {"ok", "fat", "bad"},
            ent : Table]

\* A disk: its capacity now and after unlock_native_capacity, if the driver has
\* that; 512-byte sectors per logical block; the sectors that are not blank.
ASSUME MsdosAssumption ==
    /\ WordMod \in Nat /\ WordMod > 2
    /\ Limit \in Nat /\ Limit >= 5
    /\ MaxLinks \in Nat
    /\ \A d \in Disks :
           /\ d.cap \in Sectors \ {0} /\ d.native \in Sectors /\ d.cap <= d.native
           /\ d.unlock \in BOOLEAN
           /\ d.ss \in Nat \ {0}
           /\ DOMAIN d.sec \subseteq Sectors
           /\ \A n \in DOMAIN d.sec : /\ d.sec[n].magic \in BOOLEAN
                                      /\ \A i \in 1 .. 4 : /\ d.sec[n].ent[i].start \in Sectors
                                                           /\ d.sec[n].ent[i].size \in Sectors

VARIABLES
    disk,       \* the disk
    unlocked,   \* GENHD_FL_NATIVE_CAPACITY
    part_tbl,   \* disk->part_tbl: the partitions that exist
    parts,      \* state->parts, from and size
    raid,       \* the numbers whose flags are ADDPART_FLAG_RAID
    next,       \* state->next
    eod,        \* state->access_beyond_eod
    pc, slot,   \* the step; the entry or partition number the loop is at
    first_sector, first_size, this_sector, this_size, loopct, i,
    misread     \* history: a read of this scan has failed

ext  == << first_sector, first_size, this_sector, this_size, loopct, i >>
vars == << disk, unlocked, part_tbl, parts, raid, next, eod, pc, slot, ext, misread >>

Slots  == 1 .. Limit - 1
NoPart == [from |-> 0, size |-> 0]
Extent == [from : Sectors, size : Sectors]

TypeOK ==
    /\ unlocked \in BOOLEAN /\ eod \in BOOLEAN /\ misread \in BOOLEAN
    /\ part_tbl \in [Slots -> Extent] /\ parts \in [Slots -> Extent]
    /\ raid \subseteq Slots
    /\ next \in 5 .. Limit
    /\ pc \in {"idle", "mbr", "primary", "chain", "data", "known", "unknown", "add"}
    /\ slot \in 1 .. (IF pc = "add" THEN Limit ELSE 5)
    /\ {first_sector, first_size, this_sector, this_size} \subseteq Sectors
    /\ loopct \in 0 .. MaxLinks
    /\ i \in 1 .. 5

-----------------------------------------------------------------------------
NoEntry == [sys |-> "dos", start |-> 0, size |-> 0]
Blank   == [magic |-> FALSE, label |-> "none", boot |-> "ok", ent |-> [k \in 1 .. 4 |-> NoEntry]]

get_capacity == IF unlocked THEN disk.native ELSE disk.cap

Sector(n) == IF n \in DOMAIN disk.sec THEN disk.sec[n] ELSE Blank

Plus(a, b)     == (a + b) % WordMod
start_sect(e)  == (e.start * disk.ss) % WordMod
nr_sects(e)    == (e.size * disk.ss) % WordMod
is_extended(e) == e.sys = "ext"

\* read_part_sector: within the capacity, and unless the device fails.
Readable(n) == n < get_capacity
ReadOK(n)   == Readable(n) /\ UNCHANGED << eod, misread >>
ReadFails(n) ==
    /\ eod' = (eod \/ ~Readable(n))
    /\ misread' = TRUE

put_partition(n, from, size) ==
    parts' = IF n < Limit THEN [parts EXCEPT ![n] = [from |-> from, size |-> size]] ELSE parts

-----------------------------------------------------------------------------
(* rescan_partitions, and check_partition for one format.                  *)

\* From the label rescan on: drop_partitions, and a new state.
Scan ==
    /\ part_tbl' = [n \in Slots |-> NoPart]
    /\ parts' = [n \in Slots |-> NoPart] /\ raid' = {}
    /\ eod' = FALSE /\ misread' = FALSE
    /\ next' = 5 /\ slot' = 1
    /\ pc' = "mbr"
    /\ UNCHANGED << disk, ext >>

rescan_partitions ==
    /\ pc = "idle"
    /\ Scan
    /\ UNCHANGED unlocked

CanUnlock == disk.unlock /\ ~unlocked

\* disk_unlock_native_capacity, and goto rescan.
UnlockAndRescan ==
    /\ CanUnlock
    /\ unlocked' = TRUE
    /\ Scan

\* Something lay beyond the end of the disk, whether or not there is a table.
retry_unlocked ==
    /\ pc \in {"known", "unknown"} /\ eod
    /\ UnlockAndRescan

\* No table: return.
no_table ==
    /\ pc = "unknown" /\ ~(eod /\ CanUnlock)
    /\ pc' = "idle"
    /\ UNCHANGED << disk, unlocked, part_tbl, parts, raid, next, eod, slot, ext, misread >>

\* Mutant of add_partitions: a table beyond the end is not noticed.
add_partitions_NoRetry ==
    /\ pc = "known"
    /\ pc' = "add" /\ slot' = 1
    /\ UNCHANGED << disk, unlocked, part_tbl, parts, raid, next, eod, ext, misread >>

add_partitions ==
    /\ pc = "known" /\ ~(eod /\ CanUnlock)
    /\ pc' = "add" /\ slot' = 1
    /\ UNCHANGED << disk, unlocked, part_tbl, parts, raid, next, eod, ext, misread >>

\* Mutant of Limited: no partition is limited.
Limited_Not(from, size) == size

\* Limited to the end of the disk.
Limited(from, size) == IF Plus(from, size) > get_capacity THEN get_capacity - from ELSE size

BeyondEOD(p) == p.from >= get_capacity \/ Plus(p.from, p.size) > get_capacity

\* One round of the loop over the partition numbers.  add_partition may fail
\* for want of memory.
add_partition ==
    /\ pc = "add" /\ slot < Limit
    /\ LET p == parts[slot]
       IN  \/ /\ p.size # 0 /\ BeyondEOD(p)
              /\ UnlockAndRescan
           \/ /\ ~(p.size # 0 /\ BeyondEOD(p) /\ CanUnlock)
              /\ \/ /\ p.size # 0 /\ p.from < get_capacity
                    /\ part_tbl' = [part_tbl EXCEPT ![slot] =
                                      [from |-> p.from, size |-> Limited(p.from, p.size)]]
                 \/ UNCHANGED part_tbl
              /\ slot' = slot + 1
              /\ UNCHANGED << disk, unlocked, parts, raid, next, eod, pc, ext, misread >>

added ==
    /\ pc = "add" /\ slot = Limit
    /\ pc' = "idle" /\ slot' = 1
    /\ UNCHANGED << disk, unlocked, part_tbl, parts, raid, next, eod, ext, misread >>

-----------------------------------------------------------------------------
(* msdos_partition.                                                        *)

\* aix_magic_present, but for the second label.
MayBeAix(s) ==
    /\ s.label = "aix"
    /\ \A k \in 1 .. 4 : s.ent[k].sys \notin {"linux", "raid", "ext"}

\* The first sector: an AIX disk, no table, a FAT without a table, or a table.
read_mbr ==
    /\ pc = "mbr"
    /\ LET s   == Sector(0)
           aix == s.magic /\ MayBeAix(s)
           lvm == Sector(7).label = "lvm"
           is(what) == pc' = IF ~s.magic \/ what = "aix" \/ s.boot = "bad" THEN "unknown"
                             ELSE IF s.boot = "fat" THEN "known" ELSE "primary"
       IN  \/ ReadFails(0) /\ pc' = "unknown"
           \/ ~aix /\ ReadOK(0) /\ is("dos")
           \/ aix /\ ReadOK(7) /\ is(IF lvm THEN "aix" ELSE "dos")
           \/ aix /\ ReadFails(7) /\ is("dos")
    /\ UNCHANGED << disk, unlocked, part_tbl, parts, raid, next, slot, ext >>

\* A primary partition, or none.
primary ==
    /\ pc = "primary" /\ slot <= 4
    /\ LET e == Sector(0).ent[slot]
       IN  /\ nr_sects(e) = 0 \/ ~is_extended(e)
           /\ IF nr_sects(e) = 0
              THEN UNCHANGED << parts, raid >>
              ELSE /\ put_partition(slot, start_sect(e), nr_sects(e))
                   /\ raid' = IF e.sys = "raid" THEN raid \cup {slot} ELSE raid
    /\ slot' = slot + 1
    /\ UNCHANGED << disk, unlocked, part_tbl, next, eod, pc, ext, misread >>

\* An extended partition: a device for its head, and into parse_extended.
extended ==
    /\ pc = "primary" /\ slot <= 4
    /\ LET e    == Sector(0).ent[slot]
           size == nr_sects(e)
           head == IF disk.ss > 2 THEN disk.ss ELSE 2
       IN  /\ size # 0 /\ is_extended(e)
           /\ put_partition(slot, start_sect(e), IF size < head THEN size ELSE head)
           /\ first_sector' = start_sect(e) /\ first_size' = size
           /\ this_sector' = start_sect(e) /\ this_size' = size
    /\ loopct' = 0 /\ i' = 1
    /\ pc' = "chain"
    /\ UNCHANGED << disk, unlocked, part_tbl, raid, next, eod, slot, misread >>

primary_done ==
    /\ pc = "primary" /\ slot = 5
    /\ pc' = "known"
    /\ UNCHANGED << disk, unlocked, part_tbl, parts, raid, next, eod, slot, ext, misread >>

-----------------------------------------------------------------------------
(* parse_extended.                                                         *)

Return == pc' = "primary" /\ slot' = slot + 1

\* Mutant of Followed: the links are not counted.
Followed_Not == loopct

\* ++loopct
Followed == loopct + 1
TooLong  == Followed > MaxLinks

\* The table at this_sector.
read_table ==
    /\ pc = "chain"
    /\ \/ /\ TooLong \/ next = Limit
          /\ Return
          /\ UNCHANGED << eod, misread, loopct, i >>
       \/ /\ ~TooLong /\ next # Limit
          /\ ReadFails(this_sector)
          /\ Return
          /\ UNCHANGED << loopct, i >>
       \/ /\ ~TooLong /\ next # Limit
          /\ ReadOK(this_sector)
          /\ IF Sector(this_sector).magic
             THEN /\ pc' = "data" /\ i' = 1 /\ loopct' = Followed
                  /\ UNCHANGED slot
             ELSE Return /\ UNCHANGED << loopct, i >>
    /\ UNCHANGED << disk, unlocked, part_tbl, parts, raid, next,
                    first_sector, first_size, this_sector, this_size >>

\* The 3rd and the 4th entry must lie within the table's and the extended
\* partition.
Garbage(from, offs, size) ==
    /\ i >= 3
    /\ \/ Plus(offs, size) > this_size
       \/ from < first_sector
       \/ Plus(from, size) > Plus(first_sector, first_size)

\* Mutant of data_entry: a full table is noticed at the next table only.
data_entry_Full ==
    /\ pc = "data" /\ i <= 4
    /\ LET e    == Sector(this_sector).ent[i]
           from == Plus(this_sector, start_sect(e))
           size == nr_sects(e)
       IN  IF e.size = 0 \/ is_extended(e) \/ Garbage(from, start_sect(e), size)
           THEN UNCHANGED << parts, raid, next, loopct >>
           ELSE /\ put_partition(next, from, size)
                /\ raid' = IF e.sys = "raid" THEN raid \cup {next} ELSE raid
                /\ next' = next + 1
                /\ loopct' = 0
    /\ i' = i + 1
    /\ UNCHANGED << disk, unlocked, part_tbl, eod, pc, slot, misread,
                    first_sector, first_size, this_sector, this_size >>

\* One of the four entries.
data_entry ==
    /\ pc = "data" /\ i <= 4
    /\ LET e    == Sector(this_sector).ent[i]
           from == Plus(this_sector, start_sect(e))
           size == nr_sects(e)
       IN  IF e.size = 0 \/ is_extended(e) \/ Garbage(from, start_sect(e), size)
           THEN /\ i' = i + 1
                /\ UNCHANGED << parts, raid, next, loopct, pc, slot >>
           ELSE /\ put_partition(next, from, size)
                /\ raid' = IF e.sys = "raid" THEN raid \cup {next} ELSE raid
                /\ next' = next + 1
                /\ loopct' = 0
                /\ IF next + 1 = Limit THEN Return /\ UNCHANGED i
                                       ELSE i' = i + 1 /\ UNCHANGED << pc, slot >>
    /\ UNCHANGED << disk, unlocked, part_tbl, eod, misread,
                    first_sector, first_size, this_sector, this_size >>

Links(s) == { k \in 1 .. 4 : s.ent[k].size # 0 /\ is_extended(s.ent[k]) }

\* Mutant of link: the link is relative to the table it is in.
link_Relative ==
    /\ pc = "data" /\ i = 5
    /\ LET s == Sector(this_sector)
       IN  IF Links(s) = {}
           THEN Return /\ UNCHANGED << this_sector, this_size >>
           ELSE LET e == s.ent[Min(Links(s))]
                IN  /\ this_sector' = Plus(this_sector, start_sect(e))
                    /\ this_size' = nr_sects(e)
                    /\ pc' = "chain" /\ UNCHANGED slot
    /\ UNCHANGED << disk, unlocked, part_tbl, parts, raid, next, eod, misread,
                    first_sector, first_size, loopct, i >>

\* The first extended partition, if present, is the link to the next table.
link ==
    /\ pc = "data" /\ i = 5
    /\ LET s == Sector(this_sector)
       IN  IF Links(s) = {}
           THEN Return /\ UNCHANGED << this_sector, this_size >>
           ELSE LET e == s.ent[Min(Links(s))]
                IN  /\ this_sector' = Plus(first_sector, start_sect(e))
                    /\ this_size' = nr_sects(e)
                    /\ pc' = "chain" /\ UNCHANGED slot
    /\ UNCHANGED << disk, unlocked, part_tbl, parts, raid, next, eod, misread,
                    first_sector, first_size, loopct, i >>

-----------------------------------------------------------------------------
Init ==
    /\ disk \in Disks /\ unlocked = FALSE
    /\ part_tbl = [n \in Slots |-> NoPart] /\ parts = [n \in Slots |-> NoPart]
    /\ raid = {} /\ next = 5
    /\ eod = FALSE /\ misread = FALSE
    /\ pc = "idle" /\ slot = 1
    /\ first_sector = 0 /\ first_size = 0 /\ this_sector = 0 /\ this_size = 0
    /\ loopct = 0 /\ i = 1

Step ==
    \/ retry_unlocked \/ no_table \/ add_partitions \/ add_partition \/ added
    \/ read_mbr \/ primary \/ extended \/ primary_done
    \/ read_table \/ data_entry \/ link

Next == rescan_partitions \/ Step

\* A scan that has begun goes on.
Spec == Init /\ [][Next]_vars /\ WF_vars(Step)

-----------------------------------------------------------------------------
(* Properties.                                                             *)

\* Whatever the tables say, links in a circle included, a scan comes to an end.
Terminates == pc # "idle" ~> pc = "idle"

\* No partition reaches over the end of the disk, as long as its end does not
\* wrap around: whatever the tables say, and whether or not the capacity grew in
\* the middle of the scan, a partition that starts on the disk is limited by the
\* capacity in force.  It leaves out the partitions InsideDisk is refuted by.
InsideUnlessWrapped ==
    \A n \in Slots : part_tbl[n].size # 0 =>
        /\ part_tbl[n].from < get_capacity
        /\ \/ part_tbl[n].from + part_tbl[n].size <= get_capacity
           \/ part_tbl[n].from + part_tbl[n].size >= WordMod

\* What the comment in rescan_partitions promises of all of them: "limit them to
\* the end of the disk to avoid creating invalid block devices".
InsideDisk ==
    \A n \in Slots : part_tbl[n].from + part_tbl[n].size <= get_capacity

\* A scan that has met something beyond the end of the disk, a table or a
\* partition or the end of one, does not end before the driver was asked for
\* the native capacity.
WholeDiskTried ==
    [][ pc # "idle" /\ pc' = "idle" /\ disk.unlock /\ ~unlocked =>
            /\ ~eod
            /\ pc = "add" => \A n \in Slots : parts[n].size # 0 => ~BeyondEOD(parts[n]) ]_vars

\* The reference: the tables of the extended partition in slot k, as the list its
\* links describe, in plain arithmetic.  A table is the extent its entry gives it;
\* after the last one comes NoPart.
Scaled(k) == k * disk.ss
Span(base, e) == [from |-> base + Scaled(e.start), size |-> Scaled(e.size)]
HeadTable(k) == LET e == Sector(0).ent[k]
                IN  IF e.size # 0 /\ is_extended(e) THEN Span(0, e) ELSE NoPart
NextTable(t, first) ==
    LET s == Sector(t.from)
    IN  IF t = NoPart \/ ~s.magic \/ Links(s) = {} THEN NoPart
        ELSE Span(first.from, s.ent[Min(Links(s))])
MaxTables == (Limit - 4) * MaxLinks
Tables(k) ==
    LET list[n \in 1 .. MaxTables] ==
            IF n = 1 THEN HeadTable(k) ELSE NextTable(list[n - 1], HeadTable(k))
    IN  list

\* Entry j of the table t is a logical partition.
IsLogical(t, first, j) ==
    LET s == Sector(t.from)
        e == s.ent[j]
    IN  /\ t # NoPart
        /\ s.magic /\ e.size # 0 /\ ~is_extended(e)
        /\ j >= 3 => /\ Scaled(e.start + e.size) <= t.size
                     /\ first.from <= t.from + Scaled(e.start)
                     /\ t.from + Scaled(e.start + e.size) <= first.from + first.size

\* The entries of the lists tab that are logical partitions, and those of them
\* that come before MaxLinks tables in a row have none.
Places == [slot : 1 .. 4, table : 1 .. MaxTables, entry : 1 .. 4]
Present(tab) ==
    { x \in Places : IsLogical(tab[x.slot][x.table], HeadTable(x.slot), x.entry) }
Logical(tab) ==
    { x \in Present(tab) : \A m \in 1 .. x.table - MaxLinks : \E y \in Present(tab) :
                               y.slot = x.slot /\ y.table \in m .. m + MaxLinks - 1 }

Before(x, y) == \/ x.slot < y.slot
                \/ x.slot = y.slot /\ x.table < y.table
                \/ x.slot = y.slot /\ x.table = y.table /\ x.entry < y.entry

\* The number of a logical partition, and its entry.
Number(tab, x)  == 5 + Cardinality({ y \in Logical(tab) : Before(y, x) })
EntryOf(tab, x) == Sector(tab[x.slot][x.table].from).ent[x.entry]

NoWrap == \A n \in DOMAIN disk.sec : \A k \in 1 .. 4 :
              disk.native + Scaled(disk.sec[n].ent[k].start + disk.sec[n].ent[k].size) < WordMod

\* A scan that could read all it asked for numbers the logical partitions from
\* 5 on in the order of the tables, each once, and stops at the limit.
FollowsTheList ==
    pc = "add" /\ slot = 1 /\ ~misread /\ NoWrap /\ Sector(0).boot = "ok" =>
        LET tab == [k \in 1 .. 4 |-> Tables(k)]
        IN  /\ \A x \in Logical(tab) : Number(tab, x) < Limit =>
                   /\ parts[Number(tab, x)] =
                          Span(tab[x.slot][x.table].from, EntryOf(tab, x))
                   /\ Number(tab, x) \in raid <=> EntryOf(tab, x).sys = "raid"
            /\ \A n \in 5 .. Limit - 1 : n >= 5 + Cardinality(Logical(tab)) => parts[n] = NoPart
=============================================================================
