-------------------------- MODULE MsdosListProofs ---------------------------
(***************************************************************************)
(* The partitions that a scan finds are those of the list of tables, for   *)
(* every set of disks, every limit on the partition numbers and every      *)
(* length of a chain; and every scan is finite.                            *)
(*                                                                         *)
(* The reference Tables is a recursive function.  That it satisfies its    *)
(* defining equation, and that nothing follows the end of a list, is shown *)
(* by induction, with the least-number principle as a fact about sets      *)
(* (LeastNumber).  Everything else is about any tab that satisfies the     *)
(* equation (ListOf), as an invariant of the walk.                         *)
(***************************************************************************)
EXTENDS MsdosPartitionProofs, FiniteSetTheorems, WellFoundedInduction

\* tab[k][n] is the n-th table of the extended partition in slot k.
ListOf(tab) ==
    \A k \in 1 .. 4 : \A n \in 1 .. MaxTables :
        tab[k][n] = IF n = 1 THEN HeadTable(k) ELSE NextTable(tab[k][n - 1], HeadTable(k))

Place(k, n, j) == [slot |-> k, table |-> n, entry |-> j]

\* The partitions of a beginning part of the list, D, have their numbers.
Recorded(tab, D) ==
    /\ \A x \in D : \A y \in Logical(tab) : Before(y, x) => y \in D
    /\ next = 5 + Cardinality(D)
    /\ \A x \in D : /\ parts[Number(tab, x)] = Span(tab[x.slot][x.table].from, EntryOf(tab, x))
                    /\ Number(tab, x) \in raid <=> EntryOf(tab, x).sys = "raid"
    /\ \A m \in next .. Limit - 1 : parts[m] = NoPart /\ m \notin raid

\* The walk has come to p: all before it is recorded, unless the numbers ran out.
WalkedTo(tab, p) ==
    \E D \in SUBSET Logical(tab) :
        /\ Recorded(tab, D)
        /\ next < Limit => D = { x \in Logical(tab) : Before(x, p) }

\* In a chain after q tables, at p: the last loopct of them had no partition up
\* to p, the one before them had, and no MaxLinks in a row had none.
InChain(tab, q, p) ==
    /\ first_sector = HeadTable(slot).from /\ first_size = HeadTable(slot).size
    /\ HeadTable(slot) # NoPart
    /\ q >= 1 => first_sector < get_capacity
    /\ loopct <= q
    /\ q <= (next - 5) * MaxLinks + loopct
    /\ \A y \in Present(tab) : y.slot = slot /\ y.table \in q - loopct + 1 .. q => ~Before(y, p)
    /\ q - loopct >= 1 => \E y \in Present(tab) : y.slot = slot /\ y.table = q - loopct
    /\ \A m \in 1 .. q - MaxLinks : \E y \in Present(tab) :
           y.slot = slot /\ y.table \in m .. m + MaxLinks - 1

This == [from |-> this_sector, size |-> this_size]

AtMbr == slot = 1 /\ next = 5 /\ raid = {} /\ parts = [n \in Slots |-> NoPart]

AtChain(tab, q) ==
    /\ q \in 0 .. MaxTables
    /\ InChain(tab, q, Place(slot, q + 1, 1))
    /\ WalkedTo(tab, Place(slot, q + 1, 1))
    /\ q + 1 <= MaxTables => tab[slot][q + 1] = This
    /\ This # NoPart
    /\ q = 0 => this_sector = first_sector

AtData(tab, q) ==
    /\ q \in 1 .. MaxTables
    /\ InChain(tab, q, Place(slot, q, i))
    /\ WalkedTo(tab, Place(slot, q, i))
    /\ tab[slot][q] = This /\ This # NoPart
    /\ Sector(this_sector).magic /\ this_sector < get_capacity

\* Where the walk is at each step of the parser.
ListInv(tab) ==
    /\ pc = "primary" => WalkedTo(tab, Place(slot, 1, 1))
    /\ pc = "chain" => \E q \in Nat : AtChain(tab, q)
    /\ pc = "data" => \E q \in Nat : AtData(tab, q)
    /\ pc \in {"known", "add"} /\ Sector(0).boot = "ok" => WalkedTo(tab, Place(5, 1, 1))

FollowInv ==
    /\ pc = "mbr" => AtMbr
    /\ ~misread /\ NoWrap => \A tab : ListOf(tab) => ListInv(tab)

-----------------------------------------------------------------------------
(* Induction over the natural numbers, as facts about sets.                *)

\* A set of natural numbers that is not empty has a least element.
LEMMA LeastNumber ==
    ASSUME NEW S \in SUBSET Nat, S # {}
    PROVE  \E m \in S : \A k \in S : m <= k
<1> DEFINE R == OpToRel(<, Nat)
<1>1. IsWellFoundedOn(R, Nat)
    BY NatLessThanWellFounded, Zenon
<1>2. \A x, y \in Nat : x < y => << x, y >> \in R
    BY DEF OpToRel
<1> HIDE DEF R
<1>3. PICK x \in S : \A y \in S : ~(<< y, x >> \in R)
    BY <1>1, WFMin, Zenon
<1>4. \A y \in S : ~(y < x)
    BY <1>2, <1>3
<1> QED
    BY <1>4

\* What holds of a, and of n + 1 when of n, holds from a to b.
LEMMA CountsUp ==
    ASSUME NEW a \in Nat, NEW b \in Nat, NEW S, a \in S,
           \A n \in a .. b - 1 : n \in S => n + 1 \in S
    PROVE  a .. b \subseteq S
<1> DEFINE B == { n \in a .. b : n \notin S }
<1>1. SUFFICES ASSUME B # {} PROVE FALSE
    OBVIOUS
<1>2. B \in SUBSET Nat
    OBVIOUS
<1> HIDE DEF B
<1>3. PICK m \in B : \A k \in B : m <= k
    BY <1>1, <1>2, LeastNumber
<1>4. m \in a .. b /\ m \notin S
    BY <1>3 DEF B
<1>5. m - 1 \in a .. b - 1
    BY <1>4
<1>6. m - 1 \notin B
    BY <1>3, <1>4, <1>5
<1>7. m - 1 \in S
    BY <1>5, <1>6 DEF B
<1> QED
    BY <1>4, <1>5, <1>7

-----------------------------------------------------------------------------
(* The reference.                                                          *)

LEMMA MaxTablesType == MaxTables \in Nat
<1>1. Limit - 4 \in Nat /\ MaxLinks \in Nat
    BY MsdosAssumption
<1> QED
    BY <1>1 DEF MaxTables

\* The first m tables of a list.
Piece(f, m, k) ==
    f = [n \in 1 .. m |-> IF n = 1 THEN HeadTable(k) ELSE NextTable(f[n - 1], HeadTable(k))]

LEMMA PieceExists == ASSUME NEW k PROVE \E f : Piece(f, MaxTables, k)
<1> DEFINE S == { m \in Nat : \E f : Piece(f, m, k) }
<1>1. 0 \in S
  <2> DEFINE e == [n \in 1 .. 0 |-> NoPart]
  <2>1. Piece(e, 0, k)
    BY DEF Piece
  <2> QED
    BY <2>1
<1>2. ASSUME NEW m \in Nat, m \in S PROVE m + 1 \in S
  <2>1. PICK f : Piece(f, m, k)
    BY <1>2
  <2> DEFINE t(n) == IF n <= m THEN f[n]
                     ELSE IF n = 1 THEN HeadTable(k) ELSE NextTable(f[m], HeadTable(k))
             g == [n \in 1 .. m + 1 |-> t(n)]
  <2>2. ASSUME NEW n \in 1 .. m + 1
        PROVE  g[n] = IF n = 1 THEN HeadTable(k) ELSE NextTable(g[n - 1], HeadTable(k))
    <3>1. n # 1 => n - 1 \in 1 .. m /\ g[n - 1] = f[n - 1]
        OBVIOUS
    <3>2. CASE n <= m
        BY <2>1, <3>1, <3>2 DEF Piece
    <3>3. CASE n = m + 1
        BY <3>1, <3>3
    <3> QED
        BY <3>2, <3>3
  <2>3. g = [n \in 1 .. m + 1 |-> g[n]]
    OBVIOUS
  <2> HIDE DEF g
  <2>4. g = [n \in 1 .. m + 1 |->
                IF n = 1 THEN HeadTable(k) ELSE NextTable(g[n - 1], HeadTable(k))]
    BY <2>2, <2>3
  <2>5. Piece(g, m + 1, k)
    BY <2>4 DEF Piece
  <2> QED
    BY <2>5
<1> HIDE DEF S
<1>3. 0 .. MaxTables \subseteq S
    BY <1>1, <1>2, MaxTablesType, CountsUp
<1> QED
    BY <1>3, MaxTablesType DEF S

\* The recursive function Tables(k) satisfies its definition.
LEMMA TablesAreList == ListOf([k \in 1 .. 4 |-> Tables(k)])
<1> SUFFICES ASSUME NEW k \in 1 .. 4, NEW n \in 1 .. MaxTables
             PROVE  Tables(k)[n] = IF n = 1 THEN HeadTable(k)
                                   ELSE NextTable(Tables(k)[n - 1], HeadTable(k))
    BY DEF ListOf
<1>1. PICK f : f = [m \in 1 .. MaxTables |->
                       IF m = 1 THEN HeadTable(k) ELSE NextTable(f[m - 1], HeadTable(k))]
    BY PieceExists DEF Piece
<1>2. Tables(k) = [m \in 1 .. MaxTables |->
                      IF m = 1 THEN HeadTable(k) ELSE NextTable(Tables(k)[m - 1], HeadTable(k))]
    BY <1>1, Zenon DEF Tables
<1> HIDE DEF Tables
<1> QED
    BY <1>2, Zenon

\* Nothing comes after the end of a list.
LEMMA EndOfList ==
    ASSUME NEW tab, ListOf(tab), NEW k \in 1 .. 4, NEW n \in 1 .. MaxTables,
           tab[k][n] = NoPart, NEW m \in n .. MaxTables
    PROVE  tab[k][m] = NoPart
<1> DEFINE S == { j \in Nat : tab[k][j] = NoPart }
<1>1. n \in S /\ n \in Nat
    OBVIOUS
<1>2. ASSUME NEW j \in n .. MaxTables - 1, j \in S PROVE j + 1 \in S
  <2>1. j + 1 \in 1 .. MaxTables /\ j + 1 # 1 /\ (j + 1) - 1 = j
    BY <1>1, MaxTablesType
  <2>2. tab[k][j + 1] = NextTable(tab[k][j], HeadTable(k))
    BY <2>1 DEF ListOf
  <2>3. tab[k][j] = NoPart
    BY <1>2
  <2> QED
    BY <2>1, <2>2, <2>3 DEF NextTable
<1> HIDE DEF S
<1>3. n .. MaxTables \subseteq S
    BY <1>1, <1>2, MaxTablesType, CountsUp
<1> QED
    BY <1>3 DEF S

-----------------------------------------------------------------------------
(* Sums that do not wrap around.                                           *)

LEMMA PlainPlus ==
    ASSUME NEW a \in Nat, NEW b \in Nat, a + b < WordMod
    PROVE  Plus(a, b) = a + b
BY MsdosAssumption DEF Plus

LEMMA Distributes ==
    ASSUME NEW a \in Nat, NEW b \in Nat, NEW c \in Nat \ {0}
    PROVE  /\ a * c \in Nat /\ b * c \in Nat
           /\ (a + b) * c = a * c + b * c
           /\ b * c = 0 <=> b = 0
OBVIOUS

LEMMA Reduced == ASSUME NEW a \in Nat, a < WordMod PROVE a % WordMod = a
BY MsdosAssumption

\* On a disk without sums that wrap around the entries are what they say.
LEMMA PlainEntry ==
    ASSUME disk \in Disks, NoWrap, NEW n, NEW k \in 1 .. 4, NEW e, e = Sector(n).ent[k]
    PROVE  /\ Scaled(e.start) \in Nat /\ Scaled(e.size) \in Nat
           /\ Scaled(e.start + e.size) = Scaled(e.start) + Scaled(e.size)
           /\ Scaled(e.size) = 0 <=> e.size = 0
           /\ start_sect(e) = Scaled(e.start) /\ nr_sects(e) = Scaled(e.size)
           /\ disk.native + Scaled(e.start) + Scaled(e.size) < WordMod
<1>1. e.start \in Nat /\ e.size \in Nat
    BY EntryType, MsdosAssumption DEF Sectors
<1>2. disk.ss \in Nat \ {0} /\ disk.native \in Nat /\ disk.native < WordMod /\ WordMod \in Nat
    BY MsdosAssumption DEF Sectors
<1>3. /\ e.start * disk.ss \in Nat /\ e.size * disk.ss \in Nat
      /\ (e.start + e.size) * disk.ss = e.start * disk.ss + e.size * disk.ss
      /\ e.size * disk.ss = 0 <=> e.size = 0
    BY <1>1, <1>2, Distributes
<1>4. disk.native + (e.start + e.size) * disk.ss < WordMod
  <2>1. CASE n \in DOMAIN disk.sec
    BY <2>1 DEF NoWrap, Scaled, Sector
  <2>2. CASE n \notin DOMAIN disk.sec
    <3>1. e = NoEntry
        BY <2>2 DEF Sector, Blank
    <3>2. e.start = 0 /\ e.size = 0
        BY <3>1 DEF NoEntry
    <3>3. e.start * disk.ss = 0 /\ e.size * disk.ss = 0
        BY <3>2, <1>2
    <3> QED
        BY <3>3, <1>2, <1>3
  <2> QED
    BY <2>1, <2>2
<1>5. e.start * disk.ss < WordMod /\ e.size * disk.ss < WordMod
    BY <1>2, <1>3, <1>4
<1>6. start_sect(e) = e.start * disk.ss /\ nr_sects(e) = e.size * disk.ss
    BY <1>3, <1>5, Reduced DEF start_sect, nr_sects
<1> QED
    BY <1>2, <1>3, <1>4, <1>6 DEF Scaled

\* The tables of a list are extents in plain numbers.
LEMMA HeadType ==
    ASSUME disk \in Disks, NoWrap, NEW k \in 1 .. 4
    PROVE  /\ HeadTable(k).from \in Nat /\ HeadTable(k).size \in Nat
           /\ HeadTable(k).from + HeadTable(k).size < WordMod
<1> DEFINE e == Sector(0).ent[k]
<1>1. /\ Scaled(e.start) \in Nat /\ Scaled(e.size) \in Nat
      /\ disk.native + Scaled(e.start) + Scaled(e.size) < WordMod
    BY PlainEntry
<1>2. disk.native \in Nat /\ WordMod \in Nat /\ WordMod > 2
    BY MsdosAssumption DEF Sectors
<1>3. HeadTable(k) = NoPart \/ HeadTable(k) = Span(0, e)
    BY DEF HeadTable
<1> HIDE DEF e
<1> QED
    BY <1>1, <1>2, <1>3 DEF NoPart, Span
-----------------------------------------------------------------------------
(* The reference depends on the disk alone.                                *)

LEMMA SameDisk ==
    ASSUME disk' = disk, NEW tab
    PROVE  /\ NoWrap' = NoWrap
           /\ \A n : Sector(n)' = Sector(n)
           /\ \A k : HeadTable(k)' = HeadTable(k)
           /\ ListOf(tab)' = ListOf(tab)
           /\ Present(tab)' = Present(tab)
           /\ Logical(tab)' = Logical(tab)
           /\ \A x : Number(tab, x)' = Number(tab, x)
           /\ \A x : EntryOf(tab, x)' = EntryOf(tab, x)
           /\ \A b, e : Span(b, e)' = Span(b, e)
<1>1. \A n : Sector(n)' = Sector(n)
    BY DEF Sector
<1>2. /\ NoWrap' = NoWrap
      /\ \A b, e : Span(b, e)' = Span(b, e)
      /\ \A k : HeadTable(k)' = HeadTable(k)
      /\ \A k : Scaled(k)' = Scaled(k)
    BY <1>1 DEF NoWrap, Span, HeadTable, Scaled, is_extended
<1>3. \A t, f : NextTable(t, f)' = NextTable(t, f)
    BY <1>1, <1>2 DEF NextTable, Links, is_extended
<1>4. ListOf(tab)' = ListOf(tab)
    BY <1>2, <1>3 DEF ListOf
<1>5. \A t, f, j : IsLogical(t, f, j)' = IsLogical(t, f, j)
    BY <1>1, <1>2 DEF IsLogical, is_extended
<1>6. Present(tab)' = Present(tab)
    BY <1>2, <1>5 DEF Present
<1>7. Logical(tab)' = Logical(tab)
    BY <1>6 DEF Logical
<1>8. /\ \A x : Number(tab, x)' = Number(tab, x)
      /\ \A x : EntryOf(tab, x)' = EntryOf(tab, x)
    BY <1>1, <1>7 DEF Number, EntryOf
<1> QED
    BY <1>1, <1>2, <1>4, <1>6, <1>7, <1>8

-----------------------------------------------------------------------------
(* The numbers of the logical partitions.                                  *)

LEMMA PlacesFinite == IsFiniteSet(Places)
<1> DEFINE T == (1 .. 4) \X ((1 .. MaxTables) \X (1 .. 4))
           f == [x \in Places |-> << x.slot, << x.table, x.entry >> >>]
<1>1. IsFiniteSet(T)
  <2>1. 1 \in Int /\ 4 \in Int /\ MaxTables \in Int
    BY MaxTablesType
  <2>2. IsFiniteSet(1 .. 4) /\ IsFiniteSet(1 .. MaxTables)
    BY <2>1, FS_Interval
  <2> QED
    BY <2>2, FS_Product
<1>2. f \in [Places -> T]
    BY DEF Places
<1>3. \A x, y \in Places : f[x] = f[y] => x = y
    BY DEF Places
<1> HIDE DEF f, T
<1>4. f \in Injection(Places, T)
    BY <1>2, <1>3 DEF Injection, IsInjective
<1> QED
    BY <1>1, <1>4, FS_Injection

LEMMA LogicalFinite ==
    ASSUME NEW tab
    PROVE  /\ Logical(tab) \subseteq Present(tab) /\ Present(tab) \subseteq Places
           /\ \A D \in SUBSET Logical(tab) : IsFiniteSet(D) /\ Cardinality(D) \in Nat
<1>1. Logical(tab) \subseteq Present(tab) /\ Present(tab) \subseteq Places
    BY DEF Logical, Present
<1>2. ASSUME NEW D \in SUBSET Logical(tab) PROVE IsFiniteSet(D) /\ Cardinality(D) \in Nat
  <2>1. IsFiniteSet(D)
    BY <1>1, PlacesFinite, FS_Subset
  <2> QED
    BY <2>1, FS_CardinalityType
<1> QED
    BY <1>1, <1>2

\* Before orders the places.
LEMMA BeforeOrders ==
    /\ \A x \in Places : ~Before(x, x)
    /\ \A x, y \in Places : x = y \/ Before(x, y) \/ Before(y, x)
<1>1. \A x \in Places : x.slot \in Int /\ x.table \in Int /\ x.entry \in Int
    BY DEF Places
<1>2. ASSUME NEW x \in Places, NEW y \in Places
      PROVE  x.slot = y.slot /\ x.table = y.table /\ x.entry = y.entry => x = y
    BY DEF Places
<1> QED
    BY <1>1, <1>2 DEF Before

\* A partition of a beginning part of the list has a number below the size of
\* that part.
LEMMA NumberInside ==
    ASSUME NEW tab, NEW D \in SUBSET Logical(tab), NEW x \in D,
           \A y \in Logical(tab) : Before(y, x) => y \in D
    PROVE  /\ Number(tab, x) \in Nat /\ Number(tab, x) >= 5
           /\ Number(tab, x) < 5 + Cardinality(D)
<1> DEFINE P == { y \in Logical(tab) : Before(y, x) }
<1>1. P \subseteq D \ {x}
    BY LogicalFinite, BeforeOrders
<1> HIDE DEF P
<1>2. IsFiniteSet(D) /\ Cardinality(D) \in Nat
    BY LogicalFinite
<1>3. IsFiniteSet(D \ {x}) /\ Cardinality(D \ {x}) = Cardinality(D) - 1
    BY <1>2, FS_RemoveElement
<1>4. IsFiniteSet(P) /\ Cardinality(P) <= Cardinality(D) - 1 /\ Cardinality(P) \in Nat
    BY <1>1, <1>3, FS_Subset, FS_CardinalityType
<1>5. Number(tab, x) = 5 + Cardinality(P)
    BY DEF Number, P
<1> QED
    BY <1>2, <1>4, <1>5

\* A partition that is not in a beginning part has a number that is not below
\* its size.
LEMMA NumberOutside ==
    ASSUME NEW tab, NEW D \in SUBSET Logical(tab), NEW x \in Logical(tab), x \notin D,
           \A z \in D : \A y \in Logical(tab) : Before(y, z) => y \in D
    PROVE  Number(tab, x) \in Nat /\ Number(tab, x) >= 5 + Cardinality(D)
<1> DEFINE P == { y \in Logical(tab) : Before(y, x) }
<1>1. D \subseteq P
  <2> SUFFICES ASSUME NEW z \in D PROVE Before(z, x)
    OBVIOUS
  <2>1. ~Before(x, z) /\ z # x
    OBVIOUS
  <2> QED
    BY <2>1, LogicalFinite, BeforeOrders
<1>2. P \in SUBSET Logical(tab)
    OBVIOUS
<1> HIDE DEF P
<1>3. IsFiniteSet(P) /\ Cardinality(P) \in Nat /\ Cardinality(D) \in Nat
    BY <1>2, LogicalFinite
<1>4. Cardinality(D) <= Cardinality(P)
    BY <1>1, <1>3, FS_Subset
<1>5. Number(tab, x) = 5 + Cardinality(P)
    BY DEF Number, P
<1> QED
    BY <1>3, <1>4, <1>5

-----------------------------------------------------------------------------
(* The walk.                                                               *)

\* The walk goes on to p2 without finding a partition in between.
LEMMA WalkMoves ==
    ASSUME TypeOK, NEW tab, NEW p, NEW p2, WalkedTo(tab, p), disk' = disk, next' = next,
           \A m \in 5 .. Limit - 1 : parts'[m] = parts[m] /\ (m \in raid' <=> m \in raid),
           next < Limit => \A x \in Logical(tab) : Before(x, p) <=> Before(x, p2)
    PROVE  WalkedTo(tab, p2)'
<1>1. PICK D \in SUBSET Logical(tab) :
             /\ Recorded(tab, D)
             /\ next < Limit => D = { x \in Logical(tab) : Before(x, p) }
    BY DEF WalkedTo
<1>2. next \in 5 .. Limit /\ Limit \in Nat
    BY MsdosAssumption DEF TypeOK
<1>3. ASSUME NEW x \in D
      PROVE  Number(tab, x) \in 5 .. Limit - 1
  <2>1. \A y \in Logical(tab) : Before(y, x) => y \in D
    BY <1>1 DEF Recorded
  <2>2. Cardinality(D) \in Nat /\ next = 5 + Cardinality(D)
    BY <1>1, LogicalFinite DEF Recorded
  <2> QED
    BY <1>2, <2>1, <2>2, NumberInside
<1>4. /\ Logical(tab)' = Logical(tab)
      /\ \A x : Number(tab, x)' = Number(tab, x)
      /\ \A x : EntryOf(tab, x)' = EntryOf(tab, x)
      /\ \A b, e : Span(b, e)' = Span(b, e)
    BY SameDisk
<1>5. next' < Limit => D = { x \in Logical(tab) : Before(x, p2) }
    BY <1>1
<1>6. Recorded(tab, D)'
  <2>1. \A x \in D : \A y \in Logical(tab)' : Before(y, x) => y \in D
    BY <1>1, <1>4 DEF Recorded
  <2>2. next' = 5 + Cardinality(D)
    BY <1>1 DEF Recorded
  <2>3. ASSUME NEW x \in D
        PROVE  /\ parts'[Number(tab, x)'] =
                      Span(tab[x.slot][x.table].from, EntryOf(tab, x))'
               /\ Number(tab, x)' \in raid' <=> EntryOf(tab, x)'.sys = "raid"
    BY <1>1, <1>3, <1>4 DEF Recorded
  <2>4. \A m \in next' .. Limit - 1 : parts'[m] = NoPart /\ m \notin raid'
    BY <1>1, <1>2 DEF Recorded
  <2> QED
    BY <2>1, <2>2, <2>3, <2>4 DEF Recorded
<1> QED
    BY <1>4, <1>5, <1>6 DEF WalkedTo

\* The partition x is the next one, and it is given the next number.
LEMMA WalkFinds ==
    ASSUME TypeOK, NEW tab, NEW x \in Logical(tab), NEW p2, WalkedTo(tab, x), disk' = disk,
           next < Limit, next' = next + 1,
           parts' = [parts EXCEPT ![next] = Span(tab[x.slot][x.table].from, EntryOf(tab, x))],
           raid' = IF EntryOf(tab, x).sys = "raid" THEN raid \cup {next} ELSE raid,
           next + 1 < Limit =>
               \A y \in Logical(tab) : Before(y, p2) <=> Before(y, x) \/ y = x
    PROVE  WalkedTo(tab, p2)'
<1>d. PICK D : D = { y \in Logical(tab) : Before(y, x) }
    OBVIOUS
<1>e. PICK E : E = D \cup {x}
    OBVIOUS
<1>1. Recorded(tab, D)
    BY <1>d DEF WalkedTo
<1>2. next \in 5 .. Limit - 1 /\ Limit \in Nat /\ next \in Slots
    BY MsdosAssumption DEF TypeOK, Slots
<1>3. x \notin D
    BY <1>d, LogicalFinite, BeforeOrders
<1>4. D \in SUBSET Logical(tab) /\ E \in SUBSET Logical(tab)
    BY <1>d, <1>e
<1>5. Number(tab, x) = next
    BY <1>d, <1>1 DEF Recorded, Number
<1>6. IsFiniteSet(D) /\ Cardinality(D) \in Nat
    BY <1>4, LogicalFinite
<1>7. \A y \in E : \A z \in Logical(tab) : Before(z, y) => z \in E
    BY <1>d, <1>e, <1>1 DEF Recorded
<1>8. next' < Limit => E = { y \in Logical(tab) : Before(y, p2) }
    BY <1>d, <1>e
<1>9. Cardinality(E) = Cardinality(D) + 1
    BY <1>e, <1>3, <1>6, FS_AddElement
<1>10. next = 5 + Cardinality(D)
    BY <1>1 DEF Recorded
<1>11. /\ Logical(tab)' = Logical(tab)
       /\ \A y : Number(tab, y)' = Number(tab, y)
       /\ \A y : EntryOf(tab, y)' = EntryOf(tab, y)
       /\ \A b, e : Span(b, e)' = Span(b, e)
    BY SameDisk
<1>12. parts \in [Slots -> Extent] /\ raid \subseteq Slots
    BY DEF TypeOK
<1>13. ASSUME NEW y \in E
       PROVE  /\ parts'[Number(tab, y)] = Span(tab[y.slot][y.table].from, EntryOf(tab, y))
              /\ Number(tab, y) \in raid' <=> EntryOf(tab, y).sys = "raid"
  <2>1. CASE y = x
    <3>1. next \notin raid
        BY <1>1, <1>2 DEF Recorded
    <3> QED
        BY <2>1, <3>1, <1>2, <1>5, <1>12
  <2>2. CASE y \in D
    <3>1. \A z \in Logical(tab) : Before(z, y) => z \in D
        BY <1>1, <2>2 DEF Recorded
    <3>2. /\ Number(tab, y) \in Nat /\ Number(tab, y) >= 5 /\ Number(tab, y) < next
        BY <1>4, <1>10, <2>2, <3>1, NumberInside
    <3>3. Number(tab, y) \in Slots /\ Number(tab, y) # next
        BY <1>2, <3>2 DEF Slots
    <3>4. /\ parts[Number(tab, y)] = Span(tab[y.slot][y.table].from, EntryOf(tab, y))
          /\ Number(tab, y) \in raid <=> EntryOf(tab, y).sys = "raid"
        BY <1>1, <2>2 DEF Recorded
    <3> QED
        BY <3>3, <3>4, <1>12
  <2> QED
    BY <1>e, <2>1, <2>2
<1>14. ASSUME NEW m \in next' .. Limit - 1 PROVE parts'[m] = NoPart /\ m \notin raid'
  <2>1. m \in next .. Limit - 1 /\ m \in Slots /\ m # next
    BY <1>2 DEF Slots
  <2>2. parts[m] = NoPart /\ m \notin raid
    BY <1>1, <2>1 DEF Recorded
  <2> QED
    BY <1>12, <2>1, <2>2
<1>15. Recorded(tab, E)'
  <2>1. next' = 5 + Cardinality(E)
    BY <1>6, <1>9, <1>10
  <2>2. \A y \in E : \A z \in Logical(tab)' : Before(z, y) => z \in E
    BY <1>7, <1>11
  <2>3. ASSUME NEW y \in E
        PROVE  /\ parts'[Number(tab, y)'] = Span(tab[y.slot][y.table].from, EntryOf(tab, y))'
               /\ Number(tab, y)' \in raid' <=> EntryOf(tab, y)'.sys = "raid"
    BY <1>11, <1>13
  <2> QED
    BY <1>14, <2>1, <2>2, <2>3 DEF Recorded
<1>16. next' < Limit => E = { y \in Logical(tab)' : Before(y, p2) }
    BY <1>8, <1>11
<1>17. E \in SUBSET (Logical(tab)')
    BY <1>4, <1>11
<1> QED
    BY <1>15, <1>16, <1>17 DEF WalkedTo

\* A walk that has come past the last slot has recorded the whole list.
LEMMA WalkComplete ==
    ASSUME TypeOK, NEW tab, WalkedTo(tab, Place(5, 1, 1))
    PROVE  /\ \A x \in Logical(tab) : Number(tab, x) < Limit =>
                 /\ parts[Number(tab, x)] = Span(tab[x.slot][x.table].from, EntryOf(tab, x))
                 /\ Number(tab, x) \in raid <=> EntryOf(tab, x).sys = "raid"
           /\ \A n \in 5 .. Limit - 1 : n >= 5 + Cardinality(Logical(tab)) => parts[n] = NoPart
<1>1. PICK D \in SUBSET Logical(tab) :
             /\ Recorded(tab, D)
             /\ next < Limit => D = { x \in Logical(tab) : Before(x, Place(5, 1, 1)) }
    BY DEF WalkedTo
<1>2. next \in 5 .. Limit /\ Limit \in Nat
    BY MsdosAssumption DEF TypeOK
<1>3. \A x \in Logical(tab) : Before(x, Place(5, 1, 1))
    BY LogicalFinite DEF Places, Place, Before
<1>4. next < Limit => D = Logical(tab)
    BY <1>1, <1>3
<1>5. next = 5 + Cardinality(D) /\ Cardinality(D) \in Nat
    BY <1>1, LogicalFinite DEF Recorded
<1>6. \A x \in Logical(tab) : Number(tab, x) < Limit => x \in D
  <2> SUFFICES ASSUME NEW x \in Logical(tab), x \notin D, Number(tab, x) < Limit
               PROVE  FALSE
    OBVIOUS
  <2>1. next = Limit
    BY <1>2, <1>4
  <2>2. Number(tab, x) \in Nat /\ Number(tab, x) >= 5 + Cardinality(D)
    BY <1>1, NumberOutside DEF Recorded
  <2> QED
    BY <1>2, <1>5, <2>1, <2>2
<1>7. ASSUME NEW n \in 5 .. Limit - 1, n >= 5 + Cardinality(Logical(tab))
      PROVE  parts[n] = NoPart
  <2>1. IsFiniteSet(Logical(tab)) /\ Cardinality(Logical(tab)) \in Nat
    BY LogicalFinite
  <2>2. Cardinality(D) <= Cardinality(Logical(tab))
    BY <2>1, FS_Subset
  <2>3. n \in next .. Limit - 1
    BY <1>2, <1>5, <1>7, <2>1, <2>2
  <2> QED
    BY <1>1, <2>3 DEF Recorded
<1> QED
    BY <1>1, <1>6, <1>7 DEF Recorded

-----------------------------------------------------------------------------
(* What the list says of the places ahead.                                 *)

LEMMA BeforePlace ==
    ASSUME NEW x \in Places, NEW k \in Nat, NEW n \in Nat, NEW j \in Nat
    PROVE  Before(x, Place(k, n, j)) <=>
               \/ x.slot < k
               \/ x.slot = k /\ x.table < n
               \/ x.slot = k /\ x.table = n /\ x.entry < j
BY DEF Before, Place

\* No partition follows the end of a list.
LEMMA NoneAfterEnd ==
    ASSUME NEW tab, ListOf(tab), NEW k \in 1 .. 4, NEW n \in Nat \ {0},
           n <= MaxTables => tab[k][n] = NoPart,
           NEW x \in Present(tab), x.slot = k
    PROVE  x.table < n
<1>1. x \in Places /\ tab[x.slot][x.table] # NoPart
    BY DEF Present, IsLogical
<1>2. x.table \in 1 .. MaxTables
    BY <1>1 DEF Places
<1>3. CASE x.table >= n
  <2>1. n \in 1 .. MaxTables /\ x.table \in n .. MaxTables
    BY <1>2, <1>3, MaxTablesType
  <2>2. tab[k][x.table] = NoPart
    BY <2>1, EndOfList
  <2> QED
    BY <1>1, <2>2
<1> QED
    BY <1>2, <1>3

\* Nor a table without a signature or without a link.
LEMMA NoneAfterLast ==
    ASSUME NEW tab, ListOf(tab), NEW k \in 1 .. 4, NEW n \in 1 .. MaxTables,
           \/ ~Sector(tab[k][n].from).magic
           \/ Links(Sector(tab[k][n].from)) = {},
           NEW x \in Present(tab), x.slot = k
    PROVE  x.table <= n
<1>1. n + 1 <= MaxTables => tab[k][n + 1] = NoPart
  <2> SUFFICES ASSUME n + 1 <= MaxTables PROVE tab[k][n + 1] = NoPart
    OBVIOUS
  <2>1. n + 1 \in 1 .. MaxTables /\ n + 1 # 1 /\ (n + 1) - 1 = n
    BY MaxTablesType
  <2>2. tab[k][n + 1] = NextTable(tab[k][n], HeadTable(k))
    BY <2>1 DEF ListOf
  <2> QED
    BY <2>2 DEF NextTable
<1>2. x.table < n + 1
    BY <1>1, NoneAfterEnd
<1>3. x.table \in Int
    BY LogicalFinite DEF Places
<1> QED
    BY <1>2, <1>3

\* parse_extended returns: nothing is left of the chain, or no number.
LEMMA WalkReturns ==
    ASSUME TypeOK, NEW tab, NEW n \in Nat, NEW j \in Nat, WalkedTo(tab, Place(slot, n, j)),
           slot \in 1 .. 4, slot' = slot + 1, UNCHANGED << disk, parts, raid, next >>,
           next < Limit => \A x \in Logical(tab) :
               x.slot = slot => x.table < n \/ (x.table = n /\ x.entry < j)
    PROVE  WalkedTo(tab, Place(slot, 1, 1))'
<1>1. PICK p : p = Place(slot, n, j)
    OBVIOUS
<1>2. PICK p2 : p2 = Place(slot + 1, 1, 1)
    OBVIOUS
<1>3. ASSUME next < Limit, NEW x \in Logical(tab)
      PROVE  Before(x, p) <=> Before(x, p2)
  <2>1. x \in Places /\ x.slot \in Nat /\ x.table \in Nat /\ x.table >= 1 /\ x.entry \in Nat
    BY LogicalFinite DEF Places
  <2>2. slot \in Nat /\ slot + 1 \in Nat
    OBVIOUS
  <2>3. Before(x, p) <=> \/ x.slot < slot
                         \/ x.slot = slot /\ x.table < n
                         \/ x.slot = slot /\ x.table = n /\ x.entry < j
    BY <1>1, <2>1, <2>2, BeforePlace
  <2>4. Before(x, p2) <=> \/ x.slot < slot + 1
                          \/ x.slot = slot + 1 /\ x.table < 1
                          \/ x.slot = slot + 1 /\ x.table = 1 /\ x.entry < 1
    BY <1>2, <2>1, <2>2, BeforePlace
  <2>5. x.entry >= 1
    BY <2>1 DEF Places
  <2> QED
    BY <1>3, <2>1, <2>2, <2>3, <2>4, <2>5
<1>4. WalkedTo(tab, p2)'
    BY <1>1, <1>3, WalkMoves
<1> QED
    BY <1>2, <1>4 DEF Place

\* After MaxLinks tables without a partition the rest of the chain does not count.
LEMMA TooFar ==
    ASSUME TypeOK, NEW tab, NEW q \in Nat, InChain(tab, q, Place(slot, q + 1, 1)), TooLong,
           NEW x \in Logical(tab), x.slot = slot
    PROVE  x.table < q + 1
<1>1. loopct = MaxLinks /\ MaxLinks \in Nat /\ loopct <= q
    BY MsdosAssumption DEF TypeOK, TooLong, Followed, InChain
<1>2. x \in Places /\ x.table \in 1 .. MaxTables /\ slot \in 1 .. 4
    BY LogicalFinite DEF Places
<1> SUFFICES ASSUME x.table >= q + 1 PROVE FALSE
    BY <1>2
<1>3. q - MaxLinks + 1 \in 1 .. x.table - MaxLinks
    BY <1>1, <1>2
<1>4. PICK y \in Present(tab) :
             /\ y.slot = slot
             /\ y.table \in q - MaxLinks + 1 .. (q - MaxLinks + 1) + MaxLinks - 1
    BY <1>3 DEF Logical
<1>5. y \in Places /\ y.table \in q - loopct + 1 .. q
    BY <1>1, <1>4, LogicalFinite
<1>6. ~Before(y, Place(slot, q + 1, 1))
    BY <1>4, <1>5 DEF InChain
<1> QED
    BY <1>2, <1>4, <1>5, <1>6, BeforePlace

-----------------------------------------------------------------------------
(* The steps of the parser.                                                *)

\* An entry of the boot sector that is no extended partition.
LEMMA PrimaryWalks ==
    ASSUME TypeInv, NoWrap, NEW tab, ListOf(tab), ListInv(tab), primary
    PROVE  ListInv(tab)'
<1>1. TypeOK /\ disk \in Disks /\ pc = "primary" /\ slot \in 1 .. 4 /\ slot \in Nat
    BY DEF primary, TypeInv, TypeOK
<1>2. /\ pc' = "primary" /\ slot' = slot + 1
      /\ disk' = disk /\ next' = next
    BY <1>1 DEF primary
<1>3. WalkedTo(tab, Place(slot, 1, 1))
    BY <1>1 DEF ListInv
<1> DEFINE e == Sector(0).ent[slot]
<1>4. HeadTable(slot) = NoPart
  <2>1. nr_sects(e) = 0 \/ ~is_extended(e)
    BY DEF primary
  <2>2. nr_sects(e) = Scaled(e.size) /\ (Scaled(e.size) = 0 <=> e.size = 0)
    BY <1>1, PlainEntry
  <2> QED
    BY <2>1, <2>2 DEF HeadTable
<1>5. 1 <= MaxTables => tab[slot][1] = NoPart
    BY <1>1, <1>4, MaxTablesType DEF ListOf
<1>6. \A x \in Logical(tab) : x.slot # slot
  <2> SUFFICES ASSUME NEW x \in Logical(tab), x.slot = slot PROVE FALSE
    OBVIOUS
  <2>1. x \in Present(tab) /\ x \in Places
    BY LogicalFinite
  <2>2. x.table < 1
    BY <1>1, <1>5, <2>1, NoneAfterEnd
  <2> QED
    BY <2>1, <2>2 DEF Places
<1>7. PICK p : p = Place(slot, 1, 1)
    OBVIOUS
<1>8. PICK p2 : p2 = Place(slot + 1, 1, 1)
    OBVIOUS
<1>9. \A x \in Logical(tab) : Before(x, p) <=> Before(x, p2)
  <2> SUFFICES ASSUME NEW x \in Logical(tab) PROVE Before(x, p) <=> Before(x, p2)
    OBVIOUS
  <2>1. x \in Places /\ x.slot \in Nat /\ x.table >= 1 /\ x.table \in Nat /\ x.entry >= 1
    BY LogicalFinite DEF Places
  <2>2. x.entry \in Nat
    BY <2>1 DEF Places
  <2>3. Before(x, p) <=> x.slot < slot
    BY <1>1, <1>6, <1>7, <2>1, <2>2, BeforePlace
  <2>4. Before(x, p2) <=> x.slot < slot + 1
    BY <1>1, <1>8, <2>1, <2>2, BeforePlace
  <2> QED
    BY <1>1, <1>6, <2>1, <2>3, <2>4
<1>10. \A m \in 5 .. Limit - 1 : parts'[m] = parts[m] /\ (m \in raid' <=> m \in raid)
  <2>1. parts' = parts \/ \E v : parts' = [parts EXCEPT ![slot] = v]
    BY DEF primary, put_partition
  <2>2. raid' = raid \/ raid' = raid \cup {slot}
    BY DEF primary
  <2>3. parts \in [Slots -> Extent] /\ \A m \in 5 .. Limit - 1 : m \in Slots /\ m # slot
    BY <1>1, MsdosAssumption DEF TypeOK, Slots
  <2> QED
    BY <2>1, <2>2, <2>3
<1>11. WalkedTo(tab, p2)'
    BY <1>1, <1>2, <1>3, <1>7, <1>9, <1>10, WalkMoves
<1>12. WalkedTo(tab, Place(slot, 1, 1))'
    BY <1>2, <1>8, <1>11 DEF Place
<1> QED
    BY <1>2, <1>12 DEF ListInv

\* An extended partition: the chain begins with no table read.
LEMMA ExtendedWalks ==
    ASSUME TypeInv, NoWrap, NEW tab, ListOf(tab), ListInv(tab), extended
    PROVE  ListInv(tab)'
<1>1. TypeOK /\ disk \in Disks /\ pc = "primary" /\ slot \in 1 .. 4 /\ slot \in Nat
    BY DEF extended, TypeInv, TypeOK
<1> DEFINE e == Sector(0).ent[slot]
<1>2. /\ pc' = "chain" /\ slot' = slot /\ disk' = disk /\ next' = next /\ raid' = raid
      /\ unlocked' = unlocked
      /\ first_sector' = start_sect(e) /\ first_size' = nr_sects(e)
      /\ this_sector' = start_sect(e) /\ this_size' = nr_sects(e)
      /\ loopct' = 0
      /\ nr_sects(e) # 0 /\ is_extended(e)
    BY DEF extended
<1>3. HeadTable(slot) = [from |-> start_sect(e), size |-> nr_sects(e)]
  <2>1. /\ nr_sects(e) = Scaled(e.size) /\ start_sect(e) = Scaled(e.start)
        /\ (Scaled(e.size) = 0 <=> e.size = 0) /\ Scaled(e.start) \in Nat
    BY <1>1, PlainEntry
  <2>2. 0 + Scaled(e.start) = Scaled(e.start)
    BY <2>1
  <2> QED
    BY <1>2, <2>1, <2>2 DEF HeadTable, Span
<1>4. HeadTable(slot) # NoPart
    BY <1>2, <1>3 DEF NoPart
<1>5. \A k : HeadTable(k)' = HeadTable(k)
    BY <1>2, SameDisk
<1>6. HeadTable(slot)' = HeadTable(slot)
    BY <1>2, <1>5
<1>7. PICK p : p = Place(slot, 1, 1)
    OBVIOUS
<1>8. \A m \in 5 .. Limit - 1 : parts'[m] = parts[m] /\ (m \in raid' <=> m \in raid)
  <2>1. \E s : put_partition(slot, start_sect(e), s)
    BY DEF extended
  <2> QED
    BY <1>1, <1>2, <2>1 DEF put_partition, TypeOK, Slots
<1>9. WalkedTo(tab, p)'
    BY <1>1, <1>2, <1>7, <1>8, WalkMoves DEF ListInv
<1>10. WalkedTo(tab, Place(slot, 0 + 1, 1))'
    BY <1>2, <1>7, <1>9 DEF Place
<1>11. (next - 5) * MaxLinks \in Nat /\ MaxLinks \in Nat
  <2>1. next - 5 \in Nat /\ MaxLinks \in Nat
    BY <1>1, MsdosAssumption DEF TypeOK
  <2> QED
    BY <2>1
<1>12. InChain(tab, 0, Place(slot, 0 + 1, 1))'
  <2>1. \A m : m \notin 1 .. 0 - MaxLinks
    BY <1>11
  <2>2. \A m : m \notin 0 - loopct' + 1 .. 0
    BY <1>2
  <2>3. 0 <= (next' - 5) * MaxLinks + loopct' /\ ~(0 - loopct' >= 1)
    BY <1>2, <1>11
  <2>4. /\ first_sector' = HeadTable(slot)'.from /\ first_size' = HeadTable(slot)'.size
        /\ HeadTable(slot)' # NoPart
    BY <1>2, <1>3, <1>4, <1>6
  <2> QED
    BY <1>2, <2>1, <2>2, <2>3, <2>4 DEF InChain
<1>13. (0 + 1 <= MaxTables => tab[slot'][0 + 1] = This') /\ This' # NoPart
    BY <1>4, <1>1, <1>2, <1>3, MaxTablesType DEF ListOf, This
<1>14. AtChain(tab, 0)'
    BY <1>2, <1>10, <1>12, <1>13, MaxTablesType DEF AtChain
<1> QED
    BY <1>2, <1>14 DEF ListInv

\* The next table of the chain is read, or there is none to read.
LEMMA TableWalks ==
    ASSUME TypeInv, NoWrap, NEW tab, ListOf(tab), ListInv(tab), read_table, ~misread'
    PROVE  ListInv(tab)'
<1>1. /\ TypeOK /\ disk \in Disks /\ pc = "chain" /\ slot \in 1 .. 4
      /\ next \in 5 .. Limit /\ loopct \in 0 .. MaxLinks
      /\ MaxLinks \in Nat /\ Limit \in Nat
    BY MsdosAssumption DEF read_table, TypeInv, TypeOK, AtStep
<1>2. UNCHANGED << disk, unlocked, part_tbl, parts, raid, next,
                   first_sector, first_size, this_sector, this_size >>
    BY DEF read_table
<1>3. PICK q \in Nat : AtChain(tab, q)
    BY <1>1 DEF ListInv
<1>4. /\ InChain(tab, q, Place(slot, q + 1, 1))
      /\ WalkedTo(tab, Place(slot, q + 1, 1))
      /\ q + 1 <= MaxTables => tab[slot][q + 1] = This
      /\ q = 0 => this_sector = first_sector
      /\ q + 1 \in Nat /\ This # NoPart
    BY <1>3 DEF AtChain
<1>5. ASSUME ~TooLong, next # Limit
      PROVE  loopct + 1 <= MaxLinks /\ q + 1 <= MaxTables
  <2>1. loopct + 1 <= MaxLinks
    BY <1>1, <1>5 DEF TooLong, Followed
  <2>2. q <= (next - 5) * MaxLinks + loopct
    BY <1>4 DEF InChain
  <2>3. (next - 5) * MaxLinks + MaxLinks <= MaxTables
    <3>1. PICK d \in Nat : d = Limit - 1 - next
        BY <1>1, <1>5
    <3>2. PICK c \in Nat : c = next - 5
        BY <1>1
    <3>3. Limit - 4 = c + d + 2
        BY <1>1, <3>1, <3>2
    <3>4. (c + d + 2) * MaxLinks = c * MaxLinks + d * MaxLinks + 2 * MaxLinks
        BY <1>1, <3>1, <3>2
    <3>5. c * MaxLinks \in Nat /\ d * MaxLinks \in Nat
        BY <1>1, <3>1, <3>2
    <3> QED
        BY <1>1, <3>2, <3>3, <3>4, <3>5 DEF MaxTables
  <2>4. (next - 5) * MaxLinks \in Nat
    BY <1>1
  <2> QED
    BY <1>1, <1>4, <2>1, <2>2, <2>3, <2>4, MaxTablesType
<1>6. CASE TooLong \/ next = Limit
  <2>1. pc' = "primary" /\ slot' = slot + 1
    BY <1>6 DEF read_table, Return
  <2>2. ASSUME next < Limit, NEW x \in Logical(tab), x.slot = slot
        PROVE  x.table < q + 1 \/ (x.table = q + 1 /\ x.entry < 1)
    BY <1>1, <1>4, <1>6, <2>2, TooFar
  <2>3. WalkedTo(tab, Place(slot, 1, 1))'
    BY <1>1, <1>2, <1>4, <2>1, <2>2, WalkReturns
  <2> QED
    BY <2>1, <2>3 DEF ListInv
<1>7. CASE ~TooLong /\ next # Limit /\ ~Sector(this_sector).magic
  <2>1. pc' = "primary" /\ slot' = slot + 1
    BY <1>7 DEF read_table, Return, ReadFails
  <2>2. q + 1 \in 1 .. MaxTables /\ tab[slot][q + 1].from = this_sector
    BY <1>4, <1>5, <1>7, MaxTablesType DEF This
  <2>3. ASSUME NEW x \in Logical(tab), x.slot = slot
        PROVE  x.table < q + 1 \/ (x.table = q + 1 /\ x.entry < 1)
    <3>1. x \in Present(tab) /\ x \in Places /\ x.table \in Int
        BY LogicalFinite DEF Places
    <3>2. x.table <= q + 1
        BY <1>1, <1>7, <2>2, <2>3, <3>1, NoneAfterLast
    <3>3. x.table # q + 1
        BY <1>7, <2>2, <2>3, <3>1 DEF Present, IsLogical
    <3> QED
        BY <1>4, <3>1, <3>2, <3>3
  <2>4. WalkedTo(tab, Place(slot, 1, 1))'
    BY <1>1, <1>2, <1>4, <2>1, <2>3, WalkReturns
  <2> QED
    BY <2>1, <2>4 DEF ListInv
<1>8. CASE ~TooLong /\ next # Limit /\ Sector(this_sector).magic
  <2>1. /\ pc' = "data" /\ i' = 1 /\ loopct' = loopct + 1 /\ slot' = slot
        /\ this_sector < get_capacity
    BY <1>8 DEF read_table, Return, ReadFails, ReadOK, Readable, Followed
  <2>2. loopct + 1 <= MaxLinks /\ q + 1 \in 1 .. MaxTables
    BY <1>4, <1>5, <1>8, MaxTablesType
  <2>3. /\ \A n : Sector(n)' = Sector(n)
        /\ \A k : HeadTable(k)' = HeadTable(k)
        /\ Present(tab)' = Present(tab)
    BY <1>2, SameDisk
  <2>4. get_capacity' = get_capacity
    BY <1>2 DEF get_capacity
  <2>5. PICK p : p = Place(slot, q + 1, 1)
    OBVIOUS
  <2>6. WalkedTo(tab, p)'
    BY <1>1, <1>2, <1>4, <2>5, WalkMoves
  <2>7. WalkedTo(tab, Place(slot, q + 1, i))'
    BY <2>1, <2>5, <2>6 DEF Place
  <2>8. InChain(tab, q + 1, Place(slot, q + 1, i))'
    <3>1. /\ first_sector = HeadTable(slot).from /\ first_size = HeadTable(slot).size
          /\ HeadTable(slot) # NoPart
          /\ q >= 1 => first_sector < get_capacity
          /\ loopct <= q /\ q <= (next - 5) * MaxLinks + loopct
        BY <1>4 DEF InChain
    <3>2. first_sector' < get_capacity'
        BY <1>2, <1>4, <2>1, <2>4, <3>1
    <3>3. q + 1 <= (next' - 5) * MaxLinks + loopct'
      <4>1. (next - 5) * MaxLinks \in Nat
        BY <1>1
      <4> QED
        BY <1>1, <1>2, <2>1, <3>1, <4>1
    <3>4. ASSUME NEW y \in Present(tab), y.slot = slot,
                 y.table \in (q + 1) - loopct' + 1 .. q + 1
          PROVE  ~Before(y, p)
      <4>1. y \in Places /\ y.table \in Nat /\ y.entry >= 1 /\ y.entry \in Nat /\ slot \in Nat
        BY <1>1, LogicalFinite DEF Places
      <4>2. CASE y.table = q + 1
        BY <1>4, <2>5, <3>4, <4>1, <4>2, BeforePlace
      <4>3. CASE y.table # q + 1
        <5>1. y.table \in q - loopct + 1 .. q
            BY <1>1, <2>1, <3>4, <4>1, <4>3
        <5> QED
            BY <1>4, <2>5, <3>4, <5>1 DEF InChain
      <4> QED
        BY <4>2, <4>3
    <3>5. (q + 1) - loopct' >= 1 =>
              \E y \in Present(tab) : y.slot = slot /\ y.table = (q + 1) - loopct'
      <4>1. (q + 1) - loopct' = q - loopct
        BY <1>1, <2>1
      <4> QED
        BY <1>4, <4>1 DEF InChain
    <3>6. ASSUME NEW m \in 1 .. (q + 1) - MaxLinks
          PROVE  \E y \in Present(tab) : y.slot = slot /\ y.table \in m .. m + MaxLinks - 1
      <4>1. CASE m \in 1 .. q - MaxLinks
        BY <1>4, <4>1 DEF InChain
      <4>2. CASE m = q + 1 - MaxLinks
        <5>1. q - loopct >= 1 /\ q - loopct \in m .. m + MaxLinks - 1
            BY <1>1, <2>2, <4>2
        <5>2. \E y \in Present(tab) : y.slot = slot /\ y.table = q - loopct
            BY <1>4, <5>1 DEF InChain
        <5> QED
            BY <5>1, <5>2
      <4> QED
        BY <1>1, <4>1, <4>2
    <3>7. p = Place(slot', q + 1, i')
        BY <2>1, <2>5
    <3>8. loopct' <= q + 1
        BY <1>1, <2>1, <3>1
    <3>9. HeadTable(slot)' = HeadTable(slot)
        BY <2>1, <2>3
    <3>10. /\ first_sector' = HeadTable(slot)'.from /\ first_size' = HeadTable(slot)'.size
           /\ HeadTable(slot)' # NoPart
        BY <1>2, <3>1, <3>9
    <3> QED
        BY <2>1, <2>3, <3>2, <3>3, <3>4, <3>5, <3>6, <3>7, <3>8, <3>10 DEF InChain
  <2>9. /\ tab[slot'][q + 1] = This' /\ This' # NoPart
        /\ Sector(this_sector)'.magic /\ this_sector' < get_capacity'
    BY <1>2, <1>4, <1>8, <2>1, <2>2, <2>3, <2>4 DEF This
  <2>10. AtData(tab, q + 1)'
    BY <2>2, <2>7, <2>8, <2>9 DEF AtData
  <2> QED
    BY <1>4, <2>1, <2>10 DEF ListInv
<1> QED
    BY <1>6, <1>7, <1>8

\* parse_extended takes an entry exactly where the list has a logical partition.
LEMMA EntryIsLogical ==
    ASSUME TypeInv, NoWrap, NEW tab, NEW q \in Nat, AtData(tab, q), i \in 1 .. 4, slot \in 1 .. 4,
           NEW e, e = Sector(this_sector).ent[i]
    PROVE  /\ Plus(this_sector, start_sect(e)) = this_sector + Scaled(e.start)
           /\ nr_sects(e) = Scaled(e.size)
           /\ ~(\/ e.size = 0 \/ is_extended(e)
                \/ Garbage(Plus(this_sector, start_sect(e)), start_sect(e), nr_sects(e)))
              <=> Place(slot, q, i) \in Present(tab)
<1>1. /\ TypeOK /\ disk \in Disks
      /\ this_sector \in Nat /\ this_size \in Nat
    BY MsdosAssumption DEF TypeInv, TypeOK, Sectors
<1>2. /\ q \in 1 .. MaxTables /\ tab[slot][q] = This
      /\ Sector(this_sector).magic /\ this_sector < get_capacity
      /\ first_sector = HeadTable(slot).from /\ first_size = HeadTable(slot).size
    BY DEF AtData, InChain
<1>3. get_capacity \in Nat /\ disk.native \in Nat /\ get_capacity <= disk.native
    BY <1>1, MsdosAssumption DEF get_capacity, Sectors
<1> DEFINE a == Scaled(e.start)
           b == Scaled(e.size)
<1>4. /\ a \in Nat /\ b \in Nat /\ Scaled(e.start + e.size) = a + b
      /\ start_sect(e) = a /\ nr_sects(e) = b
      /\ disk.native + a + b < WordMod
    BY <1>1, PlainEntry
<1>5. /\ first_sector \in Nat /\ first_size \in Nat /\ first_sector + first_size < WordMod
    BY <1>1, <1>2, HeadType
<1> HIDE DEF a, b
<1>6. /\ this_sector + a < WordMod /\ this_sector + a + b < WordMod /\ a + b < WordMod
      /\ this_sector + a \in Nat /\ WordMod \in Nat
    BY <1>1, <1>2, <1>3, <1>4, MsdosAssumption
<1>7. /\ Plus(this_sector, a) = this_sector + a
      /\ Plus(this_sector + a, b) = this_sector + a + b
      /\ Plus(a, b) = a + b
      /\ Plus(first_sector, first_size) = first_sector + first_size
    BY <1>1, <1>4, <1>5, <1>6, PlainPlus
<1>8. Garbage(this_sector + a, a, b) <=>
          i >= 3 /\ \/ a + b > this_size
                    \/ this_sector + a < first_sector
                    \/ this_sector + a + b > first_sector + first_size
    BY <1>7 DEF Garbage
<1>9. Place(slot, q, i) \in Places
    BY <1>2 DEF Places, Place
<1>10. Place(slot, q, i) \in Present(tab) <=> IsLogical(This, HeadTable(slot), i)
    BY <1>2, <1>9 DEF Present, Place
<1>11. This # NoPart
    BY DEF AtData
<1>12. This.from = this_sector /\ This.size = this_size
    BY DEF This
<1>13. i >= 3 \/ i < 3
    OBVIOUS
<1>14. IsLogical(This, HeadTable(slot), i) <=>
           /\ e.size # 0 /\ ~is_extended(e)
           /\ i >= 3 => /\ a + b <= this_size
                       /\ first_sector <= this_sector + a
                       /\ this_sector + (a + b) <= first_sector + first_size
    BY <1>2, <1>4, <1>11, <1>12 DEF IsLogical, a
<1> QED
    BY <1>1, <1>4, <1>5, <1>7, <1>8, <1>10, <1>14 DEF a, b

\* One of the four entries of a table.
LEMMA EntryWalks ==
    ASSUME TypeInv, NoWrap, NEW tab, ListOf(tab), ListInv(tab), data_entry
    PROVE  ListInv(tab)'
<1>1. /\ TypeOK /\ disk \in Disks /\ pc = "data" /\ slot \in 1 .. 4 /\ i \in 1 .. 4
      /\ next \in 5 .. Limit /\ next < Limit /\ loopct \in 0 .. MaxLinks
      /\ MaxLinks \in Nat /\ Limit \in Nat
    BY MsdosAssumption DEF data_entry, TypeInv, TypeOK, AtStep
<1>2. UNCHANGED << disk, unlocked, part_tbl, eod, misread,
                   first_sector, first_size, this_sector, this_size >>
    BY DEF data_entry
<1>3. PICK q \in Nat : AtData(tab, q)
    BY <1>1 DEF ListInv
<1>4. /\ q \in 1 .. MaxTables
      /\ InChain(tab, q, Place(slot, q, i)) /\ WalkedTo(tab, Place(slot, q, i))
      /\ tab[slot][q] = This /\ This # NoPart
      /\ Sector(this_sector).magic /\ this_sector < get_capacity
    BY <1>3 DEF AtData
<1>5. PICK x : x = Place(slot, q, i)
    OBVIOUS
<1>6. PICK p2 : p2 = Place(slot, q, i + 1)
    OBVIOUS
<1>7. x \in Places /\ x.slot = slot /\ x.table = q /\ x.entry = i
    BY <1>1, <1>4, <1>5 DEF Places, Place
<1>8. ASSUME NEW y \in Places PROVE Before(y, p2) <=> Before(y, x) \/ y = x
  <2>1. Before(y, x) <=> \/ y.slot < slot
                         \/ y.slot = slot /\ y.table < q
                         \/ y.slot = slot /\ y.table = q /\ y.entry < i
    BY <1>1, <1>5, BeforePlace
  <2>2. Before(y, p2) <=> \/ y.slot < slot
                          \/ y.slot = slot /\ y.table < q
                          \/ y.slot = slot /\ y.table = q /\ y.entry < i + 1
    BY <1>1, <1>6, BeforePlace
  <2>3. y.slot \in Int /\ y.table \in Int /\ y.entry \in Int
    BY DEF Places
  <2>4. y = x <=> y.slot = slot /\ y.table = q /\ y.entry = i
    BY <1>7 DEF Places
  <2> QED
    BY <1>1, <2>1, <2>2, <2>3, <2>4
<1>9. /\ \A n : Sector(n)' = Sector(n)
      /\ \A k : HeadTable(k)' = HeadTable(k)
      /\ Present(tab)' = Present(tab)
    BY <1>2, SameDisk
<1>10. get_capacity' = get_capacity
    BY <1>2 DEF get_capacity
<1>11. /\ first_sector' = HeadTable(slot).from /\ first_size' = HeadTable(slot).size
       /\ HeadTable(slot) # NoPart
       /\ first_sector' < get_capacity'
       /\ loopct <= q /\ q <= (next - 5) * MaxLinks + loopct
       /\ \A y \in Present(tab) : y.slot = slot /\ y.table \in q - loopct + 1 .. q => ~Before(y, x)
       /\ q - loopct >= 1 => \E y \in Present(tab) : y.slot = slot /\ y.table = q - loopct
       /\ \A m \in 1 .. q - MaxLinks : \E y \in Present(tab) :
              y.slot = slot /\ y.table \in m .. m + MaxLinks - 1
    BY <1>2, <1>4, <1>5, <1>10 DEF InChain
<1>12. This' = This /\ Sector(this_sector)'.magic /\ this_sector' < get_capacity'
    BY <1>2, <1>4, <1>9, <1>10 DEF This
<1> DEFINE e    == Sector(this_sector).ent[i]
           skip == \/ e.size = 0 \/ is_extended(e)
                   \/ Garbage(Plus(this_sector, start_sect(e)), start_sect(e), nr_sects(e))
<1>13. /\ Plus(this_sector, start_sect(e)) = this_sector + Scaled(e.start)
       /\ nr_sects(e) = Scaled(e.size)
       /\ ~skip <=> x \in Present(tab)
    BY <1>1, <1>3, <1>5, EntryIsLogical
<1>14. CASE skip
  <2>1. i' = i + 1 /\ UNCHANGED << parts, raid, next, loopct, pc, slot >>
    BY <1>14 DEF data_entry
  <2>2. x \notin Present(tab)
    BY <1>13, <1>14
  <2>3. \A y \in Logical(tab) : Before(y, x) <=> Before(y, p2)
    BY <1>8, <2>2, LogicalFinite
  <2>4. WalkedTo(tab, p2)'
    BY <1>1, <1>2, <1>4, <1>5, <2>1, <2>3, WalkMoves
  <2>5. p2 = Place(slot', q, i')
    BY <1>6, <2>1
  <2>6. InChain(tab, q, p2)'
    <3>1. \A y \in Present(tab) : y.slot = slot /\ y.table \in q - loopct + 1 .. q => ~Before(y, p2)
        BY <1>8, <1>11, <2>2, LogicalFinite
    <3>2. HeadTable(slot)' = HeadTable(slot)
        BY <1>9, <2>1
    <3> QED
        BY <1>9, <1>11, <2>1, <3>1, <3>2 DEF InChain
  <2>7. AtData(tab, q)'
    BY <1>4, <1>12, <2>1, <2>4, <2>5, <2>6 DEF AtData
  <2> QED
    BY <1>1, <2>1, <2>7 DEF ListInv
<1>15. CASE ~skip
  <2>1. x \in Present(tab)
    BY <1>13, <1>15
  <2>2. x \in Logical(tab)
    BY <1>7, <1>11, <2>1 DEF Logical
  <2>3. EntryOf(tab, x) = e /\ tab[x.slot][x.table].from = this_sector
    BY <1>4, <1>7 DEF EntryOf, This
  <2>4. /\ put_partition(next, Plus(this_sector, start_sect(e)), nr_sects(e))
        /\ raid' = IF e.sys = "raid" THEN raid \cup {next} ELSE raid
        /\ next' = next + 1 /\ loopct' = 0
        /\ IF next + 1 = Limit THEN Return /\ UNCHANGED i
                               ELSE i' = i + 1 /\ UNCHANGED << pc, slot >>
    BY <1>15 DEF data_entry
  <2> HIDE DEF skip
  <2>5. parts' = [parts EXCEPT ![next] = Span(tab[x.slot][x.table].from, EntryOf(tab, x))]
    BY <1>1, <1>13, <2>3, <2>4 DEF put_partition, Span
  <2>6. raid' = IF EntryOf(tab, x).sys = "raid" THEN raid \cup {next} ELSE raid
    BY <2>3, <2>4
  <2>7. ASSUME NEW p, next + 1 < Limit => p = p2 PROVE WalkedTo(tab, p)'
    <3>1. next + 1 < Limit => \A y \in Logical(tab) : Before(y, p) <=> Before(y, x) \/ y = x
        BY <1>8, <2>7, LogicalFinite
    <3> QED
        BY <1>1, <1>2, <1>4, <1>5, <2>2, <2>4, <2>5, <2>6, <3>1, WalkFinds
  <2>8. CASE next + 1 = Limit
    <3>1. pc' = "primary"
        BY <2>4, <2>8 DEF Return
    <3>2. PICK p : p = Place(slot', 1, 1)
        OBVIOUS
    <3>3. WalkedTo(tab, p)'
        BY <1>1, <2>7, <2>8
    <3> QED
        BY <3>1, <3>2, <3>3 DEF ListInv
  <2>9. CASE next + 1 # Limit
    <3>1. i' = i + 1 /\ pc' = "data" /\ slot' = slot
        BY <1>1, <2>4, <2>9
    <3>2. WalkedTo(tab, p2)'
        BY <2>7
    <3>3. p2 = Place(slot', q, i')
        BY <1>6, <3>1
    <3>4. InChain(tab, q, p2)'
      <4>1. q <= (next' - 5) * MaxLinks + loopct' /\ loopct' <= q
        <5>1. PICK c \in Nat : c = next - 5
            BY <1>1
        <5>2. c * MaxLinks \in Nat /\ (c + 1) * MaxLinks = c * MaxLinks + MaxLinks
            BY <1>1, <5>1
        <5>3. next' - 5 = c + 1
            BY <1>1, <2>4, <5>1
        <5> QED
            BY <1>1, <1>4, <1>11, <2>4, <5>1, <5>2, <5>3
      <4>2. \A y : y \notin q - loopct' + 1 .. q
        BY <2>4
      <4>3. q - loopct' = q
        BY <2>4
      <4>4. HeadTable(slot)' = HeadTable(slot)
        BY <1>9, <3>1
      <4>5. \E y \in Present(tab) : y.slot = slot /\ y.table = q
        BY <1>7, <2>1
      <4> QED
        BY <1>9, <1>11, <3>1, <4>1, <4>2, <4>3, <4>4, <4>5 DEF InChain
    <3>5. AtData(tab, q)'
        BY <1>4, <1>12, <3>1, <3>2, <3>3, <3>4 DEF AtData
    <3> QED
        BY <3>1, <3>5 DEF ListInv
  <2> QED
    BY <2>8, <2>9
<1> QED
    BY <1>14, <1>15

\* The link to the next table, or the end of the chain.
LEMMA LinkWalks ==
    ASSUME TypeInv, NoWrap, NEW tab, ListOf(tab), ListInv(tab), link
    PROVE  ListInv(tab)'
<1>1. TypeOK /\ disk \in Disks /\ pc = "data" /\ slot \in 1 .. 4 /\ i = 5
    BY DEF link, TypeInv, TypeOK, AtStep
<1>2. UNCHANGED << disk, unlocked, parts, raid, next, first_sector, first_size, loopct >>
    BY DEF link
<1>3. PICK q \in Nat : AtData(tab, q)
    BY <1>1 DEF ListInv
<1>4. /\ q \in 1 .. MaxTables
      /\ InChain(tab, q, Place(slot, q, 5)) /\ WalkedTo(tab, Place(slot, q, 5))
      /\ tab[slot][q] = This /\ This # NoPart /\ This.from = this_sector
      /\ Sector(this_sector).magic
    BY <1>1, <1>3 DEF AtData, This
<1>5. CASE Links(Sector(this_sector)) = {}
  <2>1. pc' = "primary" /\ slot' = slot + 1
    BY <1>5 DEF link, Return
  <2>2. ASSUME NEW x \in Logical(tab), x.slot = slot
        PROVE  x.table < q \/ (x.table = q /\ x.entry < 5)
    <3>1. x \in Present(tab) /\ x.table \in Int /\ x.entry \in 1 .. 4
        BY LogicalFinite DEF Places
    <3>2. x.table <= q
        BY <1>1, <1>4, <1>5, <2>2, <3>1, NoneAfterLast
    <3> QED
        BY <1>4, <3>1, <3>2
  <2>3. WalkedTo(tab, Place(slot, 1, 1))'
    BY <1>1, <1>2, <1>4, <2>1, <2>2, WalkReturns
  <2> QED
    BY <2>1, <2>3 DEF ListInv
<1>6. CASE Links(Sector(this_sector)) # {}
  <2> DEFINE k == Min(Links(Sector(this_sector)))
             e == Sector(this_sector).ent[k]
  <2>1. /\ pc' = "chain" /\ slot' = slot
        /\ this_sector' = Plus(first_sector, start_sect(e)) /\ this_size' = nr_sects(e)
    BY <1>6 DEF link
  <2>2. k \in 1 .. 4 /\ e.size # 0
    BY <1>6, MinEntry DEF Links
  <2>3. /\ Scaled(e.start) \in Nat /\ Scaled(e.size) \in Nat
        /\ Scaled(e.size) = 0 <=> e.size = 0
        /\ start_sect(e) = Scaled(e.start) /\ nr_sects(e) = Scaled(e.size)
        /\ disk.native + Scaled(e.start) + Scaled(e.size) < WordMod
    BY <1>1, <2>2, PlainEntry
  <2>4. /\ first_sector = HeadTable(slot).from /\ HeadTable(slot) # NoPart
        /\ first_sector < get_capacity
    BY <1>4 DEF InChain
  <2>5. /\ get_capacity \in Nat /\ disk.native \in Nat /\ get_capacity <= disk.native
        /\ first_sector \in Nat /\ WordMod \in Nat
    BY <1>1, MsdosAssumption DEF get_capacity, Sectors, TypeOK
  <2>6. Plus(first_sector, start_sect(e)) = first_sector + Scaled(e.start)
    <3>1. first_sector + Scaled(e.start) < WordMod
        BY <2>3, <2>4, <2>5
    <3> QED
        BY <2>3, <2>5, <3>1, PlainPlus
  <2>7. This' = Span(HeadTable(slot).from, e)
    BY <2>1, <2>3, <2>4, <2>6 DEF This, Span
  <2>8. This' # NoPart
    BY <2>1, <2>2, <2>3 DEF This, NoPart
  <2>9. q + 1 <= MaxTables => tab[slot'][q + 1] = This'
    <3> SUFFICES ASSUME q + 1 <= MaxTables PROVE tab[slot][q + 1] = This'
        BY <2>1
    <3>1. q + 1 \in 1 .. MaxTables /\ q + 1 # 1 /\ (q + 1) - 1 = q
        BY <1>4, MaxTablesType
    <3>2. tab[slot][q + 1] = NextTable(tab[slot][q], HeadTable(slot))
        BY <1>1, <3>1 DEF ListOf
    <3> QED
        BY <1>4, <1>6, <2>7, <3>2 DEF NextTable
  <2>10. PICK p : p = Place(slot, q, 5)
    OBVIOUS
  <2>11. PICK p2 : p2 = Place(slot, q + 1, 1)
    OBVIOUS
  <2>12. ASSUME NEW y \in Places PROVE Before(y, p) <=> Before(y, p2)
    <3>1. y.slot \in Int /\ y.table \in Int /\ y.entry \in 1 .. 4 /\ slot \in Nat /\ q + 1 \in Nat
        BY <1>1, <1>4 DEF Places
    <3>2. Before(y, p) <=> \/ y.slot < slot
                           \/ y.slot = slot /\ y.table < q
                           \/ y.slot = slot /\ y.table = q /\ y.entry < 5
        BY <2>10, <3>1, BeforePlace
    <3>3. Before(y, p2) <=> \/ y.slot < slot
                            \/ y.slot = slot /\ y.table < q + 1
                            \/ y.slot = slot /\ y.table = q + 1 /\ y.entry < 1
        BY <2>11, <3>1, BeforePlace
    <3> QED
        BY <3>1, <3>2, <3>3
  <2>13. WalkedTo(tab, p2)'
    <3>1. \A y \in Logical(tab) : Before(y, p) <=> Before(y, p2)
        BY <2>12, LogicalFinite
    <3> QED
        BY <1>1, <1>2, <1>4, <2>10, <3>1, WalkMoves
  <2>14. p2 = Place(slot', q + 1, 1)
    BY <2>1, <2>11
  <2>15. InChain(tab, q, p2)'
    <3>1. InChain(tab, q, p2)
        BY <1>4, <2>10, <2>12, LogicalFinite DEF InChain
    <3>2. HeadTable(slot)' = HeadTable(slot)
      <4>1. \A n : HeadTable(n)' = HeadTable(n)
        BY <1>2, SameDisk
      <4> QED
        BY <2>1, <4>1
    <3>3. Present(tab)' = Present(tab) /\ get_capacity' = get_capacity
        BY <1>2, SameDisk DEF get_capacity
    <3> QED
        BY <1>2, <2>1, <3>1, <3>2, <3>3 DEF InChain
  <2>16. AtChain(tab, q)'
    BY <1>4, <2>8, <2>9, <2>13, <2>14, <2>15, MaxTablesType DEF AtChain
  <2> QED
    BY <2>1, <2>16 DEF ListInv
<1> QED
    BY <1>5, <1>6

\* The boot sector has a partition table: the walk begins.
LEMMA MbrWalks ==
    ASSUME TypeInv, AtMbr, NEW tab, ListOf(tab), read_mbr
    PROVE  ListInv(tab)'
<1>1. /\ pc = "mbr" /\ UNCHANGED << disk, unlocked, part_tbl, parts, raid, next, slot, ext >>
      /\ pc' \in {"unknown", "known", "primary"}
      /\ pc' = "known" => Sector(0).boot = "fat"
    BY DEF read_mbr
<1>2. slot' = 1 /\ next' = 5 /\ raid' = {} /\ \A m \in 5 .. Limit - 1 : parts'[m] = NoPart
    BY <1>1, MsdosAssumption DEF AtMbr, Slots
<1>3. /\ Sector(0)' = Sector(0) /\ Logical(tab)' = Logical(tab)
    BY <1>1, SameDisk
<1>4. \A x \in Logical(tab) : ~Before(x, Place(1, 1, 1))
    BY LogicalFinite DEF Places, Before, Place
<1>5. Recorded(tab, {})'
    BY <1>2, FS_EmptySet DEF Recorded
<1>6. WalkedTo(tab, Place(1, 1, 1))'
    BY <1>3, <1>4, <1>5 DEF WalkedTo
<1>7. Place(slot', 1, 1) = Place(1, 1, 1)
    BY <1>2
<1>8. pc' = "primary" => WalkedTo(tab, Place(slot, 1, 1))'
    BY <1>6, <1>7
<1> QED
    BY <1>1, <1>3, <1>8 DEF ListInv

\* A step that leaves the parser's results alone, after the last slot.
LEMMA EndWalks ==
    ASSUME TypeInv, NEW tab, ListInv(tab),
           primary_done \/ add_partitions \/ (add_partition /\ ~UnlockAndRescan)
    PROVE  ListInv(tab)'
<1>1. TypeOK /\ UNCHANGED << disk, parts, raid, next >> /\ pc' \in {"known", "add"}
    BY DEF TypeInv, primary_done, add_partitions, add_partition
<1>2. \/ pc = "primary" /\ slot = 5
      \/ pc \in {"known", "add"}
    BY DEF primary_done, add_partitions, add_partition
<1>3. Sector(0)' = Sector(0)
    BY <1>1, SameDisk
<1>4. Sector(0).boot = "ok" => WalkedTo(tab, Place(5, 1, 1))
    BY <1>2 DEF ListInv
<1>5. Sector(0).boot = "ok" => WalkedTo(tab, Place(5, 1, 1))'
  <2>1. PICK p : p = Place(5, 1, 1)
    OBVIOUS
  <2> QED
    BY <1>1, <1>4, <2>1, WalkMoves
<1> QED
    BY <1>1, <1>3, <1>5 DEF ListInv

LEMMA FollowInit == Init => FollowInv
BY DEF Init, FollowInv, ListInv

LEMMA FollowStep == TypeInv /\ FollowInv /\ [Next]_vars => FollowInv'
<1> SUFFICES ASSUME TypeInv, FollowInv, [Next]_vars
             PROVE  FollowInv'
    OBVIOUS
<1>1. CASE Scan
  <2>1. pc' = "mbr" /\ AtMbr'
    BY <1>1 DEF Scan, AtMbr
  <2> QED
    BY <2>1 DEF FollowInv, ListInv
<1>2. CASE pc' \in {"idle", "unknown"}
    BY <1>2 DEF FollowInv, ListInv
<1>3. CASE disk' = disk /\ pc' # "mbr" /\
           (~misread' => ~misread /\ (NoWrap => \A tab : ListOf(tab) => ListInv(tab)'))
  <2>1. NoWrap' = NoWrap /\ \A tab : ListOf(tab)' = ListOf(tab)
    BY <1>3, SameDisk
  <2>2. ASSUME ~misread', NoWrap', NEW tab, ListOf(tab)' PROVE ListInv(tab)'
    BY <1>3, <2>1, <2>2
  <2> QED
    BY <1>3, <2>2 DEF FollowInv
<1>4. CASE rescan_partitions \/ retry_unlocked
    BY <1>1, <1>4 DEF rescan_partitions, retry_unlocked, UnlockAndRescan
<1>5. CASE no_table \/ added
    BY <1>2, <1>5 DEF no_table, added
<1>6. CASE primary_done \/ add_partitions \/ (add_partition /\ ~UnlockAndRescan)
  <2>1. disk' = disk /\ misread' = misread /\ pc' # "mbr"
    BY <1>6 DEF primary_done, add_partitions, add_partition
  <2>2. \A tab : ListInv(tab) => ListInv(tab)'
    BY <1>6, EndWalks
  <2> QED
    BY <1>3, <2>1, <2>2 DEF FollowInv
<1>7. CASE add_partition /\ UnlockAndRescan
    BY <1>1, <1>7 DEF UnlockAndRescan
<1>8. CASE read_mbr
  <2>1. /\ disk' = disk /\ pc' # "mbr" /\ AtMbr
        /\ misread' = misread \/ misread'
    BY <1>8 DEF read_mbr, ReadOK, ReadFails, FollowInv
  <2>2. \A tab : ListOf(tab) => ListInv(tab)'
    BY <1>8, <2>1, MbrWalks
  <2> QED
    BY <1>3, <2>1, <2>2
<1>9. CASE primary
  <2>1. disk' = disk /\ misread' = misread /\ pc' # "mbr"
    BY <1>9 DEF primary
  <2>2. NoWrap => \A tab : ListOf(tab) /\ ListInv(tab) => ListInv(tab)'
    BY <1>9, PrimaryWalks
  <2> QED
    BY <1>3, <2>1, <2>2 DEF FollowInv
<1>10. CASE extended
  <2>1. disk' = disk /\ misread' = misread /\ pc' # "mbr"
    BY <1>10 DEF extended
  <2>2. NoWrap => \A tab : ListOf(tab) /\ ListInv(tab) => ListInv(tab)'
    BY <1>10, ExtendedWalks
  <2> QED
    BY <1>3, <2>1, <2>2 DEF FollowInv
<1>11. CASE read_table
  <2>1. disk' = disk /\ pc' # "mbr" /\ (~misread' => ~misread)
    BY <1>11 DEF read_table, ReadOK, ReadFails, Return
  <2>2. ~misread' /\ NoWrap => \A tab : ListOf(tab) /\ ListInv(tab) => ListInv(tab)'
    BY <1>11, TableWalks
  <2> QED
    BY <1>3, <2>1, <2>2 DEF FollowInv
<1>12. CASE data_entry
  <2>1. disk' = disk /\ misread' = misread /\ pc' # "mbr"
    BY <1>12 DEF data_entry, Return
  <2>2. NoWrap => \A tab : ListOf(tab) /\ ListInv(tab) => ListInv(tab)'
    BY <1>12, EntryWalks
  <2> QED
    BY <1>3, <2>1, <2>2 DEF FollowInv
<1>13. CASE link
  <2>1. disk' = disk /\ misread' = misread /\ pc' # "mbr"
    BY <1>13 DEF link, Return
  <2>2. NoWrap => \A tab : ListOf(tab) /\ ListInv(tab) => ListInv(tab)'
    BY <1>13, LinkWalks
  <2> QED
    BY <1>3, <2>1, <2>2 DEF FollowInv
<1>14. CASE UNCHANGED vars
  <2>1. UNCHANGED << disk, unlocked, parts, raid, next, pc, slot, first_sector, first_size,
                     this_sector, this_size, loopct, i, misread >>
    BY <1>14 DEF vars, ext
  <2>2. ASSUME NEW tab, ListInv(tab) PROVE ListInv(tab)'
    <3>1. /\ \A n : Sector(n)' = Sector(n)
          /\ \A k : HeadTable(k)' = HeadTable(k)
          /\ Present(tab)' = Present(tab) /\ Logical(tab)' = Logical(tab)
          /\ \A x : Number(tab, x)' = Number(tab, x)
          /\ \A x : EntryOf(tab, x)' = EntryOf(tab, x)
          /\ \A b, e : Span(b, e)' = Span(b, e)
        BY <2>1, SameDisk
    <3>2. \A D : Recorded(tab, D)' <=> Recorded(tab, D)
        BY <2>1, <3>1 DEF Recorded
    <3>3. \A p : WalkedTo(tab, p)' <=> WalkedTo(tab, p)
        BY <2>1, <3>1, <3>2 DEF WalkedTo
    <3>4. /\ Sector(0)' = Sector(0) /\ Sector(this_sector)' = Sector(this_sector)
          /\ HeadTable(slot)' = HeadTable(slot)
          /\ get_capacity' = get_capacity /\ This' = This
        BY <2>1, <3>1 DEF get_capacity, This
    <3>5. \A q, p : InChain(tab, q, p)' <=> InChain(tab, q, p)
        BY <2>1, <3>1, <3>4 DEF InChain
    <3>6. \A q : (AtChain(tab, q)' <=> AtChain(tab, q)) /\ (AtData(tab, q)' <=> AtData(tab, q))
        BY <2>1, <3>3, <3>4, <3>5 DEF AtChain, AtData
    <3>7. /\ WalkedTo(tab, Place(slot, 1, 1))' <=> WalkedTo(tab, Place(slot, 1, 1))
          /\ WalkedTo(tab, Place(5, 1, 1))' <=> WalkedTo(tab, Place(5, 1, 1))
        BY <2>1, <3>3
    <3> QED
        BY <2>1, <2>2, <3>4, <3>6, <3>7 DEF ListInv
  <2>3. AtMbr' = AtMbr
    BY <2>1 DEF AtMbr
  <2>4. NoWrap' = NoWrap /\ \A tab : ListOf(tab)' = ListOf(tab)
    BY <2>1, SameDisk
  <2> QED
    BY <2>1, <2>2, <2>3, <2>4 DEF FollowInv
<1> QED
    BY <1>4, <1>5, <1>6, <1>7, <1>8, <1>9, <1>10, <1>11, <1>12, <1>13, <1>14 DEF Next, Step

\* FollowsTheList: for every disk, a scan of rescan_partitions and msdos_partition
\* that could read all it asked for numbers the logical partitions from 5 on in
\* the order in which the links of parse_extended name their tables, leaves none
\* out, adds none, and stops at state->limit and after MaxLinks tables without one.
THEOREM ScanFollowsTheList == Spec => []FollowsTheList
<1>1. TypeInv /\ FollowInv => FollowsTheList
  <2> SUFFICES ASSUME TypeInv, FollowInv, pc = "add", ~misread, NoWrap, Sector(0).boot = "ok"
               PROVE  LET tab == [k \in 1 .. 4 |-> Tables(k)]
                      IN  /\ \A x \in Logical(tab) : Number(tab, x) < Limit =>
                                 /\ parts[Number(tab, x)] =
                                        Span(tab[x.slot][x.table].from, EntryOf(tab, x))
                                 /\ Number(tab, x) \in raid <=> EntryOf(tab, x).sys = "raid"
                          /\ \A n \in 5 .. Limit - 1 :
                                 n >= 5 + Cardinality(Logical(tab)) => parts[n] = NoPart
    BY DEF FollowsTheList
  <2>1. PICK tab : tab = [k \in 1 .. 4 |-> Tables(k)]
    OBVIOUS
  <2>2. ListOf(tab)
    BY <2>1, TablesAreList
  <2>3. WalkedTo(tab, Place(5, 1, 1))
    BY <2>2 DEF FollowInv, ListInv
  <2>4. TypeOK
    BY DEF TypeInv
  <2> QED
    BY <2>1, <2>3, <2>4, WalkComplete
<1> QED
    BY TypeInit, TypeStep, FollowInit, FollowStep, <1>1, PTL DEF Spec

-----------------------------------------------------------------------------
(* Every scan is finite.                                                   *)

\* The steps a scan has left, at most, as a number whose digits are, from the
\* first to the last: an unlocking of the native capacity; the stage of the
\* scan; the entries of the boot sector, or the partition numbers, still to go;
\* whether the entry's chain is still to be walked; partition numbers left;
\* links left; entries left in the table.
Unlocks == IF CanUnlock THEN 1 ELSE 0
Stage   == CASE pc = "mbr" -> 4
             [] pc \in {"primary", "chain", "data"} -> 3
             [] pc \in {"known", "unknown"} -> 2
             [] pc = "add" -> 1
             [] pc = "idle" -> 0
Ahead   == IF pc \in {"primary", "chain", "data"} THEN 5 - slot
           ELSE IF pc = "add" THEN Limit - slot ELSE 0
Unwalked == IF pc = "primary" THEN 1 ELSE 0
Free    == Limit - next
Hops    == MaxLinks - loopct
Entries == IF pc = "data" THEN 6 - i ELSE 0

Left1 == Unlocks * 5 + Stage
Left2 == Left1 * Limit + Ahead
Left3 == Left2 * 2 + Unwalked
Left4 == Left3 * Limit + Free
Left5 == Left4 * (MaxLinks + 1) + Hops
StepsLeft == Left5 * 6 + Entries

Digits ==
    /\ Unlocks \in 0 .. 1 /\ Stage \in 0 .. 4 /\ Ahead \in 0 .. Limit - 1 /\ Unwalked \in 0 .. 1
    /\ Free \in 0 .. Limit - 1 /\ Hops \in 0 .. MaxLinks /\ Entries \in 0 .. 5

LEMMA DigitsType == TypeInv => Digits
<1> SUFFICES ASSUME TypeInv PROVE Digits
    OBVIOUS
<1>0. Limit \in Nat /\ Limit >= 5 /\ MaxLinks \in Nat
    BY MsdosAssumption
<1>1. /\ slot \in 1 .. (IF pc = "add" THEN Limit ELSE 5)
      /\ next \in 5 .. Limit /\ loopct \in 0 .. MaxLinks /\ i \in 1 .. 5
      /\ pc \in {"idle", "mbr", "primary", "chain", "data", "known", "unknown", "add"}
    BY DEF TypeInv, TypeOK
<1>2. Unlocks \in 0 .. 1 /\ Unwalked \in 0 .. 1
    BY DEF Unlocks, Unwalked
<1>3. Stage \in 0 .. 4
    BY <1>1 DEF Stage
<1>4. Ahead \in 0 .. Limit - 1
    BY <1>0, <1>1 DEF Ahead
<1>5. Free \in 0 .. Limit - 1 /\ Hops \in 0 .. MaxLinks /\ Entries \in 0 .. 5
    BY <1>0, <1>1 DEF Free, Hops, Entries
<1> QED
    BY <1>2, <1>3, <1>4, <1>5 DEF Digits

\* A number gets smaller when a digit does and those before it stay.
LEMMA Carry ==
    ASSUME NEW B \in Nat \ {0}, NEW a \in Nat, NEW a2 \in Nat,
           NEW b \in 0 .. B - 1, NEW b2 \in 0 .. B - 1
    PROVE  /\ a * B + b \in Nat /\ a2 * B + b2 \in Nat
           /\ a2 < a \/ (a2 = a /\ b2 < b) => a2 * B + b2 < a * B + b
           /\ a2 = a /\ b2 = b => a2 * B + b2 = a * B + b
<1>1. a * B \in Nat /\ a2 * B \in Nat
    OBVIOUS
<1>2. ASSUME a2 < a PROVE a2 * B + b2 < a * B + b
  <2>1. PICK d \in Nat : a = a2 + 1 + d
    BY <1>2
  <2>2. (a2 + 1 + d) * B = a2 * B + B + d * B /\ d * B \in Nat
    BY <2>1
  <2> QED
    BY <1>1, <2>1, <2>2
<1>3. ASSUME a2 = a, b2 < b PROVE a2 * B + b2 < a * B + b
    BY <1>1, <1>3
<1> QED
    BY <1>1, <1>2, <1>3

\* The number is a natural number.
LeftNat ==
    /\ Left1 \in Nat /\ Left2 \in Nat /\ Left3 \in Nat
    /\ Left4 \in Nat /\ Left5 \in Nat /\ StepsLeft \in Nat

LEMMA LeftType == TypeInv => LeftNat
<1> SUFFICES ASSUME TypeInv PROVE LeftNat
    OBVIOUS
<1>1. Digits
    BY DigitsType
<1>2. Limit \in Nat /\ MaxLinks + 1 \in Nat
    BY MsdosAssumption
<1>3. \A a, B, b \in Nat : a * B + b \in Nat
    OBVIOUS
<1>4. /\ Unlocks \in Nat /\ Stage \in Nat /\ Ahead \in Nat /\ Unwalked \in Nat
      /\ Free \in Nat /\ Hops \in Nat /\ Entries \in Nat
    BY <1>1 DEF Digits
<1>5. Left1 \in Nat
    BY <1>3, <1>4 DEF Left1
<1>6. Left2 \in Nat
    BY <1>2, <1>3, <1>4, <1>5 DEF Left2
<1>7. Left3 \in Nat
    BY <1>3, <1>4, <1>6 DEF Left3
<1>8. Left4 \in Nat
    BY <1>2, <1>3, <1>4, <1>7 DEF Left4
<1>9. Left5 \in Nat
    BY <1>2, <1>3, <1>4, <1>8 DEF Left5
<1>10. StepsLeft \in Nat
    BY <1>3, <1>4, <1>9 DEF StepsLeft
<1> QED
    BY <1>5, <1>6, <1>7, <1>8, <1>9, <1>10 DEF LeftNat

\* Some digit gets smaller, and those before it stay.
DigitFalls ==
    \/ Unlocks' < Unlocks
    \/ /\ Unlocks' = Unlocks
       /\ \/ Stage' < Stage
          \/ /\ Stage' = Stage
             /\ \/ Ahead' < Ahead
                \/ /\ Ahead' = Ahead
                   /\ \/ Unwalked' < Unwalked
                      \/ /\ Unwalked' = Unwalked
                         /\ \/ Free' < Free
                            \/ /\ Free' = Free
                               /\ \/ Hops' < Hops
                                  \/ Hops' = Hops /\ Entries' < Entries

LEMMA FallShrinks ==
    ASSUME TypeInv, TypeInv', DigitFalls
    PROVE  StepsLeft' < StepsLeft
<1>1. Digits /\ Digits'
  <2>1. TypeInv' => Digits'
    BY DigitsType, PTL
  <2> QED
    BY <2>1, DigitsType
<1>2. /\ Left1 \in Nat /\ Left2 \in Nat /\ Left3 \in Nat /\ Left4 \in Nat /\ Left5 \in Nat
      /\ Left1' \in Nat /\ Left2' \in Nat /\ Left3' \in Nat /\ Left4' \in Nat /\ Left5' \in Nat
  <2>1. TypeInv' => LeftNat'
    BY LeftType, PTL
  <2> QED
    BY <2>1, LeftType DEF LeftNat
<1>3. Limit \in Nat \ {0} /\ MaxLinks + 1 \in Nat \ {0} /\ (MaxLinks + 1) - 1 = MaxLinks
    BY MsdosAssumption
<1>4. /\ Unlocks' < Unlocks \/ (Unlocks' = Unlocks /\ Stage' < Stage) => Left1' < Left1
      /\ Unlocks' = Unlocks /\ Stage' = Stage => Left1' = Left1
  <2>1. PICK B \in Nat \ {0} : B = 5
    OBVIOUS
  <2>2. /\ Unlocks \in Nat /\ Unlocks' \in Nat
        /\ Stage \in 0 .. B - 1 /\ Stage' \in 0 .. B - 1
    BY <1>1, <2>1 DEF Digits
  <2>3. Left1 = Unlocks * B + Stage /\ Left1' = Unlocks' * B + Stage'
    BY <2>1 DEF Left1
  <2> QED
    BY <2>2, <2>3, Carry
<1>5. /\ Left1' < Left1 \/ (Left1' = Left1 /\ Ahead' < Ahead) => Left2' < Left2
      /\ Left1' = Left1 /\ Ahead' = Ahead => Left2' = Left2
  <2>1. Ahead \in 0 .. Limit - 1 /\ Ahead' \in 0 .. Limit - 1
    BY <1>1 DEF Digits
  <2> QED
    BY <1>2, <1>3, <2>1, Carry DEF Left2
<1>6. /\ Left2' < Left2 \/ (Left2' = Left2 /\ Unwalked' < Unwalked) => Left3' < Left3
      /\ Left2' = Left2 /\ Unwalked' = Unwalked => Left3' = Left3
  <2>1. PICK B \in Nat \ {0} : B = 2
    OBVIOUS
  <2>2. Unwalked \in 0 .. B - 1 /\ Unwalked' \in 0 .. B - 1
    BY <1>1, <2>1 DEF Digits
  <2>3. Left3 = Left2 * B + Unwalked /\ Left3' = Left2' * B + Unwalked'
    BY <2>1 DEF Left3
  <2> QED
    BY <1>2, <2>2, <2>3, Carry
<1>7. /\ Left3' < Left3 \/ (Left3' = Left3 /\ Free' < Free) => Left4' < Left4
      /\ Left3' = Left3 /\ Free' = Free => Left4' = Left4
  <2>1. Free \in 0 .. Limit - 1 /\ Free' \in 0 .. Limit - 1
    BY <1>1 DEF Digits
  <2> QED
    BY <1>2, <1>3, <2>1, Carry DEF Left4
<1>8. /\ Left4' < Left4 \/ (Left4' = Left4 /\ Hops' < Hops) => Left5' < Left5
      /\ Left4' = Left4 /\ Hops' = Hops => Left5' = Left5
  <2>1. Hops \in 0 .. (MaxLinks + 1) - 1 /\ Hops' \in 0 .. (MaxLinks + 1) - 1
    BY <1>1, <1>3 DEF Digits
  <2> QED
    BY <1>2, <1>3, <2>1, Carry DEF Left5
<1>9. Left5' < Left5 \/ (Left5' = Left5 /\ Entries' < Entries) => StepsLeft' < StepsLeft
  <2>1. PICK B \in Nat \ {0} : B = 6
    OBVIOUS
  <2>2. Entries \in 0 .. B - 1 /\ Entries' \in 0 .. B - 1
    BY <1>1, <2>1 DEF Digits
  <2>3. StepsLeft = Left5 * B + Entries /\ StepsLeft' = Left5' * B + Entries'
    BY <2>1 DEF StepsLeft
  <2> QED
    BY <1>2, <2>2, <2>3, Carry
<1> QED
    BY <1>4, <1>5, <1>6, <1>7, <1>8, <1>9 DEF DigitFalls

\* A scan that starts again has unlocked the native capacity.
LEMMA RescanFalls == ASSUME UnlockAndRescan PROVE DigitFalls
BY DEF UnlockAndRescan, Scan, CanUnlock, Unlocks, DigitFalls

LEMMA StepShrinks == ASSUME TypeInv, Step PROVE DigitFalls
<1>1. /\ slot \in 1 .. (IF pc = "add" THEN Limit ELSE 5)
      /\ next \in 5 .. Limit /\ loopct \in 0 .. MaxLinks /\ i \in 1 .. 5
    BY DEF TypeInv, TypeOK
<1>2. Limit \in Nat /\ MaxLinks \in Nat
    BY MsdosAssumption
<1>u. ASSUME UNCHANGED << disk, unlocked >> PROVE Unlocks' = Unlocks
    BY <1>u DEF Unlocks, CanUnlock
<1>3. CASE retry_unlocked
    BY <1>3, RescanFalls DEF retry_unlocked
<1>4. CASE no_table
  <2>1. Stage = 2 /\ Stage' = 0 /\ Unlocks' = Unlocks
    BY <1>4, <1>u DEF no_table, Stage
  <2> QED
    BY <2>1 DEF DigitFalls
<1>5. CASE add_partitions
  <2>1. Stage = 2 /\ Stage' = 1 /\ Unlocks' = Unlocks
    BY <1>5, <1>u DEF add_partitions, Stage
  <2> QED
    BY <2>1 DEF DigitFalls
<1>6. CASE add_partition
  <2>1. CASE UnlockAndRescan
    BY <2>1, RescanFalls
  <2>2. CASE ~UnlockAndRescan
    <3>1. pc = "add" /\ pc' = "add" /\ slot' = slot + 1 /\ UNCHANGED << disk, unlocked >>
        BY <1>6, <2>2 DEF add_partition
    <3>2. Stage' = Stage /\ Unlocks' = Unlocks
        BY <3>1, <1>u DEF Stage
    <3>3. Ahead' < Ahead
        BY <3>1, <1>1, <1>2 DEF Ahead
    <3> QED
        BY <3>2, <3>3 DEF DigitFalls
  <2> QED
    BY <2>1, <2>2
<1>7. CASE added
  <2>1. Stage = 1 /\ Stage' = 0 /\ Unlocks' = Unlocks
    BY <1>7, <1>u DEF added, Stage
  <2> QED
    BY <2>1 DEF DigitFalls
<1>8. CASE read_mbr
  <2>1. pc = "mbr" /\ pc' \in {"unknown", "known", "primary"} /\ Unlocks' = Unlocks
    BY <1>8, <1>u DEF read_mbr
  <2>2. Stage = 4 /\ Stage' \in {2, 3}
    BY <2>1 DEF Stage
  <2> QED
    BY <2>1, <2>2 DEF DigitFalls
<1>9. CASE primary_done
  <2>1. Stage = 3 /\ Stage' = 2 /\ Unlocks' = Unlocks
    BY <1>9, <1>u DEF primary_done, Stage
  <2> QED
    BY <2>1 DEF DigitFalls
<1>10. ASSUME UNCHANGED << disk, unlocked >>, pc \in {"primary", "chain", "data"},
              pc' = "primary", slot' = slot + 1
       PROVE  DigitFalls
  <2>1. Stage' = Stage /\ Unlocks' = Unlocks
    BY <1>10, <1>u DEF Stage
  <2>2. Ahead' < Ahead
    BY <1>1, <1>10 DEF Ahead
  <2> QED
    BY <2>1, <2>2 DEF DigitFalls
<1>11. CASE primary
    BY <1>10, <1>11 DEF primary
<1>12. CASE extended
  <2>1. pc = "primary" /\ pc' = "chain" /\ UNCHANGED << disk, unlocked, slot >>
    BY <1>12 DEF extended
  <2>2. Stage' = Stage /\ Ahead' = Ahead /\ Unlocks' = Unlocks /\ Unwalked' < Unwalked
    BY <2>1, <1>u DEF Stage, Ahead, Unwalked
  <2> QED
    BY <2>2 DEF DigitFalls
<1>13. ASSUME UNCHANGED << disk, unlocked, slot >>, pc \in {"chain", "data"},
              pc' \in {"chain", "data"}
       PROVE  Unlocks' = Unlocks /\ Stage' = Stage /\ Ahead' = Ahead /\ Unwalked' = Unwalked
    BY <1>13, <1>u DEF Stage, Ahead, Unwalked
<1>14. CASE read_table
  <2>1. pc = "chain" /\ UNCHANGED << disk, unlocked, next >>
    BY <1>14 DEF read_table
  <2>2. CASE Return
    BY <1>10, <2>1, <2>2 DEF Return
  <2>3. CASE ~Return
    <3>1. pc' = "data" /\ loopct' = loopct + 1 /\ slot' = slot
        BY <1>14, <2>3 DEF read_table, Followed
    <3>2. Hops' < Hops /\ Free' = Free
        BY <1>1, <1>2, <2>1, <3>1 DEF Hops, Free
    <3> QED
        BY <1>13, <2>1, <3>1, <3>2 DEF DigitFalls
  <2> QED
    BY <2>2, <2>3
<1>15. CASE data_entry
  <2>1. pc = "data" /\ i \in 1 .. 4 /\ UNCHANGED << disk, unlocked >>
    BY <1>1, <1>15 DEF data_entry
  <2>2. \/ i' = i + 1 /\ UNCHANGED << next, loopct, pc, slot >>
        \/ next' = next + 1 /\ Return
        \/ next' = next + 1 /\ UNCHANGED << pc, slot >>
    BY <1>15 DEF data_entry
  <2>3. CASE i' = i + 1 /\ UNCHANGED << next, loopct, pc, slot >>
    <3>1. Free' = Free /\ Hops' = Hops /\ Entries' < Entries
        BY <2>1, <2>3 DEF Free, Hops, Entries
    <3> QED
        BY <1>13, <2>1, <2>3, <3>1 DEF DigitFalls
  <2>4. CASE Return
    BY <1>10, <2>1, <2>4 DEF Return
  <2>5. CASE next' = next + 1 /\ UNCHANGED << pc, slot >>
    <3>1. Free' < Free
        BY <1>1, <1>2, <2>5 DEF Free
    <3> QED
        BY <1>13, <2>1, <2>5, <3>1 DEF DigitFalls
  <2> QED
    BY <2>2, <2>3, <2>4, <2>5
<1>16. CASE link
  <2>1. pc = "data" /\ i = 5 /\ UNCHANGED << disk, unlocked, next, loopct >>
    BY <1>16 DEF link
  <2>2. CASE Return
    BY <1>10, <2>1, <2>2 DEF Return
  <2>3. CASE ~Return
    <3>1. pc' = "chain" /\ slot' = slot
        BY <1>16, <2>3 DEF link
    <3>2. Free' = Free /\ Hops' = Hops /\ Entries = 1 /\ Entries' = 0
        BY <2>1, <3>1 DEF Free, Hops, Entries
    <3> QED
        BY <1>13, <2>1, <3>1, <3>2 DEF DigitFalls
  <2> QED
    BY <2>2, <2>3
<1> QED
    BY <1>3, <1>4, <1>5, <1>6, <1>7, <1>8, <1>9, <1>11, <1>12, <1>14, <1>15, <1>16 DEF Step

\* Every step of a scan uses up one of a number of steps it has left, whatever
\* the tables say and whichever reads fail: a chain of links in a circle ends
\* because of loopct and state->limit, and a scan starts again once at most,
\* because the native capacity is unlocked once.  This is what Terminates needs
\* besides fairness.
THEOREM ScanIsFinite ==
    Spec => /\ [](StepsLeft \in Nat)
            /\ [][Step => StepsLeft' < StepsLeft]_vars
<1>1. TypeInv => StepsLeft \in Nat
    BY LeftType DEF LeftNat
<1>2. TypeInv /\ TypeInv' /\ [Next]_vars => [Step => StepsLeft' < StepsLeft]_vars
    BY StepShrinks, FallShrinks
<1> QED
    BY TypeInit, TypeStep, <1>1, <1>2, PTL DEF Spec
=============================================================================
