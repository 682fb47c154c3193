-------------------------- MODULE MCMsdosPartition --------------------------
(* Disks of up to 14 sectors for MsdosPartition.                          *)
EXTENDS MsdosPartition, TLC

E(sys, start, size) == [sys |-> sys, start |-> start, size |-> size]
T(a, b, c, d) == [magic |-> TRUE, label |-> "none", boot |-> "ok", ent |-> <<a, b, c, d>>]
D(cap, native, unlock, ss, sec) ==
    [cap |-> cap, native |-> native, unlock |-> unlock, ss |-> ss, sec |-> sec]

\* Three tables of an extended partition in sectors 4 to 11, with all the ways
\* of linking them, circles included.
Entry1 == {NoEntry, E("raid", 1, 1)}
Entry2 == {NoEntry, E("ext", 0, 4), E("ext", 1, 4), E("ext", 2, 2)}
Entry3 == {NoEntry, E("linux", 2, 2), E("linux", 1, 6)}
Full   == { T(a, b, c, NoEntry) : a \in Entry1, b \in Entry2, c \in Entry3 }
Lean   == { T(a, b, NoEntry, NoEntry) : a \in {NoEntry, E("dos", 2, 1)}, b \in Entry2 }
Mbr    == T(E("dos", 1, 2), E("ext", 4, 8), NoEntry, NoEntry)
Chains == { D(14, 14, FALSE, 1, 0 :> Mbr @@ 4 :> x @@ 5 :> y @@ 6 :> z) :
                x \in Full, y \in Lean, z \in Lean }

\* Capacities: an extended partition, and one after it, at and over the end of
\* the disk; two extended partitions; 1024-byte blocks; sums that wrap around.
Caps == { D(c, 14, u, 1,
            0 :> T(E("ext", 4, 8), E("raid", p, 3), E("ext", 9, 2), E("dos", 3, w))
            @@ 4 :> T(E("linux", 1, 2), E("ext", q, 2), E("linux", 1, 1), E("linux", 30, 4))
            @@ 9 :> T(E("dos", 1, 1), NoEntry, NoEntry, E("ext", 5, 2))) :
            c \in {5, 8, 14}, u \in BOOLEAN, p \in {11, 12, 13}, q \in {5, 29}, w \in {0, 30} }
Big  == { D(14, 14, FALSE, 2, 0 :> T(E("ext", 2, 3), E("dos", 16, 16), NoEntry, E("dos", 1, 1))
                              @@ 4 :> T(E("linux", 1, 1), E("ext", 1, 2), NoEntry, NoEntry)
                              @@ 6 :> T(E("linux", 16, 16), NoEntry, E("raid", 1, 1), NoEntry)) }

\* Not a table, or not only.
Odd  == { D(c, 9, TRUE, 1, 0 :> [s EXCEPT !.boot = b, !.label = l] @@ 7 :> [Blank EXCEPT !.label = m]) :
            c \in {6, 9}, s \in {Mbr, Blank, T(E("dos", 1, 2), NoEntry, NoEntry, NoEntry)},
            b \in {"ok", "fat", "bad"}, l \in {"none", "aix"}, m \in {"none", "lvm"} }

AllDisks == Chains \cup Caps \cup Big \cup Odd
=============================================================================
