---------------------------- MODULE MCEmuAtomic ----------------------------
(* The calls that the threads of EmuAtomic make.                           *)
EXTENDS EmuAtomic, TLC

Xadd    == { [op |-> "xadd", old |-> 0, arg |-> 1] }
Cmpxchg == { [op |-> "cmpxchg", old |-> v, arg |-> (v + 1) % 3] : v \in 0 .. 2 }

\* Take a lock word, and count.
Both == Xadd \cup { [op |-> "cmpxchg", old |-> 0, arg |-> 1],
                    [op |-> "cmpxchg", old |-> 1, arg |-> 0] }

Perms == Permutations(Threads)
=============================================================================
