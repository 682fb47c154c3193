----------------------------- MODULE MCMuslLock -----------------------------
(* MuslLock for a process of three threads, on a kernel with futexes and on *)
(* one without.                                                             *)
EXTENDS MuslLock

\* The runs have few threads: a short word has room for its counts.
MCIntMin == -8
=============================================================================
