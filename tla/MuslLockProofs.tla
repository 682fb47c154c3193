--------------------------- MODULE MuslLockProofs ---------------------------
(***************************************************************************)
(* What holds of MuslLock for every finite set of threads, every INT_MIN   *)
(* far enough from the counts, any number of spins and both kinds of       *)
(* kernel.                                                                 *)
(*                                                                         *)
(* Mutual exclusion has two reasons that meet in one invariant.  Threads   *)
(* that use the word are counted in it (Congestion, OneOwner); a thread    *)
(* that skips it is the only one that can still call LOCK (AtLabel), which *)
(* need_locks says only as long as threads_minus_1 is the number of those  *)
(* threads (Accounting) and whoever changes it has __thread_list_lock      *)
(* (ListLock).                                                             *)
(***************************************************************************)
EXTENDS MuslLock, FiniteSetTheorems, TLAPS

\* What thread t's place in the code says of it.
AtLabel(t) ==
    /\ pc[t] \in {"sys_exit", "exited"} <=> t \notin listed
    /\ t \in exiting =>
         pc[t] \in Trying \cup Holds \cup {"wake", "uncount", "unlink", "sys_exit"}
    /\ pc[t] \in {"uncount", "unlink", "sys_exit"} => t \in exiting
    \* Past the test of need_locks the word is used.
    /\ pc[t] \in (Trying \ {"lock"}) \cup {"add"} => seen[t] # 0
    /\ pc[t] \in {"cas0", "reset"} /\ seen[t] < 0 => Alone(t)
    /\ pc[t] \in {"cs", "unlock"} /\ seen[t] = 0 => Alone(t)
    \* The last thread does not get past exit_list_lock.
    /\ pc[t] \in {"unlock", "add", "wake", "uncount"} /\ t \in exiting => ~Alone(t)

\* What __lock knows of the word: it counts t, and its owner if it is flagged.
FlagAndTwo == (INT_MIN + 2) .. (INT_MIN + Cardinality(Threads))
Counted(t) ==
    /\ pc[t] = "loop" => current[t] >= 1 \/ current[t] \in FlagAndTwo
    /\ pc[t] \in {"wait", "asleep"} => current[t] \in FlagAndTwo
    /\ pc[t] = "cas" => current[t] >= 1

\* t has __thread_list_lock.
HasList(t) ==
    \/ pc[t] \in {"create", "uncount", "unlink", "sys_exit"}
    \/ t \in exiting /\ pc[t] \in {"unlock", "add", "wake"}

ListLock == \A t \in Threads : HasList(t) <=> list_lock = t

Creating == \E t \in Threads : pc[t] = "create"

\* The threads that can still call LOCK.
Users == {t \in Threads : pc[t] \notin Leaving}

\* threads_minus_1 counts them, and not the threads in the list: those that
\* counted themselves out may still be there.
Accounting ==
    /\ Users # {}
    /\ threads_minus_1 = Cardinality(Users) - 1 + (IF Creating THEN 1 ELSE 0)
    /\ need_locks # 1 => Cardinality(Users) = 1 /\ ~Creating

OneOwner == \A t, u \in Threads : Owner(t) /\ Owner(u) => t = u

IInv ==
    /\ TypeOK
    /\ \A t \in Threads : AtLabel(t)
    /\ \A t \in Threads : Counted(t)
    /\ ListLock
    /\ Accounting
    /\ OneOwner
    /\ Congestion

-----------------------------------------------------------------------------
(* Sets of threads, and the sign of the word.                              *)

\* Any set of threads is finite and no larger than Threads.
LEMMA ThreadSets ==
    ASSUME NEW S \in SUBSET Threads
    PROVE  /\ IsFiniteSet(S)
           /\ Cardinality(S) \in 0 .. Cardinality(Threads)
           /\ Cardinality(S) = 0 <=> S = {}
           /\ Cardinality(Threads) \in Nat
<1>1. IsFiniteSet(S) /\ Cardinality(S) <= Cardinality(Threads)
    BY LockAssumption, FS_Subset
<1>2. Cardinality(S) \in Nat /\ Cardinality(Threads) \in Nat
    BY <1>1, LockAssumption, FS_CardinalityType
<1> QED
    BY <1>1, <1>2, FS_EmptySet

\* A set of threads of which two are known has two members or more.
LEMMA TwoThreads ==
    ASSUME NEW S \in SUBSET Threads, NEW t \in S, NEW u \in S, t # u
    PROVE  Cardinality(S) >= 2
<1>1. IsFiniteSet(S) /\ Cardinality(S) \in Nat
    BY ThreadSets
<1>2. /\ IsFiniteSet(S \ {t}) /\ Cardinality(S \ {t}) = Cardinality(S) - 1
      /\ S \ {t} # {}
    BY <1>1, FS_RemoveElement
<1>3. Cardinality(S \ {t}) # 0 /\ Cardinality(S \ {t}) \in Nat
    BY <1>2, FS_EmptySet, FS_CardinalityType
<1> QED
    BY <1>1, <1>2, <1>3

\* One thread more or less.
LEMMA OneMore ==
    ASSUME NEW S \in SUBSET Threads, NEW t \in Threads
    PROVE  /\ t \notin S => Cardinality(S \cup {t}) = Cardinality(S) + 1
           /\ t \in S => Cardinality(S \ {t}) = Cardinality(S) - 1
BY ThreadSets, FS_AddElement, FS_RemoveElement

\* A process with one thread that includes t has t only.
LEMMA OnlyOne ==
    ASSUME NEW S \in SUBSET Threads, NEW t \in S, Cardinality(S) = 1
    PROVE  S = {t}
BY TwoThreads

\* The flag is the sign of the word: it is negative when the lock is owned, and
\* then far enough from zero.  It counts those inside.
LEMMA WordTells ==
    ASSUME IInv
    PROVE  /\ Cardinality(Inside) \in 0 .. Cardinality(Threads)
           /\ Owners = {} => l = Cardinality(Inside) /\ l >= 0
           /\ Owners # {} => l = Cardinality(Inside) + INT_MIN /\ l < -1
<1>1. Inside \in SUBSET Threads
    BY DEF Inside, Owners
<1>2. Cardinality(Inside) \in 0 .. Cardinality(Threads) /\ Cardinality(Threads) \in Nat
    BY <1>1, ThreadSets
<1>3. INT_MIN \in Int /\ INT_MIN + Cardinality(Threads) < -1
    BY LockAssumption
<1>4. Congestion
    BY DEF IInv
<1> QED
    BY <1>2, <1>3, <1>4 DEF Congestion

-----------------------------------------------------------------------------
(* The steps, part by part of the invariant.                               *)

\* Every step leaves every thread where its label says.
LEMMA LabelStep == IInv /\ [Next]_vars => \A v \in Threads : AtLabel(v)'
<1> DEFINE Good == \A v \in Threads : AtLabel(v)'
<1> SUFFICES ASSUME IInv, [Next]_vars PROVE Good
    OBVIOUS
<1> USE DEF IInv, TypeOK, AtLabel, Alone, Leaving, Trying, Marked, Holds
<1>1. ASSUME NEW t \in Threads, need_locks # 1, pc[t] \notin Leaving PROVE Alone(t)
  <2>1. Users \in SUBSET Threads /\ t \in Users /\ Cardinality(Users) = 1
    BY <1>1 DEF Users, Accounting
  <2>2. Users = {t}
    BY <2>1, OnlyOne
  <2> QED
    BY <2>2 DEF Users
<1>2. ASSUME NEW t \in Threads, Owner(t) PROVE l < 0
    BY <1>2, WordTells DEF Owners
<1>3. ASSUME NEW t \in Threads, Alone(t), seen[t] = 0 PROVE l >= 0
  <2>1. Owners = {}
    BY <1>3 DEF Owners, Owner, Holds
  <2> QED
    BY <2>1, WordTells
<1>4. ASSUME NEW t \in Threads, call_lock(t) PROVE Good
    BY <1>4 DEF call_lock, Goto, locals
<1>5. ASSUME NEW t \in Threads, read_need_locks(t) PROVE Good
    BY <1>1, <1>5 DEF read_need_locks, Goto, thread_list
<1>6. ASSUME NEW t \in Threads, fast_path(t) PROVE Good
    BY <1>6 DEF fast_path, a_cas, Goto, thread_list
<1>7. ASSUME NEW t \in Threads, reset_need_locks(t) PROVE Good
    BY <1>7 DEF reset_need_locks, Goto
<1>8. ASSUME NEW t \in Threads, spin(t) PROVE Good
    BY <1>8 DEF spin, a_cas, Goto, thread_list
<1>9. ASSUME NEW t \in Threads, mark(t) PROVE Good
    BY <1>9 DEF mark, Goto, thread_list
<1>10. ASSUME NEW t \in Threads, loop(t) PROVE Good
    BY <1>10 DEF loop, Goto, locals, thread_list
<1>11. ASSUME NEW t \in Threads, futexwait(t) PROVE Good
    BY <1>11 DEF futexwait, Woken, Goto, thread_list
<1>12. ASSUME NEW t \in Threads, acquire(t) PROVE Good
    BY <1>12 DEF acquire, a_cas, Goto, thread_list
<1>13. ASSUME NEW t \in Threads, interrupted(t) PROVE Good
    BY <1>13 DEF interrupted, Woken, Goto, thread_list
<1>14. ASSUME NEW t \in Threads, leave_cs(t) PROVE Good
    BY <1>14 DEF leave_cs, Goto, locals, thread_list
<1>15. ASSUME NEW t \in Threads, test_word(t) PROVE Good
    BY <1>2, <1>3, <1>15 DEF test_word, AfterUnlock, Goto, locals, thread_list, Owner
<1>16. ASSUME NEW t \in Threads, release(t) PROVE Good
    BY <1>16 DEF release, AfterUnlock, Goto, locals, thread_list
<1>17. ASSUME NEW t \in Threads, wake(t) PROVE Good
    BY <1>17 DEF wake, AfterUnlock, Goto, thread_list
<1>18. ASSUME NEW t \in Threads, create_count(t) PROVE Good
    BY <1>18 DEF create_count, Goto, locals
<1>19. ASSUME NEW t \in Threads, clone_fails(t) PROVE Good
    BY <1>19 DEF clone_fails, Goto, locals
<1>20. ASSUME NEW t \in Threads, exit_list_lock(t) PROVE Good
  <2>1. listed = {v \in Threads : pc[v] \notin Leaving}
    BY <1>20, LockAssumption DEF exit_list_lock, ListLock, HasList
  <2>2. listed # {t} => ~Alone(t)
    BY <1>20, <2>1 DEF exit_list_lock
  <2>3. \A v \in Threads : Alone(v)' <=> Alone(v)
    BY <1>20 DEF exit_list_lock, Goto
  <2> QED
    BY <1>20, <2>2, <2>3 DEF exit_list_lock, Goto, locals
<1>21. ASSUME NEW t \in Threads, exit_uncount(t) \/ exit_unlink(t) \/ sys_exit(t)
       PROVE  Good
    BY <1>21 DEF exit_uncount, exit_unlink, sys_exit, Goto, locals, ListLock, HasList
<1>22. ASSUME NEW t \in Threads, NEW u \in Threads, clone(t, u) PROVE Good
  <2>1. pc[t] = "create" /\ pc[u] = "exited" /\ t # u
    BY <1>22 DEF clone, ListLock, HasList
  <2>2. \A v \in Threads \ {t} : pc[v] \notin Leaving => ~Alone(v)
    BY <2>1
  <2>3. \A v \in Threads : ~Alone(v) => ~Alone(v)'
    BY <1>22, <2>1 DEF clone
  <2> QED
    BY <1>22, <2>1, <2>2, <2>3 DEF clone, locals
<1>23. CASE UNCHANGED vars
    BY <1>23 DEF vars
<1> QED
    BY <1>4, <1>5, <1>6, <1>7, <1>8, <1>9, <1>10, <1>11, <1>12, <1>13, <1>14, <1>15, <1>16, <1>17, <1>18, <1>19, <1>20, <1>21, <1>22, <1>23 DEF Next, Lock, Unlock, Create, Exit
\* Seen from the lock word, thread u has not moved.
Unmoved(u) == (Owner(u)' <=> Owner(u)) /\ (pc'[u] \in Marked <=> pc[u] \in Marked)

\* A step that the word does not show.
LEMMA WordSame ==
    ASSUME IInv, l' = l, \A u \in Threads : Unmoved(u)
    PROVE  OneOwner' /\ Congestion'
<1>1. Owners' = Owners
    BY DEF Owners, Unmoved
<1>2. Inside' = Inside
    BY <1>1 DEF Inside, Unmoved
<1>3. OneOwner'
    BY DEF IInv, OneOwner, Unmoved
<1> QED
    BY <1>1, <1>2, <1>3 DEF IInv, Congestion

\* A thread that was outside marks itself as inside.
LEMMA WordMark ==
    ASSUME IInv, NEW t \in Threads, \A u \in Threads \ {t} : Unmoved(u), l' = l + 1,
           ~Owner(t), ~Owner(t)', pc[t] \notin Marked, pc'[t] \in Marked
    PROVE  OneOwner' /\ Congestion'
<1>1. Owners' = Owners
    BY DEF Owners, Unmoved
<1>2. Inside' = Inside \cup {t} /\ t \notin Inside /\ Inside \in SUBSET Threads
    BY <1>1 DEF Inside, Owners, Unmoved
<1>3. Cardinality(Inside') = Cardinality(Inside) + 1
    BY <1>2, OneMore
<1>4. OneOwner'
    BY DEF IInv, OneOwner, Unmoved
<1>5. Congestion'
    BY <1>1, <1>3, WordTells, LockAssumption DEF Congestion
<1> QED
    BY <1>4, <1>5

\* A thread takes a free lock, which it is or is not counted in already.
LEMMA WordTake ==
    ASSUME IInv, NEW t \in Threads, \A u \in Threads \ {t} : Unmoved(u), l >= 0,
           Owner(t)', pc'[t] \notin Marked,
           l' = INT_MIN + l + (IF pc[t] \in Marked THEN 0 ELSE 1)
    PROVE  OneOwner' /\ Congestion'
<1>1. Owners = {} /\ l = Cardinality(Inside) /\ Cardinality(Inside) \in Nat
  <2>1. l \in Int
    BY LockAssumption DEF IInv, TypeOK
  <2> QED
    BY <2>1, WordTells
<1>2. Owners' = {t}
    BY <1>1 DEF Owners, Unmoved
<1>3. OneOwner'
    BY <1>2 DEF OneOwner, Owners
<1>4. Inside \in SUBSET Threads /\ (t \in Inside <=> pc[t] \in Marked)
    BY <1>1 DEF Inside, Owners
<1>5. Inside' = Inside \cup {t}
    BY <1>1, <1>2 DEF Inside, Unmoved
<1>6. Cardinality(Inside') = Cardinality(Inside) + (IF pc[t] \in Marked THEN 0 ELSE 1)
  <2>1. CASE t \in Inside
    <3>1. Inside' = Inside
      BY <1>5, <2>1
    <3> QED
      BY <1>1, <1>4, <2>1, <3>1
  <2>2. CASE t \notin Inside
    BY <1>4, <1>5, <2>2, OneMore
  <2> QED
    BY <2>1, <2>2
<1>7. Congestion'
    BY <1>1, <1>2, <1>6, LockAssumption DEF Congestion
<1> QED
    BY <1>3, <1>7

\* The owner gives the lock back and is no longer counted.
LEMMA WordRelease ==
    ASSUME IInv, NEW t \in Threads, \A u \in Threads \ {t} : Unmoved(u),
           Owner(t), pc[t] \notin Marked, ~Owner(t)', pc'[t] \notin Marked,
           l' = l - (INT_MIN + 1)
    PROVE  OneOwner' /\ Congestion'
<1>1. \A u \in Threads : ~Owner(u)'
    BY DEF IInv, OneOwner, Unmoved
<1>2. Owners # {} /\ Owners' = {}
    BY <1>1 DEF Owners
<1>3. Inside' = Inside \ {t} /\ t \in Inside /\ Inside \in SUBSET Threads
    BY <1>1 DEF Inside, Owners, Unmoved, IInv, OneOwner
<1>4. Cardinality(Inside') = Cardinality(Inside) - 1
    BY <1>3, OneMore
<1>5. Congestion'
    BY <1>2, <1>4, WordTells, LockAssumption DEF Congestion
<1> QED
    BY <1>1, <1>5 DEF OneOwner
\* The steps that neither take nor give the lock nor join its queue.
LEMMA QuietSteps ==
    ASSUME IInv, NEW t \in Threads,
           \/ call_lock(t) \/ read_need_locks(t) \/ reset_need_locks(t) \/ loop(t)
           \/ futexwait(t) \/ interrupted(t) \/ leave_cs(t) \/ test_word(t) \/ wake(t)
           \/ create_count(t) \/ clone_fails(t) \/ (\E u \in Threads : clone(t, u))
           \/ Exit(t)
    PROVE  l' = l /\ \A v \in Threads : Unmoved(v)
<1> DEFINE Good == l' = l /\ \A v \in Threads : Unmoved(v)
<1> USE DEF IInv, TypeOK, AtLabel, Alone, Leaving, Unmoved, Owner, Marked, Holds, Trying
<1>1. CASE call_lock(t)
    BY <1>1 DEF call_lock, Goto, locals
<1>2. CASE read_need_locks(t)
    BY <1>2 DEF read_need_locks, Goto, thread_list
<1>3. CASE reset_need_locks(t)
    BY <1>3 DEF reset_need_locks, Goto
<1>4. CASE loop(t)
    BY <1>4 DEF loop, Goto, locals, thread_list
<1>5. CASE futexwait(t)
    BY <1>5 DEF futexwait, Woken, Goto, thread_list
<1>6. CASE interrupted(t)
    BY <1>6 DEF interrupted, Woken, Goto, thread_list
<1>7. CASE leave_cs(t)
    BY <1>7 DEF leave_cs, Goto, locals, thread_list
<1>8. CASE wake(t)
    BY <1>8 DEF wake, AfterUnlock, Goto, thread_list
<1>9. CASE create_count(t)
    BY <1>9 DEF create_count, Goto, locals
<1>10. CASE clone_fails(t)
    BY <1>10 DEF clone_fails, Goto, locals
<1>11. CASE exit_list_lock(t)
    BY <1>11 DEF exit_list_lock, Goto, locals
<1>12. CASE exit_uncount(t) \/ exit_unlink(t) \/ sys_exit(t)
    BY <1>12 DEF exit_uncount, exit_unlink, sys_exit, Goto, locals
<1>13. CASE test_word(t)
  <2>1. Owner(t) => l < 0
    BY WordTells DEF Owners
  <2>2. seen[t] = 0 => l >= 0
    <3>1. seen[t] = 0 => Owners = {}
      BY <1>13 DEF test_word, Owners
    <3> QED
      BY <3>1, WordTells
  <2> QED
    BY <1>13, <2>1, <2>2 DEF test_word, AfterUnlock, Goto, locals, thread_list
<1>14. ASSUME NEW u \in Threads, clone(t, u) PROVE Good
    BY <1>14 DEF clone, locals
<1> QED
    BY <1>1, <1>2, <1>3, <1>4, <1>5, <1>6, <1>7, <1>8, <1>9, <1>10, <1>11, <1>12, <1>13, <1>14
       DEF Exit

\* Every step keeps the count in the word, and its owner alone.
LEMMA WordStep == IInv /\ [Next]_vars => OneOwner' /\ Congestion'
<1> SUFFICES ASSUME IInv, [Next]_vars PROVE OneOwner' /\ Congestion'
    OBVIOUS
<1> USE DEF Marked, Holds, Trying
<1>1. ASSUME NEW t \in Threads, fast_path(t) PROVE OneOwner' /\ Congestion'
  <2>1. ~Owner(t) /\ pc[t] \notin Marked /\ \A u \in Threads \ {t} : Unmoved(u)
    BY <1>1 DEF fast_path, a_cas, Goto, thread_list, Unmoved, Owner, IInv, TypeOK
  <2>2. CASE l = 0
    <3>1. Owner(t)' /\ pc'[t] \notin Marked /\ l' = INT_MIN + l + 1
      BY <1>1, <2>2, LockAssumption DEF fast_path, a_cas, Goto, Owner, IInv, TypeOK, AtLabel
    <3> QED
      BY <2>1, <2>2, <3>1, WordTake
  <2>3. CASE l # 0
    <3>1. l' = l /\ Unmoved(t)
      BY <1>1, <2>1, <2>3 DEF fast_path, a_cas, Goto, Unmoved, Owner, IInv, TypeOK
    <3> QED
      BY <2>1, <3>1, WordSame
  <2> QED
    BY <2>2, <2>3
<1>2. ASSUME NEW t \in Threads, spin(t) PROVE OneOwner' /\ Congestion'
  <2> DEFINE c == Unflagged(current[t])
  <2>1. ~Owner(t) /\ pc[t] \notin Marked /\ \A u \in Threads \ {t} : Unmoved(u)
    BY <1>2 DEF spin, a_cas, Goto, thread_list, Unmoved, Owner, IInv, TypeOK
  <2>2. CASE l = c
    <3>1. c >= -1 /\ c \in Int
      BY LockAssumption, ThreadSets, Threads \in SUBSET Threads DEF Unflagged, IInv, TypeOK
    <3>2. l >= 0
      BY <2>2, <3>1, WordTells
    <3>3. Owner(t)' /\ pc'[t] \notin Marked
      BY <1>2, <2>2 DEF spin, a_cas, Goto, Owner, IInv, TypeOK, AtLabel
    <3>4. l' = INT_MIN + (c + 1)
      BY <1>2, <2>2 DEF spin, a_cas
    <3> HIDE DEF c
    <3>5. l' = INT_MIN + l + 1
      BY <2>2, <3>1, <3>4, LockAssumption
    <3> QED
      BY <2>1, <3>2, <3>3, <3>5, WordTake
  <2>3. CASE l # c
    <3>1. l' = l /\ Unmoved(t)
      BY <1>2, <2>1, <2>3 DEF spin, a_cas, Goto, Unmoved, Owner, IInv, TypeOK
    <3> QED
      BY <2>1, <3>1, WordSame
  <2> QED
    BY <2>2, <2>3
<1>3. ASSUME NEW t \in Threads, mark(t) PROVE OneOwner' /\ Congestion'
  <2>1. \A u \in Threads \ {t} : Unmoved(u)
    BY <1>3 DEF mark, Goto, thread_list, Unmoved, Owner, IInv, TypeOK
  <2>2. ~Owner(t) /\ ~Owner(t)' /\ pc[t] \notin Marked /\ pc'[t] \in Marked /\ l' = l + 1
    BY <1>3 DEF mark, Goto, Owner, IInv, TypeOK
  <2> QED
    BY <2>1, <2>2, WordMark
<1>4. ASSUME NEW t \in Threads, acquire(t) PROVE OneOwner' /\ Congestion'
  <2>1. pc[t] \in Marked /\ \A u \in Threads \ {t} : Unmoved(u)
    BY <1>4 DEF acquire, a_cas, Goto, thread_list, Unmoved, Owner, IInv, TypeOK
  <2>2. CASE l = current[t]
    <3>1. Owner(t)' /\ pc'[t] \notin Marked /\ l' = INT_MIN + l + 0 /\ l >= 0
      BY <1>4, <2>2, LockAssumption DEF acquire, a_cas, Goto, Owner, IInv, TypeOK, AtLabel, Counted
    <3> QED
      BY <2>1, <3>1, WordTake
  <2>3. CASE l # current[t]
    <3>1. l' = l /\ Unmoved(t)
      BY <1>4, <2>1, <2>3 DEF acquire, a_cas, Goto, Unmoved, Owner, IInv, TypeOK
    <3> QED
      BY <2>1, <3>1, WordSame
  <2> QED
    BY <2>2, <2>3
<1>5. ASSUME NEW t \in Threads, release(t) PROVE OneOwner' /\ Congestion'
  <2>1. \A u \in Threads \ {t} : Unmoved(u)
    BY <1>5 DEF release, AfterUnlock, Goto, locals, thread_list, Unmoved, Owner, IInv, TypeOK
  <2>2. /\ Owner(t) /\ ~Owner(t)' /\ pc[t] \notin Marked /\ pc'[t] \notin Marked
        /\ l' = l - (INT_MIN + 1)
    BY <1>5 DEF release, AfterUnlock, Goto, locals, Owner, IInv, TypeOK, AtLabel
  <2> QED
    BY <2>1, <2>2, WordRelease
<1>6. CASE UNCHANGED vars
    BY <1>6, WordSame DEF vars, Unmoved, Owner
<1> QED
    BY <1>1, <1>2, <1>3, <1>4, <1>5, <1>6, QuietSteps, WordSame DEF Next, Lock, Unlock, Create, Exit
\* The word a thread that is counted finds: at least its own count, and its
\* owner's if it is flagged.
LEMMA MarkedTells ==
    ASSUME IInv, NEW t \in Threads, pc[t] \in Marked
    PROVE  l >= 1 \/ l \in FlagAndTwo
<1>1. t \in Inside /\ Inside \in SUBSET Threads /\ Owners \subseteq Inside
    BY DEF Inside, Owners
<1>2. Cardinality(Inside) >= 1
    BY <1>1, ThreadSets
<1>3. ~Owner(t)
    BY DEF Owner, Marked, Holds
<1>4. Owners # {} => Cardinality(Inside) >= 2
    BY <1>1, <1>3, TwoThreads DEF Owners
<1> QED
    BY <1>2, <1>4, WordTells, LockAssumption, ThreadSets, Threads \in SUBSET Threads DEF FlagAndTwo

\* What a thread gets when it takes the flag off.
LEMMA Unflag ==
    ASSUME NEW c \in FlagAndTwo
    PROVE  /\ c - (INT_MIN + 1) \in 1 .. Cardinality(Threads)
           /\ c < 0 /\ c \in Int
BY LockAssumption, ThreadSets, Threads \in SUBSET Threads DEF FlagAndTwo

\* Every step leaves a thread in the queue with a word that counts it.
LEMMA CountedStep == IInv /\ [Next]_vars => \A v \in Threads : Counted(v)'
<1> DEFINE Good == \A v \in Threads : Counted(v)'
<1> SUFFICES ASSUME IInv, [Next]_vars PROVE Good
    OBVIOUS
<1> DEFINE Others(t) == \A u \in Threads \ {t} : pc'[u] = pc[u] /\ current'[u] = current[u]
<1> USE DEF Marked, Holds, Trying, Counted
<1>1. ASSUME NEW t \in Threads, Others(t), Counted(t)' PROVE Good
    BY <1>1 DEF IInv
<1>2. ASSUME NEW t \in Threads, Others(t), pc'[t] \notin Marked PROVE Good
    BY <1>1, <1>2
<1>3. ASSUME NEW t \in Threads, call_lock(t) PROVE Good
    BY <1>2, <1>3 DEF call_lock, Goto, locals, IInv, TypeOK
<1>4. ASSUME NEW t \in Threads, read_need_locks(t) PROVE Good
    BY <1>2, <1>4 DEF read_need_locks, Goto, thread_list, IInv, TypeOK
<1>5. ASSUME NEW t \in Threads, fast_path(t) PROVE Good
    BY <1>2, <1>5 DEF fast_path, a_cas, Goto, thread_list, IInv, TypeOK
<1>6. ASSUME NEW t \in Threads, reset_need_locks(t) PROVE Good
    BY <1>2, <1>6 DEF reset_need_locks, Goto, IInv, TypeOK
<1>7. ASSUME NEW t \in Threads, spin(t) PROVE Good
    BY <1>2, <1>7 DEF spin, a_cas, Goto, thread_list, IInv, TypeOK
<1>8. ASSUME NEW t \in Threads, leave_cs(t) PROVE Good
    BY <1>2, <1>8 DEF leave_cs, Goto, locals, thread_list, IInv, TypeOK
<1>9. ASSUME NEW t \in Threads, test_word(t) PROVE Good
    BY <1>2, <1>9 DEF test_word, AfterUnlock, Goto, locals, thread_list, IInv, TypeOK
<1>10. ASSUME NEW t \in Threads, release(t) PROVE Good
    BY <1>2, <1>10 DEF release, AfterUnlock, Goto, locals, thread_list, IInv, TypeOK
<1>11. ASSUME NEW t \in Threads, create_count(t) PROVE Good
    BY <1>2, <1>11 DEF create_count, Goto, locals, IInv, TypeOK
<1>12. ASSUME NEW t \in Threads, clone_fails(t) PROVE Good
    BY <1>2, <1>12 DEF clone_fails, Goto, locals, IInv, TypeOK
<1>13. ASSUME NEW t \in Threads, exit_list_lock(t) PROVE Good
    BY <1>2, <1>13 DEF exit_list_lock, Goto, locals, IInv, TypeOK
<1>14. ASSUME NEW t \in Threads, exit_uncount(t) \/ exit_unlink(t) \/ sys_exit(t)
       PROVE  Good
    BY <1>2, <1>14 DEF exit_uncount, exit_unlink, sys_exit, Goto, locals, IInv, TypeOK
<1>15. ASSUME NEW t \in Threads, mark(t) PROVE Good
  <2>1. pc[t] = "mark" /\ pc'[t] = "loop" /\ current'[t] = l + 1 /\ Others(t)
    BY <1>15 DEF mark, Goto, IInv, TypeOK
  <2>2. Owners # {} => Cardinality(Inside) >= 1
    <3>1. Inside \in SUBSET Threads /\ Owners \subseteq Inside
      BY DEF Inside, Owners
    <3> QED
      BY <3>1, ThreadSets
  <2>3. Owners # {} => Cardinality(Inside) < Cardinality(Threads)
    <3>1. t \notin Inside /\ Inside \in SUBSET Threads
      BY <2>1 DEF Inside, Owners, Owner
    <3>2. Cardinality(Inside \cup {t}) = Cardinality(Inside) + 1
      BY <3>1, OneMore
    <3> QED
      BY <3>1, <3>2, ThreadSets, Inside \cup {t} \in SUBSET Threads
  <2>4. l + 1 >= 1 \/ l + 1 \in FlagAndTwo
    BY <2>2, <2>3, WordTells, LockAssumption, ThreadSets, Threads \in SUBSET Threads DEF FlagAndTwo
  <2> QED
    BY <1>1, <2>1, <2>4
<1>16. ASSUME NEW t \in Threads, loop(t) PROVE Good
  <2>1. /\ pc[t] = "loop" /\ current'[t] = current[t] /\ Others(t)
        /\ pc'[t] = IF current[t] < 0 THEN "wait" ELSE "cas"
    BY <1>16 DEF loop, Goto, locals, IInv, TypeOK
  <2>2. current[t] >= 1 \/ current[t] \in FlagAndTwo
    BY <2>1 DEF IInv
  <2>3. current[t] \in FlagAndTwo => current[t] < 0
    BY Unflag
  <2>4. current[t] \in Int
    BY LockAssumption DEF IInv, TypeOK
  <2> QED
    BY <1>1, <2>1, <2>2, <2>3, <2>4
<1>17. ASSUME NEW t \in Threads, futexwait(t) \/ interrupted(t) PROVE Good
  <2>1. /\ current[t] \in FlagAndTwo /\ Others(t)
        /\ \/ pc'[t] = "asleep" /\ current'[t] = current[t]
           \/ pc'[t] = "cas" /\ current'[t] = current[t] - (INT_MIN + 1)
    BY <1>17 DEF futexwait, interrupted, Woken, Goto, IInv, TypeOK
  <2> QED
    BY <1>1, <2>1, Unflag
<1>18. ASSUME NEW t \in Threads, acquire(t) PROVE Good
  <2>1. Others(t) /\ pc[t] \in Marked
    BY <1>18 DEF acquire, a_cas, Goto, IInv, TypeOK
  <2>2. pc'[t] = "cs" \/ (pc'[t] = "loop" /\ current'[t] = l)
    BY <1>18 DEF acquire, a_cas, Goto, IInv, TypeOK
  <2> QED
    BY <1>1, <2>1, <2>2, MarkedTells
<1>19. ASSUME NEW t \in Threads, wake(t) PROVE Good
  <2>1. CASE /\ Goto(t, AfterUnlock(t)) /\ current' = current
    BY <1>2, <2>1 DEF Goto, AfterUnlock, IInv, TypeOK
  <2>2. ASSUME NEW u \in Threads, pc[u] = "asleep",
               pc' = [pc EXCEPT ![t] = AfterUnlock(t), ![u] = "cas"],
               current' = [current EXCEPT ![u] = @ - (INT_MIN + 1)]
        PROVE  Good
    <3>1. current[u] \in FlagAndTwo
      BY <2>2 DEF IInv
    <3>2. /\ pc'[u] = "cas" /\ current'[u] = current[u] - (INT_MIN + 1)
          /\ \A v \in Threads \ {u} : current'[v] = current[v]
          /\ \A v \in Threads \ {u, t} : pc'[v] = pc[v]
          /\ u # t => pc'[t] \in {"uncount", "idle"}
      BY <1>19, <2>2 DEF AfterUnlock, IInv, TypeOK
    <3> QED
      BY <3>1, <3>2, Unflag DEF IInv
  <2> QED
    BY <1>19, <2>1, <2>2 DEF wake
<1>20. ASSUME NEW t \in Threads, NEW u \in Threads, clone(t, u) PROVE Good
    BY <1>20 DEF clone, locals, IInv, TypeOK
<1>21. CASE UNCHANGED vars
    BY <1>21 DEF vars, IInv
<1> QED
    BY <1>3, <1>4, <1>5, <1>6, <1>7, <1>8, <1>9, <1>10, <1>11, <1>12, <1>13, <1>14, <1>15, <1>16, <1>17, <1>18, <1>19, <1>20, <1>21 DEF Next, Lock, Unlock, Create, Exit
\* Whoever has __thread_list_lock knows it, and nobody else thinks so.
LEMMA ListStep == IInv /\ [Next]_vars => ListLock'
<1> SUFFICES ASSUME IInv, [Next]_vars PROVE ListLock'
    OBVIOUS
<1> USE LockAssumption DEF IInv, TypeOK, ListLock, HasList, AtLabel, Alone, Leaving,
       Trying, Marked, Holds
<1>1. ASSUME NEW t \in Threads, call_lock(t) PROVE ListLock'
    BY <1>1 DEF call_lock, Goto, locals
<1>2. ASSUME NEW t \in Threads, read_need_locks(t) PROVE ListLock'
    BY <1>2 DEF read_need_locks, Goto, thread_list
<1>3. ASSUME NEW t \in Threads, fast_path(t) PROVE ListLock'
    BY <1>3 DEF fast_path, a_cas, Goto, thread_list
<1>4. ASSUME NEW t \in Threads, reset_need_locks(t) PROVE ListLock'
    BY <1>4 DEF reset_need_locks, Goto
<1>5. ASSUME NEW t \in Threads, spin(t) PROVE ListLock'
    BY <1>5 DEF spin, a_cas, Goto, thread_list
<1>6. ASSUME NEW t \in Threads, mark(t) PROVE ListLock'
    BY <1>6 DEF mark, Goto, thread_list
<1>7. ASSUME NEW t \in Threads, loop(t) PROVE ListLock'
    BY <1>7 DEF loop, Goto, locals, thread_list
<1>8. ASSUME NEW t \in Threads, futexwait(t) PROVE ListLock'
    BY <1>8 DEF futexwait, Woken, Goto, thread_list
<1>9. ASSUME NEW t \in Threads, acquire(t) PROVE ListLock'
    BY <1>9 DEF acquire, a_cas, Goto, thread_list
<1>10. ASSUME NEW t \in Threads, interrupted(t) PROVE ListLock'
    BY <1>10 DEF interrupted, Woken, Goto, thread_list
<1>11. ASSUME NEW t \in Threads, leave_cs(t) PROVE ListLock'
    BY <1>11 DEF leave_cs, Goto, locals, thread_list
<1>12. ASSUME NEW t \in Threads, test_word(t) PROVE ListLock'
    BY <1>12 DEF test_word, AfterUnlock, Goto, locals, thread_list
<1>13. ASSUME NEW t \in Threads, release(t) PROVE ListLock'
    BY <1>13 DEF release, AfterUnlock, Goto, locals, thread_list
<1>14. ASSUME NEW t \in Threads, wake(t) PROVE ListLock'
    BY <1>14 DEF wake, AfterUnlock, Goto, thread_list
<1>15. ASSUME NEW t \in Threads, create_count(t) PROVE ListLock'
    BY <1>15 DEF create_count, Goto, locals
<1>16. ASSUME NEW t \in Threads, clone_fails(t) PROVE ListLock'
    BY <1>16 DEF clone_fails, Goto, locals
<1>17. ASSUME NEW t \in Threads, exit_list_lock(t) PROVE ListLock'
    BY <1>17 DEF exit_list_lock, Goto, locals
<1>18. ASSUME NEW t \in Threads, exit_uncount(t) \/ exit_unlink(t) \/ sys_exit(t)
       PROVE  ListLock'
    BY <1>18 DEF exit_uncount, exit_unlink, sys_exit, Goto, locals
<1>19. ASSUME NEW t \in Threads, NEW u \in Threads, clone(t, u) PROVE ListLock'
    BY <1>19 DEF clone, locals
<1>20. CASE UNCHANGED vars
    BY <1>20 DEF vars
<1> QED
    BY <1>1, <1>2, <1>3, <1>4, <1>5, <1>6, <1>7, <1>8, <1>9, <1>10, <1>11, <1>12, <1>13, <1>14, <1>15, <1>16, <1>17, <1>18, <1>19, <1>20 DEF Next, Lock, Unlock, Create, Exit
\* A step that neither creates a thread nor counts one out keeps the account.
LEMMA AccountSame ==
    ASSUME IInv, NEW t \in Threads,
           \/ call_lock(t) \/ Lock(t) \/ interrupted(t) \/ Unlock(t) \/ exit_list_lock(t)
           \/ exit_unlink(t) \/ sys_exit(t)
    PROVE  Accounting'
<1>1. threads_minus_1' = threads_minus_1
    BY DEF call_lock, Lock, interrupted, Unlock, exit_list_lock, exit_unlink, sys_exit, read_need_locks, fast_path,
       reset_need_locks, spin, mark, loop, futexwait, acquire, leave_cs, test_word, release,
       wake, thread_list
<1>2. \A u \in Threads : /\ pc'[u] = "create" <=> pc[u] = "create"
                         /\ pc'[u] \in Leaving <=> pc[u] \in Leaving
  <2> USE DEF IInv, TypeOK, Goto, Leaving
  <2>1. CASE Lock(t)
    BY <2>1 DEF Lock, read_need_locks, fast_path, reset_need_locks, spin, mark, loop, futexwait,
       acquire, a_cas, Woken
  <2>2. CASE Unlock(t)
    BY <2>2 DEF Unlock, leave_cs, test_word, release, wake, AfterUnlock
  <2>3. CASE \/ call_lock(t) \/ interrupted(t) \/ exit_list_lock(t)
             \/ exit_unlink(t) \/ sys_exit(t)
    BY <2>3 DEF call_lock, interrupted, exit_list_lock, exit_unlink, sys_exit, Woken
  <2> QED
    BY <2>1, <2>2, <2>3
<1>3. (Creating' <=> Creating) /\ Users' = Users
    BY <1>2 DEF Creating, Users
<1>4. CASE need_locks' = need_locks
    BY <1>1, <1>3, <1>4 DEF IInv, Accounting
<1>5. CASE need_locks' # need_locks
  <2>1. reset_need_locks(t) /\ seen[t] < 0
    BY <1>5 DEF call_lock, Lock, interrupted, Unlock, exit_list_lock, exit_unlink, sys_exit, read_need_locks, fast_path,
       reset_need_locks, spin, mark, loop, futexwait, acquire, leave_cs, test_word, release,
       wake, thread_list
  <2>2. Alone(t) /\ pc[t] = "reset"
    BY <2>1 DEF reset_need_locks, IInv, AtLabel
  <2>3. ~Creating
    BY <2>2 DEF Creating, Alone, Leaving
  <2>4. Users = {t}
    BY <2>2 DEF Users, Alone, Leaving
  <2>5. Cardinality(Users) = 1
    BY <2>4, FS_Singleton
  <2> QED
    BY <1>1, <1>3, <2>3, <2>5 DEF IInv, Accounting
<1> QED
    BY <1>4, <1>5

\* __pthread_create and __pthread_exit keep the account, each under
\* __thread_list_lock.
LEMMA AccountStep == IInv /\ [Next]_vars => Accounting'
<1> SUFFICES ASSUME IInv, [Next]_vars PROVE Accounting'
    OBVIOUS
<1>1. /\ Users \in SUBSET Threads /\ Cardinality(Users) \in Nat /\ Cardinality(Users) >= 1
      /\ threads_minus_1 = Cardinality(Users) - 1 + (IF Creating THEN 1 ELSE 0)
      /\ need_locks # 1 => Cardinality(Users) = 1 /\ ~Creating
  <2>1. Users \in SUBSET Threads /\ Accounting
    BY DEF IInv, Users
  <2> QED
    BY <2>1, ThreadSets DEF Accounting
<1>2. ASSUME NEW t \in Threads, create_count(t) PROVE Accounting'
  <2>1. ~Creating
    BY <1>2, LockAssumption DEF create_count, Creating, IInv, ListLock, HasList
  <2>2. Creating'
    BY <1>2 DEF create_count, Goto, Creating, IInv, TypeOK
  <2>3. threads_minus_1' = threads_minus_1 + 1 /\ need_locks' = 1
    BY <1>1, <1>2, <2>1 DEF create_count
  <2>4. Users' = Users
    BY <1>2 DEF create_count, Goto, Users, Leaving, IInv, TypeOK
  <2> QED
    BY <1>1, <2>1, <2>2, <2>3, <2>4 DEF Accounting, IInv
<1>3. ASSUME NEW t \in Threads, NEW u \in Threads, clone(t, u) PROVE Accounting'
  <2>1. Creating /\ ~Creating'
    BY <1>3 DEF clone, Creating, IInv, TypeOK, ListLock, HasList
  <2>2. Cardinality(Users') = Cardinality(Users) + 1 /\ Users' # {}
    <3>1. u \notin Users /\ Users' = Users \cup {u}
      BY <1>3 DEF clone, Users, Leaving, IInv, TypeOK, AtLabel
    <3> QED
      BY <1>1, <3>1, OneMore
  <2>3. need_locks' = 1 /\ threads_minus_1' = threads_minus_1
    BY <1>1, <1>3, <2>1 DEF clone
  <2> QED
    BY <1>1, <2>1, <2>2, <2>3 DEF Accounting
<1>4. ASSUME NEW t \in Threads, clone_fails(t) PROVE Accounting'
  <2>1. Creating /\ ~Creating'
    BY <1>4 DEF clone_fails, Goto, Creating, IInv, TypeOK, ListLock, HasList
  <2>2. /\ threads_minus_1' = threads_minus_1 - 1
        /\ need_locks' = IF threads_minus_1 = 1 THEN 0 ELSE 1
    BY <1>1, <1>4, <2>1 DEF clone_fails
  <2>3. Users' = Users
    BY <1>4 DEF clone_fails, Goto, Users, Leaving, IInv, TypeOK
  <2> QED
    BY <1>1, <2>1, <2>2, <2>3 DEF Accounting, IInv
<1>5. ASSUME NEW t \in Threads, exit_uncount(t) PROVE Accounting'
  <2>1. ~Creating /\ ~Creating'
    BY <1>5 DEF exit_uncount, Goto, Creating, IInv, TypeOK, ListLock, HasList
  <2>2. t \in Users /\ Users # {t}
    BY <1>5 DEF exit_uncount, IInv, AtLabel, Alone, Users, Leaving
  <2>3. Users' = Users \ {t}
    BY <1>5 DEF exit_uncount, Goto, Users, Leaving, IInv, TypeOK
  <2>4. Cardinality(Users') = Cardinality(Users) - 1 /\ Users' # {}
    BY <1>1, <2>2, <2>3, OneMore
  <2>5. Cardinality(Users) # 1
    BY <1>1, <2>2, OnlyOne
  <2>6. /\ threads_minus_1' = threads_minus_1 - 1
        /\ need_locks' = IF threads_minus_1 = 1 THEN -1 ELSE 1
    BY <1>1, <1>5, <2>5 DEF exit_uncount
  <2> QED
    BY <1>1, <2>1, <2>4, <2>6 DEF Accounting
<1>6. CASE UNCHANGED vars
    BY <1>6 DEF vars, IInv, Accounting, Creating, Users
<1> QED
    BY <1>2, <1>3, <1>4, <1>5, <1>6, AccountSame DEF Next, Create, Exit
\* The word and the thread count stay in range because of what they count.
LEMMA RangeStep ==
    ASSUME IInv, [Next]_vars
    PROVE  /\ l' \in INT_MIN .. Cardinality(Threads)
           /\ threads_minus_1' \in 0 .. Cardinality(Threads)
<1>1. Inside' \in SUBSET Threads
    BY DEF Inside, Owners
<1>2. Cardinality(Inside') \in 0 .. Cardinality(Threads) /\ Cardinality(Threads) \in Nat
    BY <1>1, ThreadSets
<1>3. Congestion' /\ Accounting'
    BY WordStep, AccountStep
<1>4. l' \in INT_MIN .. Cardinality(Threads)
    BY <1>2, <1>3, LockAssumption DEF Congestion
<1>5. threads_minus_1' \in 0 .. Cardinality(Threads)
  <2>1. Users' \in SUBSET Threads
    BY DEF Users
  <2>2. Cardinality(Users') \in 0 .. Cardinality(Threads) /\ Cardinality(Users') # 0
    BY <1>3, <2>1, ThreadSets DEF Accounting
  <2> QED
    BY <1>2, <1>3, <2>2 DEF Accounting
<1> QED
    BY <1>4, <1>5

\* Every step keeps the types.
LEMMA TypeStep == IInv /\ [Next]_vars => TypeOK'
<1> DEFINE Rest ==
      /\ has_futex' \in BOOLEAN
      /\ need_locks' \in {-1, 0, 1}
      /\ list_lock' \in Threads \cup {None}
      /\ listed' \subseteq Threads
      /\ pc' \in [Threads -> {"idle", "wake", "create", "uncount"}
                              \cup Trying \cup Holds \cup Leaving]
      /\ current' \in [Threads -> INT_MIN .. Cardinality(Threads)]
      /\ seen' \in [Threads -> {-1, 0, 1}]
      /\ i' \in [Threads -> 0 .. Spins]
      /\ exiting' \subseteq Threads
<1> SUFFICES ASSUME IInv, [Next]_vars PROVE TypeOK'
    OBVIOUS
<1>1. /\ TypeOK
      /\ 0 \in INT_MIN .. Cardinality(Threads) /\ Spins \in Nat
      /\ l' \in INT_MIN .. Cardinality(Threads)
    BY RangeStep, LockAssumption, ThreadSets, Threads \in SUBSET Threads DEF IInv
<1>2. ASSUME NEW t \in Threads, current[t] \in FlagAndTwo
      PROVE  current[t] - (INT_MIN + 1) \in INT_MIN .. Cardinality(Threads)
    BY <1>2, Unflag, LockAssumption
<1>3. ASSUME NEW t \in Threads, pc[t] \in {"wait", "asleep"} PROVE current[t] \in FlagAndTwo
    BY <1>3 DEF IInv, Counted
<1> USE <1>1 DEF TypeOK, Trying, Marked, Holds, Leaving
<1>4. ASSUME NEW t \in Threads, call_lock(t) PROVE Rest
    BY <1>4 DEF call_lock, Goto, locals
<1>5. ASSUME NEW t \in Threads, read_need_locks(t) PROVE Rest
    BY <1>5 DEF read_need_locks, Goto, thread_list
<1>6. ASSUME NEW t \in Threads, fast_path(t) PROVE Rest
    BY <1>6 DEF fast_path, a_cas, Goto, thread_list
<1>7. ASSUME NEW t \in Threads, reset_need_locks(t) PROVE Rest
    BY <1>7 DEF reset_need_locks, Goto
<1>8. ASSUME NEW t \in Threads, spin(t) PROVE Rest
    BY <1>8 DEF spin, LastSpin, a_cas, Goto, thread_list
<1>9. ASSUME NEW t \in Threads, mark(t) PROVE Rest
    BY <1>9 DEF mark, Goto, thread_list
<1>10. ASSUME NEW t \in Threads, loop(t) PROVE Rest
    BY <1>10 DEF loop, Goto, locals, thread_list
<1>11. ASSUME NEW t \in Threads, futexwait(t) PROVE Rest
    BY <1>2, <1>3, <1>11 DEF futexwait, Woken, Goto, thread_list
<1>12. ASSUME NEW t \in Threads, acquire(t) PROVE Rest
    BY <1>12 DEF acquire, a_cas, Goto, thread_list
<1>13. ASSUME NEW t \in Threads, interrupted(t) PROVE Rest
    BY <1>2, <1>3, <1>13 DEF interrupted, Woken, Goto, thread_list
<1>14. ASSUME NEW t \in Threads, leave_cs(t) PROVE Rest
    BY <1>14 DEF leave_cs, Goto, locals, thread_list
<1>15. ASSUME NEW t \in Threads, test_word(t) PROVE Rest
    BY <1>15 DEF test_word, AfterUnlock, Goto, locals, thread_list
<1>16. ASSUME NEW t \in Threads, release(t) PROVE Rest
    BY <1>16 DEF release, AfterUnlock, Goto, locals, thread_list
<1>17. ASSUME NEW t \in Threads, wake(t) PROVE Rest
  <2>1. CASE Goto(t, AfterUnlock(t)) /\ current' = current
    BY <1>17, <2>1 DEF wake, AfterUnlock, Goto, thread_list
  <2>2. ASSUME NEW u \in Threads, pc[u] = "asleep",
               pc' = [pc EXCEPT ![t] = AfterUnlock(t), ![u] = "cas"],
               current' = [current EXCEPT ![u] = @ - (INT_MIN + 1)]
        PROVE  Rest
    BY <1>2, <1>3, <1>17, <2>2 DEF wake, AfterUnlock, thread_list
  <2> QED
    BY <1>17, <2>1, <2>2 DEF wake
<1>18. ASSUME NEW t \in Threads, create_count(t) PROVE Rest
    BY <1>18 DEF create_count, Goto, locals
<1>19. ASSUME NEW t \in Threads, clone_fails(t) PROVE Rest
    BY <1>19 DEF clone_fails, Goto, locals
<1>20. ASSUME NEW t \in Threads, exit_list_lock(t) PROVE Rest
    BY <1>20 DEF exit_list_lock, Goto, locals
<1>21. ASSUME NEW t \in Threads, exit_uncount(t) \/ exit_unlink(t) \/ sys_exit(t)
       PROVE  Rest
    BY <1>21 DEF exit_uncount, exit_unlink, sys_exit, Goto, locals
<1>22. ASSUME NEW t \in Threads, NEW u \in Threads, clone(t, u) PROVE Rest
    BY <1>22 DEF clone, locals
<1>23. CASE UNCHANGED vars
    BY <1>23 DEF vars
<1>24. Rest
    BY <1>4, <1>5, <1>6, <1>7, <1>8, <1>9, <1>10, <1>11, <1>12, <1>13, <1>14, <1>15, <1>16, <1>17, <1>18, <1>19, <1>20, <1>21, <1>22, <1>23 DEF Next, Lock, Unlock, Create, Exit
<1> QED
    BY <1>24, RangeStep

\* main() runs alone.
LEMMA InvInit == Init => IInv
<1> SUFFICES ASSUME Init PROVE IInv
    OBVIOUS
<1> USE LockAssumption DEF Init
<1>1. Cardinality(Threads) \in Nat
    BY ThreadSets, Threads \in SUBSET Threads
<1>2. TypeOK
    BY <1>1 DEF TypeOK, Leaving
<1>3. \A t \in Threads : AtLabel(t)
    BY DEF AtLabel, Trying, Marked, Holds, Leaving
<1>4. \A t \in Threads : Counted(t)
    BY DEF Counted
<1>5. ListLock
    BY DEF ListLock, HasList
<1>6. Accounting
  <2>1. Users = {Main} /\ Cardinality({Main}) = 1
    BY FS_Singleton DEF Users, Leaving
  <2>2. ~Creating
    BY DEF Creating
  <2> QED
    BY <2>1, <2>2 DEF Accounting
<1>7. \A t \in Threads : ~Owner(t) /\ pc[t] \notin Marked
    BY DEF Owner, Holds, Marked
<1>8. Owners = {} /\ Inside = {}
    BY <1>7 DEF Owners, Inside
<1>9. OneOwner /\ Congestion
    BY <1>7, <1>8, FS_EmptySet DEF OneOwner, Congestion
<1> QED
    BY <1>2, <1>3, <1>4, <1>5, <1>6, <1>9 DEF IInv

\* The strengthened invariant holds in every reachable state.
LEMMA Invariance == Spec => []IInv
<1>1. IInv /\ [Next]_vars => IInv'
    BY TypeStep, LabelStep, CountedStep, ListStep, AccountStep, WordStep DEF IInv
<1> QED
    BY InvInit, <1>1, PTL DEF Spec

-----------------------------------------------------------------------------
(* The theorems.                                                           *)

\* Every variable keeps its type: the word neither over- nor underflows,
\* threads_minus_1 never drops below 0.
THEOREM TypeCorrect == Spec => []TypeOK
<1>1. IInv => TypeOK
    BY DEF IInv
<1> QED
    BY Invariance, <1>1, PTL

\* At most one thread is between LOCK and UNLOCK, whether it took the lock or
\* skipped it.
THEOREM LockExcludes == Spec => []MutualExclusion
<1>1. IInv => MutualExclusion
  <2> SUFFICES ASSUME IInv, NEW t \in Threads, NEW u \in Threads,
                      pc[t] \in Holds, pc[u] \in Holds
               PROVE  t = u
    BY DEF MutualExclusion
  <2>1. pc[t] \notin Leaving /\ pc[u] \notin Leaving
    BY DEF Holds, Leaving
  <2>2. CASE seen[t] = 0 \/ seen[u] = 0
    BY <2>1, <2>2 DEF IInv, AtLabel, Alone, Holds
  <2>3. CASE seen[t] # 0 /\ seen[u] # 0
    BY <2>3 DEF IInv, OneOwner, Owner
  <2> QED
    BY <2>2, <2>3
<1> QED
    BY Invariance, <1>1, PTL

\* The word is the number of threads inside, with the flag if one owns it.
THEOREM WordCounts == Spec => []Congestion
<1>1. IInv => Congestion
    BY DEF IInv
<1> QED
    BY Invariance, <1>1, PTL

\* The comment in __lock: "the count includes us already".
THEOREM CountIncludes == Spec => []CountIncludesUs
<1>1. IInv => CountIncludesUs
  <2> SUFFICES ASSUME IInv, NEW t \in Threads, pc[t] = "cas" PROVE current[t] > 0
    BY DEF CountIncludesUs
  <2>1. current[t] >= 1 /\ current[t] \in Int
    BY LockAssumption, ThreadSets, Threads \in SUBSET Threads DEF IInv, Counted, TypeOK
  <2> QED
    BY <2>1
<1> QED
    BY Invariance, <1>1, PTL

\* LOCK is skipped, and need_locks put back to 0, only by the one thread left
\* that can call it, whether or not the last of the others has reached SYS_exit.
THEOREM SkipIsSafe == Spec => []SkipOnlyAlone
<1>1. IInv => SkipOnlyAlone
  <2> SUFFICES ASSUME IInv PROVE SkipOnlyAlone
    OBVIOUS
  <2>1. ASSUME need_locks # 1 PROVE \E t \in Threads : Alone(t) /\ pc[t] \notin Leaving
    <3>1. Users \in SUBSET Threads /\ Users # {} /\ Cardinality(Users) = 1
      BY <2>1 DEF Users, IInv, Accounting
    <3>2. PICK t \in Users : Users = {t}
      BY <3>1, OnlyOne
    <3> QED
      BY <3>2 DEF Users, Alone
  <2> QED
    BY <2>1 DEF IInv, AtLabel, SkipOnlyAlone
<1> QED
    BY Invariance, <1>1, PTL

-----------------------------------------------------------------------------
(* No wake-up is lost.                                                     *)

\* Thread t will wake a sleeper, or is itself after the lock and awake: it owns
\* the lock and so has its release before it, it is about to call __wake, or it
\* is in the loop of __lock.
Up(t) == Owner(t) \/ pc[t] \in {"wake", "loop", "wait", "cas"}

\* Nobody sleeps in FUTEX_WAIT with all the others gone to sleep or away: what
\* __unlock's test of the word, __wake(l, 1, 1) and the test of the word in
\* FUTEX_WAIT are for.
SleepersHaveHelp ==
    (\E t \in Threads : pc[t] = "asleep") => \E u \in Threads : Up(u)

\* A step after which nobody sleeps who did not, and everybody is up who was.
Harmless == \A v \in Threads : (pc'[v] = "asleep" => pc[v] = "asleep") /\ (Up(v) => Up(v)')

\* Nearly every step is one.
LEMMA HarmlessSteps ==
    ASSUME IInv, NEW t \in Threads,
           \/ call_lock(t) \/ read_need_locks(t) \/ fast_path(t) \/ reset_need_locks(t)
           \/ spin(t) \/ mark(t) \/ loop(t) \/ acquire(t) \/ interrupted(t) \/ leave_cs(t)
           \/ test_word(t) \/ create_count(t) \/ clone_fails(t)
           \/ (\E u \in Threads : clone(t, u)) \/ Exit(t)
    PROVE  Harmless
<1> USE DEF IInv, TypeOK, AtLabel, Leaving, Harmless, Up, Owner, Marked, Holds, Trying
<1>1. CASE call_lock(t)
    BY <1>1 DEF call_lock, Goto, locals
<1>2. CASE read_need_locks(t)
    BY <1>2 DEF read_need_locks, Goto, thread_list
<1>3. CASE fast_path(t)
    BY <1>3 DEF fast_path, a_cas, Goto, thread_list
<1>4. CASE reset_need_locks(t)
    BY <1>4 DEF reset_need_locks, Goto
<1>5. CASE spin(t)
    BY <1>5 DEF spin, a_cas, Goto, thread_list
<1>6. CASE mark(t)
    BY <1>6 DEF mark, Goto, thread_list
<1>7. CASE loop(t)
    BY <1>7 DEF loop, Goto, locals, thread_list
<1>8. CASE acquire(t)
    BY <1>8 DEF acquire, a_cas, Goto, thread_list
<1>9. CASE interrupted(t)
    BY <1>9 DEF interrupted, Woken, Goto, thread_list
<1>10. CASE leave_cs(t)
    BY <1>10 DEF leave_cs, Goto, locals, thread_list
<1>11. CASE test_word(t)
  <2>1. Owner(t) => l < 0
    BY WordTells DEF Owners
  <2> QED
    BY <1>11, <2>1 DEF test_word, AfterUnlock, Goto, locals, thread_list
<1>12. CASE create_count(t)
    BY <1>12 DEF create_count, Goto, locals
<1>13. CASE clone_fails(t)
    BY <1>13 DEF clone_fails, Goto, locals
<1>14. ASSUME NEW u \in Threads, clone(t, u) PROVE Harmless
    BY <1>14 DEF clone, locals
<1>15. CASE exit_list_lock(t)
    BY <1>15 DEF exit_list_lock, Goto, locals
<1>16. CASE exit_uncount(t) \/ exit_unlink(t) \/ sys_exit(t)
    BY <1>16 DEF exit_uncount, exit_unlink, sys_exit, Goto, locals
<1> QED
    BY <1>1, <1>2, <1>3, <1>4, <1>5, <1>6, <1>7, <1>8, <1>9, <1>10, <1>11, <1>12, <1>13,
       <1>14, <1>15, <1>16 DEF Exit

\* A thread sleeps only if the word it saw, with the flag, is still there: then
\* there is an owner.
LEMMA SleepStep ==
    ASSUME IInv, SleepersHaveHelp, NEW t \in Threads, futexwait(t)
    PROVE  SleepersHaveHelp'
<1> USE DEF IInv, TypeOK, AtLabel, Leaving, Up, Owner, Marked, Holds, Trying
<1>1. CASE has_futex /\ l = current[t]
  <2>1. l \in FlagAndTwo
    BY <1>1 DEF futexwait, Counted
  <2>2. l < 0
    BY <2>1, LockAssumption, ThreadSets, Threads \in SUBSET Threads DEF FlagAndTwo
  <2>3. Owners # {}
    BY <2>2, WordTells
  <2>4. PICK u \in Threads : Owner(u)
    BY <2>3 DEF Owners
  <2>5. Owner(u)'
    BY <1>1, <2>4 DEF futexwait, Goto
  <2> QED
    BY <2>5 DEF SleepersHaveHelp
<1>2. CASE ~(has_futex /\ l = current[t])
  <2>1. Up(t)'
    BY <1>2 DEF futexwait, Woken, Goto
  <2> QED
    BY <2>1 DEF SleepersHaveHelp
<1> QED
    BY <1>1, <1>2

\* The owner that lets go while others are inside goes on to __wake.
LEMMA LetGoStep ==
    ASSUME IInv, NEW t \in Threads, release(t)
    PROVE  SleepersHaveHelp'
<1> USE DEF IInv, TypeOK, AtLabel, Leaving, Marked, Holds, Trying
<1>1. Owner(t)
    BY DEF release, Owner
<1>2. SUFFICES ASSUME NEW v \in Threads, pc'[v] = "asleep" PROVE Up(t)'
    BY DEF SleepersHaveHelp
<1>3. pc[v] = "asleep" /\ v # t
    BY <1>2 DEF release, Goto, AfterUnlock
<1>4. Inside \in SUBSET Threads /\ t \in Inside /\ v \in Inside /\ Owners # {}
    BY <1>1, <1>3 DEF Inside, Owners
<1>5. Cardinality(Inside) >= 2
    BY <1>3, <1>4, TwoThreads
<1>6. l # INT_MIN + 1
    BY <1>4, <1>5, WordTells, LockAssumption
<1> QED
    BY <1>6 DEF release, Goto, Up

\* __wake finds nobody asleep, or leaves one more thread in the loop.
LEMMA WakeStep ==
    ASSUME IInv, NEW t \in Threads, wake(t)
    PROVE  SleepersHaveHelp'
<1> USE DEF IInv, TypeOK
<1>1. CASE (\A u \in Threads : pc[u] # "asleep") /\ Goto(t, AfterUnlock(t))
    BY <1>1 DEF Goto, AfterUnlock, SleepersHaveHelp
<1>2. ASSUME NEW u \in Threads, pc[u] = "asleep",
             pc' = [pc EXCEPT ![t] = AfterUnlock(t), ![u] = "cas"]
      PROVE  SleepersHaveHelp'
  <2>1. pc'[u] = "cas"
    BY <1>2
  <2> QED
    BY <2>1 DEF SleepersHaveHelp, Up
<1> QED
    BY <1>1, <1>2 DEF wake

\* As long as a thread sleeps in FUTEX_WAIT, another owns the lock, is about to
\* wake a sleeper, or is awake in the loop of __lock: the wake-up after UNLOCK
\* is never lost, whoever barged in.  This is the safety half of LockProgress.
THEOREM WakeupNotLost == Spec => []SleepersHaveHelp
<1>1. Init => SleepersHaveHelp
    BY DEF Init, SleepersHaveHelp
<1>2. IInv /\ SleepersHaveHelp /\ [Next]_vars => SleepersHaveHelp'
  <2> SUFFICES ASSUME IInv, SleepersHaveHelp, [Next]_vars PROVE SleepersHaveHelp'
    OBVIOUS
  <2>1. Harmless => SleepersHaveHelp'
    BY DEF Harmless, SleepersHaveHelp
  <2>2. CASE UNCHANGED vars
    BY <2>2 DEF vars, SleepersHaveHelp, Up, Owner
  <2> QED
    BY <2>1, <2>2, HarmlessSteps, SleepStep, LetGoStep, WakeStep
       DEF Next, Lock, Unlock, Create, Exit
<1> QED
    BY Invariance, <1>1, <1>2, PTL DEF Spec

=============================================================================
