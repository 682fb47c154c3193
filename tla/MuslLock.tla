------------------------------ MODULE MuslLock ------------------------------
(***************************************************************************)
(* The lock inside musl (src/thread/__lock.c) that every LOCK() of the C   *)
(* library uses, with what decides whether it is needed at all:            *)
(* libc.need_locks, kept by __pthread_create and __pthread_exit.           *)
(*                                                                         *)
(* a_cas and a_fetch_add are one step each, as lock cmpxchg and lock xadd  *)
(* are on a 486; whether the emulator of the 386 keeps that is the subject *)
(* of EmuAtomic.  has_futex is FALSE on a gray386linux kernel (CONFIG_FUTEX *)
(* is not set there): __futexwait then returns at once and __wake does     *)
(* nothing.                                                                *)
(*                                                                         *)
(* One lock word l stands for any lock of the library.  A thread that      *)
(* exits takes its killlock, which others take to signal it: here that is  *)
(* l as well, for every thread, which only adds contention.                *)
(***************************************************************************)
EXTENDS Integers, FiniteSets

CONSTANTS
    Threads,        \* every thread the process may ever have
    Main,           \* the one that runs main()
    INT_MIN,
    Spins,          \* iterations of the first spin loop, 10 in the code
    Kernels         \* values of CONFIG_FUTEX the process may find

None == "none"

ASSUME LockAssumption ==
    /\ IsFiniteSet(Threads)
    /\ Main \in Threads
    /\ None \notin Threads
    /\ INT_MIN \in Int
    /\ INT_MIN + Cardinality(Threads) < -1
    /\ Spins \in Nat
    /\ Kernels \subseteq BOOLEAN

VARIABLES
    has_futex,          \* the kernel has CONFIG_FUTEX
    l,                  \* the lock word
    need_locks,         \* libc.need_locks
    threads_minus_1,    \* libc.threads_minus_1
    list_lock,          \* the thread that has __thread_list_lock
    listed,             \* the threads linked by next and prev
    pc,
    current,            \* __lock's local variables: current,
    seen,               \*   need_locks as read on entry,
    i,                  \*   the spin count
    exiting             \* threads inside __pthread_exit

vars == << has_futex, l, need_locks, threads_minus_1, list_lock, listed, pc, current,
           seen, i, exiting >>

locals == << current, seen, i >>
thread_list == << has_futex, need_locks, threads_minus_1, list_lock, listed, exiting >>

\* Counted in the lock word: the thread that holds it, and those past "mark
\* ourselves as being inside the CS".
Marked == {"loop", "wait", "asleep", "cas"}
Holds  == {"cs", "unlock", "add"}
Trying == {"lock", "cas0", "reset", "spin", "mark"} \cup Marked

\* Past the last LOCK a thread can call: it has counted itself out, and is
\* unlinking itself, on its way to SYS_exit, or gone.
Leaving == {"unlink", "sys_exit", "exited"}

TypeOK ==
    /\ has_futex \in BOOLEAN
    /\ l \in INT_MIN .. Cardinality(Threads)
    /\ need_locks \in {-1, 0, 1}
    /\ threads_minus_1 \in 0 .. Cardinality(Threads)
    /\ list_lock \in Threads \cup {None}
    /\ listed \subseteq Threads
    /\ pc \in [Threads -> {"idle", "wake", "create", "uncount"}
                            \cup Trying \cup Holds \cup Leaving]
    /\ current \in [Threads -> INT_MIN .. Cardinality(Threads)]
    /\ seen \in [Threads -> {-1, 0, 1}]
    /\ i \in [Threads -> 0 .. Spins]
    /\ exiting \subseteq Threads

Init ==
    /\ has_futex \in Kernels
    /\ l = 0
    /\ need_locks = 0
    /\ threads_minus_1 = 0
    /\ list_lock = None
    /\ listed = {Main}
    /\ pc = [t \in Threads |-> IF t = Main THEN "idle" ELSE "exited"]
    /\ current = [t \in Threads |-> 0]
    /\ seen = [t \in Threads |-> 0]
    /\ i = [t \in Threads |-> 0]
    /\ exiting = {}

Goto(t, label) == pc' = [pc EXCEPT ![t] = label]

\* a_cas(l, old, new) by t, which goes to ok or to fail.  A failure leaves the
\* value found in current; after a success __lock returns and current is dead.
a_cas(t, old, new, ok, fail) ==
    IF l = old
    THEN l' = new /\ Goto(t, ok) /\ current' = [current EXCEPT ![t] = 0]
    ELSE l' = l /\ Goto(t, fail) /\ current' = [current EXCEPT ![t] = l]

-----------------------------------------------------------------------------
(* __lock                                                                  *)

\* Calls of LOCK by a thread that is not exiting, and by __pthread_exit for
\* the killlock.
call_lock(t) ==
    /\ pc[t] = "idle"
    /\ Goto(t, "lock")
    /\ \/ exiting' = exiting
       \/ exiting' = exiting \cup {t}
    /\ UNCHANGED << has_futex, l, need_locks, threads_minus_1, list_lock, listed >>
    /\ UNCHANGED locals

read_need_locks(t) ==
    /\ pc[t] = "lock"
    /\ seen' = [seen EXCEPT ![t] = need_locks]
    /\ Goto(t, IF need_locks = 0 THEN "cs" ELSE "cas0")
    /\ UNCHANGED << l, current, i >> /\ UNCHANGED thread_list

\* "fast path: INT_MIN for the lock, +1 for the congestion"
fast_path(t) ==
    /\ pc[t] = "cas0"
    /\ a_cas(t, 0, INT_MIN + 1, "reset", "reset")
    /\ UNCHANGED << seen, i >> /\ UNCHANGED thread_list

\* "if (need_locks < 0) libc.need_locks = 0; if (!current) return;"
reset_need_locks(t) ==
    /\ pc[t] = "reset"
    /\ need_locks' = IF seen[t] < 0 THEN 0 ELSE need_locks
    /\ Goto(t, IF current[t] = 0 THEN "cs" ELSE IF Spins = 0 THEN "mark" ELSE "spin")
    /\ i' = [i EXCEPT ![t] = 0]
    /\ UNCHANGED << has_futex, l, current, seen, threads_minus_1, list_lock, listed, exiting >>

\* The value current stands for once its lock flag is taken off.
Unflagged(c) == IF c < 0 THEN c - (INT_MIN + 1) ELSE c

LastSpin(t) == i[t] + 1 >= Spins

\* Mutant of spin: takes the lock although it is held.
spin_Flagged(t) ==
    /\ pc[t] = "spin"
    /\ LET c == current[t] IN
         a_cas(t, c, INT_MIN + (Unflagged(c) + 1), "cs",
               IF LastSpin(t) THEN "mark" ELSE "spin")
    /\ i' = [i EXCEPT ![t] = IF LastSpin(t) THEN 0 ELSE @ + 1]
    /\ UNCHANGED seen /\ UNCHANGED thread_list

\* One iteration of the "first spin loop, for medium congestion".
spin(t) ==
    /\ pc[t] = "spin"
    /\ LET c == Unflagged(current[t]) IN
         a_cas(t, c, INT_MIN + (c + 1), "cs",
               IF LastSpin(t) THEN "mark" ELSE "spin")
    /\ i' = [i EXCEPT ![t] = IF LastSpin(t) THEN 0 ELSE @ + 1]
    /\ UNCHANGED seen /\ UNCHANGED thread_list

\* "mark ourselves as being inside the CS": a_fetch_add(l, 1) + 1
mark(t) ==
    /\ pc[t] = "mark"
    /\ l' = l + 1
    /\ current' = [current EXCEPT ![t] = l + 1]
    /\ Goto(t, "loop")
    /\ UNCHANGED << seen, i >> /\ UNCHANGED thread_list

\* "We can only go into wait, if we know that somebody holds the lock"
loop(t) ==
    /\ pc[t] = "loop"
    /\ Goto(t, IF current[t] < 0 THEN "wait" ELSE "cas")
    /\ UNCHANGED l /\ UNCHANGED locals /\ UNCHANGED thread_list

\* Mutant of Woken: the lock flag stays in current.
Woken_Flagged(t) ==
    /\ Goto(t, "cas")
    /\ current' = current

\* __futexwait has returned: current -= INT_MIN + 1.
Woken(t) ==
    /\ Goto(t, "cas")
    /\ current' = [current EXCEPT ![t] = @ - (INT_MIN + 1)]

\* __futexwait sleeps if the word still has the value current.
futexwait(t) ==
    /\ pc[t] = "wait"
    /\ IF has_futex /\ l = current[t]
       THEN Goto(t, "asleep") /\ current' = current
       ELSE Woken(t)
    /\ UNCHANGED << l, seen, i >> /\ UNCHANGED thread_list

\* FUTEX_WAIT returns without a wake-up, because of a signal.
interrupted(t) ==
    /\ pc[t] = "asleep"
    /\ Woken(t)
    /\ UNCHANGED << l, seen, i >> /\ UNCHANGED thread_list

\* "a successful lock via the CAS that acquires the lock"
acquire(t) ==
    /\ pc[t] = "cas"
    /\ a_cas(t, current[t], INT_MIN + current[t], "cs", "loop")
    /\ UNCHANGED << seen, i >> /\ UNCHANGED thread_list

-----------------------------------------------------------------------------
(* __unlock                                                                *)

\* Where a thread goes when UNLOCK returns.
AfterUnlock(t) == IF t \in exiting THEN "uncount" ELSE "idle"

leave_cs(t) ==
    /\ pc[t] = "cs" /\ t \notin exiting
    /\ Goto(t, "unlock")
    /\ UNCHANGED l /\ UNCHANGED locals /\ UNCHANGED thread_list

\* "Check l[0] to see if we are multi-threaded."
test_word(t) ==
    /\ pc[t] = "unlock"
    /\ Goto(t, IF l < 0 THEN "add" ELSE AfterUnlock(t))
    /\ UNCHANGED l /\ UNCHANGED locals /\ UNCHANGED thread_list

\* Mutant of release: drops the flag and keeps the count.
release_KeepsCount(t) ==
    /\ pc[t] = "add"
    /\ l' = l - INT_MIN
    /\ Goto(t, IF l # INT_MIN + 1 THEN "wake" ELSE AfterUnlock(t))
    /\ UNCHANGED locals /\ UNCHANGED thread_list

\* Mutant of release: never wakes.
release_NoWake(t) ==
    /\ pc[t] = "add"
    /\ l' = l - (INT_MIN + 1)
    /\ Goto(t, AfterUnlock(t))
    /\ UNCHANGED locals /\ UNCHANGED thread_list

\* a_fetch_add(l, -(INT_MIN + 1)), and a wake-up if others are inside.
release(t) ==
    /\ pc[t] = "add"
    /\ l' = l - (INT_MIN + 1)
    /\ Goto(t, IF l # INT_MIN + 1 THEN "wake" ELSE AfterUnlock(t))
    /\ UNCHANGED locals /\ UNCHANGED thread_list

\* __wake(l, 1, 1): one sleeper, if there is one, goes on.
wake(t) ==
    /\ pc[t] = "wake"
    /\ \/ /\ \A u \in Threads : pc[u] # "asleep"
          /\ Goto(t, AfterUnlock(t))
          /\ current' = current
       \/ \E u \in Threads :
            /\ pc[u] = "asleep"
            /\ pc' = [pc EXCEPT ![t] = AfterUnlock(t), ![u] = "cas"]
            /\ current' = [current EXCEPT ![u] = @ - (INT_MIN + 1)]
    /\ UNCHANGED << l, seen, i >> /\ UNCHANGED thread_list

-----------------------------------------------------------------------------
(* __pthread_create and __pthread_exit                                     *)

\* __tl_lock(); if (!libc.threads_minus_1++) libc.need_locks = 1;  What comes
\* before it prepares the new thread's stack, and returns if that fails.
create_count(t) ==
    /\ pc[t] = "idle" /\ list_lock = None /\ listed # Threads
    /\ list_lock' = t
    /\ threads_minus_1' = threads_minus_1 + 1
    /\ need_locks' = IF threads_minus_1 = 0 THEN 1 ELSE need_locks
    /\ Goto(t, "create")
    /\ UNCHANGED << has_futex, l, listed, exiting >> /\ UNCHANGED locals

\* __clone succeeds and the new thread u runs; __tl_unlock().
clone(t, u) ==
    /\ pc[t] = "create" /\ u \notin listed
    /\ listed' = listed \cup {u}
    /\ list_lock' = None
    /\ pc' = [pc EXCEPT ![t] = "idle", ![u] = "idle"]
    /\ UNCHANGED << has_futex, l, need_locks, threads_minus_1, exiting >> /\ UNCHANGED locals

\* __clone fails: if (!--libc.threads_minus_1) libc.need_locks = 0.
clone_fails(t) ==
    /\ pc[t] = "create"
    /\ threads_minus_1' = threads_minus_1 - 1
    /\ need_locks' = IF threads_minus_1 = 1 THEN 0 ELSE need_locks
    /\ list_lock' = None
    /\ Goto(t, "idle")
    /\ UNCHANGED << has_futex, l, listed, exiting >> /\ UNCHANGED locals

\* Mutant of exit_list_lock: resets need_locks with the killlock still held.
exit_list_lock_Early(t) ==
    /\ pc[t] = "cs" /\ t \in exiting /\ list_lock = None
    /\ Goto(t, "unlock")
    /\ IF listed = {t}
       THEN exiting' = exiting \ {t} /\ list_lock' = None
       ELSE exiting' = exiting /\ list_lock' = t
    /\ need_locks' = IF threads_minus_1 = 1 THEN -1 ELSE need_locks
    /\ UNCHANGED << has_futex, l, threads_minus_1, listed >> /\ UNCHANGED locals

\* In __pthread_exit, with the killlock held: __tl_lock(), and back out if this
\* is the only thread in the list.
exit_list_lock(t) ==
    /\ pc[t] = "cs" /\ t \in exiting /\ list_lock = None
    /\ Goto(t, "unlock")
    /\ IF listed = {t}
       THEN exiting' = exiting \ {t} /\ list_lock' = None
       ELSE exiting' = exiting /\ list_lock' = t
    /\ UNCHANGED << has_futex, l, need_locks, threads_minus_1, listed >> /\ UNCHANGED locals

\* "if (!--libc.threads_minus_1) libc.need_locks = -1;"  The other threads see
\* it at once, while this one is still in the list.  The robust mutexes, the
\* orphaned stdio locks and the clean-up of dlerror come before it.
exit_uncount(t) ==
    /\ pc[t] = "uncount"
    /\ threads_minus_1' = threads_minus_1 - 1
    /\ need_locks' = IF threads_minus_1 = 1 THEN -1 ELSE need_locks
    /\ Goto(t, "unlink")
    /\ UNCHANGED << has_futex, l, list_lock, listed, exiting >> /\ UNCHANGED locals

\* The thread takes itself out of the list; the list lock stays held.
exit_unlink(t) ==
    /\ pc[t] = "unlink"
    /\ listed' = listed \ {t}
    /\ Goto(t, "sys_exit")
    /\ UNCHANGED << has_futex, l, need_locks, threads_minus_1, list_lock, exiting >>
    /\ UNCHANGED locals

\* SYS_exit, or __unmapself for a detached thread: the kernel clears the word at
\* the thread's exit futex address, which is __thread_list_lock.
sys_exit(t) ==
    /\ pc[t] = "sys_exit"
    /\ list_lock' = None
    /\ exiting' = exiting \ {t}
    /\ Goto(t, "exited")
    /\ UNCHANGED << has_futex, l, need_locks, threads_minus_1, listed >>
    /\ UNCHANGED locals

-----------------------------------------------------------------------------
Lock(t) ==
    \/ read_need_locks(t) \/ fast_path(t) \/ reset_need_locks(t) \/ spin(t)
    \/ mark(t) \/ loop(t) \/ futexwait(t) \/ acquire(t)

Unlock(t) == leave_cs(t) \/ test_word(t) \/ release(t) \/ wake(t)

Create(t) == create_count(t) \/ clone_fails(t) \/ \E u \in Threads : clone(t, u)

Exit(t) == exit_list_lock(t) \/ exit_uncount(t) \/ exit_unlink(t) \/ sys_exit(t)

Next == \E t \in Threads :
    call_lock(t) \/ Lock(t) \/ interrupted(t) \/ Unlock(t) \/ Create(t) \/ Exit(t)

Spec == Init /\ [][Next]_vars

\* A thread inside the library goes on; nobody has to call LOCK, start a
\* thread or interrupt one.
Fairness == \A t \in Threads :
    /\ WF_vars(Lock(t) \/ Unlock(t))
    /\ WF_vars(Exit(t))
    /\ WF_vars(clone_fails(t) \/ \E u \in Threads : clone(t, u))

FairSpec == Spec /\ Fairness

-----------------------------------------------------------------------------
(* Properties.                                                             *)

\* At most one thread is between LOCK and UNLOCK, the threads that skipped the
\* atomic operations because need_locks was 0 included.
MutualExclusion ==
    \A t, u \in Threads : pc[t] \in Holds /\ pc[u] \in Holds => t = u

\* __lock.c's account of the word: "the congestion count or'ed with INT_MIN as
\* a lock flag", where the count is the number of threads inside.
Owner(t) ==
    /\ pc[t] \in Holds \/ (pc[t] = "reset" /\ current[t] = 0)
    /\ seen[t] # 0
Owners == {t \in Threads : Owner(t)}
Inside == Owners \cup {t \in Threads : pc[t] \in Marked}
Congestion ==
    l = Cardinality(Inside) + (IF Owners = {} THEN 0 ELSE INT_MIN)

\* The comment "assertion: current > 0, the count includes us already", where
\* __lock is about to take the lock.
CountIncludesUs == \A t \in Threads : pc[t] = "cas" => current[t] > 0

\* No other thread can call LOCK any more: each has counted itself out, though
\* it may still run, and be in the list.
Alone(t) == \A u \in Threads \ {t} : pc[u] \in Leaving

\* need_locks allows LOCK to be skipped only when one thread is left that can
\* still call it, from the moment an exiting thread writes -1 with its way out
\* of the list and SYS_exit still before it; and a thread that read need_locks
\* < 0 on entry to __lock is still that one when it writes need_locks = 0, two
\* steps later: no pthread_create has come between.
SkipOnlyAlone ==
    /\ need_locks # 1 => \E t \in Threads : Alone(t) /\ pc[t] \notin Leaving
    /\ \A t \in Threads : pc[t] \in {"cas0", "reset"} /\ seen[t] < 0 => Alone(t)

\* Somebody gets the lock when somebody wants it: the wake-up after UNLOCK is
\* never lost, whoever barged in.
LockProgress ==
    (\E t \in Threads : pc[t] \in Trying) ~> (\E t \in Threads : pc[t] \in Holds)
=============================================================================
