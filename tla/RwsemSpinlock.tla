--------------------------- MODULE RwsemSpinlock ---------------------------
(***************************************************************************)
(* lib/rwsem-spinlock.c, the rw_semaphore of a kernel configured for the   *)
(* 386 (CONFIG_RWSEM_GENERIC_SPINLOCK): mm->mmap_sem and every other       *)
(* rw_semaphore of gray386linux.                                           *)
(*                                                                         *)
(* What runs under sem->wait_lock with interrupts off is one step.  The    *)
(* loop that waits "to be given the lock" is not: its test of waiter.task, *)
(* its call of schedule() and its set_task_state() are steps between which *)
(* the lock may be handed over.                                            *)
(***************************************************************************)
EXTENDS Integers, Sequences, FiniteSets

CONSTANT Tasks

ASSUME TasksAssumption == IsFiniteSet(Tasks)

VARIABLES
    activity,   \* sem->activity: readers inside, or -1 for a writer
    wait_list,  \* the tasks whose struct rwsem_waiter is on sem->wait_list
    flags,      \* waiter.flags of each task's last waiter
    waiting,    \* waiter.task # NULL
    state,      \* the scheduler's tsk->state
    pc          \* where each task is

vars == << activity, wait_list, flags, waiting, state, pc >>

Mode   == {"read", "write"}
InLoop == {"test", "schedule", "set_state"}

TypeOK ==
    /\ activity \in -1 .. Cardinality(Tasks)
    /\ wait_list \in Seq(Tasks)
    /\ flags \in [Tasks -> Mode]
    /\ waiting \in [Tasks -> BOOLEAN]
    /\ state \in [Tasks -> {"RUNNING", "UNINTERRUPTIBLE"}]
    /\ pc \in [Tasks -> {"out"} \cup Mode \cup InLoop]

\* __init_rwsem
Init ==
    /\ activity = 0
    /\ wait_list = << >>
    /\ flags = [t \in Tasks |-> "read"]
    /\ waiting = [t \in Tasks |-> FALSE]
    /\ state = [t \in Tasks |-> "RUNNING"]
    /\ pc = [t \in Tasks |-> "out"]

-----------------------------------------------------------------------------
(* Handing the lock over, with wait_lock held.                             *)

\* Mutant of HandOver: waiter.task is cleared, wake_up_process forgotten.
HandOver_NoWakeup(S) ==
    /\ waiting' = [t \in Tasks |-> waiting[t] /\ t \notin S]
    /\ state' = state

\* waiter->task = NULL; wake_up_process(tsk), for the tasks of S.
HandOver(S) ==
    /\ waiting' = [t \in Tasks |-> waiting[t] /\ t \notin S]
    /\ state' = [t \in Tasks |-> IF t \in S THEN "RUNNING" ELSE state[t]]

rwsem_wake_one_writer ==
    /\ activity' = -1
    /\ wait_list' = Tail(wait_list)
    /\ HandOver({Head(wait_list)})

\* Mutant of wake_readers: only the reader at the front gets the lock.
wake_readers_First(a) ==
    /\ activity' = a + 1
    /\ wait_list' = Tail(wait_list)
    /\ HandOver({Head(wait_list)})

\* The loop at dont_wake_writers, with a the value activity has there: the k
\* readers before the first writer leave the queue together.
wake_readers(a) ==
    \E k \in 1 .. Len(wait_list) :
        /\ \A i \in 1 .. k : flags[wait_list[i]] = "read"
        /\ k < Len(wait_list) => flags[wait_list[k + 1]] = "write"
        /\ activity' = a + k
        /\ wait_list' = SubSeq(wait_list, k + 1, Len(wait_list))
        /\ HandOver({wait_list[i] : i \in 1 .. k})

\* Mutant of rwsem_do_wake: wakewrite is not looked at.
rwsem_do_wake_Always(a, wakewrite) ==
    IF flags[Head(wait_list)] = "write" THEN rwsem_wake_one_writer
                                        ELSE wake_readers(a)

rwsem_do_wake(a, wakewrite) ==
    \/ /\ flags[Head(wait_list)] = "write"
       /\ wakewrite
       /\ rwsem_wake_one_writer
    \/ /\ flags[Head(wait_list)] = "write"
       /\ ~wakewrite
       /\ activity' = a
       /\ UNCHANGED << wait_list, waiting, state >>
    \/ /\ flags[Head(wait_list)] = "read"
       /\ wake_readers(a)

-----------------------------------------------------------------------------
(* The operations.                                                         *)

\* Mutant of may_read: a reader overtakes the writers that wait.
may_read_Overtakes == activity >= 0

may_read  == activity >= 0 /\ wait_list = << >>
may_write == activity = 0 /\ wait_list = << >>

\* "granted": the lock is taken without waiting.
Take(t, mode) ==
    /\ pc[t] = "out"
    /\ IF mode = "read" THEN may_read /\ activity' = activity + 1
                        ELSE may_write /\ activity' = -1
    /\ pc' = [pc EXCEPT ![t] = mode]
    /\ UNCHANGED << wait_list, flags, waiting, state >>

\* "set up my own style of waitqueue"
Enqueue(t, mode) ==
    /\ pc[t] = "out"
    /\ IF mode = "read" THEN ~may_read ELSE ~may_write
    /\ state' = [state EXCEPT ![t] = "UNINTERRUPTIBLE"]
    /\ waiting' = [waiting EXCEPT ![t] = TRUE]
    /\ flags' = [flags EXCEPT ![t] = mode]
    /\ wait_list' = Append(wait_list, t)
    /\ pc' = [pc EXCEPT ![t] = "test"]
    /\ UNCHANGED activity

down_read(t)  == Take(t, "read") \/ Enqueue(t, "read")
down_write(t) == Take(t, "write") \/ Enqueue(t, "write")

\* A trylock that fails returns 0 and changes nothing.
down_read_trylock(t)  == Take(t, "read")
down_write_trylock(t) == Take(t, "write")

\* "wait to be given the lock"
test_waiter(t) ==
    /\ pc[t] = "test"
    /\ IF waiting[t]
       THEN pc' = [pc EXCEPT ![t] = "schedule"] /\ state' = state
       ELSE /\ pc' = [pc EXCEPT ![t] = flags[t]]
            /\ state' = [state EXCEPT ![t] = "RUNNING"]
    /\ UNCHANGED << activity, wait_list, flags, waiting >>

\* schedule() returns to a task only when its state is RUNNING.
schedule(t) ==
    /\ pc[t] = "schedule" /\ state[t] = "RUNNING"
    /\ pc' = [pc EXCEPT ![t] = "set_state"]
    /\ UNCHANGED << activity, wait_list, flags, waiting, state >>

\* Mutant of set_task_state: back to schedule() without the test.
set_task_state_NoTest(t) ==
    /\ pc[t] = "set_state"
    /\ state' = [state EXCEPT ![t] = "UNINTERRUPTIBLE"]
    /\ pc' = [pc EXCEPT ![t] = "schedule"]
    /\ UNCHANGED << activity, wait_list, flags, waiting >>

set_task_state(t) ==
    /\ pc[t] = "set_state"
    /\ state' = [state EXCEPT ![t] = "UNINTERRUPTIBLE"]
    /\ pc' = [pc EXCEPT ![t] = "test"]
    /\ UNCHANGED << activity, wait_list, flags, waiting >>

\* wake_up_process by someone who knows the task from elsewhere.
stray_wakeup(t) ==
    /\ state[t] = "UNINTERRUPTIBLE"
    /\ state' = [state EXCEPT ![t] = "RUNNING"]
    /\ UNCHANGED << activity, wait_list, flags, waiting, pc >>

up_read(t) ==
    /\ pc[t] = "read"
    /\ pc' = [pc EXCEPT ![t] = "out"]
    /\ IF activity - 1 = 0 /\ wait_list # << >>
       THEN rwsem_wake_one_writer
       ELSE activity' = activity - 1 /\ UNCHANGED << wait_list, waiting, state >>
    /\ UNCHANGED flags

\* Mutant of up_write: counts down as __up_read does.
up_write_Decrement(t) ==
    /\ pc[t] = "write"
    /\ pc' = [pc EXCEPT ![t] = "out"]
    /\ IF wait_list # << >>
       THEN rwsem_do_wake(0, TRUE)
       ELSE activity' = activity - 1 /\ UNCHANGED << wait_list, waiting, state >>
    /\ UNCHANGED flags

up_write(t) ==
    /\ pc[t] = "write"
    /\ pc' = [pc EXCEPT ![t] = "out"]
    /\ IF wait_list # << >>
       THEN rwsem_do_wake(0, TRUE)
       ELSE activity' = 0 /\ UNCHANGED << wait_list, waiting, state >>
    /\ UNCHANGED flags

downgrade_write(t) ==
    /\ pc[t] = "write"
    /\ pc' = [pc EXCEPT ![t] = "read"]
    /\ IF wait_list # << >>
       THEN rwsem_do_wake(1, FALSE)
       ELSE activity' = 1 /\ UNCHANGED << wait_list, waiting, state >>
    /\ UNCHANGED flags

Wait(t) == test_waiter(t) \/ schedule(t) \/ set_task_state(t)

Next == \E t \in Tasks :
    \/ down_read(t) \/ down_write(t)
    \/ down_read_trylock(t) \/ down_write_trylock(t)
    \/ Wait(t) \/ stray_wakeup(t)
    \/ up_read(t) \/ up_write(t) \/ downgrade_write(t)

Spec == Init /\ [][Next]_vars

\* A runnable task is scheduled, and a task leaves its critical section.
Fairness == \A t \in Tasks :
    /\ WF_vars(Wait(t))
    /\ WF_vars(up_read(t))
    /\ WF_vars(up_write(t) \/ downgrade_write(t))

FairSpec == Spec /\ Fairness

-----------------------------------------------------------------------------
(* Properties.                                                             *)

\* A task holds the lock from the moment it is handed over, before it knows.
Held(t) == IF pc[t] \in Mode THEN pc[t]
           ELSE IF pc[t] \in InLoop /\ ~waiting[t] THEN flags[t]
           ELSE "none"

RL == INSTANCE RwLock WITH
        holders <- [t \in Tasks |-> Held(t)],
        queue <- [i \in 1 .. Len(wait_list) |->
                    [task |-> wait_list[i], mode |-> flags[wait_list[i]]]]

\* A writer in its critical section is alone in it, whichever mix of fast
\* paths, hand-overs by __rwsem_do_wake and downgrades brought the tasks there.
Exclusion ==
    \A t, u \in Tasks : Held(t) = "write" /\ u # t => Held(u) = "none"

\* What __up_read relies on when it hands the lock to the front of the queue
\* without looking at waiter.flags: while readers are inside, a writer is the
\* first to wait; and no queue is left behind a free semaphore.
WriterWaitsFirst ==
    wait_list # << >> =>
        /\ activity # 0
        /\ activity > 0 => flags[Head(wait_list)] = "write"

\* A task that has been given the lock does not sleep on: either it still has
\* to test waiter.task or the wake-up has reached tsk->state.
NoLostWakeup ==
    \A t \in Tasks : pc[t] = "schedule" /\ ~waiting[t] => state[t] = "RUNNING"

\* The semaphore is a fair reader/writer lock: every operation has exactly the
\* effect RwLock allows, in particular it hands over to everyone it may.
ImplementsRwLock == RL!Spec

\* Whoever asks for the lock is given it, readers and writers alike.
EveryoneServed ==
    \A t \in Tasks : pc[t] \in InLoop ~> pc[t] \in Mode
=============================================================================
