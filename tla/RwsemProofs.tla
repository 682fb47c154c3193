---------------------------- MODULE RwsemProofs ----------------------------
(***************************************************************************)
(* What holds of RwsemSpinlock for every finite set of tasks.              *)
(*                                                                         *)
(* None of the properties is inductive.  sem->activity says nothing of who *)
(* holds the lock unless it is their number (Count), and a hand-over by    *)
(* __rwsem_do_wake gives the lock to as many tasks as it takes structs     *)
(* off the list only if the list holds every waiter once and nobody else   *)
(* (Distinct, OnList).                                                     *)
(*                                                                         *)
(* Every release is the same step seen from afar: the first k waiters      *)
(* leave the list and are handed the lock (Dequeue).  What that does to    *)
(* the list, to the wake-ups and to the holders is shown once, for all k.  *)
(***************************************************************************)
EXTENDS RwsemSpinlock, FiniteSetTheorems, SequenceTheorems, TLAPS

\* No struct rwsem_waiter is on the list twice.
Distinct ==
    \A i, j \in 1 .. Len(wait_list) : wait_list[i] = wait_list[j] => i = j

\* waiter.task is cleared exactly when the waiter leaves the list.
OnList ==
    \A t \in Tasks : waiting[t] <=> \E i \in 1 .. Len(wait_list) : wait_list[i] = t

\* A waiter on the list belongs to a task in the loop of down_read or
\* down_write: its stack frame is alive.
Loops == \A t \in Tasks : waiting[t] => pc[t] \in InLoop

Readers == {t \in Tasks : Held(t) = "read"}
Writers == {t \in Tasks : Held(t) = "write"}

\* sem->activity is the number of readers, or -1 for a writer.
Count == activity = IF Writers = {} THEN Cardinality(Readers) ELSE -1

\* The list and the tasks on it.
ListInv ==
    /\ wait_list \in Seq(Tasks)
    /\ flags \in [Tasks -> Mode]
    /\ waiting \in [Tasks -> BOOLEAN]
    /\ state \in [Tasks -> {"RUNNING", "UNINTERRUPTIBLE"}]
    /\ pc \in [Tasks -> {"out"} \cup Mode \cup InLoop]
    /\ Distinct
    /\ OnList
    /\ Loops
    /\ NoLostWakeup

IInv ==
    /\ ListInv
    /\ Count
    /\ Exclusion
    /\ WriterWaitsFirst

-----------------------------------------------------------------------------
(* Sets of tasks, and the front of the queue.                              *)

\* Any set of tasks is finite and no larger than Tasks.
LEMMA TaskSets ==
    ASSUME NEW S \in SUBSET Tasks
    PROVE  /\ IsFiniteSet(S)
           /\ Cardinality(S) \in Nat
           /\ Cardinality(S) <= Cardinality(Tasks)
           /\ Cardinality(S) = 0 <=> S = {}
<1>1. IsFiniteSet(S) /\ Cardinality(S) <= Cardinality(Tasks)
    BY TasksAssumption, FS_Subset
<1> QED
    BY <1>1, FS_CardinalityType, FS_EmptySet

\* The first k of a queue without duplicates are k tasks.
LEMMA PrefixCardinality ==
    ASSUME NEW s \in Seq(Tasks), NEW k \in 0 .. Len(s),
           \A i, j \in 1 .. Len(s) : s[i] = s[j] => i = j
    PROVE  /\ {s[i] : i \in 1 .. k} \in SUBSET Tasks
           /\ Cardinality({s[i] : i \in 1 .. k}) = k
<1> DEFINE S == {s[i] : i \in 1 .. k}
<1> DEFINE f == [i \in 1 .. k |-> s[i]]
<1>1. S \in SUBSET Tasks
    BY LenProperties
<1>2. f \in [1 .. k -> S]
    OBVIOUS
<1>3. f \in Injection(1 .. k, S)
    BY <1>2, LenProperties DEF Injection, IsInjective
<1>4. f \in Surjection(1 .. k, S)
    BY <1>2 DEF Surjection
<1>5. ExistsBijection(1 .. k, S)
    BY <1>3, <1>4 DEF ExistsBijection, Bijection
<1>6. k \in Nat
    BY LenProperties
<1> HIDE DEF S, f
<1>7. Cardinality(S) = k
    BY <1>5, <1>6, FS_CountingElements
<1> QED
    BY <1>1, <1>7 DEF S

\* What is left of a queue without duplicates once its first k are gone has no
\* duplicates, and holds the tasks that were not among those k.
LEMMA DropPrefix ==
    ASSUME NEW s \in Seq(Tasks), NEW k \in 0 .. Len(s),
           \A i, j \in 1 .. Len(s) : s[i] = s[j] => i = j
    PROVE  LET r == SubSeq(s, k + 1, Len(s)) IN
           /\ r \in Seq(Tasks)
           /\ Len(r) = Len(s) - k
           /\ \A i \in 1 .. Len(r) : r[i] = s[k + i]
           /\ \A i, j \in 1 .. Len(r) : r[i] = r[j] => i = j
           /\ \A t \in Tasks :
                 (\E i \in 1 .. Len(r) : r[i] = t)
                    <=> /\ \E i \in 1 .. Len(s) : s[i] = t
                        /\ t \notin {s[i] : i \in 1 .. k}
<1> DEFINE r == SubSeq(s, k + 1, Len(s))
<1>1. Len(s) \in Nat /\ k \in Nat /\ \A i \in 1 .. Len(s) : s[i] \in Tasks
    BY LenProperties
<1>2. \A i \in (k + 1) .. Len(s) : s[i] \in Tasks
    BY <1>1
<1>3. /\ r \in Seq(Tasks)
      /\ Len(r) = IF k + 1 <= Len(s) THEN Len(s) - (k + 1) + 1 ELSE 0
      /\ \A i \in 1 .. (Len(s) - (k + 1) + 1) : r[i] = s[(k + 1) + i - 1]
    BY <1>1, <1>2, SubSeqProperties
<1> HIDE DEF r
<1>4. Len(r) = Len(s) - k /\ \A i \in 1 .. Len(r) : r[i] = s[k + i]
    BY <1>1, <1>3
<1>5. ASSUME NEW i \in 1 .. Len(r), NEW j \in 1 .. Len(r), r[i] = r[j] PROVE i = j
  <2>1. k + i \in 1 .. Len(s) /\ k + j \in 1 .. Len(s) /\ s[k + i] = s[k + j]
    BY <1>1, <1>4, <1>5
  <2> QED
    BY <1>1, <2>1
<1>6. ASSUME NEW t \in Tasks
      PROVE  (\E i \in 1 .. Len(r) : r[i] = t)
                <=> /\ \E i \in 1 .. Len(s) : s[i] = t
                    /\ t \notin {s[i] : i \in 1 .. k}
  <2>1. ASSUME NEW i \in 1 .. Len(r), r[i] = t
        PROVE  /\ k + i \in 1 .. Len(s) /\ s[k + i] = t
               /\ t \notin {s[j] : j \in 1 .. k}
    BY <1>1, <1>4, <2>1
  <2>2. ASSUME NEW i \in 1 .. Len(s), s[i] = t, t \notin {s[j] : j \in 1 .. k}
        PROVE  i - k \in 1 .. Len(r) /\ r[i - k] = t
    BY <1>1, <1>4, <2>2
  <2> QED
    BY <2>1, <2>2
<1> QED
    BY <1>3, <1>4, <1>5, <1>6 DEF r

-----------------------------------------------------------------------------
(* Handing over to the first k waiters.                                    *)

Front(k) == {wait_list[i] : i \in 1 .. k}

\* The first k waiters leave the list, with waiter.task cleared and a wake-up.
Dequeue(k) ==
    /\ wait_list' = SubSeq(wait_list, k + 1, Len(wait_list))
    /\ waiting' = [t \in Tasks |-> waiting[t] /\ t \notin Front(k)]
    /\ state' = [t \in Tasks |-> IF t \in Front(k) THEN "RUNNING" ELSE state[t]]
    /\ flags' = flags

\* Not waking anybody is handing over to nobody.
LEMMA DequeueNobody ==
    ASSUME ListInv, UNCHANGED << wait_list, flags, waiting, state >>
    PROVE  Dequeue(0)
<1>1. Front(0) = {}
    BY DEF Front
<1>2. SubSeq(wait_list, 0 + 1, Len(wait_list)) = wait_list
    BY SubSeqFull DEF ListInv
<1> QED
    BY <1>1, <1>2 DEF Dequeue, ListInv

\* __rwsem_wake_one_writer and the first waiter: Dequeue(1).
LEMMA DequeueWriter ==
    ASSUME ListInv, wait_list # << >>, rwsem_wake_one_writer, flags' = flags
    PROVE  Dequeue(1) /\ activity' = -1
<1>1. Len(wait_list) \in Nat \ {0} /\ Head(wait_list) = wait_list[1]
    BY EmptySeq DEF ListInv
<1>2. Front(1) = {Head(wait_list)}
    BY <1>1 DEF Front
<1>3. Tail(wait_list) = SubSeq(wait_list, 1 + 1, Len(wait_list))
    BY TailIsSubSeq DEF ListInv
<1> QED
    BY <1>2, <1>3 DEF Dequeue, rwsem_wake_one_writer, HandOver

\* The holder's mode after thread t goes to label m.
After(m) == IF m \in Mode THEN m ELSE "none"

\* A release that hands over to the first k waiters keeps the list in order,
\* loses no wake-up, and gives each of the k what it has asked for.
LEMMA DequeueKeeps ==
    ASSUME ListInv, NEW k \in 0 .. Len(wait_list), Dequeue(k),
           NEW t \in Tasks, NEW m \in {"out", "read"},
           pc[t] \in Mode, pc' = [pc EXCEPT ![t] = m]
    PROVE  /\ ListInv'
           /\ t \notin Front(k)
           /\ \A u \in Tasks : Held(u)' = IF u = t THEN After(m)
                                        ELSE IF u \in Front(k) THEN flags[u]
                                        ELSE Held(u)
           /\ \A u \in Front(k) : Held(u) = "none"
           /\ Front(k) \in SUBSET Tasks
           /\ Cardinality(Front(k)) = k
<1> USE DEF ListInv
<1>1. /\ Len(wait_list) \in Nat
      /\ \A i \in 1 .. Len(wait_list) : wait_list[i] \in Tasks
    BY LenProperties
<1>2. \A u \in Front(k) : u \in Tasks /\ waiting[u] /\ pc[u] \in InLoop
    BY <1>1 DEF Front, OnList, Loops
<1>3. t \notin Front(k) /\ ~waiting[t]
    BY <1>2 DEF Mode, InLoop, Loops
<1>4. /\ wait_list' \in Seq(Tasks)
      /\ Distinct'
      /\ \A u \in Tasks : (\E i \in 1 .. Len(wait_list') : wait_list'[i] = u)
                  <=> /\ \E i \in 1 .. Len(wait_list) : wait_list[i] = u
                      /\ u \notin Front(k)
  <2>1. \A i, j \in 1 .. Len(wait_list) : wait_list[i] = wait_list[j] => i = j
    BY DEF Distinct
  <2> DEFINE r == SubSeq(wait_list, k + 1, Len(wait_list))
  <2>2. wait_list \in Seq(Tasks) /\ k \in 0 .. Len(wait_list)
    OBVIOUS
  <2>3. /\ r \in Seq(Tasks)
        /\ \A i, j \in 1 .. Len(r) : r[i] = r[j] => i = j
        /\ \A u \in Tasks :
             (\E i \in 1 .. Len(r) : r[i] = u)
                 <=> /\ \E i \in 1 .. Len(wait_list) : wait_list[i] = u
                     /\ u \notin {wait_list[i] : i \in 1 .. k}
    BY ONLY <2>1, <2>2, DropPrefix
  <2>4. wait_list' = r
    BY DEF Dequeue
  <2> HIDE DEF r
  <2> QED
    BY <2>3, <2>4 DEF Distinct, Front
<1>5. OnList'
    BY <1>4 DEF Dequeue, OnList
<1>6. Loops'
    BY <1>3 DEF Loops, Dequeue
<1>7. NoLostWakeup'
    BY <1>3 DEF NoLostWakeup, Dequeue
<1>8. ListInv'
  <2>1. waiting' \in [Tasks -> BOOLEAN]
    BY DEF Dequeue
  <2>2. /\ flags' \in [Tasks -> Mode]
        /\ state' \in [Tasks -> {"RUNNING", "UNINTERRUPTIBLE"}]
        /\ pc' \in [Tasks -> {"out"} \cup Mode \cup InLoop]
    BY DEF Dequeue, Mode
  <2> QED
    BY <1>4, <1>5, <1>6, <1>7, <2>1, <2>2
<1>9. \A u \in Tasks : Held(u)' = IF u = t THEN After(m)
                                ELSE IF u \in Front(k) THEN flags[u]
                                ELSE Held(u)
    BY <1>2, <1>3 DEF Dequeue, Held, After, Mode, InLoop
<1>10. \A u \in Front(k) : Held(u) = "none"
    BY <1>2 DEF Held, Mode, InLoop
<1>11. Front(k) \in SUBSET Tasks /\ Cardinality(Front(k)) = k
    BY PrefixCardinality DEF Front, Distinct
<1> QED
    BY <1>3, <1>8, <1>9, <1>10, <1>11

-----------------------------------------------------------------------------
(* Who holds the lock.                                                     *)

\* What sem->activity tells of the holders.
LEMMA ActivityTells ==
    ASSUME IInv
    PROVE  /\ activity \in -1 .. Cardinality(Tasks)
           /\ \A t \in Tasks : Held(t) \in {"none", "read", "write"}
           /\ activity = -1 <=> Writers # {}
           /\ activity # -1 => activity = Cardinality(Readers)
           /\ activity > 0 => Readers # {}
           /\ activity = 0 => \A t \in Tasks : Held(t) = "none"
<1>1. /\ Cardinality(Readers) \in 0 .. Cardinality(Tasks)
      /\ Cardinality(Tasks) \in Nat
      /\ Cardinality(Readers) = 0 <=> Readers = {}
    BY TaskSets, Readers \in SUBSET Tasks, Tasks \in SUBSET Tasks DEF Readers
<1>2. \A t \in Tasks : Held(t) \in {"none", "read", "write"}
    BY DEF IInv, ListInv, Held, Mode, InLoop
<1>3. Count
    BY DEF IInv
<1>4. activity \in -1 .. Cardinality(Tasks) /\ (activity = -1 <=> Writers # {})
    BY <1>1, <1>3 DEF Count
<1>5. activity # -1 => activity = Cardinality(Readers) /\ Writers = {}
    BY <1>1, <1>3 DEF Count
<1>6. activity > 0 => Readers # {}
    BY <1>1, <1>5
<1>7. activity = 0 => \A t \in Tasks : Held(t) = "none"
    BY <1>1, <1>2, <1>5 DEF Readers, Writers
<1> QED
    BY <1>2, <1>4, <1>5, <1>6, <1>7

\* A free or shared semaphore is taken by one more task: sem->activity is right.
LEMMA TakeKeeps ==
    ASSUME IInv, NEW t \in Tasks, NEW mode \in Mode, Take(t, mode)
    PROVE  /\ IInv'
           /\ \A u \in Tasks : Held(u)' = IF u = t THEN mode ELSE Held(u)
<1> USE DEF Mode
<1>1. ListInv' /\ \A u \in Tasks : Held(u)' = IF u = t THEN mode ELSE Held(u)
    BY DEF IInv, ListInv, Take, Distinct, OnList, Loops, NoLostWakeup, Held, InLoop
<1>2. Held(t) = "none"
    BY DEF IInv, ListInv, Take, Held, InLoop
<1>3. CASE mode = "read"
  <2>1. activity >= 0 /\ wait_list = << >> /\ activity' = activity + 1 /\ wait_list' = << >>
    BY <1>3 DEF Take, may_read
  <2>2. Writers = {} /\ activity = Cardinality(Readers)
    BY <2>1, ActivityTells
  <2>3. Writers' = {} /\ Readers' = Readers \cup {t} /\ t \notin Readers
    BY <1>1, <1>2, <1>3, <2>2 DEF Writers, Readers
  <2>4. Cardinality(Readers') = Cardinality(Readers) + 1
    BY <2>3, TaskSets, FS_AddElement, Readers \in SUBSET Tasks DEF Readers
  <2>5. Count'
    BY <2>1, <2>2, <2>3, <2>4 DEF Count
  <2>6. Exclusion' /\ WriterWaitsFirst'
    BY <2>1, <2>3 DEF Exclusion, WriterWaitsFirst, Writers
  <2> QED
    BY <1>1, <2>5, <2>6 DEF IInv
<1>4. CASE mode = "write"
  <2>1. activity = 0 /\ wait_list = << >> /\ activity' = -1 /\ wait_list' = << >>
    BY <1>4 DEF Take, may_write
  <2>2. \A u \in Tasks : Held(u) = "none"
    BY <2>1, ActivityTells
  <2>3. t \in Writers'
    BY <1>1, <1>4 DEF Writers
  <2>4. Count'
    BY <2>1, <2>3 DEF Count
  <2>5. Exclusion' /\ WriterWaitsFirst'
    BY <1>1, <2>1, <2>2 DEF Exclusion, WriterWaitsFirst
  <2> QED
    BY <1>1, <2>4, <2>5 DEF IInv
<1> QED
    BY <1>3, <1>4

\* A step that changes neither a holder nor sem->activity.
LEMMA HoldersStay ==
    ASSUME IInv, \A u \in Tasks : Held(u)' = Held(u), activity' = activity
    PROVE  Count' /\ Exclusion'
<1>1. Readers' = Readers /\ Writers' = Writers
    BY DEF Readers, Writers
<1> QED
    BY <1>1 DEF IInv, Count, Exclusion

\* A task that has to wait goes to the end of the list, where it finds a lock
\* that is held, behind a writer if readers hold it.
LEMMA EnqueueKeeps ==
    ASSUME IInv, NEW t \in Tasks, NEW mode \in Mode, Enqueue(t, mode)
    PROVE  /\ IInv'
           /\ \A u \in Tasks : Held(u)' = Held(u)
<1> USE DEF Mode
<1>1. /\ wait_list \in Seq(Tasks) /\ Len(wait_list) \in Nat
      /\ wait_list' \in Seq(Tasks)
      /\ Len(wait_list') = Len(wait_list) + 1
      /\ \A i \in 1 .. Len(wait_list) : wait_list'[i] = wait_list[i]
      /\ wait_list'[Len(wait_list) + 1] = t
    BY AppendProperties, LenProperties DEF IInv, ListInv, Enqueue
<1>2. ~waiting[t] /\ \A i \in 1 .. Len(wait_list) : wait_list[i] # t
    BY DEF IInv, ListInv, Enqueue, Loops, OnList, InLoop
<1>3. Distinct'
  <2> SUFFICES ASSUME NEW i \in 1 .. Len(wait_list'), NEW j \in 1 .. Len(wait_list'),
                      wait_list'[i] = wait_list'[j]
               PROVE  i = j
    BY DEF Distinct
  <2>1. CASE i \in 1 .. Len(wait_list) /\ j \in 1 .. Len(wait_list)
    BY <1>1, <2>1 DEF IInv, ListInv, Distinct
  <2> QED
    BY <1>1, <1>2, <2>1
<1>4. OnList'
  <2>1. ASSUME NEW u \in Tasks, u # t
        PROVE  (\E i \in 1 .. Len(wait_list') : wait_list'[i] = u)
                  <=> \E i \in 1 .. Len(wait_list) : wait_list[i] = u
    BY <1>1, <2>1
  <2>2. \E i \in 1 .. Len(wait_list') : wait_list'[i] = t
    BY <1>1
  <2>3. waiting' = [waiting EXCEPT ![t] = TRUE] /\ waiting \in [Tasks -> BOOLEAN] /\ OnList
    BY DEF Enqueue, IInv, ListInv
  <2> QED
    BY <2>1, <2>2, <2>3 DEF OnList
<1>5. ListInv'
    BY <1>1, <1>3, <1>4 DEF IInv, ListInv, Enqueue, Loops, NoLostWakeup, InLoop
<1>6. \A u \in Tasks : Held(u)' = Held(u)
    BY <1>2 DEF IInv, ListInv, Enqueue, Held, InLoop
<1>7. activity' = activity
    BY DEF Enqueue
<1>8. WriterWaitsFirst'
  <2>1. CASE wait_list = << >>
    <3>1. Head(wait_list') = t
      BY <1>1, <2>1
    <3>2. activity # 0 /\ (activity > 0 => mode = "write")
      BY <2>1, ActivityTells DEF Enqueue, may_read, may_write
    <3> QED
      BY <1>7, <3>1, <3>2 DEF WriterWaitsFirst, Enqueue, IInv, ListInv
  <2>2. CASE wait_list # << >>
    <3>1. Len(wait_list) > 0
      BY <1>1, <2>2, EmptySeq
    <3>2. Head(wait_list') = Head(wait_list) /\ Head(wait_list) # t /\ Head(wait_list) \in Tasks
      BY <1>1, <1>2, <3>1
    <3> QED
      BY <1>7, <2>2, <3>2 DEF WriterWaitsFirst, Enqueue, IInv, ListInv
  <2> QED
    BY <2>1, <2>2
<1> QED
    BY <1>5, <1>6, <1>7, <1>8, HoldersStay DEF IInv

\* The loop that waits, and wake-ups from elsewhere, neither give nor take the
\* lock: a task finds in its loop what it has been handed before.
LEMMA WaitKeeps ==
    ASSUME IInv, NEW t \in Tasks, Wait(t) \/ stray_wakeup(t)
    PROVE  /\ IInv'
           /\ \A u \in Tasks : Held(u)' = Held(u)
           /\ UNCHANGED << wait_list, flags >>
<1> USE DEF Mode, InLoop
<1>1. UNCHANGED << activity, wait_list, flags, waiting >>
    BY DEF Wait, test_waiter, schedule, set_task_state, stray_wakeup
<1>2. \A u \in Tasks : Held(u)' = Held(u)
    BY DEF Wait, test_waiter, schedule, set_task_state, stray_wakeup, IInv, ListInv, Held
<1>3. ListInv'
  <2>1. Distinct' /\ OnList'
    BY <1>1 DEF IInv, ListInv, Distinct, OnList
  <2>2. /\ state' \in [Tasks -> {"RUNNING", "UNINTERRUPTIBLE"}]
        /\ pc' \in [Tasks -> {"out"} \cup Mode \cup InLoop]
    BY DEF Wait, test_waiter, schedule, set_task_state, stray_wakeup, IInv, ListInv
  <2>3. Loops'
    BY <1>1 DEF Wait, test_waiter, schedule, set_task_state, stray_wakeup, IInv, ListInv, Loops
  <2>4. NoLostWakeup'
    BY <1>1 DEF Wait, test_waiter, schedule, set_task_state, stray_wakeup, IInv, ListInv, NoLostWakeup
  <2> QED
    BY <1>1, <2>1, <2>2, <2>3, <2>4 DEF IInv, ListInv
<1>4. WriterWaitsFirst'
    BY <1>1 DEF IInv, WriterWaitsFirst
<1> QED
    BY <1>1, <1>2, <1>3, <1>4, HoldersStay DEF IInv

\* Handing a lock that nobody else holds to the writer at the front.
LEMMA HandToWriter ==
    ASSUME IInv, NEW t \in Tasks, pc[t] \in Mode, \A u \in Tasks \ {t} : Held(u) = "none",
           wait_list # << >>, flags[Head(wait_list)] = "write",
           Dequeue(1), pc' = [pc EXCEPT ![t] = "out"], activity' = -1
    PROVE  IInv'
<1>1. 1 \in 0 .. Len(wait_list) /\ Head(wait_list) = wait_list[1] /\ wait_list[1] \in Tasks
    BY EmptySeq, LenProperties DEF IInv, ListInv
<1>2. Front(1) = {Head(wait_list)}
    BY <1>1 DEF Front
<1>3. /\ ListInv'
      /\ t \notin Front(1)
      /\ \A u \in Tasks : Held(u)' = IF u = t THEN After("out")
                                   ELSE IF u \in Front(1) THEN flags[u]
                                   ELSE Held(u)
    BY <1>1, DequeueKeeps DEF IInv
<1>4. \A u \in Tasks : Held(u)' = IF u = Head(wait_list) THEN "write" ELSE "none"
    BY <1>2, <1>3 DEF After, Mode
<1>5. Head(wait_list) \in Writers'
    BY <1>1, <1>4 DEF Writers
<1>6. Count' /\ Exclusion' /\ WriterWaitsFirst'
    BY <1>4, <1>5 DEF Count, Exclusion, WriterWaitsFirst
<1> QED
    BY <1>3, <1>6 DEF IInv

\* A writer that leaves or downgrades hands the lock to the k readers at the
\* front, none or all of those before the first writer.
LEMMA HandToReaders ==
    ASSUME IInv, NEW t \in Tasks, pc[t] = "write",
           NEW m \in {"out", "read"}, pc' = [pc EXCEPT ![t] = m],
           NEW k \in 0 .. Len(wait_list), Dequeue(k),
           \A i \in 1 .. k : flags[wait_list[i]] = "read",
           k < Len(wait_list) => flags[wait_list[k + 1]] = "write",
           activity' = (IF m = "read" THEN 1 ELSE 0) + k,
           activity' = 0 => wait_list = << >>
    PROVE  IInv'
<1>1. /\ ListInv'
      /\ t \notin Front(k)
      /\ \A u \in Tasks : Held(u)' = IF u = t THEN After(m)
                                   ELSE IF u \in Front(k) THEN flags[u]
                                   ELSE Held(u)
      /\ Front(k) \in SUBSET Tasks
      /\ Cardinality(Front(k)) = k
  <2>1. /\ ListInv /\ k \in 0 .. Len(wait_list) /\ Dequeue(k)
        /\ t \in Tasks /\ m \in {"out", "read"}
        /\ pc[t] \in Mode /\ pc' = [pc EXCEPT ![t] = m]
    BY DEF IInv, Mode
  <2> QED
    BY ONLY <2>1, DequeueKeeps
<1>2. \A u \in Tasks \ {t} : Held(u) = "none"
    BY DEF IInv, Exclusion, Held, Mode
<1>3. \A u \in Front(k) : flags[u] = "read"
    BY DEF Front
<1>4. Writers' = {} /\ Readers' = Front(k) \cup (IF m = "read" THEN {t} ELSE {})
    BY <1>1, <1>2, <1>3 DEF Writers, Readers, After, Mode
<1>5. Cardinality(Readers') = (IF m = "read" THEN 1 ELSE 0) + k
  <2>1. IsFiniteSet(Front(k))
    BY <1>1, TaskSets
  <2>2. CASE m = "read"
    <3>1. Readers' = Front(k) \cup {t}
      BY <1>4, <2>2
    <3>2. Cardinality(Front(k) \cup {t}) = k + 1
      BY <1>1, <2>1, FS_AddElement
    <3> QED
      BY <2>2, <3>1, <3>2
  <2>3. CASE m = "out"
    BY <1>1, <1>4, <2>3
  <2> QED
    BY <2>2, <2>3
<1>6. Count' /\ Exclusion'
    BY <1>4, <1>5 DEF Count, Exclusion, Writers
<1>7. WriterWaitsFirst'
  <2>1. wait_list \in Seq(Tasks) /\ Len(wait_list) \in Nat /\ k \in Nat
    BY LenProperties DEF IInv, ListInv
  <2>2. wait_list' = SubSeq(wait_list, k + 1, Len(wait_list)) /\ flags' = flags
    BY DEF Dequeue
  <2>3. CASE k = Len(wait_list)
    BY <2>1, <2>2, <2>3, SubSeqEmpty DEF WriterWaitsFirst
  <2>4. CASE k < Len(wait_list)
    <3>1. Head(wait_list') = wait_list[k + 1]
      BY <2>1, <2>2, <2>4, HeadTailOfSubSeq
    <3>2. activity' # 0
      BY <2>1, <2>4
    <3> QED
      BY <2>2, <2>4, <3>1, <3>2 DEF WriterWaitsFirst
  <2> QED
    BY <2>1, <2>3, <2>4
<1> QED
    BY <1>1, <1>6, <1>7 DEF IInv

\* The loop at dont_wake_writers is a Dequeue of the readers at the front.
LEMMA DequeueReaders ==
    ASSUME NEW a \in Nat, wake_readers(a), flags' = flags
    PROVE  \E k \in 1 .. Len(wait_list) :
              /\ Dequeue(k)
              /\ \A i \in 1 .. k : flags[wait_list[i]] = "read"
              /\ k < Len(wait_list) => flags[wait_list[k + 1]] = "write"
              /\ activity' = a + k
BY DEF wake_readers, Dequeue, HandOver, Front

\* __up_read: the last reader hands over to the writer at the front.
LEMMA UpReadKeeps ==
    ASSUME IInv, NEW t \in Tasks, up_read(t)
    PROVE  IInv' /\ \E k \in 0 .. Len(wait_list) : Dequeue(k)
<1>1. pc[t] = "read" /\ Held(t) = "read" /\ t \in Readers /\ pc[t] \in Mode
    BY DEF up_read, Held, Mode, Readers
<1>2. Writers = {} /\ activity = Cardinality(Readers) /\ IsFiniteSet(Readers) /\ activity \in Nat
  <2>1. Writers = {}
    BY <1>1 DEF IInv, Exclusion, Writers
  <2> QED
    BY <2>1, ActivityTells, TaskSets, Readers \in SUBSET Tasks DEF Readers
<1>3. Cardinality(Readers \ {t}) = activity - 1
    BY <1>1, <1>2, FS_RemoveElement
<1>4. ListInv /\ flags' = flags /\ pc' = [pc EXCEPT ![t] = "out"]
    BY DEF IInv, up_read
<1>5. wait_list \in Seq(Tasks) /\ Len(wait_list) \in Nat
    BY LenProperties DEF IInv, ListInv
<1>6. CASE activity - 1 = 0 /\ wait_list # << >>
  <2>1. Dequeue(1) /\ activity' = -1 /\ 1 \in 0 .. Len(wait_list)
    BY <1>4, <1>5, <1>6, DequeueWriter, EmptySeq DEF up_read
  <2>2. flags[Head(wait_list)] = "write"
    BY <1>2, <1>6 DEF IInv, WriterWaitsFirst
  <2>3. Readers \ {t} = {}
    BY <1>3, <1>6, TaskSets, Readers \ {t} \in SUBSET Tasks DEF Readers
  <2>4. \A u \in Tasks \ {t} : Held(u) = "none"
    BY <1>2, <2>3, ActivityTells DEF Readers, Writers
  <2>5. IInv'
    BY <1>1, <1>4, <1>6, <2>1, <2>2, <2>4, HandToWriter
  <2> QED
    BY <2>1, <2>5
<1>7. CASE ~(activity - 1 = 0 /\ wait_list # << >>)
  <2>1. activity' = activity - 1 /\ UNCHANGED << wait_list, flags, waiting, state >>
    BY <1>7 DEF up_read
  <2>2. Dequeue(0) /\ 0 \in 0 .. Len(wait_list)
    BY <1>4, <1>5, <2>1, DequeueNobody
  <2>3. Front(0) = {}
    BY DEF Front
  <2>4. ListInv' /\ \A u \in Tasks : Held(u)' = IF u = t THEN "none" ELSE Held(u)
    <3>1. /\ ListInv /\ 0 \in 0 .. Len(wait_list) /\ Dequeue(0)
          /\ t \in Tasks /\ "out" \in {"out", "read"}
          /\ pc[t] \in Mode /\ pc' = [pc EXCEPT ![t] = "out"]
      BY <1>1, <1>4, <2>2
    <3>2. ListInv' /\ \A u \in Tasks : Held(u)' = IF u = t THEN After("out")
                                                 ELSE IF u \in Front(0) THEN flags[u]
                                                 ELSE Held(u)
      BY ONLY <3>1, DequeueKeeps
    <3> QED
      BY <2>3, <3>2 DEF After, Mode
  <2>5. Writers' = {} /\ Readers' = Readers \ {t}
    BY <1>2, <2>4 DEF Writers, Readers
  <2>6. Count' /\ Exclusion'
    BY <1>3, <2>1, <2>5 DEF Count, Exclusion, Writers
  <2>7. WriterWaitsFirst'
    BY <1>2, <1>7, <2>1 DEF IInv, WriterWaitsFirst
  <2> QED
    BY <2>2, <2>4, <2>6, <2>7 DEF IInv
<1> QED
    BY <1>6, <1>7

\* __up_write and __downgrade_write: the lock goes to the writer at the front,
\* if it may, or to the readers there.
LEMMA WriterLeaves ==
    ASSUME IInv, NEW t \in Tasks, up_write(t) \/ downgrade_write(t)
    PROVE  IInv' /\ \E k \in 0 .. Len(wait_list) : Dequeue(k)
<1>1. pc[t] = "write" /\ Held(t) = "write" /\ pc[t] \in Mode
    BY DEF up_write, downgrade_write, Held, Mode
<1>2. \A u \in Tasks \ {t} : Held(u) = "none"
    BY <1>1 DEF IInv, Exclusion
<1>3. ListInv /\ flags' = flags /\ Len(wait_list) \in Nat /\ wait_list \in Seq(Tasks)
    BY LenProperties DEF IInv, ListInv, up_write, downgrade_write
<1>4. PICK m \in {"out", "read"} :
        /\ m = "out" => up_write(t)
        /\ m = "read" => downgrade_write(t)
    OBVIOUS
<1> DEFINE a == IF m = "read" THEN 1 ELSE 0
<1>5. pc' = [pc EXCEPT ![t] = m]
    BY <1>4 DEF up_write, downgrade_write
<1>6. \/ wait_list = << >> /\ activity' = a /\ UNCHANGED << wait_list, waiting, state >>
      \/ /\ wait_list # << >> /\ flags[Head(wait_list)] = "write" /\ m = "out"
         /\ rwsem_wake_one_writer
      \/ /\ wait_list # << >> /\ flags[Head(wait_list)] = "write" /\ m = "read"
         /\ activity' = 1 /\ UNCHANGED << wait_list, waiting, state >>
      \/ wait_list # << >> /\ wake_readers(a)
    BY <1>4 DEF up_write, downgrade_write, rwsem_do_wake
<1>7. CASE wait_list # << >> /\ flags[Head(wait_list)] = "write" /\ m = "out" /\ rwsem_wake_one_writer
  <2>1. Dequeue(1) /\ activity' = -1 /\ 1 \in 0 .. Len(wait_list)
    BY <1>3, <1>7, DequeueWriter, EmptySeq
  <2> QED
    BY <1>1, <1>2, <1>5, <1>7, <2>1, HandToWriter
<1>8. ASSUME NEW k \in 0 .. Len(wait_list), Dequeue(k),
             \A i \in 1 .. k : flags[wait_list[i]] = "read",
             k < Len(wait_list) => flags[wait_list[k + 1]] = "write",
             activity' = a + k, activity' = 0 => wait_list = << >>
      PROVE  IInv' /\ \E n \in 0 .. Len(wait_list) : Dequeue(n)
    BY <1>1, <1>5, <1>8, HandToReaders
<1>9. CASE /\ wait_list = << >> \/ (flags[Head(wait_list)] = "write" /\ a = 1)
           /\ activity' = a
           /\ UNCHANGED << wait_list, waiting, state >>
  <2>1. Dequeue(0) /\ 0 \in 0 .. Len(wait_list) /\ activity' = a + 0
    BY <1>3, <1>9, DequeueNobody
  <2>2. 0 < Len(wait_list) => flags[wait_list[0 + 1]] = "write"
    BY <1>3, <1>9, EmptySeq
  <2>3. activity' = 0 => wait_list = << >>
    BY <1>9
  <2> QED
    BY <1>8, <2>1, <2>2, <2>3
<1>10. CASE wait_list # << >> /\ wake_readers(a)
  <2>1. PICK k \in 1 .. Len(wait_list) :
              /\ Dequeue(k)
              /\ \A i \in 1 .. k : flags[wait_list[i]] = "read"
              /\ k < Len(wait_list) => flags[wait_list[k + 1]] = "write"
              /\ activity' = a + k
    BY <1>3, <1>10, DequeueReaders
  <2>2. k \in 0 .. Len(wait_list) /\ activity' # 0
    BY <1>3, <2>1
  <2> QED
    BY <1>8, <2>1, <2>2
<1> QED
    BY <1>6, <1>7, <1>9, <1>10

-----------------------------------------------------------------------------
(* The invariants.                                                         *)

\* __init_rwsem leaves a free semaphore.
LEMMA InvInit == Init => IInv
<1> SUFFICES ASSUME Init PROVE IInv
    OBVIOUS
<1>1. Len(wait_list) = 0 /\ wait_list \in Seq(Tasks)
    BY EmptySeq DEF Init
<1>2. ListInv
    BY <1>1 DEF Init, ListInv, Distinct, OnList, Loops, NoLostWakeup, Mode
<1>3. \A t \in Tasks : Held(t) = "none"
    BY DEF Init, Held, Mode, InLoop
<1>4. Readers = {} /\ Writers = {}
    BY <1>3 DEF Readers, Writers
<1>5. Count
    BY <1>4, FS_EmptySet DEF Init, Count
<1> QED
    BY <1>2, <1>3, <1>5 DEF Init, IInv, Exclusion, WriterWaitsFirst

\* Every step keeps the invariant.
LEMMA InvStep == IInv /\ [Next]_vars => IInv'
<1> SUFFICES ASSUME IInv, [Next]_vars PROVE IInv'
    OBVIOUS
<1>1. ASSUME NEW t \in Tasks, NEW mode \in Mode, Take(t, mode) \/ Enqueue(t, mode) PROVE IInv'
    BY <1>1, TakeKeeps, EnqueueKeeps
<1>2. ASSUME NEW t \in Tasks,
             down_read(t) \/ down_write(t) \/ down_read_trylock(t) \/ down_write_trylock(t)
      PROVE  IInv'
    BY <1>1, <1>2 DEF down_read, down_write, down_read_trylock, down_write_trylock, Mode
<1>3. ASSUME NEW t \in Tasks, Wait(t) \/ stray_wakeup(t) PROVE IInv'
    BY <1>3, WaitKeeps
<1>4. ASSUME NEW t \in Tasks, up_read(t) \/ up_write(t) \/ downgrade_write(t) PROVE IInv'
    BY <1>4, UpReadKeeps, WriterLeaves
<1>5. CASE UNCHANGED vars
    BY <1>5 DEF vars, IInv, ListInv, Distinct, OnList, Loops, NoLostWakeup, Count, Readers, Writers,
       Exclusion, WriterWaitsFirst, Held
<1> QED
    BY <1>2, <1>3, <1>4, <1>5 DEF Next

\* The strengthened invariant holds in every reachable state.
LEMMA Invariance == Spec => []IInv
BY InvInit, InvStep, PTL DEF Spec

\* Every variable keeps its type; in particular sem->activity stays between -1
\* and the number of tasks.
THEOREM TypeCorrect == Spec => []TypeOK
<1>1. IInv => TypeOK
    BY ActivityTells DEF IInv, ListInv, TypeOK
<1> QED
    BY Invariance, <1>1, PTL

\* A writer is alone, from the moment the lock is handed to it.
THEOREM WriterAlone == Spec => []Exclusion
<1>1. IInv => Exclusion
    BY DEF IInv
<1> QED
    BY Invariance, <1>1, PTL

\* While readers hold the lock a writer is the first to wait, and nobody waits
\* for a free lock: __up_read may wake the front as a writer.
THEOREM FrontIsWriter == Spec => []WriterWaitsFirst
<1>1. IInv => WriterWaitsFirst
    BY DEF IInv
<1> QED
    BY Invariance, <1>1, PTL

\* A task that has been handed the lock never sleeps on.
THEOREM WakeupArrives == Spec => []NoLostWakeup
<1>1. IInv => NoLostWakeup
    BY DEF IInv, ListInv
<1> QED
    BY Invariance, <1>1, PTL

-----------------------------------------------------------------------------
(* The semaphore implements RwLock.                                        *)

\* The mapping's holders and queue.
held == [t \in Tasks |-> Held(t)]
asked == [i \in 1 .. Len(wait_list) |-> [task |-> wait_list[i], mode |-> flags[wait_list[i]]]]

\* The queue of requests is the list, each waiter with its flags.
LEMMA AskedShape ==
    ListInv => /\ asked \in Seq(RL!Request)
               /\ Len(asked) = Len(wait_list)
               /\ Len(wait_list) \in Nat
               /\ \A i \in 1 .. Len(wait_list) :
                     /\ wait_list[i] \in Tasks
                     /\ asked[i].task = wait_list[i]
                     /\ asked[i].mode = flags[wait_list[i]]
               /\ asked = << >> <=> wait_list = << >>
<1> SUFFICES ASSUME ListInv
             PROVE  /\ asked \in Seq(RL!Request)
                    /\ Len(asked) = Len(wait_list)
                    /\ Len(wait_list) \in Nat
                    /\ \A i \in 1 .. Len(wait_list) :
                          /\ wait_list[i] \in Tasks
                          /\ asked[i].task = wait_list[i]
                          /\ asked[i].mode = flags[wait_list[i]]
                    /\ asked = << >> <=> wait_list = << >>
    OBVIOUS
<1>1. Len(wait_list) \in Nat /\ \A i \in 1 .. Len(wait_list) : wait_list[i] \in Tasks
    BY LenProperties DEF ListInv
<1>2. \A i \in 1 .. Len(wait_list) : [task |-> wait_list[i], mode |-> flags[wait_list[i]]] \in RL!Request
    BY <1>1 DEF ListInv, Mode, RL!Request, RL!Mode
<1>3. asked \in [1 .. Len(wait_list) -> RL!Request]
    BY <1>2 DEF asked
<1>4. asked \in Seq(RL!Request)
    BY <1>1, <1>3, SeqDef
<1>5. Len(asked) = Len(wait_list)
    BY <1>1, <1>3, <1>4, LenProperties
<1>6. asked = << >> <=> wait_list = << >>
    BY <1>1, <1>4, <1>5, EmptySeq DEF ListInv
<1> QED
    BY <1>1, <1>4, <1>5, <1>6 DEF asked

\* Granting the first k requests is handing over to the front of the list.
LEMMA GrantedFront ==
    ASSUME ListInv, NEW k \in 0 .. Len(wait_list), NEW h
    PROVE  RL!Granted(h, asked, k)
              = [u \in Tasks |-> IF u \in Front(k) THEN flags[u] ELSE h[u]]
<1>1. /\ Len(wait_list) \in Nat
      /\ \A i \in 1 .. k : /\ i \in 1 .. Len(wait_list)
                           /\ asked[i].task = wait_list[i]
                           /\ asked[i].mode = flags[wait_list[i]]
    BY AskedShape
<1>2. ASSUME NEW u \in Tasks
      PROVE  (IF \E i \in 1 .. k : asked[i].task = u
              THEN asked[CHOOSE i \in 1 .. k : asked[i].task = u].mode
              ELSE h[u])
             = IF u \in Front(k) THEN flags[u] ELSE h[u]
  <2>1. (\E i \in 1 .. k : asked[i].task = u) <=> u \in Front(k)
    BY <1>1 DEF Front
  <2>2. ASSUME u \in Front(k)
        PROVE  asked[CHOOSE i \in 1 .. k : asked[i].task = u].mode = flags[u]
    <3> DEFINE c == CHOOSE i \in 1 .. k : asked[i].task = u
    <3>1. c \in 1 .. k /\ asked[c].task = u
      BY <2>1, <2>2
    <3> HIDE DEF c
    <3>2. asked[c].mode = flags[u]
      BY <1>1, <3>1
    <3> QED
      BY <3>2 DEF c
  <2> QED
    BY <2>1, <2>2
<1> QED
    BY <1>2 DEF RL!Granted

\* In every state the holders agree and the first to wait has to.
Settled == RL!Compatible(held) /\ RL!Blocked(held, asked)

\* Nobody who could be served is left waiting.
LEMMA SettledNow == IInv => Settled
<1> SUFFICES ASSUME IInv PROVE Settled
    OBVIOUS
<1>1. RL!Compatible(held)
    BY DEF IInv, Exclusion, RL!Compatible, held
<1>2. ASSUME asked # << >> PROVE ~RL!Compatible(RL!Granted(held, asked, 1))
  <2>1. ListInv /\ wait_list # << >>
    BY <1>2, AskedShape DEF IInv
  <2>2. /\ 1 \in 0 .. Len(wait_list) /\ wait_list[1] \in Tasks
        /\ Head(wait_list) = wait_list[1] /\ waiting[wait_list[1]]
    BY <2>1, AskedShape, EmptySeq DEF ListInv, OnList
  <2>3. Front(1) = {wait_list[1]}
    BY DEF Front
  <2> DEFINE w == wait_list[1]
  <2> DEFINE g == [u \in Tasks |-> IF u \in Front(1) THEN flags[u] ELSE held[u]]
  <2>4. RL!Granted(held, asked, 1) = g
    BY <2>1, <2>2, GrantedFront
  <2>5. g[w] = flags[w] /\ flags[w] \in Mode /\ \A u \in Tasks \ {w} : g[u] = Held(u)
    BY <2>1, <2>2, <2>3 DEF held, ListInv
  <2>6. Held(w) = "none"
    BY <2>1, <2>2 DEF Held, ListInv, Loops, Mode, InLoop
  <2>7. activity # 0 /\ (activity > 0 => flags[w] = "write")
    BY <2>1, <2>2 DEF IInv, WriterWaitsFirst
  <2>8. PICK u \in Tasks : Held(u) = "write" \/ (Held(u) = "read" /\ flags[w] = "write")
    <3>1. CASE activity = -1
      BY <3>1, ActivityTells DEF Writers
    <3>2. CASE activity > 0
      BY <2>7, <3>2, ActivityTells DEF Readers
    <3> QED
      BY <2>7, <3>1, <3>2, ActivityTells
  <2>9. u # w /\ g[u] = Held(u)
    BY <2>5, <2>6, <2>8
  <2>10. \E x, y \in Tasks : g[x] = "write" /\ y # x /\ g[y] # "none"
    BY <2>2, <2>5, <2>8, <2>9 DEF Mode
  <2> HIDE DEF g
  <2> QED
    BY <2>4, <2>10 DEF RL!Compatible
<1> QED
    BY <1>1, <1>2 DEF Settled, RL!Blocked

\* The same of the next state.
LEMMA SettledNext == IInv' => Settled'
BY SettledNow, PTL

\* What is left of the queue when the first k waiters leave the list.
LEMMA AskedRest ==
    ASSUME ListInv, ListInv', NEW k \in 0 .. Len(wait_list), Dequeue(k)
    PROVE  asked' = SubSeq(asked, k + 1, Len(asked))
<1>1. /\ asked \in Seq(RL!Request)
      /\ Len(asked) = Len(wait_list)
      /\ Len(wait_list) \in Nat
      /\ \A i \in 1 .. Len(wait_list) : asked[i] = [task |-> wait_list[i], mode |-> flags[wait_list[i]]]
    BY AskedShape DEF asked
<1>2. /\ asked' \in Seq(RL!Request)
      /\ Len(asked') = Len(wait_list')
      /\ \A i \in 1 .. Len(wait_list') :
            asked'[i] = [task |-> wait_list'[i], mode |-> flags'[wait_list'[i]]]
  <2>1. (ListInv => asked \in Seq(RL!Request) /\ Len(asked) = Len(wait_list))'
    BY AskedShape, PTL
  <2> QED
    BY <2>1 DEF asked
<1>3. wait_list \in Seq(Tasks) /\ \A i, j \in 1 .. Len(wait_list) : wait_list[i] = wait_list[j] => i = j
    BY DEF ListInv, Distinct
<1>4. /\ Len(SubSeq(wait_list, k + 1, Len(wait_list))) = Len(wait_list) - k
      /\ \A i \in 1 .. (Len(wait_list) - k) : SubSeq(wait_list, k + 1, Len(wait_list))[i] = wait_list[k + i]
  <2>1. k \in 0 .. Len(wait_list)
    OBVIOUS
  <2> QED
    BY ONLY <1>3, <2>1, DropPrefix
<1>5. wait_list' = SubSeq(wait_list, k + 1, Len(wait_list)) /\ flags' = flags
    BY DEF Dequeue
<1>6. /\ Len(asked') = Len(wait_list) - k
      /\ \A i \in 1 .. (Len(wait_list) - k) : asked'[i] = asked[k + i]
  <2>1. Len(wait_list') = Len(wait_list) - k
    BY <1>4, <1>5
  <2>2. ASSUME NEW i \in 1 .. (Len(wait_list) - k) PROVE asked'[i] = asked[k + i]
    <3>1. k + i \in 1 .. Len(wait_list) /\ i \in 1 .. Len(wait_list')
      BY <1>1, <2>1
    <3>2. wait_list'[i] = wait_list[k + i]
      BY <1>4, <1>5
    <3> QED
      BY <1>1, <1>2, <1>5, <3>1, <3>2
  <2> QED
    BY <1>2, <2>1, <2>2
<1> DEFINE r == SubSeq(asked, k + 1, Len(asked))
<1>7. /\ r \in Seq(RL!Request)
      /\ Len(r) = Len(wait_list) - k
      /\ \A i \in 1 .. (Len(wait_list) - k) : r[i] = asked[k + i]
  <2>1. k + 1 \in Int /\ Len(asked) \in Int /\ \A i \in (k + 1) .. Len(asked) : asked[i] \in RL!Request
    BY <1>1, ElementOfSeq
  <2>2. /\ r \in Seq(RL!Request)
        /\ Len(r) = IF k + 1 <= Len(asked) THEN Len(asked) - (k + 1) + 1 ELSE 0
        /\ \A i \in 1 .. (Len(asked) - (k + 1) + 1) : r[i] = asked[(k + 1) + i - 1]
    BY <2>1, SubSeqProperties
  <2> HIDE DEF r
  <2> QED
    BY <1>1, <2>2
<1> HIDE DEF r
<1>8. asked' = r
    BY <1>2, <1>6, <1>7, SeqEqual
<1> QED
    BY <1>8 DEF r

\* up_read, up_write and downgrade_write are Release and Downgrade.
LEMMA ReleaseRefines ==
    ASSUME IInv, NEW t \in Tasks, up_read(t) \/ up_write(t) \/ downgrade_write(t)
    PROVE  RL!Release(t) \/ RL!Downgrade(t)
<1>1. PICK k \in 0 .. Len(wait_list) : IInv' /\ Dequeue(k)
    BY UpReadKeeps, WriterLeaves
<1>2. PICK m \in {"out", "read"} :
        /\ m = "out" => up_read(t) \/ up_write(t)
        /\ m = "read" => downgrade_write(t)
    OBVIOUS
<1>3. /\ pc[t] \in Mode /\ pc' = [pc EXCEPT ![t] = m] /\ Held(t) = pc[t]
      /\ m = "read" => pc[t] = "write"
    BY <1>2 DEF up_read, up_write, downgrade_write, Mode, Held
<1>4. ListInv /\ ListInv'
    BY <1>1 DEF IInv
<1>5. /\ t \notin Front(k)
      /\ \A u \in Tasks : Held(u)' = IF u = t THEN After(m)
                                   ELSE IF u \in Front(k) THEN flags[u]
                                   ELSE Held(u)
  <2>1. /\ ListInv /\ k \in 0 .. Len(wait_list) /\ Dequeue(k)
        /\ t \in Tasks /\ m \in {"out", "read"}
        /\ pc[t] \in Mode /\ pc' = [pc EXCEPT ![t] = m]
    BY <1>1, <1>3, <1>4
  <2> QED
    BY ONLY <2>1, DequeueKeeps
<1> DEFINE h == [held EXCEPT ![t] = After(m)]
<1>6. held' = [u \in Tasks |-> IF u \in Front(k) THEN flags[u] ELSE h[u]]
    BY <1>5 DEF held
<1>7. held' = RL!Granted(h, asked, k)
    BY <1>4, <1>6, GrantedFront
<1>8. asked' = SubSeq(asked, k + 1, Len(asked)) /\ k \in 0 .. Len(asked)
    BY <1>1, <1>4, AskedRest, AskedShape
<1>9. RL!Compatible(held') /\ RL!Blocked(held', asked')
    BY <1>1, SettledNext DEF Settled, RL!Compatible, RL!Blocked, RL!Granted
<1>10. RL!Settle(h, asked)
    BY <1>7, <1>8, <1>9 DEF RL!Settle, held, asked
<1>11. CASE m = "out"
    BY <1>3, <1>10, <1>11 DEF RL!Release, After, Mode, held, asked
<1>12. CASE m = "read"
    BY <1>3, <1>10, <1>12 DEF RL!Downgrade, After, Mode, held, asked
<1> QED
    BY <1>11, <1>12

\* A lock taken without waiting is a request granted at once.
LEMMA TakeRefines ==
    ASSUME IInv, NEW t \in Tasks, NEW mode \in Mode, Take(t, mode)
    PROVE  RL!Ask(t, mode)
<1>1. IInv' /\ \A u \in Tasks : Held(u)' = IF u = t THEN mode ELSE Held(u)
    BY TakeKeeps
<1>2. wait_list = << >> /\ wait_list' = << >> /\ Held(t) = "none"
    BY DEF Take, may_read, may_write, IInv, ListInv, Held, Mode, InLoop
<1>3. Len(wait_list) = 0 /\ Len(wait_list') = 0
    BY <1>2, EmptySeq
<1>4. asked = << >> /\ asked' = << >> /\ Len(asked) = 0
  <2>1. (ListInv => (asked = << >> <=> wait_list = << >>))'
    BY AskedShape, PTL
  <2> QED
    BY <1>1, <1>2, <2>1, AskedShape, EmptySeq DEF IInv
<1> DEFINE req == [task |-> t, mode |-> mode]
<1> DEFINE q == Append(asked, req)
<1>5. q = << req >> /\ Len(q) = 1 /\ q[1] = req
    BY <1>4
<1>6. asked' = SubSeq(q, 1 + 1, Len(q))
    BY <1>4, <1>5, SubSeqEmpty
<1>7. held' = RL!Granted(held, q, 1)
  <2>1. ASSUME NEW u \in Tasks
        PROVE  (IF \E i \in 1 .. 1 : q[i].task = u
                THEN q[CHOOSE i \in 1 .. 1 : q[i].task = u].mode ELSE held[u])
               = IF u = t THEN mode ELSE Held(u)
    <3>1. (\E i \in 1 .. 1 : q[i].task = u) <=> u = t
      BY <1>5
    <3>2. u = t => (CHOOSE i \in 1 .. 1 : q[i].task = u) = 1
      BY <1>5
    <3> QED
      BY <1>5, <3>1, <3>2 DEF held
  <2> HIDE DEF q
  <2> QED
    BY <1>1, <2>1 DEF RL!Granted, held
<1>8. RL!Compatible(held') /\ RL!Blocked(held', asked')
    BY <1>1, SettledNext DEF Settled, RL!Compatible, RL!Blocked, RL!Granted
<1>9. 1 \in 0 .. Len(q)
    BY <1>5
<1> HIDE DEF q
<1>10. RL!Settle(held, q)
    BY <1>6, <1>7, <1>8, <1>9 DEF RL!Settle, held, asked
<1> QED
    BY <1>2, <1>3, <1>10 DEF RL!Ask, held, asked, q

\* A lock that has to be waited for is a request left in the queue.
LEMMA EnqueueRefines ==
    ASSUME IInv, NEW t \in Tasks, NEW mode \in Mode, Enqueue(t, mode)
    PROVE  RL!Ask(t, mode)
<1>1. IInv' /\ \A u \in Tasks : Held(u)' = Held(u)
    BY EnqueueKeeps
<1>2. /\ Held(t) = "none"
      /\ \A i \in 1 .. Len(wait_list) : wait_list[i] # t
    BY DEF Enqueue, IInv, ListInv, Held, Mode, InLoop, Loops, OnList
<1> DEFINE req == [task |-> t, mode |-> mode]
<1> DEFINE q == Append(asked, req)
<1>3. /\ asked \in Seq(RL!Request) /\ Len(asked) = Len(wait_list) /\ Len(wait_list) \in Nat
      /\ \A i \in 1 .. Len(wait_list) : wait_list[i] \in Tasks /\ asked[i].task = wait_list[i]
    BY AskedShape DEF IInv
<1>4. req \in RL!Request
    BY DEF RL!Request, RL!Mode, Mode
<1>5. /\ q \in Seq(RL!Request)
      /\ Len(q) = Len(wait_list) + 1
      /\ \A i \in 1 .. Len(wait_list) : q[i] = asked[i]
      /\ q[Len(wait_list) + 1] = req
    BY <1>3, <1>4, AppendProperties
<1>6. asked' = q
  <2>1. (ListInv => asked \in Seq(RL!Request) /\ Len(asked) = Len(wait_list))'
    BY AskedShape, PTL
  <2>2. /\ Len(wait_list') = Len(wait_list) + 1
        /\ \A i \in 1 .. Len(wait_list) : wait_list'[i] = wait_list[i]
        /\ wait_list'[Len(wait_list) + 1] = t
    BY AppendProperties DEF IInv, ListInv, Enqueue
  <2>3. flags' = [flags EXCEPT ![t] = mode] /\ flags \in [Tasks -> Mode]
    BY DEF Enqueue, IInv, ListInv
  <2>4. ASSUME NEW i \in 1 .. Len(wait_list') PROVE asked'[i] = q[i]
    <3>1. asked'[i] = [task |-> wait_list'[i], mode |-> flags'[wait_list'[i]]]
      BY <2>4 DEF asked
    <3>2. CASE i \in 1 .. Len(wait_list)
      <4>1. asked[i] = [task |-> wait_list[i], mode |-> flags[wait_list[i]]]
        BY <3>2 DEF asked
      <4> HIDE DEF q
      <4> QED
        BY <1>2, <1>3, <1>5, <2>2, <2>3, <3>1, <3>2, <4>1
    <3>3. CASE i = Len(wait_list) + 1
      <4> HIDE DEF q
      <4> QED
        BY <1>5, <2>2, <2>3, <3>1, <3>3
    <3> QED
      BY <1>3, <2>2, <3>2, <3>3
  <2> HIDE DEF q
  <2> QED
    BY <1>1, <1>5, <2>1, <2>2, <2>4, SeqEqual DEF IInv
<1> HIDE DEF q
<1>7. asked' = SubSeq(q, 0 + 1, Len(q)) /\ 0 \in 0 .. Len(q)
    BY <1>3, <1>5, <1>6, SubSeqFull
<1>8. held' = RL!Granted(held, q, 0)
    BY <1>1 DEF RL!Granted, held
<1>9. RL!Compatible(held') /\ RL!Blocked(held', asked')
    BY <1>1, SettledNext DEF Settled, RL!Compatible, RL!Blocked, RL!Granted
<1>10. RL!Settle(held, q)
    BY <1>7, <1>8, <1>9 DEF RL!Settle, held, asked
<1>11. \A i \in 1 .. Len(asked) : asked[i].task # t
    BY <1>2, <1>3
<1> QED
    BY <1>2, <1>10, <1>11 DEF RL!Ask, held, asked, q

\* Every step is one of RwLock's or changes neither holders nor queue.
LEMMA RwLockStep == IInv /\ [Next]_vars => [RL!Next]_(RL!vars)
<1> SUFFICES ASSUME IInv, [Next]_vars PROVE RL!Next \/ UNCHANGED RL!vars
    OBVIOUS
<1>1. ASSUME NEW t \in Tasks, NEW mode \in Mode, Take(t, mode) \/ Enqueue(t, mode) PROVE RL!Next
  <2>1. RL!Ask(t, mode)
    BY <1>1, TakeRefines, EnqueueRefines
  <2> QED
    BY <2>1 DEF RL!Next, RL!Mode, Mode
<1>2. ASSUME NEW t \in Tasks,
             down_read(t) \/ down_write(t) \/ down_read_trylock(t) \/ down_write_trylock(t)
      PROVE  RL!Next
    BY <1>1, <1>2 DEF down_read, down_write, down_read_trylock, down_write_trylock, Mode
<1>3. ASSUME NEW t \in Tasks, up_read(t) \/ up_write(t) \/ downgrade_write(t) PROVE RL!Next
    BY <1>3, ReleaseRefines DEF RL!Next
<1>4. ASSUME UNCHANGED << held, wait_list, flags >> PROVE UNCHANGED RL!vars
    BY <1>4 DEF RL!vars, held
<1>5. ASSUME NEW t \in Tasks, Wait(t) \/ stray_wakeup(t) PROVE UNCHANGED RL!vars
  <2>1. UNCHANGED << held, wait_list, flags >>
    BY <1>5, WaitKeeps DEF held
  <2> QED
    BY <1>4, <2>1
<1>6. CASE UNCHANGED vars
    BY <1>4, <1>6 DEF vars, held, Held
<1> QED
    BY <1>2, <1>3, <1>5, <1>6 DEF Next

\* The semaphore starts free.
LEMMA RwLockInit == Init => RL!Init
<1> SUFFICES ASSUME Init PROVE RL!Init
    OBVIOUS
<1>1. \A t \in Tasks : Held(t) = "none"
    BY DEF Init, Held, Mode, InLoop
<1>2. asked = << >>
    BY InvInit, AskedShape DEF IInv, Init
<1> QED
    BY <1>1, <1>2 DEF RL!Init, asked

\* lib/rwsem-spinlock.c is a fair reader/writer lock: every operation has an
\* effect RwLock allows, and each release serves everyone it may.
THEOREM FairRwLock == Spec => ImplementsRwLock
BY Invariance, RwLockInit, RwLockStep, PTL DEF Spec, ImplementsRwLock, RL!Spec

=============================================================================
