-------------------------- MODULE EmuAtomicProofs --------------------------
(***************************************************************************)
(* What holds of EmuAtomic for any number of threads, any width of the     *)
(* word, any calls, whatever test_wp_bit finds and whatever else goes on   *)
(* in the process.                                                         *)
(*                                                                         *)
(* The properties are not inductive.  They rest on what the handler still  *)
(* knows at each label at which it may sleep (AtLabel), and on what the    *)
(* page table says of the frame and of the area (PageOK).                  *)
(***************************************************************************)
EXTENDS EmuAtomic, TLAPS

\* What thread t's place in the handler says of its call, of the word it has
\* read and of the CPU.
AtLabel(t) ==
    /\ pc[t] = "user" <=> call[t] = NoCall
    /\ pc[t] \in {"put_wait", "gup"} => call[t].op = "xadd"
    /\ pc[t] = "cow" => call[t].op = "cmpxchg" /\ wp_works_ok
    /\ pc[t] \notin {"put_wait", "gup"} => dest[t] = 0

\* A page that is mapped lies in an area the process may read; one that is mapped
\* writable is its own, in an area it may write.
PageOK ==
    /\ pte # "none" => vma # "none"
    /\ pte = "rw" => frame = "own" /\ vma = "rw"

IInv ==
    /\ TypeOK
    /\ \A t \in Threads : AtLabel(t)
    /\ PageOK

-----------------------------------------------------------------------------

\* The sum parse_emu_xadd stores is a word.
LEMMA SumIsWord ==
    ASSUME NEW a \in Word, NEW b \in Word
    PROVE  (a + b) % WordMod \in Word
BY EmuAtomicAssumption DEF Word

\* A call is made by cmpxchg or xadd, has words for operands, and is not NoCall.
LEMMA CallShape ==
    ASSUME NEW c \in Calls
    PROVE  /\ c.op \in {"cmpxchg", "xadd"}
           /\ c.old \in Word /\ c.arg \in Word
           /\ c # NoCall
BY EmuAtomicAssumption DEF Call, NoCall

\* 0 is a word.
LEMMA ZeroIsWord == 0 \in Word
BY EmuAtomicAssumption DEF Word

\* The invariant holds when the first thread enters the kernel.
LEMMA InvInit == Init => IInv
<1> SUFFICES ASSUME Init PROVE IInv
    OBVIOUS
<1>1. TypeOK
    BY EmuAtomicAssumption, ZeroIsWord DEF Init, TypeOK, Frames
<1>2. PageOK
    BY DEF Init, PageOK
<1>3. \A t \in Threads : AtLabel(t)
    BY DEF Init, AtLabel, NoCall
<1> QED
    BY <1>1, <1>2, <1>3 DEF IInv

\* Every step keeps the types.
LEMMA TypeStep == IInv /\ [Next]_vars => TypeOK'
<1> SUFFICES ASSUME IInv, [Next]_vars PROVE TypeOK'
    OBVIOUS
<1> USE ZeroIsWord, CallShape, SumIsWord DEF IInv, TypeOK, Frames
<1>1. /\ word \in Word
      /\ \A t \in Threads : call[t].old \in Word /\ call[t].arg \in Word
    BY DEF word, NoCall
<1>2. ASSUME NEW t \in Threads, NEW c \in Calls, invalid_op(t, c) PROVE TypeOK'
    BY <1>2 DEF invalid_op, Goto, page, sem
<1>3. ASSUME NEW t \in Threads, cmpxchg_faults(t) PROVE TypeOK'
    BY <1>1, <1>3 DEF cmpxchg_faults, EnterFault, FaultOops, Stay, Goto, page, sem
<1>4. ASSUME NEW t \in Threads, xadd_faults(t) PROVE TypeOK'
    BY <1>1, <1>4 DEF xadd_faults, EnterFault, Stay, Goto, page
<1>21. ASSUME NEW t \in Threads, fault_denied(t) PROVE TypeOK'
    BY <1>1, <1>21 DEF fault_denied, up_read, Stay, Goto, page
<1>5. ASSUME NEW t \in Threads, page_in(t) PROVE TypeOK'
    BY <1>1, <1>5 DEF page_in, up_read, Stay, Goto
<1>6. ASSUME NEW t \in Threads, cmpxchg_differs(t) PROVE TypeOK'
    BY <1>1, <1>6 DEF cmpxchg_differs, Return, Goto, page, sem
<1>7. ASSUME NEW t \in Threads, cmpxchg_stores(t) PROVE TypeOK'
    BY <1>1, <1>7 DEF cmpxchg_stores, Store, Return, Goto, sem
<1>8. ASSUME NEW t \in Threads, cmpxchg_store_faults(t) PROVE TypeOK'
    BY <1>1, <1>8 DEF cmpxchg_store_faults, EnterFault, FaultOops, Stay, Goto, page, sem
<1>9. ASSUME NEW t \in Threads, cmpxchg_denied(t) PROVE TypeOK'
    BY <1>1, <1>9 DEF cmpxchg_denied, up_read, Stay, Goto, page
<1>10. ASSUME NEW t \in Threads, cmpxchg_cow(t) PROVE TypeOK'
    BY <1>1, <1>10 DEF cmpxchg_cow, CowAndStore, Return, Goto, up_read
<1>11. ASSUME NEW t \in Threads, xadd_at_once(t) PROVE TypeOK'
    BY <1>1, <1>11 DEF xadd_at_once, Store, Return, Goto, sem
<1>12. ASSUME NEW t \in Threads, xadd_loads(t) PROVE TypeOK'
    BY <1>1, <1>12 DEF xadd_loads, EnterFault, Goto, page, sem
<1>13. ASSUME NEW t \in Threads, put_user_locks(t) PROVE TypeOK'
    BY <1>1, <1>13 DEF put_user_locks, EnterFault, Stay, Goto, page
<1>14. ASSUME NEW t \in Threads, put_user_stores(t) PROVE TypeOK'
    BY <1>1, <1>14 DEF put_user_stores, CowAndStore, Return, Goto, up_read
<1>15. ASSUME NEW t \in Threads, put_user_fails(t) PROVE TypeOK'
    BY <1>1, <1>15 DEF put_user_fails, Return, Goto, up_read, page
<1>16. CASE reclaim
    BY <1>1, <1>16 DEF reclaim, sem
<1>17. CASE fork
    BY <1>1, <1>17 DEF fork, sem
<1>18. CASE mmap_write
    BY <1>1, <1>18 DEF mmap_write, page
<1>19. CASE mprotect
    BY <1>1, <1>19 DEF mprotect
<1>20. CASE UNCHANGED vars
    BY <1>20 DEF vars, page, sem
<1> QED
    BY <1>2, <1>3, <1>4, <1>5, <1>6, <1>7, <1>8, <1>9, <1>10, <1>11, <1>12, <1>13, <1>14, <1>15, <1>16, <1>17, <1>18, <1>19, <1>20, <1>21 DEF Next, Emulate
\* Every step leaves every thread knowing what its label says, and the page
\* table in order.
LEMMA LabelStep == IInv /\ [Next]_vars => PageOK' /\ \A u \in Threads : AtLabel(u)'
<1> DEFINE Good == PageOK' /\ \A u \in Threads : AtLabel(u)'
<1> SUFFICES ASSUME IInv, [Next]_vars PROVE Good
    OBVIOUS
<1> USE CallShape DEF IInv, TypeOK, AtLabel, PageOK
<1>1. NoCall.op = "none"
    BY DEF NoCall
<1>2. ASSUME NEW t \in Threads, NEW c \in Calls, invalid_op(t, c) PROVE Good
    BY <1>2 DEF invalid_op, Goto, page
<1>3. ASSUME NEW t \in Threads, cmpxchg_faults(t) PROVE Good
    BY <1>1, <1>3 DEF cmpxchg_faults, EnterFault, FaultOops, Stay, Goto, page
<1>4. ASSUME NEW t \in Threads, xadd_faults(t) PROVE Good
    BY <1>1, <1>4 DEF xadd_faults, EnterFault, Stay, Goto, page
<1>21. ASSUME NEW t \in Threads, fault_denied(t) PROVE Good
    BY <1>1, <1>21 DEF fault_denied, Stay, Goto, page
<1>5. ASSUME NEW t \in Threads, page_in(t) PROVE Good
    BY <1>1, <1>5 DEF page_in, Stay, Goto
<1>6. ASSUME NEW t \in Threads, cmpxchg_differs(t) PROVE Good
    BY <1>1, <1>6 DEF cmpxchg_differs, Return, Goto, page
<1>7. ASSUME NEW t \in Threads, cmpxchg_stores(t) PROVE Good
    BY <1>1, <1>7 DEF cmpxchg_stores, Store, Return, Goto
<1>8. ASSUME NEW t \in Threads, cmpxchg_store_faults(t) PROVE Good
    BY <1>1, <1>8 DEF cmpxchg_store_faults, EnterFault, FaultOops, StoreGoesThrough, Stay, Goto, page
<1>9. ASSUME NEW t \in Threads, cmpxchg_denied(t) PROVE Good
    BY <1>1, <1>9 DEF cmpxchg_denied, Stay, Goto, page
<1>10. ASSUME NEW t \in Threads, cmpxchg_cow(t) PROVE Good
    BY <1>1, <1>10 DEF cmpxchg_cow, CowAndStore, Return, Goto
<1>11. ASSUME NEW t \in Threads, xadd_at_once(t) PROVE Good
    BY <1>1, <1>11 DEF xadd_at_once, Store, Return, Goto
<1>12. ASSUME NEW t \in Threads, xadd_loads(t) PROVE Good
    BY <1>1, <1>12 DEF xadd_loads, EnterFault, Goto, page
<1>13. ASSUME NEW t \in Threads, put_user_locks(t) PROVE Good
    BY <1>1, <1>13 DEF put_user_locks, EnterFault, Stay, Goto, page
<1>14. ASSUME NEW t \in Threads, put_user_stores(t) PROVE Good
    BY <1>1, <1>14 DEF put_user_stores, CowAndStore, Return, Goto
<1>15. ASSUME NEW t \in Threads, put_user_fails(t) PROVE Good
    BY <1>1, <1>15 DEF put_user_fails, Return, Goto, page
<1>16. CASE reclaim
    BY <1>16 DEF reclaim
<1>17. CASE fork
    BY <1>17 DEF fork
<1>18. CASE mmap_write
    BY <1>18 DEF mmap_write, page
<1>19. CASE mprotect
    BY <1>19 DEF mprotect
<1>20. CASE UNCHANGED vars
    BY <1>20 DEF vars, page
<1> QED
    BY <1>2, <1>3, <1>4, <1>5, <1>6, <1>7, <1>8, <1>9, <1>10, <1>11, <1>12, <1>13, <1>14, <1>15, <1>16, <1>17, <1>18, <1>19, <1>20, <1>21 DEF Next, Emulate

\* The strengthened invariant holds in every reachable state.
LEMMA Invariance == Spec => []IInv
<1>1. IInv /\ [Next]_vars => IInv'
    BY TypeStep, LabelStep DEF IInv
<1> QED
    BY InvInit, <1>1, PTL DEF Spec

\* Every variable of the model keeps its type: the word stays a word whatever
\* is added to it, and only a thread in the kernel has a call pending.
THEOREM TypeCorrect == Spec => []TypeOK
<1>1. IInv => TypeOK
    BY DEF IInv
<1> QED
    BY Invariance, <1>1, PTL

\* Every step of the system is one XaddOopsesOnlyUnreadable allows: of the steps
\* of an xadd, only the denied fault of its loads leads to an oops.
LEMMA XaddOopsStep ==
    ASSUME IInv, [Next]_vars, NEW t \in Threads,
           call[t].op = "xadd", pc[t] # "oops", pc'[t] = "oops"
    PROVE  vma = "none"
<1> USE DEF IInv, TypeOK
<1>1. ASSUME NEW u \in Threads, NEW l, Goto(u, l) PROVE u = t /\ l = "oops"
    BY <1>1 DEF Goto
<1>2. ASSUME UNCHANGED pc PROVE FALSE
    BY <1>2
<1>3. ASSUME NEW u \in Threads, Emulate(u) PROVE vma = "none"
  <2>1. ASSUME NEW c \in Calls, invalid_op(u, c) PROVE FALSE
    BY <1>1, <2>1 DEF invalid_op
  <2>2. ~cmpxchg_faults(u) /\ ~cmpxchg_differs(u) /\ ~cmpxchg_stores(u) /\ ~cmpxchg_store_faults(u)
    BY <1>1 DEF cmpxchg_faults, cmpxchg_differs, cmpxchg_stores, cmpxchg_store_faults,
       EnterFault, FaultOops, Return
  <2>3. ~cmpxchg_denied(u) /\ ~cmpxchg_cow(u)
    BY <1>1 DEF cmpxchg_denied, cmpxchg_cow, Return, AtLabel
  <2>4. ~xadd_faults(u) /\ ~page_in(u) /\ ~xadd_at_once(u) /\ ~xadd_loads(u)
    BY <1>1 DEF xadd_faults, page_in, xadd_at_once, xadd_loads, EnterFault, Return
  <2>5. ~put_user_locks(u) /\ ~put_user_stores(u) /\ ~put_user_fails(u)
    BY <1>1 DEF put_user_locks, put_user_stores, put_user_fails, EnterFault, Return
  <2>6. fault_denied(u) => vma = "none"
    BY DEF fault_denied
  <2> QED
    BY <1>3, <2>1, <2>2, <2>3, <2>4, <2>5, <2>6 DEF Emulate
<1>4. ~reclaim /\ ~fork /\ ~mmap_write /\ ~mprotect /\ ~UNCHANGED vars
    BY <1>2 DEF reclaim, fork, mmap_write, mprotect, vars
<1> QED
    BY <1>3, <1>4 DEF Next

\* In every interleaving parse_emu_xadd oopses only in an area that may not be
\* read: its get_user and put_user wait for mmap_sem or return -EFAULT.
THEOREM XaddOopses == Spec => XaddOopsesOnlyUnreadable
<1> DEFINE A == \A t \in Threads :
                   call[t].op = "xadd" /\ pc[t] # "oops" /\ pc'[t] = "oops" => vma = "none"
<1>1. IInv /\ [Next]_vars => [A]_vars
    BY XaddOopsStep
<1> QED
    BY Invariance, <1>1, PTL DEF Spec, XaddOopsesOnlyUnreadable
-----------------------------------------------------------------------------
(* What a step does to the frame that other processes share.               *)

\* The step of OnlyCmpxchgEscapes.
Escape ==
    content'["shared"] \notin {content["shared"], theirs'} =>
        /\ ~wp_works_ok
        /\ \E t \in Threads : call[t].op = "cmpxchg" /\ call'[t] = NoCall

\* A store through a writable mapping, or after a copy-on-write, leaves the
\* shared frame alone.
LEMMA StoreStaysOwn ==
    ASSUME IInv, NEW v, (Store(v) /\ pte = "rw") \/ CowAndStore(v)
    PROVE  content'["shared"] = content["shared"]
BY DEF IInv, TypeOK, Frames, PageOK, Store, CowAndStore

\* Every step of the system is one OnlyCmpxchgEscapes allows.
LEMMA EscapeStep == IInv /\ [Next]_vars => Escape
<1> SUFFICES ASSUME IInv, [Next]_vars PROVE Escape
    OBVIOUS
<1>1. ASSUME NEW t \in Threads, cmpxchg_stores(t) PROVE Escape
  <2>1. CASE pte = "rw"
    BY <1>1, <2>1, StoreStaysOwn DEF cmpxchg_stores, Escape
  <2>2. CASE pte # "rw"
    BY <1>1, <2>2 DEF cmpxchg_stores, StoreGoesThrough, Return, Escape, IInv, TypeOK
  <2> QED
    BY <2>1, <2>2
<1>2. ASSUME NEW t \in Threads, cmpxchg_cow(t) \/ put_user_stores(t) \/ xadd_at_once(t)
      PROVE  Escape
    BY <1>2, StoreStaysOwn DEF cmpxchg_cow, put_user_stores, xadd_at_once, Escape
<1>3. CASE fork
    BY <1>3 DEF fork, Escape, IInv, TypeOK, Frames
<1>4. CASE UNCHANGED content
    BY <1>4 DEF Escape
<1>5. ASSUME NEW t \in Threads,
             \/ \E c \in Calls : invalid_op(t, c)
             \/ cmpxchg_faults(t) \/ xadd_faults(t) \/ fault_denied(t) \/ page_in(t)
             \/ cmpxchg_differs(t) \/ cmpxchg_store_faults(t) \/ cmpxchg_denied(t)
             \/ xadd_loads(t) \/ put_user_locks(t) \/ put_user_fails(t)
      PROVE  UNCHANGED content
    BY <1>5 DEF invalid_op, cmpxchg_faults, xadd_faults, fault_denied, page_in, cmpxchg_differs,
       cmpxchg_store_faults, cmpxchg_denied, xadd_loads, put_user_locks,
       put_user_fails, EnterFault, FaultOops, page
<1>6. reclaim \/ mmap_write \/ mprotect \/ UNCHANGED vars => UNCHANGED content
    BY DEF reclaim, mmap_write, mprotect, vars, page
<1> QED
    BY <1>1, <1>2, <1>3, <1>4, <1>5, <1>6 DEF Next, Emulate

\* Only a cmpxchg, on a CPU that ignores the WP bit, changes what other
\* processes see: put_user breaks copy-on-write in every interleaving.
THEOREM EscapeSafe == Spec => OnlyCmpxchgEscapes
<1>1. IInv /\ [Next]_vars => [Escape]_vars
    BY EscapeStep
<1> QED
    BY Invariance, <1>1, PTL DEF Spec, OnlyCmpxchgEscapes, Escape
-----------------------------------------------------------------------------
(* The emulator implements SplitWord.                                      *)

\* The step of SplitWord that a thread with a given label is in.
StepOf(label) ==
    CASE label \in {"put_wait", "gup"} -> "add"
      [] label = "cow"  -> "store"
      [] label = "oops" -> "dead"
      [] OTHER -> "call"

steps == [t \in Threads |-> StepOf(pc[t])]

\* The labels' steps, one by one.
LEMMA StepTable ==
    /\ \A l \in {"user", "load", "fault"} : StepOf(l) = "call"
    /\ StepOf("put_wait") = "add" /\ StepOf("gup") = "add"
    /\ StepOf("cow") = "store"
    /\ StepOf("oops") = "dead"
BY DEF StepOf

\* A jump of thread t to a label is a change of its step and of no other's.
LEMMA GotoStep ==
    ASSUME TypeOK, NEW t \in Threads, NEW l, Goto(t, l)
    PROVE  steps' = [steps EXCEPT ![t] = StepOf(l)]
BY DEF TypeOK, Goto, steps

\* A jump between labels of one step is no step of SplitWord.
LEMMA GotoStutter ==
    ASSUME TypeOK, NEW t \in Threads, NEW l, Goto(t, l), StepOf(l) = StepOf(pc[t])
    PROVE  steps' = steps
BY DEF TypeOK, Goto, steps

\* The emulator's return to user mode is SplitWord's.
LEMMA ReturnStep ==
    ASSUME TypeOK, NEW t \in Threads, Goto(t, "user")
    PROVE  steps' = [steps EXCEPT ![t] = "call"]
BY GotoStep, StepTable

\* The mapping's components, and the steps that leave the page alone.
LEMMA PageStutter == UNCHANGED page => UNCHANGED << word, vma, wp_works_ok >>
BY DEF page, word

\* The emulator starts where SplitWord does.
LEMMA SplitInit == Init => Split!Init
<1> SUFFICES ASSUME Init PROVE Split!Init
    OBVIOUS
<1>1. word = 0
    BY DEF Init, word, Frames
<1>2. steps = [t \in Threads |-> "call"]
    BY StepTable DEF Init, steps
<1> QED
    BY <1>1, <1>2, ZeroIsWord, EmuAtomicAssumption DEF Init, Split!Init, Split!NoCall, NoCall,
       Split!Word, Word, steps, StepOf

\* A thread's step that SplitWord has, with the area and the CPU left alone.
SplitThread(t) ==
    /\ \/ \E c \in Calls : Split!Invoke(t, c)
       \/ Split!Cmpxchg(t) \/ Split!Compare(t) \/ Split!CmpxchgStore(t)
       \/ Split!Xadd(t) \/ Split!Read(t) \/ Split!Add(t) \/ Split!Oops(t)
    /\ UNCHANGED << vma, wp_works_ok >>

\* What SplitWord sees of the emulator.
seen == << word, vma, wp_works_ok, call, ret, steps, dest >>

\* Leaving what SplitWord sees alone is a stuttering step of it.
LEMMA SeenStutter == UNCHANGED seen => UNCHANGED Split!vars
BY DEF seen, Split!vars, steps, StepOf

\* Such a step is a step of SplitWord.
LEMMA ThreadNext == ASSUME NEW t \in Threads, SplitThread(t) PROVE Split!Next
BY DEF SplitThread, Split!Next

\* The steps of a thread that SplitWord does not see, or sees as an Invoke: the
\* trap, the page faults of the loads, the wait for mmap_sem.
LEMMA QuietSteps ==
    ASSUME IInv, NEW t \in Threads,
           \/ \E c \in Calls : invalid_op(t, c)
           \/ xadd_faults(t) \/ page_in(t) \/ put_user_locks(t)
    PROVE  SplitThread(t) \/ UNCHANGED seen
<1> USE StepTable, GotoStutter, PageStutter DEF IInv
<1>1. ASSUME NEW c \in Calls, invalid_op(t, c) PROVE Split!Invoke(t, c) /\ UNCHANGED << vma, wp_works_ok >>
  <2>1. steps' = steps /\ UNCHANGED << word, vma, wp_works_ok >>
    BY <1>1 DEF invalid_op
  <2>2. call[t] = NoCall
    BY <1>1 DEF invalid_op, AtLabel
  <2> QED
    BY <1>1, <2>1, <2>2 DEF invalid_op, Split!Invoke, Split!NoCall, NoCall, steps, StepOf
<1>2. CASE xadd_faults(t)
    BY <1>2 DEF xadd_faults, EnterFault, Stay, seen
<1>3. CASE page_in(t)
    BY <1>3 DEF page_in, Stay, seen, word
<1>4. CASE put_user_locks(t)
    BY <1>4 DEF put_user_locks, EnterFault, Stay, seen
<1> QED
    BY <1>1, <1>2, <1>3, <1>4 DEF SplitThread

\* An emulated cmpxchg compares and stores in one step, or compares and stores
\* later, or oopses; it does so as SplitWord's does.
LEMMA CmpxchgSteps ==
    ASSUME IInv, NEW t \in Threads,
           \/ cmpxchg_faults(t) \/ cmpxchg_differs(t) \/ cmpxchg_stores(t)
           \/ cmpxchg_store_faults(t) \/ cmpxchg_denied(t) \/ cmpxchg_cow(t)
    PROVE  SplitThread(t) \/ UNCHANGED seen
<1> USE StepTable, PageStutter DEF IInv
<1>1. ASSUME NEW l \in {"user", "load", "fault", "put_wait", "gup", "cow", "oops"}, pc[t] = l
      PROVE  steps[t] = StepOf(l)
    BY <1>1 DEF steps
<1>2. ASSUME FaultOops(t) \/ cmpxchg_denied(t), call[t].op = "cmpxchg" PROVE SplitThread(t)
  <2>1. steps' = [steps EXCEPT ![t] = "dead"] /\ UNCHANGED << word, vma, wp_works_ok, call, ret, dest >>
    BY <1>2, GotoStep DEF FaultOops, cmpxchg_denied, Stay
  <2> QED
    BY <1>2, <2>1 DEF SplitThread, Split!Oops, steps, StepOf
<1>3. CASE cmpxchg_faults(t)
    BY <1>2, <1>3, GotoStutter DEF cmpxchg_faults, EnterFault, Stay, seen
<1>4. CASE cmpxchg_differs(t)
  <2>1. steps' = [steps EXCEPT ![t] = "call"]
    BY <1>4, ReturnStep DEF cmpxchg_differs, Return
  <2>2. Split!Return(t, word) /\ UNCHANGED << word, vma, wp_works_ok >>
    BY <1>4, <2>1 DEF cmpxchg_differs, Return, Split!Return, Split!NoCall, NoCall,
       steps, StepOf
  <2> QED
    BY <1>1, <1>4, <2>2 DEF cmpxchg_differs, PageOK, SplitThread, Split!Cmpxchg, Split!Readable,
       steps, StepOf
<1>5. CASE cmpxchg_stores(t)
  <2>1. steps' = [steps EXCEPT ![t] = "call"]
    BY <1>5, ReturnStep DEF cmpxchg_stores, Return
  <2>2. Split!Return(t, word) /\ UNCHANGED << vma, wp_works_ok >>
    BY <1>5, <2>1 DEF cmpxchg_stores, Store, Return, Split!Return, Split!NoCall, NoCall,
       steps, StepOf
  <2>3. word' = call[t].arg
    BY <1>5 DEF cmpxchg_stores, Store, word, TypeOK
  <2>4. (vma = "rw" \/ ~wp_works_ok) /\ vma # "none"
    BY <1>5 DEF cmpxchg_stores, StoreGoesThrough, PageOK
  <2> QED
    BY <1>1, <1>5, <2>2, <2>3, <2>4 DEF cmpxchg_stores, SplitThread, Split!Cmpxchg, Split!Readable,
       Split!Writable, steps, StepOf
<1>6. CASE cmpxchg_store_faults(t)
  <2>1. CASE FaultOops(t)
    BY <1>2, <1>6, <2>1 DEF cmpxchg_store_faults
  <2>2. CASE EnterFault(t, "cow") /\ Stay
    <3>1. steps' = [steps EXCEPT ![t] = "store"] /\ UNCHANGED << word, vma, wp_works_ok, call, ret, dest >>
      BY <2>2, GotoStep DEF EnterFault, Stay
    <3> QED
      BY <1>1, <1>6, <3>1 DEF cmpxchg_store_faults, StoreGoesThrough, PageOK, SplitThread,
         Split!Compare, Split!Readable, steps, StepOf
  <2> QED
    BY <1>6, <2>1, <2>2 DEF cmpxchg_store_faults
<1>7. CASE cmpxchg_denied(t)
    BY <1>2, <1>7 DEF cmpxchg_denied, AtLabel
<1>8. CASE cmpxchg_cow(t)
  <2>1. steps' = [steps EXCEPT ![t] = "call"]
    BY <1>8, ReturnStep DEF cmpxchg_cow, Return
  <2>2. Split!Return(t, call[t].old) /\ UNCHANGED << vma, wp_works_ok >>
    BY <1>8, <2>1 DEF cmpxchg_cow, CowAndStore, Return, Split!Return, Split!NoCall, NoCall,
       steps, StepOf
  <2>3. word' = call[t].arg
    BY <1>8 DEF cmpxchg_cow, CowAndStore, word, TypeOK, Frames
  <2> QED
    BY <1>1, <1>8, <2>2, <2>3 DEF cmpxchg_cow, SplitThread, Split!CmpxchgStore, Split!Writable,
       steps, StepOf
<1> QED
    BY <1>3, <1>4, <1>5, <1>6, <1>7, <1>8

\* An emulated xadd reads and adds in one step, or reads and adds later to the
\* word it has read; it does so as SplitWord's does.
LEMMA XaddSteps ==
    ASSUME IInv, NEW t \in Threads,
           \/ xadd_at_once(t) \/ xadd_loads(t)
           \/ put_user_stores(t) \/ put_user_fails(t)
    PROVE  SplitThread(t)
<1> USE StepTable, PageStutter DEF IInv
<1>1. ASSUME NEW l \in {"user", "load", "fault", "put_wait", "gup", "cow", "oops"}, pc[t] = l
      PROVE  steps[t] = StepOf(l)
    BY <1>1 DEF steps
<1>2. CASE xadd_at_once(t)
  <2>1. steps' = [steps EXCEPT ![t] = "call"]
    BY <1>2, ReturnStep DEF xadd_at_once, Return
  <2>2. Split!Return(t, word) /\ UNCHANGED << vma, wp_works_ok >>
    BY <1>2, <2>1 DEF xadd_at_once, Store, Return, Split!Return, Split!NoCall, NoCall,
       steps, StepOf
  <2>3. word' = (word + call[t].arg) % WordMod
    BY <1>2 DEF xadd_at_once, Store, word, TypeOK
  <2>4. vma = "rw"
    BY <1>2 DEF xadd_at_once, PageOK
  <2> QED
    BY <1>1, <1>2, <2>2, <2>3, <2>4 DEF xadd_at_once, SplitThread, Split!Xadd, Split!Writable,
       steps, StepOf
<1>3. CASE xadd_loads(t)
  <2>1. steps' = [steps EXCEPT ![t] = "add"] /\ UNCHANGED << word, vma, wp_works_ok, call, ret >>
    BY <1>3, GotoStep DEF xadd_loads, EnterFault
  <2> QED
    BY <1>1, <1>3, <2>1 DEF xadd_loads, PageOK, SplitThread, Split!Read, Split!Readable,
       steps, StepOf
<1>4. CASE put_user_stores(t)
  <2>1. steps' = [steps EXCEPT ![t] = "call"]
    BY <1>4, ReturnStep DEF put_user_stores, Return
  <2>2. Split!Return(t, dest[t]) /\ UNCHANGED << vma, wp_works_ok >>
    BY <1>4, <2>1 DEF put_user_stores, CowAndStore, Return, Split!Return, Split!NoCall, NoCall,
       steps, StepOf
  <2>3. word' = (dest[t] + call[t].arg) % WordMod
    BY <1>4 DEF put_user_stores, CowAndStore, word, TypeOK, Frames
  <2> QED
    BY <1>1, <1>4, <2>2, <2>3 DEF put_user_stores, SplitThread, Split!Add, Split!Writable,
       steps, StepOf
<1>5. CASE put_user_fails(t)
  <2>1. steps' = [steps EXCEPT ![t] = "call"]
    BY <1>5, ReturnStep DEF put_user_fails, Return
  <2>2. Split!Return(t, dest[t]) /\ UNCHANGED << word, vma, wp_works_ok >>
    BY <1>5, <2>1 DEF put_user_fails, Return, Split!Return, Split!NoCall, NoCall,
       steps, StepOf
  <2> QED
    BY <1>1, <1>5, <2>2 DEF put_user_fails, SplitThread, Split!Add, Split!Writable,
       steps, StepOf
<1> QED
    BY <1>2, <1>3, <1>4, <1>5

\* A fault that is denied is an oops of SplitWord's: of a cmpxchg, or of an xadd
\* that has not read the word and may not.
LEMMA DeniedStep ==
    ASSUME IInv, NEW t \in Threads, fault_denied(t)
    PROVE  SplitThread(t)
<1> USE StepTable, PageStutter DEF IInv
<1>1. steps[t] = "call"
    BY DEF fault_denied, steps
<1>2. steps' = [steps EXCEPT ![t] = "dead"] /\ UNCHANGED << word, vma, wp_works_ok, call, ret, dest >>
    BY GotoStep DEF fault_denied, Stay
<1>3. call[t].op \in {"cmpxchg", "xadd"}
    BY CallShape DEF fault_denied, AtLabel, TypeOK
<1> QED
    BY <1>1, <1>2, <1>3 DEF fault_denied, SplitThread, Split!Oops, Split!Readable, steps, StepOf

\* The rest of the kernel moves the page and takes mmap_sem, which SplitWord
\* does not see, or changes what the process may do with it.
LEMMA KernelSteps ==
    ASSUME IInv, reclaim \/ fork \/ mmap_write \/ mprotect
    PROVE  Split!Protect \/ UNCHANGED seen
<1> USE DEF IInv
<1>1. UNCHANGED pc => UNCHANGED steps
    BY DEF steps
<1>2. CASE reclaim
    BY <1>1, <1>2 DEF reclaim, seen, word
<1>3. CASE fork
  <2>1. word' = word
    BY <1>3 DEF fork, word, TypeOK, Frames
  <2> QED
    BY <1>1, <1>3, <2>1 DEF fork, seen
<1>4. CASE mmap_write
    BY <1>1, <1>4, PageStutter DEF mmap_write, seen
<1>5. CASE mprotect
    BY <1>1, <1>5 DEF mprotect, Split!Protect, TypeOK, word, steps, StepOf
<1> QED
    BY <1>2, <1>3, <1>4, <1>5

\* Every step of the emulator and of the kernel around it is a step of SplitWord
\* or leaves what SplitWord sees alone.
LEMMA SplitStep == IInv /\ [Next]_vars => [Split!Next]_(Split!vars)
<1> SUFFICES ASSUME IInv, [Next]_vars PROVE Split!Next \/ UNCHANGED Split!vars
    OBVIOUS
<1>1. ASSUME NEW t \in Threads, Emulate(t) PROVE Split!Next \/ UNCHANGED Split!vars
    BY <1>1, QuietSteps, CmpxchgSteps, XaddSteps, DeniedStep, ThreadNext, SeenStutter DEF Emulate
<1>2. CASE reclaim \/ fork \/ mmap_write \/ mprotect
    BY <1>2, KernelSteps, SeenStutter DEF Split!Next
<1>3. CASE UNCHANGED vars
  <2>1. UNCHANGED seen
    BY <1>3 DEF vars, page, seen, word, steps
  <2> QED
    BY <2>1, SeenStutter
<1> QED
    BY <1>1, <1>2, <1>3 DEF Next

\* In every interleaving the emulated calls keep what SplitWord promises.
THEOREM SplitRefinement == Spec => ActsInTwoSteps
BY Invariance, SplitInit, SplitStep, PTL DEF Spec, ActsInTwoSteps, Split!Spec
=============================================================================
