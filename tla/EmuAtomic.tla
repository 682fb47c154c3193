----------------------------- MODULE EmuAtomic -----------------------------
(***************************************************************************)
(* Threads of one process run emulated lock cmpxchg and lock xadd on one   *)
(* word of memory (arch/x86/kernel/i486_emu.c), while the page the word is *)
(* in is reclaimed, shared by fork() and copied on write.                  *)
(*                                                                         *)
(* gray386linux has one CPU and no preemption, and do_invalid_op runs with *)
(* interrupts off: the handler is one step as long as it does not sleep.   *)
(* It sleeps in the page fault of its accesses to user memory, and in      *)
(* put_user, which on a 386 takes mmap_sem and breaks copy-on-write by     *)
(* hand (__copy_to_user_ll).  Another thread may run there.                *)
(*                                                                         *)
(* mmap_sem is used by its promise (RwLock): readers share it, a writer    *)
(* that holds it or waits for it keeps new readers out.                    *)
(***************************************************************************)
EXTENDS Integers

CONSTANTS
    Threads,
    WordMod,
    Calls,
    WpFound,    \* what test_wp_bit may find: FALSE on a 386
    Env         \* what else goes on in the process

Happenings == {"reclaim", "fork", "mmap", "mprotect"}

Word == 0 .. (WordMod - 1)
Call == [op : {"cmpxchg", "xadd"}, old : Word, arg : Word]
NoCall == [op |-> "none", old |-> 0, arg |-> 0]

ASSUME EmuAtomicAssumption ==
    /\ WordMod \in Nat \ {0}
    /\ Calls \subseteq Call
    /\ WpFound \subseteq BOOLEAN
    /\ Env \subseteq Happenings

VARIABLES
    wp_works_ok,
    vma,        \* what the process may do with the area of the word: vm_flags
    pte,        \* the word's page in this process: absent, read-only, writable
    frame,      \* the frame that backs it: its own or one it shares
    content,    \* the word in either frame
    theirs,     \* what the other users of the shared frame put there
    readers,    \* threads of this process that hold mmap_sem
    writer,     \* a thread in mmap() and the like: none, waits, holds
    pc, call,
    dest,       \* the word parse_emu_xadd's get_user found
    ret         \* what the last call returned

page == << wp_works_ok, vma, pte, frame, content, theirs >>
sem  == << readers, writer >>
vars == << page, sem, pc, call, dest, ret >>

Frames == {"own", "shared"}

TypeOK ==
    /\ wp_works_ok \in BOOLEAN
    /\ vma \in {"none", "ro", "rw"}
    /\ pte \in {"none", "ro", "rw"}
    /\ frame \in Frames
    /\ content \in [Frames -> Word]
    /\ theirs \in Word
    /\ readers \subseteq Threads
    /\ writer \in {"none", "waits", "holds"}
    /\ pc \in [Threads -> {"user", "load", "fault", "put_wait", "gup", "cow", "oops"}]
    /\ call \in [Threads -> Calls \cup {NoCall}]
    /\ dest \in [Threads -> Word]
    /\ ret \in [Threads -> Word]

\* The page may be one nobody has touched, which a first read maps to the zero
\* page, or one of the process' own.
Init ==
    /\ wp_works_ok \in WpFound
    /\ vma = "rw"
    /\ \/ pte = "none" /\ frame = "shared"
       \/ pte = "rw" /\ frame = "own"
    /\ content = [f \in Frames |-> 0]
    /\ theirs = 0
    /\ readers = {} /\ writer = "none"
    /\ pc = [t \in Threads |-> "user"]
    /\ call = [t \in Threads |-> NoCall]
    /\ dest = [t \in Threads |-> 0]
    /\ ret = [t \in Threads |-> 0]

-----------------------------------------------------------------------------
word == content[frame]

\* __down_read_trylock succeeds, __down_read does not wait.
may_read == writer = "none"

\* The last reader hands mmap_sem to the writer that waits.
up_read(t) ==
    /\ readers' = readers \ {t}
    /\ writer' = IF writer = "waits" /\ readers' = {} THEN "holds" ELSE writer

Goto(t, label) == pc' = [pc EXCEPT ![t] = label]

\* Back to user mode with the word v found.
Return(t, v) ==
    /\ Goto(t, "user")
    /\ call' = [call EXCEPT ![t] = NoCall]
    /\ ret' = [ret EXCEPT ![t] = v]
    /\ dest' = [dest EXCEPT ![t] = 0]

Stay == UNCHANGED << call, ret, dest >>

\* A store to the frame that is mapped.
Store(v) ==
    /\ content' = [content EXCEPT ![frame] = v]
    /\ UNCHANGED << wp_works_ok, vma, pte, frame, theirs >>

\* A store once the page is writable: handle_mm_fault has given the process a
\* frame of its own, with what the shared one held, unless it had one.
CowAndStore(v) ==
    /\ content' = [content EXCEPT !["own"] = v]
    /\ frame' = "own"
    /\ pte' = "rw"
    /\ UNCHANGED << wp_works_ok, vma, theirs >>

-----------------------------------------------------------------------------
(* The emulator.                                                           *)

invalid_op(t, c) ==
    /\ pc[t] = "user"
    /\ call' = [call EXCEPT ![t] = c]
    /\ Goto(t, "load")
    /\ UNCHANGED << ret, dest >> /\ UNCHANGED page /\ UNCHANGED sem

\* The access faults and __do_page_fault takes mmap_sem.
EnterFault(t, label) ==
    /\ may_read
    /\ readers' = readers \cup {t} /\ writer' = writer
    /\ Goto(t, label)
    /\ UNCHANGED page

\* The access faults while a writer has mmap_sem, from code that is not in the
\* exception table: bad_area_nosemaphore, and no fixup.
FaultOops(t) ==
    /\ ~may_read
    /\ Goto(t, "oops")
    /\ Stay /\ UNCHANGED page /\ UNCHANGED sem

\* parse_emu_cmpxchg: "ax == *inst_dest" finds the page absent.
cmpxchg_faults(t) ==
    /\ pc[t] = "load" /\ call[t].op = "cmpxchg" /\ pte = "none"
    /\ \/ EnterFault(t, "fault") /\ Stay
       \/ FaultOops(t)

\* Mutant of xadd_faults: the load is a plain dereference, as in cmpxchg.
xadd_faults_Plain(t) ==
    /\ pc[t] = "load" /\ call[t].op = "xadd" /\ pte = "none"
    /\ \/ EnterFault(t, "fault") /\ Stay
       \/ FaultOops(t)

\* parse_emu_xadd: get_user finds the page absent.  It is in the exception
\* table, so __do_page_fault waits for mmap_sem if it has to.
xadd_faults(t) ==
    /\ pc[t] = "load" /\ call[t].op = "xadd" /\ pte = "none"
    /\ EnterFault(t, "fault") /\ Stay

\* access_error: the area may not be read.  cmpxchg's access has no fixup.  The
\* one of get_user returns -EFAULT, which parse_emu_xadd does not look at: it
\* goes on to "*inst_src = *inst_dest", which faults in the same way and has none.
fault_denied(t) ==
    /\ pc[t] = "fault" /\ vma = "none"
    /\ Goto(t, "oops")
    /\ up_read(t)
    /\ Stay /\ UNCHANGED page

\* handle_mm_fault for a read: the page is mapped read-only and the access is
\* tried again.
page_in(t) ==
    /\ pc[t] = "fault" /\ vma # "none"
    /\ pte' = IF pte = "none" THEN "ro" ELSE pte
    /\ up_read(t)
    /\ Goto(t, "load")
    /\ Stay /\ UNCHANGED << wp_works_ok, vma, frame, content, theirs >>

\* parse_emu_cmpxchg, the else branch.
cmpxchg_differs(t) ==
    /\ pc[t] = "load" /\ call[t].op = "cmpxchg" /\ pte # "none"
    /\ word # call[t].old
    /\ Return(t, word)
    /\ UNCHANGED page /\ UNCHANGED sem

\* A supervisor store does not fault: the page is writable, or the CPU does not
\* honour the WP bit.
StoreGoesThrough == pte = "rw" \/ ~wp_works_ok

\* parse_emu_cmpxchg, "*inst_dest = *inst_src" in the same step as the test.
cmpxchg_stores(t) ==
    /\ pc[t] = "load" /\ call[t].op = "cmpxchg" /\ pte # "none"
    /\ word = call[t].old
    /\ StoreGoesThrough
    /\ Store(call[t].arg)
    /\ Return(t, word)
    /\ UNCHANGED sem

\* The store faults on the read-only page.
cmpxchg_store_faults(t) ==
    /\ pc[t] = "load" /\ call[t].op = "cmpxchg" /\ pte # "none"
    /\ word = call[t].old
    /\ ~StoreGoesThrough
    /\ \/ EnterFault(t, "cow") /\ Stay
       \/ FaultOops(t)

\* access_error: the area may not be written, and the store has no fixup.
cmpxchg_denied(t) ==
    /\ pc[t] = "cow" /\ vma # "rw"
    /\ Goto(t, "oops")
    /\ up_read(t)
    /\ Stay /\ UNCHANGED page

\* The page is writable: the store is tried again, the test is not.
cmpxchg_cow(t) ==
    /\ pc[t] = "cow" /\ vma = "rw"
    /\ CowAndStore(call[t].arg)
    /\ Return(t, call[t].old)
    /\ up_read(t)

\* Mutant of xadd_at_once: the sum is not cut to a word.
xadd_at_once_NoWrap(t) ==
    /\ pc[t] = "load" /\ call[t].op = "xadd" /\ pte = "rw"
    /\ wp_works_ok \/ may_read
    /\ Store(word + call[t].arg)
    /\ Return(t, word)
    /\ UNCHANGED sem

\* parse_emu_xadd when nothing sleeps: mmap_sem is free to read and the page
\* is writable.  get_user and "*inst_src = *inst_dest" read the same word.
xadd_at_once(t) ==
    /\ pc[t] = "load" /\ call[t].op = "xadd" /\ pte = "rw"
    /\ wp_works_ok \/ may_read
    /\ Store((word + call[t].arg) % WordMod)
    /\ Return(t, word)
    /\ UNCHANGED sem

\* parse_emu_xadd up to a put_user that has to make the page writable, or to
\* wait for mmap_sem first.  By then get_user and "*inst_src = *inst_dest" have
\* both read the word, with nothing in between that could sleep.
xadd_loads(t) ==
    /\ pc[t] = "load" /\ call[t].op = "xadd" /\ pte # "none"
    /\ pte = "ro" \/ ~(wp_works_ok \/ may_read)
    /\ dest' = [dest EXCEPT ![t] = word]
    /\ UNCHANGED << call, ret >>
    /\ \/ EnterFault(t, "gup")
       \/ ~may_read /\ Goto(t, "put_wait") /\ UNCHANGED page /\ UNCHANGED sem

\* down_read(&mm->mmap_sem), in put_user or in its page fault, after the wait.
put_user_locks(t) ==
    /\ pc[t] = "put_wait"
    /\ EnterFault(t, "gup")
    /\ Stay

\* Mutant of put_user_stores: drops mmap_sem without copying the page.
put_user_stores_NoCopy(t) ==
    /\ pc[t] = "gup"
    /\ Store((dest[t] + call[t].arg) % WordMod)
    /\ Return(t, dest[t])
    /\ up_read(t)

\* Mutant of put_user_stores: get_user_pages is told to force the access.
put_user_stores_Force(t) ==
    /\ pc[t] = "gup"
    /\ CowAndStore((dest[t] + call[t].arg) % WordMod)
    /\ Return(t, dest[t])
    /\ up_read(t)

\* get_user_pages breaks copy-on-write, memcpy stores, up_read.
put_user_stores(t) ==
    /\ pc[t] = "gup" /\ vma = "rw"
    /\ CowAndStore((dest[t] + call[t].arg) % WordMod)
    /\ Return(t, dest[t])
    /\ up_read(t)

\* get_user_pages (or access_error, and put_user's fixup) refuses: put_user says
\* -EFAULT, which parse_emu_xadd does not look at.
put_user_fails(t) ==
    /\ pc[t] = "gup" /\ vma # "rw"
    /\ Return(t, dest[t])
    /\ up_read(t)
    /\ UNCHANGED page

-----------------------------------------------------------------------------
(* The rest of the kernel.                                                 *)

\* The page is swapped out or dropped.
reclaim ==
    /\ "reclaim" \in Env
    /\ pte # "none"
    /\ pte' = "none"
    /\ UNCHANGED << wp_works_ok, vma, frame, content, theirs, pc, call, dest, ret >>
    /\ UNCHANGED sem

\* fork() by a thread of this process: both processes map the frame read-only.
fork ==
    /\ "fork" \in Env
    /\ writer = "none" /\ readers = {}
    /\ frame = "own"
    /\ frame' = "shared"
    /\ pte' = IF pte = "none" THEN "none" ELSE "ro"
    /\ content' = [content EXCEPT !["shared"] = word]
    /\ theirs' = word
    /\ UNCHANGED << wp_works_ok, vma, pc, call, dest, ret >> /\ UNCHANGED sem

\* down_write and up_write by a thread in mmap(), brk() and the like.
mmap_write ==
    /\ "mmap" \in Env
    /\ \/ writer = "none" /\ writer' = IF readers = {} THEN "holds" ELSE "waits"
       \/ writer = "holds" /\ writer' = "none"
    /\ UNCHANGED << readers, pc, call, dest, ret >> /\ UNCHANGED page

\* A thread in mprotect() changes what the process may do with the area, and
\* gives mmap_sem back.  Under PROT_NONE no access finds the page; afterwards it
\* is there again, read-only, unless it has been reclaimed.
mprotect ==
    /\ "mprotect" \in Env
    /\ writer = "holds" /\ writer' = "none"
    /\ \/ vma # "none" /\ vma' = "none" /\ pte' = "none"
       \/ vma = "none" /\ vma' \in {"ro", "rw"} /\ pte' \in {"none", "ro"}
       \/ vma = "rw" /\ vma' = "ro" /\ pte' = IF pte = "rw" THEN "ro" ELSE pte
       \/ vma = "ro" /\ vma' = "rw" /\ pte' = pte
    /\ UNCHANGED << wp_works_ok, frame, content, theirs, readers, pc, call, dest, ret >>

Emulate(t) ==
    \/ \E c \in Calls : invalid_op(t, c)
    \/ cmpxchg_faults(t) \/ xadd_faults(t) \/ fault_denied(t) \/ page_in(t)
    \/ cmpxchg_differs(t) \/ cmpxchg_stores(t) \/ cmpxchg_store_faults(t)
    \/ cmpxchg_denied(t) \/ cmpxchg_cow(t)
    \/ xadd_at_once(t) \/ xadd_loads(t) \/ put_user_locks(t)
    \/ put_user_stores(t) \/ put_user_fails(t)

Next == (\E t \in Threads : Emulate(t)) \/ reclaim \/ fork \/ mmap_write \/ mprotect

Spec == Init /\ [][Next]_vars

-----------------------------------------------------------------------------
(* Properties.                                                             *)

Split == INSTANCE SplitWord
    WITH found    <- dest,
         step     <- [t \in Threads |->
                        CASE pc[t] \in {"put_wait", "gup"} -> "add"
                          [] pc[t] = "cow"  -> "store"
                          [] pc[t] = "oops" -> "dead"
                          [] OTHER -> "call"],
         access   <- vma,
         one_step <- ~wp_works_ok

\* What the emulated calls promise whatever becomes of the page and of mmap_sem
\* (SplitWord): cmpxchg is one step on a CPU that ignores the WP bit; the other
\* stores may come late, but come from the word that was found, are never half
\* done, and do not reach a word the process may not write; and no call returns
\* a word that the process might not read when the call read it.
ActsInTwoSteps == Split!Spec

\* put_user breaks copy-on-write in every interleaving: what other processes
\* see changes only by a cmpxchg, and only on a CPU that ignores the WP bit.
OnlyCmpxchgEscapes ==
    [][ content'["shared"] \notin {content["shared"], theirs'} =>
            /\ ~wp_works_ok
            /\ \E t \in Threads : call[t].op = "cmpxchg" /\ call'[t] = NoCall ]_vars

\* arch/x86/mm/fault.c, 1129-1131: the kernel "only validly references user space
\* from well defined areas of code, which are listed in the exceptions table".
\* If it did, no emulated instruction would oops it.
NoOops == \A t \in Threads : pc[t] # "oops"

\* get_user and put_user are in the exception table.  Neither waiting for
\* mmap_sem, nor a page that is absent, shared or write-protected makes xadd
\* oops: only an area that may not be read at all, where the -EFAULT of get_user
\* is ignored and "*inst_src = *inst_dest" reads the word without a fixup.
XaddOopsesOnlyUnreadable ==
    [][\A t \in Threads :
          call[t].op = "xadd" /\ pc[t] # "oops" /\ pc'[t] = "oops" => vma = "none"]_vars
=============================================================================
