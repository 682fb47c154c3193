# gray386linux: a TLA+ development

gray386linux is Linux 3.7.10, busybox, musl and dropbear built for a real i386.
Almost all of the tree is upstream code. What makes the system run on a 386 is
small: an emulator for the 486 instructions that user space contains, the
kernel paths that a CPU without those instructions and without a working WP bit
takes, and a C library whose locks are built from the emulated instructions.
This directory models that core, and three parts every boot of such a machine
goes through (reading the partition table, the floppy drive, PID 1), checks them
with TLC, and proves their safety properties and refinements with TLAPS for every
value of the constants.

## The parts of the system

| part | state | operations | interacts with | hard behaviour |
|---|---|---|---|---|
| instruction emulator, `arch/x86/kernel/i486_emu.c`, called by `do_invalid_op` (`traps.c`) | the trapped process: `pt_regs`, its memory; `parser_state` while decoding | one trap: decode, `parse_emu_cmpxchg`, `parse_emu_xadd`, `parse_emu_bswap`, skip `endbr32`, roll back and SIGILL | user programs and musl (every `a_cas`, `a_fetch_add`), page faults, `put_user` | lengths and displacements that move with a lock prefix, addresses at the end of user space, rollback on each failing path |
| emulated instructions seen by several threads: i486_emu.c, `__copy_to_user_ll` (`usercopy_32.c`), `__do_page_fault` (`fault.c`) | page table entry and frame of a word, `mm->mmap_sem`, each thread's place in the handler | load, compare, store, fault, break copy-on-write | the emulator, the semaphore, fork, page reclaim, mmap | the handler sleeps half-way; a 386 ignores WP in kernel mode |
| read/write semaphore, `lib/rwsem-spinlock.c` (`CONFIG_RWSEM_GENERIC_SPINLOCK`) | `activity`, `wait_list`, each waiter's `task` and `flags`, task states | down, trylock, up, downgrade | all users of mmap_sem | wake-ups between a test and a sleep, hand-over in order |
| musl's internal lock, `__lock.c`, `pthread_create.c` | the lock word, `need_locks`, `threads_minus_1`, the thread list lock | `__lock`, `__unlock`, create, exit | emulator (atomics), kernel futexes, which `.config` leaves out | locking is switched on and off while threads come and go; sleeping on a stale value |
| kernel `cmpxchg_386_*`, `arch/x86/lib/cmpxchg.c` | one word | compare and exchange with interrupts off | kernel | none: one CPU, one step |
| reading partitions, `block/partition-generic.c`, `check.c`, `check.h`, `msdos.c` | `disk->part_tbl`, native-capacity flag; `parsed_partitions` during a scan | drop, scan primary and extended tables, enlarge the disk, add | block layer, disk driver | links in circles, limits, 32-bit sector sums, a capacity that changes in the middle |
| floppy driver, `drivers/block/floppy.c` | `fdc_busy`, `command_status`, `cont`, `do_floppy`, `raw_cmd`, `current_req`, `errors`, `FDCS->reset`, the work item and two timers | requests, format, raw command, poll, reset; interrupt, bottom half, timer, timeout | block layer, an ordered work queue, processes in ioctl | a timeout that races an interrupt or a signal; lost and spurious interrupts |
| busybox init, `init/init.c`, with `gray386/etc/inittab` and `rc` | list of actions and their pids, pending signals | run, wait, reap, respawn, reload, Ctrl-Alt-Del, restart, halt; SIGTSTP handler | every process | deaths, signals and the handler between any two steps |
| udhcpc, dropbear | protocol state | vendored, unmodified | network | |
| build scripts, initramfs list, docker and nix environments | none | sequential scripts | | |

What makes each correct:

- emulator: a trapped instruction has the effect it has on a 486, or the process
  gets SIGILL exactly where it trapped; kernel memory and system flags are safe;
- several threads: a locked instruction is one atomic step, stays inside the
  process, and never brings the kernel down;
- semaphore: readers or one writer, in order of arrival, nobody left behind;
- musl's lock: mutual exclusion also across the moments when locking is switched
  on and off, a lock word that counts right, no lost wake-up;
- partitions: a scan ends whatever the disk says, finds what a plain walk of the
  tables finds, and creates no device that leaves the disk;
- floppy: one user of the controller at a time, nothing done through a stale
  pointer, and every request and every waiting process comes to an end;
- init: every process of the table runs once, dead ones are noticed and restarted,
  the stages of boot and shutdown are kept apart.

## Modules

| module | what it is |
|---|---|
| `I386Machine` | registers, flags, memory and program text that the trap sees |
| `I486Isa` | abstract: what a 486 does with the instructions: executes them, or faults and leaves the process untouched |
| `I486Emu` | the emulator and `do_invalid_op`, its named shortfalls; claims `ImplementsIsa` outside of them |
| `I486EmuProofs` | the theorems about `I486Emu` |
| `RwLock` | abstract: a fair reader/writer lock |
| `RwsemSpinlock` | `lib/rwsem-spinlock.c`; claims `ImplementsRwLock` |
| `SplitWord` | abstract: a word on which a store may be a step of its own |
| `EmuAtomic` | emulated instructions of several threads with faults, copy-on-write and mprotect; claims `ActsInTwoSteps`, that it implements `SplitWord` |
| `MuslLock` | `__lock.c` and the counting in `pthread_create.c` |
| `MsdosPartition` | `rescan_partitions` with the DOS table parser |
| `Floppy` | the command machine of the floppy driver |
| `BusyboxInit` | PID 1 |
| `RwsemProofs`, `EmuAtomicProofs`, `MuslLockProofs`, `MsdosPartitionProofs`, `FloppyProofs`, `BusyboxInitProofs` | the theorems about these |
| `MsdosListProofs` | more about `MsdosPartition`: what a scan finds, and that it is finite |
| `MC...` | values for the constants |

They build on each other by their promises: `EmuAtomic` uses mmap_sem as `RwLock`
promises it (readers share; a writer that holds or waits keeps new readers out),
and its handler steps are those of `I486Emu` cut where they sleep. `MuslLock`
takes `a_cas` and `a_fetch_add` as single steps, which is what the locked instructions
of a 486 give; `SplitWord` says how far the emulated ones fall short of it.

### I486Emu and i486_emu.c

`insts` and `insts2` are sequences of four bytes, so `insts >>= 8` drops the
first. A pointer is a record saying whether it points at a slot of the saved
`pt_regs` or at a user address; that difference is what `regs_only` and
`access_ok` are about. `parse_modrm_register`, `parse_emu_cmpxchg`,
`parse_emu_xadd`, `parse_emu_bswap`, `parse_emu_instruction` and `do_invalid_op`
are definitions of the same names. A handler returns an *outcome*: return value,
registers, ip, flags, memory and whether it oopsed. The handler is one action;
for one thread that is exact. `text` is the sequence of instructions that will
trap; what the program does between two traps is not modelled, apart from the
initial values being arbitrary.

`I486Isa` is written from the instruction set and takes no account of the emulator.
An instruction that is executable (its bytes can be fetched, its operand is a
mapped user word or a register, no lock prefix on a register form) is executed;
any other is a signal with registers, ip, flags and memory as they were. There is
no oops in it. Where the emulator differs is listed in `I486Emu`, one definition
each: `Indirect` (`(%reg)` operands, refused), `NegativeDisp8` (zero-extended),
`BySib` (refused), `LockedRegister` (executed; a 486 raises #UD), `Unmapped` (oops
in place of a page fault), `SwapsFrame` (`bswap` of `%esp` and `%ebp`, refused) and
`CutOff` (the last seven bytes of the mapped text, refused). `ImplementsIsa` says
that a trap outside of these is a step of `I486Isa`; `RunsAsOn486` says it of all
traps, is what README.md:19 promises, and is refuted by `emu_isa`. SIB operands,
which the source says it does not support, are in neither: `I486Isa` does not
describe them. After `cmpxchg` only ZF is compared with the 486, which also sets
the other arithmetic flags.

### EmuAtomic

One word of memory, its page table entry (absent, read-only, writable), the
frame behind it (the process' own or a shared one) and the threads that operate
on it. With one CPU and no preemption (`.config`: SMP not set,
`PREEMPT_NONE`) the handler is a single step until it sleeps: in a page fault,
in the wait for mmap_sem, in `put_user`'s `get_user_pages`. `wp_works_ok` is
`boot_cpu_data.wp_works_ok`: FALSE on a 386, TRUE on the Cyrix 486DLC, which the
project's README supports as well; `WpFound` says which of the two a run looks
at. `vma` is the permission of the area (none, read-only, writable), which mprotect
changes under the handler. Where writing is forbidden `put_user` fails, and nobody
looks at its result (`put_user_fails`), while the plain store of cmpxchg oopses
(`cmpxchg_denied`). Under PROT_NONE both instructions oops (`fault_denied`): xadd's
`get_user` returns -EFAULT, which is ignored, and `*inst_src = *inst_dest` (line 277)
then reads the word without an exception table entry. Otherwise that read follows
`get_user` without a chance to sleep in between and finds the same word.
`reclaim`, `fork`, `mmap_write` and `mprotect` are the environment: they stand
for the rest of the kernel and may happen at any time its locking allows.

`SplitWord` is what remains true in all of these circumstances. On a CPU that
ignores WP, cmpxchg is still one step. Elsewhere its store may come after another
thread's, and xadd's may on every CPU; but a late store is made of the word that
was read, it is made once, and it does not reach a word the process may not
write. The lost update is visible in it: between `Read` and `Add` of one thread
another may add, and that addition is overwritten.

### RwsemSpinlock

What `wait_lock` protects is one step. The wait loop is three: test
`waiter.task`, `schedule()`, `set_task_state()`; hand-overs and wake-ups from
elsewhere (`stray_wakeup`) come between them. A task *holds* the semaphore from
the moment it is handed over, before it wakes; that is the refinement mapping to
`RwLock`.

### MuslLock

Each atomic operation, each read of `need_locks` or the lock word and each
system call is a step. `has_futex` is chosen once: FALSE is the kernel
configuration of this repository, where `__futexwait` returns at once. One lock
word stands for all of them, and exiting threads use it as their killlock. The end
of a thread is three steps: `exit_uncount` (line 147, `need_locks = -1` when one
other thread is left), `exit_unlink` (148-150) and `sys_exit`, at which the kernel
releases the thread list lock; the others run in between and see the first before
the second. `listed` is the list. A thread that has counted itself down is
`Leaving`: it is still there, and calls LOCK no more. `SkipOnlyAlone` is about the
threads that can: line 147 is right because of what comes before it, and wrong if
any LOCK came after it, which is what the comment above that line says.

### MsdosPartition

A scan is a loop of small steps with the program counter `pc`: the boot sector,
the four primary entries, and for an extended one the chain of tables
(`read_table`, `data_entry`, `link`, for the three parts of the loop in
`parse_extended`), then the loop over the partition numbers in
`rescan_partitions`. Sectors are records of what the parser looks at. Sums and
products are modulo `WordMod`, because CONFIG_LBDAF is not set and `sector_t` has
32 bits. Every read may fail; a read beyond the capacity fails and sets
`access_beyond_eod`. `unlock_native_capacity` may enlarge the disk once, and the
scan starts again, from three different places. The disk's contents do not
change; `add_partition` may fail. `FollowsTheList` compares the result with
`Logical`, the partitions of the list of tables: `Tables(k)` is the chain of the
extended partition in slot k as a function from positions to tables, in plain
arithmetic, and a partition's number is 5 plus how many come before it. It knows no
loop, no counter and no variable of the parser.

### Floppy

`d` is the record of the driver's global variables, and each function of the
driver is an operator of the same name from such a record to the record, or the
set of records, it can leave. So a piece of work that the work queue runs is one
step, which it is on one CPU without preemption; `w` tells a function that it runs
as `floppy_work`, because then `cancel_work_sync` on `floppy_work` waits for
itself. What happens outside of the driver is a choice: whether the disk is there,
whether a seek is needed, what the result bytes say, when an interrupt comes and
whether it does. `Disturbed` is a byte the controller refuses or a `result()` that
fails. A process is idle, copies arguments, waits, or copies results; only the
raw command ioctl sleeps between locking and waiting.

Two conditions end a behaviour of `Spec`: `stuck` (the worker waits for itself,
see "Limits") and `late` (the timeout has given the controller away under a process
that copies). `UncutSpec` is the same driver without the second cut: it goes on, and
`floppy_late` shows which of the driver's assertions fire then. `set_fdc` may find a
controller that is not ready and ask for a reset, wherever the code calls it.

### BusyboxInit

The list of actions is a sequence of records with the command, the action type
and the pid. `Main` is one step of init between two points where the SIGTSTP
handler could be noticed; so `a->pid = run(a)` is two steps, and so is the moving
of an entry by a reload; and each stale entry is removed by a step of its own. `doing` is the call of `run_actions` nested in
`check_delayed_sigs`, `phase` the place in `init_main`. A process is alive, a
zombie or gone, and remembers what it was started as. The delayed signals are a
set, as pending signals are; they are fetched in any order. SIGUSR1, SIGUSR2 and
SIGPWR act as SIGTERM, ASKFIRST entries as RESPAWN entries. After a restart init
begins again with children it did not start.

## Runs

| run | question | result |
|---|---|---|
| `emu` | but for the seven shortfalls, are trapped instructions executed as on a 486? | holds: `TypeOK`, `ImplementsIsa`, `KernelUntouched`, `SigillIsPrecise`, `SystemFlagsKept` |
| `emu_isa` | is every trapped instruction run as on a 486, as README.md says? | no: `RunsAsOn486`; cmpxchg on `(%ecx)` is refused |
| `rwsem` | is the semaphore a fair lock? | holds: `TypeOK`, `Exclusion`, `WriterWaitsFirst`, `NoLostWakeup`, `ImplementsRwLock`, `EveryoneServed` |
| `musl_lock` | does musl's lock work while threads come and go? | holds: `TypeOK`, `MutualExclusion`, `Congestion`, `CountIncludesUs`, `SkipOnlyAlone`, `LockProgress` |
| `atomic` | what do emulated instructions promise on any CPU, whatever happens to the page? | holds: `TypeOK`, `XaddOopsesOnlyUnreadable`, `ActsInTwoSteps`, `OnlyCmpxchgEscapes` |
| `atomic_oops` | does the kernel access user memory only from the exception table? | no: `NoOops`; cmpxchg oopses on valid memory while mmap_sem is held for writing |
| `msdos` | does a scan end with the right partitions, whatever the disk says? | holds: `TypeOK`, `InsideUnlessWrapped`, `FollowsTheList`, `WholeDiskTried`, `Terminates` |
| `msdos_wrap` | is every partition limited to the end of the disk? | no: `InsideDisk`; one whose end wraps around 2^32 is added whole |
| `floppy` | do commands end, one at a time, whatever interrupts, timeouts and signals do? | holds, until a timeout overtakes a process that copies: `TypeOK`, `NoMishapUntilLate`, `Exclusive`, `TimeoutAlive`, `ErrorsOfCurrent`, `WaitReturns`, `RequestEnds` |
| `floppy_late` | do the driver's assertions hold after that, too? | no: `NoConflict`; a pending bottom half is replaced |
| `init` | is every process run, noticed and restarted, whatever arrives in between? | holds: `TypeOK`, `NoDuplicate`, `Tracked`, `ListMatchesFile`, `StagesInOrder`, `Noticed`, `IdleRunsAgain` |
| `init_respawn` | is a RESPAWN command always restarted? | no: `RestartsOnExit`; one whose fork failed is not |

Bounds. `emu`: a byte of a word has 16 values in place of 256 (TLC's integers
have 32 bits, and products of four digits must fit); opcode, prefix and ModRM
bytes keep their values, so the decoder sees every form: each opcode, each mod,
SIB and non-SIB registers, with and without lock prefix, displacements at zero,
positive, negative and wrapping, operands that are mapped user words, unmapped,
just below `TASK_SIZE` and above it. Programs have one trap, of any form, or three
of a few forms, where a trap starts from whatever the ones before it left. The run may stop, since a program ends, so deadlock is not
checked there. The proofs below remove these bounds. `rwsem`: three tasks are
one holder and two waiters, in all orders of modes. `musl_lock`: three threads
reach the second waiter, the wake-up of one of two sleepers and the barging
thread; one spin in place of ten (the loop's iterations are alike), and
INT_MIN = -8, which leaves room for the counts of three threads. `atomic`: three
threads, words of two values, and a mix of xadd with the two cmpxchg that take and
release a lock word; one thread can then be in `put_user` while a second breaks
copy-on-write and a third faults. The violation runs have the fewest threads that
show the point. `msdos`: sector numbers below 32, so
that sums wrap; partition numbers below 8, so that the table fills up in the
first, second or third sector of a chain; two links without a partition in place
of 100. The disks are three tables linked in all ways, circles included; disks
with their end before, in and behind tables and partitions, with and without a
larger native capacity; two extended partitions; 1024-byte blocks; boot sectors
that are no tables. `msdos_wrap` takes those with a changing capacity. `floppy`: two processes and two requests, so that a request
waits behind a process and behind a request; `MaxErrors` = 1, so that a command is
retried and given up; one failure of the controller per ownership (`Glitches`)
and one delay per command (`MaxWaits`), which together with timeouts, signals and
lost interrupts, of which there may be any number, reach each branch. `init`: this
system's inittab and an edited one without the shell and with WAIT and ONCE
entries, any number of reloads between the two; two pids and one orphan, so that a
pid is used again and forks fail; one signal pending beside SIGCHLD. `init_respawn`
is this system's own inittab, with no fault but a failing fork. `floppy_late`: one
process, one request and raw commands, on a controller that never fails.

Symmetry over threads is used only in the `atomic` runs, which check no liveness.

Fairness. `rwsem`: a runnable task is scheduled, and a holder leaves its critical
section; nothing says that a task asks, or is woken except by the code.
`musl_lock`: a thread inside `__lock`, `__unlock`, `__pthread_create` or
`__pthread_exit` keeps going; nobody has to call LOCK, exit or interrupt. Both
are weak fairness, which a scheduler that does not forget runnable tasks gives.
`msdos`: weak fairness of the scan's own steps; nobody has to ask for a scan.
`floppy`: weak fairness of the work queue, the two timers, the copying and the
return of a process that was woken; none for interrupts, which may all be lost,
nor for signals, requests and calls. That is what a timeout is for, and why
`WaitReturns` and `RequestEnds` say something. `init`: strong fairness of init's
steps, because it may be stopped again and again and must still get to run in
between; of the reaping of each zombie, because `do_wait` takes the children in
order; and of the end of the waitpid loop, which an endless stream of dying
orphans could otherwise prevent. The programs init waits for end by themselves,
and who sends SIGTSTP sends SIGCONT. A RESPAWN process need not ever die.

## Proofs

Every safety property that a run checks and that holds is a theorem for every
value of the constants, and so are the three refinements. Of three liveness
properties the part that is safety is a theorem of its own: `ScanIsFinite`,
`WakeupNotLost` and `NoDeathSleptOver`. The theorems are in a module beside the
component's.

| module | theorem: property |
|---|---|
| `I486EmuProofs` | `TypeCorrect`: `TypeOK`; `KernelSafe`: `KernelUntouched`; `SigillPrecise`: `SigillIsPrecise`; `SystemFlagsSafe`: `SystemFlagsKept`; `EmulatorImplementsIsa`: `ImplementsIsa` |
| `EmuAtomicProofs` | `TypeCorrect`: `TypeOK`; `XaddOopses`: `XaddOopsesOnlyUnreadable`; `EscapeSafe`: `OnlyCmpxchgEscapes`; `SplitRefinement`: `ActsInTwoSteps` |
| `RwsemProofs` | `TypeCorrect`: `TypeOK`; `WriterAlone`: `Exclusion`; `FrontIsWriter`: `WriterWaitsFirst`; `WakeupArrives`: `NoLostWakeup`; `FairRwLock`: `ImplementsRwLock` |
| `MuslLockProofs` | `TypeCorrect`: `TypeOK`; `LockExcludes`: `MutualExclusion`; `WordCounts`: `Congestion`; `CountIncludes`: `CountIncludesUs`; `SkipIsSafe`: `SkipOnlyAlone`; `WakeupNotLost`: `SleepersHaveHelp` |
| `MsdosPartitionProofs` | `TypeCorrect`: `TypeOK`; `PartitionsLimited`: `InsideUnlessWrapped`; `NativeCapacityTried`: `WholeDiskTried` |
| `MsdosListProofs` | `ScanFollowsTheList`: `FollowsTheList`; `ScanIsFinite`: `StepsLeft` decreases |
| `FloppyProofs` | `TypeCorrect`: `TypeOK`; `DriverKeepsOrder`: `NoMishapUntilLate`; `OwnerAlone`: `Exclusive`; `TimeoutStaysSet`: `TimeoutAlive`; `ErrorsCounted`: `ErrorsOfCurrent` |
| `BusyboxInitProofs` | `TypeCorrect`: `TypeOK`; `NobodyLost`: `Tracked`; `RunsOnce`: `NoDuplicate`; `ReloadIsExact`: `ListMatchesFile`; `StagesKeptApart`: `StagesInOrder`; `NoDeathSleptOver`: `SleepsOverNobody` |

The assumptions are the named ASSUMEs of the models, which TLC evaluates in each
run. `MachineAssumption`, `EmuAssumption`, `EmuAtomicAssumption`: the constants
have their types, a byte has more than one value. `TasksAssumption`: finitely many
tasks. `LockAssumption`: finitely many threads, and few enough that INT_MIN plus
their number stays below -1, which a 32-bit word gives to two thousand million
threads; `None` is no thread. `MsdosAssumption`: a disk's capacity is not 0 and not
above the native one, there are five partition numbers or more. `FloppyAssumption`:
the special values are no requests. `InitAssumption`: pids are above 1, and no
inittab has two lines with the same command and terminal.

### The inductive invariants

Except for `TypeOK` of the emulator no property is inductive as the run states
it. The invariants below hold on the runs' instances, too (TLC).

**I486Emu.** `TypeOK` is inductive, and it is all the state a trap needs: the
handler keeps nothing between traps. The work is in one step. First the decoder:
`PastFields` to `DispFields` follow `parser_state` through its shifts with and
without a lock prefix, and `Operand` states, in terms of the instruction bytes
alone, where `parse_modrm_register` finds its operands and where ip ends up.
Then `Sound(o)`, the contract of an outcome: well-typed, kernel words and system
flags as before, and everything as before when the return value is negative
after `Rollback`. `CmpxchgSound`, `XaddSound`, `BswapSound`, `DispatchSound` and
`InstructionSound` establish it function by function; the action properties
follow from `StepSound`. For the refinement the instructions are split by what a
486 does with them. `NotCarriedOut`: one that is not executable, and none of the
shortfalls, is refused with everything as it was. `CarriedOut`: one that is
executable, and none of the shortfalls, gets to its handler with the 486's operand
(`MemoryOperand`, `RegisterOperand`) and length; `CmpxchgRefines`, `XaddRefines` and
`BswapRefines` then map the outcome to a step of `I486Isa`, and `StepRefines` puts
the two together. `BswapIsSwap` shows that the masks and shifts reverse the bytes.

**EmuAtomic.** `IInv` adds to the types what a thread knows at each label
(`AtLabel`: only xadd gets to `put_user`, and only there has it a value it read
before; only cmpxchg gets to a fault of its store, and only where WP works) and how page table entry, frame and area fit (`PageOK`: a
writable entry is of a private frame in a writable area). For the refinement
each step of a handler is mapped to the load, the store or the failing of a
`SplitWord` operation, or to a stutter.

**RwsemSpinlock.** `IInv` says who is on `wait_list` and in what state (`ListInv`),
that `activity` counts the readers inside or is -1 for a writer (`Count`),
`Exclusion` and `WriterWaitsFirst`; the last two need each other, since `__up_read`
hands over without looking at the flags. A release by any of `__up_read`,
`__up_write` and `__downgrade_write` is one thing in the proof, `Dequeue(k)`: the
first k waiters get the lock, and they are all readers or one writer. That is what
the refinement needs too, where the abstract lock grants to a whole batch.

**MuslLock.** The lock word is right because every thread that changed it is
accounted for. `Counted` gives the range of what a thread last read at its label,
`Accounting` ties `threads_minus_1` and `need_locks` to `Users`, the threads that are
not on the last steps of their exit,
`ListLock` says that creating and exiting exclude each other, `OneOwner` that one
thread at most has the word's lock flag, `AtLabel` that a thread that skipped the
lock or is about to switch locking off is the only one of these; and `Congestion` itself
is part of the invariant: the word minus its lock flag is the cardinality of the
set of threads inside, so the proof is about sets that gain or lose one element.
`SleepersHaveHelp` is inductive on top of it: a thread falls asleep only on a word
that has the flag, so there is an owner; the owner that lets go with a sleeper
inside finds a count above one and goes to `__wake`; and `__wake` leaves its place
to the thread it wakes.

**MsdosPartition.** `TypeInv` bounds the counters at each step (a slot of a table
at most 4; a data entry has a partition number left). `InsideUnlessWrapped` is then
inductive. `WholeDiskTried` needs `SeenSoFar`: of the partitions `rescan_partitions`
has passed, none was beyond the end unless the disk has been unlocked.

`FollowsTheList` takes an invariant of the walk, `FollowInv`: at position p (slot,
table, entry) all partitions of the list before p have been recorded under their
numbers, and nothing else (`WalkedTo`), unless the numbers have run out; inside a
chain, `first_sector`, `this_sector` and `this_size` are those of the list, and
`loopct` is the number of tables since the last one with a partition (`InChain`).
That a chain is left after `MaxLinks` such tables, or when the numbers run out, and
that nothing the list counts is lost by it, is where the parser and the list have to
agree. The list is a recursive function. That it satisfies its own equation is shown
by induction, and the library's induction theorems are out of reach (they take an
operator as a parameter); its least-number principle is about sets, though, and from
it `LeastNumber` and `CountsUp` follow. From there on the proofs are about any `tab`
with `ListOf(tab)`, that is, any list that satisfies the equation. Numbers are
cardinalities of sets of places, so one more partition is one more element.

`StepsLeft` is a number with seven digits, from the unlocking of the capacity down to
the entries left in a table. Each action makes some digit smaller and keeps those
before it (`DigitFalls`), which makes the number smaller (`FallShrinks`).

**Floppy.** `IInv` has three parts: `Guarded` (the timeout is set or will be, the
core of `TimeoutAlive`), `Settled` (`Sane`: what `raw_cmd`, `current_req`, `errors` and
`command_status` are under each continuation; `OneAtATime`: of the work item, the
timer and the expected interrupt one at most is set, the watchdog apart;
`Expected`: what is set suits the continuation, and nothing is set without one) and, per process, `Owner`. The last two hold until `late`. A
function of the driver is an operator on the record of its variables, so the proof
has one lemma per function, from what it requires of the record it gets to what it
guarantees of those it leaves, and an action is their composition, as in the code.

**BusyboxInit.** `Tracked` says that some entry has the pid of a process; to show
that it is not started twice one must know that it is the entry it was started for
(`Owned`), that no other entry has its command (`Distinct`), and that an entry that
is about to get a pid has none (`Control`), for otherwise `a->pid = run(a)` could
overwrite one. `WaitedFor` says that a process init has to wait for is the one
waitfor has. For `ListMatchesFile` the invariant `FileInv` says it of the lines
read so far; a moved entry was not in force, because the file has its command only
once. `DeathKnown` is inductive with `IInv`: it follows a pid from `run()` into its
entry, off the list and back, and says that from the death on SIGCHLD is pending or
init is on a path that goes through the waitpid loop (`ReapComes`). It also says that
only the main loop gives entries a pid, without which a SIGCHLD that is fetched
between two stages of the boot would be lost.

Proving led to changes in the models. `Waits` of `Floppy` and `read_mbr` of
`MsdosPartition` had CASE arms that overlapped; TLC takes the first, the language
does not say which. A reload in `BusyboxInit` removed all stale entries in one
step; it now goes through the list like the loop in the code, and the SIGTSTP
handler can run in between. The list that `FollowsTheList` refers to was
restated as a recursive function and sets of places.

### Only model-checked

- Liveness: `EveryoneServed`, `LockProgress`, `Terminates`, `WaitReturns`,
  `RequestEnds`, `Noticed`, `IdleRunsAgain`. TLAPS does not reason about fairness here.
  What they rest on is proved where it is safety: `ScanIsFinite` for `Terminates`,
  `WakeupNotLost` for `LockProgress`, `NoDeathSleptOver` for `Noticed`,
  `NoLostWakeup` and the refinement for `EveryoneServed`, `TimeoutAlive` for
  `WaitReturns` and `RequestEnds`.
- The five violations, which are counterexamples.

`ones`, the bit count behind the parity flag, is a recursive function, and no
theorem depends on its value: the emulator and the 486 use the same one.

## Findings

1. `emu_isa`: the emulator does not run every cmpxchg, xadd and bswap as README.md:19
   says. The shortest run is `0f b1 01`, cmpxchg on `(%ecx)`, refused with SIGILL
   although the word is there (`i486_emu.c:143`): the pointer to the saved register
   is used in place of its content, and `access_ok` rejects it. musl's `a_cas`
   compiles to this form. The same property fails on the other shortfalls that
   `I486Emu` lists: lock prefixes on register forms are executed (tested only in
   line 293), unmapped operands oops the kernel (212, 277), negative byte
   displacements are zero-extended (169), `bswap` of `%esp` and `%ebp` and instructions
   at the very end of the text are refused.
2. `atomic_oops`: cmpxchg dereferences user memory outside the exception table
   (`i486_emu.c:212`), against `fault.c:1129-1131`, and oopses if mmap_sem is held for
   writing at that moment.
3. `init_respawn`: `init.c:174` says of RESPAWN "restart on exit" and 608-610 "If
   pid != 0, it is already running"; a fork that fails leaves -1 in `a->pid` (line
   612), and the command is never tried again.
4. `msdos_wrap`: `partition-generic.c:503-508` limits partitions "to the end of the
   disk to avoid creating invalid block devices", but `from + size` (494) is a
   32-bit sum, and a partition whose end wraps around is added whole.
5. `floppy_late`: schedule_bh's `WARN_ON(work_pending(&floppy_work))` (`floppy.c:968`)
   fires when `fd_timeout` runs while the process of a raw command copies its
   arguments: there is no continuation, `floppy_shutdown` (1834) queues
   `redo_fd_request` under it, and the process replaces that bottom half.

What the passing runs show besides, in what they have to allow:

- xadd loses updates when `put_user` sleeps (`i486_emu.c:280`, with its own "TODO:
  can sleep!" at line 249): `ActsInTwoSteps` holds of `SplitWord`, whose xadd is two
  steps, and not of one whose xadd is one.
- cmpxchg stores without breaking copy-on-write on a CPU that ignores WP
  (`i486_emu.c:214`), which `usercopy_32.c:584-589` says must be done by hand:
  `OnlyCmpxchgEscapes` has that case as its conclusion.
- xadd oopses in an area that may not be read, because the error of `get_user`
  (`i486_emu.c:250`) is ignored and line 277 reads again: `XaddOopsesOnlyUnreadable`
  says that this is the only way.

## Limits

What the models of the three boot components showed besides. The properties are
stated so that these cases are visible in them.

- Partitions: the containment test in `parse_extended` (line 160) is a 32-bit sum,
  too; `FollowsTheList` is about disks on which nothing wraps (`NoWrap`).
- Floppy, `stuck`: when `setup_rw_floppy` runs as `floppy_work` and the disk is
  removed at that moment, `fd_watchdog` calls `cancel_work_sync` on the work item
  that is running. The worker waits for itself and the driver stands still.
- Floppy, `late`: `Exclusive`, `WaitReturns`, `RequestEnds` and `NoMishapUntilLate`
  claim nothing once the timeout has handed the controller on under a process that
  copies.
- Floppy: a reset that fails just after a reset, or whose `result()` fails, makes `bad_flp_intr` count an
  error through `errors` although the request it points into is over
  (`ErrorsOfCurrent` says that this is the only way). A controller that accepts
  resets and refuses all command bytes is retried without being counted; the model
  allows `Glitches` such failures per owner. Processes that wait in `lock_fdc` can
  be overtaken for ever by block requests, so no liveness is claimed for them.
- init: `RestartsOnExit` fails in two more ways. The SIGTSTP handler can reap a
  process before `a->pid` is assigned, or while its entry is off the list, and the
  entry then keeps a pid nobody has (`Faults = {"stop"}`). And a `waitfor` whose
  child the handler has reaped goes on only when another child dies (`Stranded`);
  if none does, init stands still, although 900-902 say that waitfor must be
  "resilient against this" (`Signals = {"INT"}`). `IdleRunsAgain` is therefore about
  entries whose pid is 0, and its premise excludes runs that stay stranded.

## Not modelled

vm86 mode; failing page allocation and munmap of a page in use; the contents of
`printk`; the thread list lock's own implementation; joining, detaching and robust
mutexes; in the floppy driver DMA, buffers, geometry and probing (counted like
other errors), motors, open and release, chains of raw commands and requests in
several pieces; in init terminals, environment, logging and the single-user
argument; partition formats that are not compiled in, and disks whose partitions
are in use. `cmpxchg_386_*` is one step with interrupts off and leaves nothing to
interleave. udhcpc and dropbear are vendored and unmodified, and the scripts are
sequential.

## Plan

1. `EmuLock`: `MuslLock` over the steps of `SplitWord` in place of single steps, to
   see what a lost update does to the lock word.
2. `udhcpc`: the client's timeouts and renewals.
