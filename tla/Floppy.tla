------------------------------- MODULE Floppy -------------------------------
(***************************************************************************)
(* The command machine of the floppy driver (drivers/block/floppy.c): who  *)
(* owns the controller, which continuation, bottom half, timers and        *)
(* interrupt handler are set, and how a command ends.                      *)
(*                                                                         *)
(* floppy_wq is an ordered workqueue: floppy_work, fd_timer and fd_timeout *)
(* never run at the same time.  The kernel has one CPU and no preemption,  *)
(* and of the driver's code only a copy from or to user space and          *)
(* cancel_work_sync sleep: each piece of work is one step.  d is the       *)
(* driver's state; an operator on it gives the state, or all the states,   *)
(* in which the function of its name can leave it.                         *)
(*                                                                         *)
(* What the drive and the disk do is a choice.  A request stands for one   *)
(* piece of a request, a raw command for a chain of one that has bytes.    *)
(***************************************************************************)
EXTENDS Integers, Sequences, SequencesExt, FiniteSets

CONSTANTS
    Procs,      \* processes that make ioctl calls
    Reqs,       \* block requests
    Ops,        \* the calls: "format", "raw", "poll", "reset"
    NoReq,      \* no request
    MaxErrors,  \* DP->max_errors.abort
    Glitches,   \* times the controller fails while it is owned, at most
    MaxWaits    \* delays (selection, spinup) before a command is given, at most

ASSUME FloppyAssumption ==
    /\ NoReq \notin Reqs /\ "static" \notin Reqs
    /\ Ops \subseteq {"format", "raw", "poll", "reset"}
    /\ MaxErrors \in Nat /\ Glitches \in Nat /\ MaxWaits \in Nat

VARIABLES
    d,      \* the driver
    proc    \* what the processes do: pc and op

vars == << d, proc >>

Conts    == {"none", "rw", "format", "raw", "poll", "reset", "wakeup", "intr"}
Irqs     == {"none", "main_command_interrupt", "seek_interrupt", "recal_interrupt",
             "reset_interrupt"}
Works    == Irqs \cup {"redo_fd_request", "floppy_start", "floppy_ready", "reset_fdc"}
Timers   == {"none", "redo_fd_request", "floppy_start", "floppy_ready", "setup_rw_floppy",
             "fd_watchdog"}
Mishaps  == {"null", "pending", "conflict", "wild"}

TypeOK ==
    /\ d.busy \in BOOLEAN               \* fdc_busy
    /\ d.status \in -1 .. 3             \* command_status: -1 none, 2 error, 3 okay
    /\ d.cont \in Conts
    /\ d.do_floppy \in Irqs
    /\ d.work \in Works                 \* floppy_work, if pending
    /\ d.timer \in Timers               \* fd_timer, if pending
    /\ d.timeout \in {"off", "armed", "due"}    \* fd_timeout
    /\ d.reset \in BOOLEAN              \* FDCS->reset
    /\ d.irq \in BOOLEAN                \* the controller will interrupt, or has failed to
    /\ d.raw_cmd \in {"null", "default", "user", "freed"}
    /\ d.req \in Reqs \cup {NoReq}      \* current_req
    /\ d.queue \in Seq(Reqs)
    /\ d.errors \in Reqs \cup {"static"}        \* whose count errors points to
    /\ d.errs \in 0 .. MaxErrors + 1    \* *errors
    /\ d.got \in BOOLEAN                \* the track of current_req is in the buffer
    /\ d.glitches \in 0 .. Glitches     \* failures still to come
    /\ d.waits \in 0 .. MaxWaits        \* delays still to come
    /\ d.stuck \in BOOLEAN              \* the worker waits for itself
    /\ d.bad \subseteq Mishaps          \* history: what has gone wrong
    /\ d.late \in BOOLEAN               \* history: see floppy_shutdown
    /\ proc \in [Procs -> [pc : {"idle", "copyin", "wait", "copyout"}, op : Ops \cup {"none"}]]

-----------------------------------------------------------------------------
Bad(s, what) == [s EXCEPT !.bad = @ \cup {what}]
Glitch(s)    == [s EXCEPT !.glitches = @ - 1]
IfGlitch(s, S) == IF s.glitches > 0 THEN S ELSE {}

\* A byte is refused, or result() fails, and FDCS->reset is set.
Disturbed(s) == {s} \cup IfGlitch(s, {[Glitch(s) EXCEPT !.reset = TRUE]})

reschedule_timeout(s) == [s EXCEPT !.timeout = "armed"]

\* set_fdc: the status register of a controller that hangs is not STATUS_READY.
set_fdc(s) == Disturbed(s)

lock_fdc(s) == set_fdc(reschedule_timeout([s EXCEPT !.busy = TRUE, !.status = -1]))

unlock_fdc(s) ==
    [IF s.busy THEN s ELSE Bad(s, "conflict") EXCEPT
        !.raw_cmd = "null", !.status = -1, !.timeout = "off", !.do_floppy = "none",
        !.cont = "none", !.busy = FALSE, !.glitches = Glitches, !.waits = MaxWaits]

\* WARN_ON(work_pending(&floppy_work)): the handler is replaced.
schedule_bh(s, handler) ==
    [IF s.work = "none" THEN s ELSE Bad(s, "pending") EXCEPT !.work = handler]

\* Mutant of cancel_activity: fd_timer goes on.
cancel_activity_NoTimer(s) == [s EXCEPT !.do_floppy = "none", !.work = "none"]

cancel_activity(s) == [s EXCEPT !.do_floppy = "none", !.timer = "none", !.work = "none"]

reset_fdc(s) == [s EXCEPT !.do_floppy = "reset_interrupt", !.reset = FALSE, !.irq = TRUE]

process_fd_request(s) == schedule_bh([s EXCEPT !.cont = "rw"], "redo_fd_request")

-----------------------------------------------------------------------------
(* Continuations.                                                          *)

\* Mutant of do_wakeup: the continuation stays.
do_wakeup_Keep(s) == reschedule_timeout([s EXCEPT !.status = @ + 2])

do_wakeup(s) == reschedule_timeout([s EXCEPT !.cont = "none", !.status = @ + 2])

request_done(s) ==
    reschedule_timeout([s EXCEPT !.req = NoReq, !.got = FALSE, !.waits = MaxWaits])

\* cont->done
done(s, ok) ==
    CASE s.cont = "rw" -> request_done(s)
      [] s.cont \in {"wakeup", "intr"} -> s
      [] s.cont = "none" \/ (s.cont = "raw" /\ s.raw_cmd # "user") -> Bad(s, "null")
      [] OTHER ->
             [s EXCEPT !.status = ok, !.cont = "wakeup", !.waits = MaxWaits]

\* Mutant of bad_flp_intr: retry for ever.
bad_flp_intr_Retry(s) ==
    { [s EXCEPT !.errs = IF @ > MaxErrors THEN @ ELSE @ + 1, !.reset = r] : r \in {s.reset, TRUE} }

\* bad_flp_intr: the error is counted, whosever count it is.
bad_flp_intr(s) ==
    LET stale == s.errors \in Reqs /\ s.errors # s.req
        c == [IF stale THEN Bad(s, "wild") ELSE s EXCEPT
                 !.errs = IF @ > MaxErrors THEN @ ELSE @ + 1]
        e == IF c.errs > MaxErrors THEN done(c, 0) ELSE c
    IN  { [e EXCEPT !.reset = r] : r \in {e.reset, TRUE} }

\* cont->error
error(s) ==
    CASE s.cont \in {"rw", "format"} -> bad_flp_intr(s)
      [] s.cont \in {"raw", "poll", "reset"} -> {done(s, 0)}
      [] s.cont \in {"wakeup", "intr"} -> {s}
      [] s.cont = "none" -> {Bad(s, "null")}

-----------------------------------------------------------------------------
(* The next request.                                                       *)

\* fd_wait_for_completion returns 1.
Waits(s, function) ==
    CASE s.reset                 -> {reset_fdc(s)}
      [] ~s.reset /\ s.waits > 0 -> {[s EXCEPT !.timer = function, !.waits = @ - 1]}
      [] OTHER                   -> {}

\* Mutant of next_request: the timeout is not set again.
next_request_NoTimeout(s, all) ==
    [s EXCEPT !.req = Head(all), !.queue = Tail(all), !.raw_cmd = "default"]

next_request(s, all) ==
    reschedule_timeout([s EXCEPT !.req = Head(all), !.queue = Tail(all), !.raw_cmd = "default"])

\* Mutant of start_request: errors is set where there is none yet.
start_request_Once(s) ==
    schedule_bh(IF s.errors # "static" THEN s ELSE [s EXCEPT !.errors = s.req, !.errs = 0],
                "floppy_start")

start_request(s) ==
    schedule_bh([s EXCEPT !.errors = s.req, !.errs = IF s.errors = s.req THEN @ ELSE 0],
                "floppy_start")

\* redo_fd_request: n requests are done at once, because they are in the buffer
\* or the disk is gone; the next one is started, or waits for the motor.
redo_fd_request(s) ==
    LET all == (IF s.req = NoReq THEN <<>> ELSE << s.req >>) \o s.queue
        ended(n) == IF n = 0 THEN s ELSE request_done(s)
        with(n)  == LET rest == SubSeq(all, n + 1, Len(all))
                    IN  IF rest = <<>> THEN {unlock_fdc([ended(n) EXCEPT !.queue = <<>>])}
                        ELSE UNION { Waits(t, "redo_fd_request")
                                     \cup (IF t.reset \/ t.got THEN {} ELSE {start_request(t)}) :
                                     t \in set_fdc(next_request(ended(n), rest)) }
    IN  UNION { with(n) : n \in IF s.reset THEN {0} ELSE 0 .. Len(all) }

\* cont->redo, after cont->done.
redo_done(s) ==
    CASE s.cont = "rw"     -> redo_fd_request(s)
      [] s.cont = "wakeup" -> {do_wakeup(s)}
      [] s.cont = "intr"   -> {process_fd_request(s)}
      [] s.cont = "none"   -> {Bad(s, "null")}

success_and_wakeup(s) == redo_done(done(s, 1))

-----------------------------------------------------------------------------
(* The way to a command.  w: the caller runs as floppy_work.               *)

\* Without a disk change the watchdog goes on.  With one, cancel_work_sync waits
\* for floppy_work: for itself, if that is what it runs as.
fd_watchdog(s, w) ==
    {[s EXCEPT !.timer = "fd_watchdog"],
     IF w THEN [cancel_activity(s) EXCEPT !.stuck = TRUE]
          ELSE reset_fdc(done(cancel_activity(s), 0))}

\* A command with an interrupt: the bytes are refused, as they always are after
\* an earlier refusal, or it starts, with a watchdog if it needs the disk.
give_command(s, w) ==
    LET t == [s EXCEPT !.do_floppy = "main_command_interrupt"]
        u == [t EXCEPT !.irq = TRUE]
    IN  IF s.reset THEN { reset_fdc(e) : e \in error(t) }
        ELSE IfGlitch(t, { reset_fdc(e) : e \in error(Glitch(t)) })
             \cup fd_watchdog(u, w)
             \cup (IF s.cont = "raw" THEN {u} ELSE {})

\* A raw command need not wait for the motor.
setup_rw_floppy(s, w) ==
    IF s.raw_cmd \in {"null", "freed"} THEN {Bad(s, "null")}
    ELSE (IF s.cont = "poll" THEN {}
          ELSE Waits(s, "setup_rw_floppy") \cup Waits(s, "floppy_start")
               \cup (IF s.reset /\ s.cont # "raw" THEN {} ELSE give_command(s, w)))
         \cup (IF s.cont \in {"poll", "raw"} THEN success_and_wakeup(s) ELSE {})

\* A recalibration or a seek: its last byte is accepted or refused.
Command(s, handler) ==
    { IF t.reset THEN reset_fdc(t) ELSE [t EXCEPT !.do_floppy = handler, !.irq = TRUE] :
        t \in Disturbed(s) }

\* The disk is gone; a recalibration; a seek; neither is needed.
seek_floppy(s, w) ==
    redo_done(done(s, 0))
    \cup Command(s, "recal_interrupt")
    \cup Command(s, "seek_interrupt")
    \cup setup_rw_floppy(s, w)

\* perpendicular_mode refuses the data rate of a raw command: done, and a reset
\* as a "convenient way to return to redo".
bad_rate(s, w) == seek_floppy([done(s, 0) EXCEPT !.reset = TRUE], w)

\* twaddle, perpendicular_mode, fdc_specify and check_wp talk to the controller
\* on the way.
floppy_ready(s, w) ==
    CASE s.reset -> {reset_fdc(s)}
      [] ~s.reset /\ s.raw_cmd \in {"null", "freed"} -> {Bad(s, "null")}
      [] OTHER -> Waits(s, "floppy_ready")
                  \cup UNION { seek_floppy(t, w)
                               \cup (IF t.cont = "raw"
                                     THEN bad_rate(t, w) \cup setup_rw_floppy(t, w) ELSE {}) :
                               t \in Disturbed(s) }

\* scandrives calls set_fdc for each drive.
floppy_start(s, w) == UNION { floppy_ready(t, w) : t \in set_fdc(reschedule_timeout(s)) }

\* cont->redo
redo(s, w) ==
    CASE s.cont \in {"format", "raw"} -> floppy_start(s, w)
      [] s.cont = "poll"  -> floppy_ready(s, w)
      [] s.cont = "reset" -> success_and_wakeup(s)
      [] OTHER -> redo_done(s)

error_and_redo(s, w) == UNION { redo(e, w) : e \in error(s) }

-----------------------------------------------------------------------------
(* What runs after an interrupt.                                           *)

\* A bogus interrupt; the transfer is done, or is now in the buffer; an error;
\* a hopeless one; nothing transferred without an error.
rw_interrupt(s, w) ==
    {s} \cup (IF s.req = NoReq THEN {Bad(s, "null")}
              ELSE UNION { redo(done(t, 1), w) \cup redo([t EXCEPT !.got = TRUE], w) :
                           t \in Disturbed(s) })
        \cup error_and_redo(s, w)
        \cup redo(done(s, 0), w)
        \cup IfGlitch(s, redo(Glitch(s), w))

format_interrupt(s, w) ==
    error_and_redo(s, w) \cup redo(done(s, 0), w) \cup redo(done(s, 1), w)

main_command_interrupt(s, w) ==
    LET t == [s EXCEPT !.timer = "none"]
    IN  CASE t.cont = "rw"     -> rw_interrupt(t, w)
          [] t.cont = "format" -> format_interrupt(t, w)
          [] t.cont \in {"poll", "raw"} -> success_and_wakeup(t)
          [] t.cont \in {"reset", "wakeup", "intr"} -> {t}
          [] t.cont = "none"   -> {Bad(t, "null")}

seek_interrupt(s, w) == error_and_redo(s, w) \cup floppy_ready(s, w)

recal_interrupt(s, w) ==
    seek_interrupt(s, w) \cup IfGlitch(s, floppy_ready([Glitch(s) EXCEPT !.reset = TRUE], w))

\* result(), and an error if that or the interrupt handler has set reset: "a
\* reset just after a reset.  BAD!"
reset_interrupt(s, w) ==
    UNION { IF t.reset THEN error_and_redo(t, w) ELSE redo(t, w) : t \in Disturbed(s) }

Run(function, s, w) ==
    CASE function = "redo_fd_request" -> redo_fd_request(s)
      [] function = "floppy_start"    -> floppy_start(s, w)
      [] function = "floppy_ready"    -> floppy_ready(s, w)
      [] function = "setup_rw_floppy" -> setup_rw_floppy(s, w)
      [] function = "fd_watchdog"     -> fd_watchdog(s, w)
      [] function = "reset_fdc"       -> {reset_fdc(s)}
      [] function = "main_command_interrupt" -> main_command_interrupt(s, w)
      [] function = "seek_interrupt"  -> seek_interrupt(s, w)
      [] function = "recal_interrupt" -> recal_interrupt(s, w)
      [] function = "reset_interrupt" -> reset_interrupt(s, w)

\* Mutant of floppy_shutdown: the command is done, and nobody is told.
floppy_shutdown_NoRedo(s) == {done([cancel_activity(s) EXCEPT !.reset = TRUE], 0)}

\* The timeout.  There is no continuation while a process that owns the
\* controller copies its arguments or results, or has not run since it was woken.
floppy_shutdown(s) ==
    LET t == [cancel_activity(s) EXCEPT !.reset = TRUE]
    IN  IF t.cont # "none" THEN redo_done(done(t, 0))
        ELSE {[process_fd_request(t) EXCEPT !.late = TRUE]}

-----------------------------------------------------------------------------
(* The worker of floppy_wq, the timer of fd_timeout, the interrupt.        *)

floppy_work ==
    /\ d.work # "none" /\ ~d.stuck
    /\ d' \in Run(d.work, [d EXCEPT !.work = "none"], TRUE)
    /\ UNCHANGED proc

fd_timer ==
    /\ d.timer # "none" /\ ~d.stuck
    /\ d' \in Run(d.timer, [d EXCEPT !.timer = "none"], FALSE)
    /\ UNCHANGED proc

timeout_due ==
    /\ d.timeout = "armed"
    /\ d' = [d EXCEPT !.timeout = "due"]
    /\ UNCHANGED proc

fd_timeout ==
    /\ d.timeout = "due" /\ ~d.stuck
    /\ d' \in floppy_shutdown([d EXCEPT !.timeout = "off"])
    /\ UNCHANGED proc

\* An interrupt, due or not.  Nobody waits for it, or result() may fail.
floppy_interrupt ==
    /\ d.irq \/ d.glitches > 0
    /\ LET s == [IF d.irq THEN d ELSE Glitch(d) EXCEPT
                    !.irq = FALSE, !.do_floppy = "none", !.reset = FALSE]
           t == schedule_bh(s, d.do_floppy)
       IN  IF d.do_floppy = "none"
           THEN d' = [s EXCEPT !.reset = TRUE]
           ELSE d' \in Disturbed(t)
    /\ UNCHANGED proc

-----------------------------------------------------------------------------
(* Processes.                                                              *)

Now(p, pc, op) == proc' = [proc EXCEPT ![p] = [pc |-> pc, op |-> op]]
Return(p) == Now(p, "idle", "none")

\* The head of do_format, raw_cmd_ioctl, poll_drive and user_reset_fdc, up to
\* the wait in wait_til_done.
Begin(s, op) ==
    LET t == [s EXCEPT !.cont = op,
                       !.raw_cmd = CASE op = "raw" -> "user" [] op = "reset" -> @ [] OTHER -> "default",
                       !.errors = IF op = "format" THEN "static" ELSE @,
                       !.errs = IF op = "format" THEN 0 ELSE @,
                       !.reset = @ \/ op = "reset"]
    IN  schedule_bh(t, CASE op \in {"format", "raw"} -> "floppy_start"
                         [] op = "poll"  -> "floppy_ready"
                         [] op = "reset" -> "reset_fdc")

\* lock_fdc, and on without sleeping, but for a raw command.  The call may be
\* refused.
ioctl(p, op) ==
    /\ proc[p].pc = "idle" /\ ~d.busy
    /\ \E s \in lock_fdc(d) :
          \/ /\ op = "raw" /\ ~s.reset
             /\ d' = s
             /\ Now(p, "copyin", op)
          \/ /\ op # "raw"
             /\ d' = Begin(s, op)
             /\ Now(p, "wait", op)
          \/ /\ d' = process_fd_request(s)
             /\ UNCHANGED proc

raw_cmd_copyin(p) ==
    /\ proc[p].pc = "copyin"
    /\ \/ /\ d' = Begin(d, "raw")
          /\ Now(p, "wait", "raw")
       \/ /\ d' = process_fd_request(d)
          /\ Return(p)

\* wait_til_done returns.
command_done(p) ==
    /\ proc[p].pc = "wait" /\ d.status >= 2
    /\ LET s == [d EXCEPT !.status = -1]
       IN  IF proc[p].op = "raw" THEN d' = s /\ Now(p, "copyout", "raw")
                                 ELSE d' = process_fd_request(s) /\ Return(p)

raw_cmd_copyout(p) ==
    /\ proc[p].pc = "copyout"
    /\ d' = process_fd_request([d EXCEPT !.raw_cmd = "freed"])
    /\ Return(p)

\* wait_til_done: a signal.
interrupted(p) ==
    /\ proc[p].pc = "wait" /\ d.status < 2 /\ ~d.stuck
    /\ LET s == reset_fdc([cancel_activity(d) EXCEPT !.cont = "intr"])
       IN  d' = IF proc[p].op = "raw" THEN [s EXCEPT !.raw_cmd = "freed"] ELSE s
    /\ Return(p)

Pending == Range(d.queue) \cup ({d.req} \ {NoReq})

\* Mutant of do_fd_request: fdc_busy is set without a test.
do_fd_request_NoTest(r) ==
    /\ r \notin Pending
    /\ \E s \in lock_fdc([d EXCEPT !.queue = Append(@, r)]) : d' = process_fd_request(s)
    /\ UNCHANGED proc

\* A new request.
do_fd_request(r) ==
    /\ r \notin Pending
    /\ LET s == [d EXCEPT !.queue = Append(@, r)]
       IN  IF s.busy THEN d' = s ELSE \E t \in lock_fdc(s) : d' = process_fd_request(t)
    /\ UNCHANGED proc

-----------------------------------------------------------------------------
Init ==
    /\ d = [busy |-> FALSE, status |-> -1, cont |-> "none", do_floppy |-> "none",
            work |-> "none", timer |-> "none", timeout |-> "off", reset |-> FALSE,
            irq |-> FALSE, raw_cmd |-> "null", req |-> NoReq, queue |-> <<>>,
            errors |-> "static", errs |-> 0, got |-> FALSE, glitches |-> Glitches,
            waits |-> MaxWaits, stuck |-> FALSE, bad |-> {}, late |-> FALSE]
    /\ proc = [p \in Procs |-> [pc |-> "idle", op |-> "none"]]

Process(p) == raw_cmd_copyin(p) \/ command_done(p) \/ raw_cmd_copyout(p)

Driver ==
    \/ floppy_work \/ fd_timer \/ timeout_due \/ fd_timeout \/ floppy_interrupt
    \/ \E p \in Procs : Process(p) \/ interrupted(p) \/ \E op \in Ops : ioctl(p, op)
    \/ \E r \in Reqs : do_fd_request(r)

\* The worker waits for itself, or a process has been overtaken by the timeout:
\* Spec does not look at what follows.
given_up == (d.stuck \/ d.late) /\ UNCHANGED vars

Next == (~d.late /\ Driver) \/ given_up

\* Work and timers run; interrupts may be lost.
Fairness ==
    /\ WF_vars(~d.late /\ floppy_work)
    /\ WF_vars(~d.late /\ fd_timer)
    /\ WF_vars(~d.late /\ timeout_due)
    /\ WF_vars(~d.late /\ fd_timeout)
    /\ \A p \in Procs : WF_vars(~d.late /\ Process(p))

Spec == Init /\ [][Next]_vars /\ Fairness

\* The same driver, with what follows when a process has been overtaken.
UncutSpec == Init /\ [][Driver]_vars

-----------------------------------------------------------------------------
(* Properties.                                                             *)

\* No function of a continuation or field of a raw command is reached through a
\* null or freed pointer, no bottom half replaces one that is pending, and nobody
\* unlocks a controller that is free: whatever interrupts and signals come in
\* whatever order, and whatever timeouts, until one overtakes a process that
\* copies its arguments or results.  What follows that one is NoConflict's.
NoMishapUntilLate == ~d.late => d.bad \subseteq {"wild"}

\* The driver's own assertions: schedule_bh's WARN_ON(work_pending(&floppy_work))
\* and unlock_fdc's "FDC access conflict!" never fire.
NoConflict == d.bad \cap {"pending", "conflict"} = {}

\* A process that holds the controller is alone with it: the driver is busy,
\* with its command or none, and no block request has been taken up.
Exclusive ==
    ~d.late => \A p \in Procs : proc[p].pc # "idle" =>
        /\ d.busy /\ d.req = NoReq
        /\ d.cont \in {proc[p].op, "wakeup", "none"}
        /\ \A q \in Procs : proc[q].pc # "idle" => q = p

\* What is_alive checks ("timeout handler died"): while a command runs, the
\* timeout is set, or the function that sets it is about to run.
TimeoutAlive ==
    d.busy /\ d.status < 2 =>
        d.timeout # "off" \/ d.work = "redo_fd_request" \/ d.stuck

\* An error is counted for the request that is served.  Only a controller that
\* has failed in a reset, or can still fail when reset_interrupt reads its result,
\* before redo_fd_request has set errors, makes bad_flp_intr write to a request
\* that is over.
ErrorsOfCurrent ==
    [][ "wild" \in d'.bad \ d.bad =>
            d.work = "reset_interrupt" /\ (d.reset \/ d.glitches > 0) ]_vars

\* wait_til_done returns, even if interrupts get lost.
WaitReturns ==
    \A p \in Procs : proc[p].pc = "wait" ~> proc[p].pc # "wait" \/ d.stuck \/ d.late

\* A request that has been made ends, however many commands fail before.  The
\* failures the driver counts are bounded by max_errors.abort; command bytes that
\* the controller refuses are not counted by the code, and a controller that
\* refuses them for ever is excluded by the bound Glitches alone.
RequestEnds ==
    \A r \in Reqs : r \in Pending ~> r \notin Pending \/ d.stuck \/ d.late
=============================================================================
