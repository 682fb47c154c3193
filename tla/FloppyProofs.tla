---------------------------- MODULE FloppyProofs ----------------------------
(***************************************************************************)
(* What holds of Floppy for all sets of processes, requests and calls and  *)
(* for every bound on failures and delays.                                 *)
(*                                                                         *)
(* The worker runs one function at a time on the driver's state.  Each     *)
(* function starts from a state in which nothing else is set up (Running)  *)
(* and must leave one in which at most one thing is (OneAtATime), it suits *)
(* the continuation (Expected), the timeout is set (Guarded) and the       *)
(* controller belongs to whom it belonged before (Keeps).  There is a      *)
(* lemma of this form for each function of the driver, in the order in     *)
(* which they call each other.                                             *)
(***************************************************************************)
EXTENDS Floppy, SequenceTheorems, TLAPS

State == [busy : BOOLEAN, status : -1 .. 3, cont : Conts, do_floppy : Irqs, work : Works,
          timer : Timers, timeout : {"off", "armed", "due"}, reset : BOOLEAN, irq : BOOLEAN,
          raw_cmd : {"null", "default", "user", "freed"}, req : Reqs \cup {NoReq},
          queue : Seq(Reqs), errors : Reqs \cup {"static"}, errs : 0 .. MaxErrors + 1,
          got : BOOLEAN, glitches : 0 .. Glitches, waits : 0 .. MaxWaits, stuck : BOOLEAN,
          bad : SUBSET Mishaps, late : BOOLEAN]

\* The functions that talk to the drive, through raw_cmd.
ForDrive == {"floppy_start", "floppy_ready", "setup_rw_floppy", "seek_interrupt",
             "recal_interrupt", "main_command_interrupt"}

\* There is a command for the drive.
Prepared(s) ==
    /\ s.cont \in {"rw", "format", "raw", "poll"}
    /\ s.raw_cmd \in {"default", "user"}
    /\ s.cont = "rw" => s.req # NoReq /\ s.errors = s.req

\* What the continuation says of the rest.
Sane(s) ==
    /\ s.bad \subseteq {"wild"}
    /\ s.cont # "none" => s.busy /\ s.status < 2
    /\ s.cont = "wakeup" => s.status >= 0
    /\ s.cont # "rw" => s.req = NoReq
    /\ s.cont = "format" => s.errors = "static"
    /\ s.cont \in {"format", "poll"} => s.raw_cmd = "default"
    /\ s.cont = "raw" => s.raw_cmd = "user"

Dormant(s) == s.work = "none" /\ s.timer = "none" /\ s.do_floppy = "none"

\* Of the bottom half, fd_timer and the interrupt handler one is set, but for
\* the watchdog of a command.
OneAtATime(s) ==
    /\ s.work # "none" => s.do_floppy = "none"
    /\ s.timer \notin {"none", "fd_watchdog"} => s.work = "none" /\ s.do_floppy = "none"
    /\ s.timer = "fd_watchdog" => "main_command_interrupt" \in {s.work, s.do_floppy}

\* What is set suits the continuation.
Expected(s) ==
    /\ s.cont = "none" \/ s.stuck => Dormant(s)
    /\ s.cont = "none" => ~s.stuck
    /\ "redo_fd_request" \in {s.work, s.timer} => s.cont = "rw"
    /\ s.work \in ForDrive \/ s.timer \in ForDrive \/ s.do_floppy \in ForDrive => Prepared(s)

Settled(s) == Sane(s) /\ OneAtATime(s) /\ Expected(s)

\* TimeoutAlive, with a command that is done and not yet picked up.
Armed(s)   == s.timeout # "off"
Guarded(s) == s.busy => Armed(s) \/ s.work = "redo_fd_request" \/ s.stuck

\* A process that is in a call owns the controller.
Owner(p) ==
    proc[p].pc # "idle" =>
        /\ d.busy /\ proc[p].op # "none"
        /\ d.cont \in {proc[p].op, "wakeup", "none"}
        /\ proc[p].pc = "wait" => (d.cont = "none" <=> d.status >= 2)
        /\ proc[p].pc # "wait" => d.cont = "none" /\ d.status = -1 /\ proc[p].op = "raw"
        /\ \A q \in Procs : proc[q].pc # "idle" => q = p

IInv ==
    /\ d \in State
    /\ proc \in [Procs -> [pc : {"idle", "copyin", "wait", "copyout"}, op : Ops \cup {"none"}]]
    /\ Guarded(d)
    /\ ~d.late => Settled(d) /\ \A p \in Procs : Owner(p)

-----------------------------------------------------------------------------
(* What a function of the driver starts from, and what it leaves.          *)

\* The worker has begun: nothing is pending.  A handler may be set.
Loose(s) ==
    /\ s \in State /\ Sane(s)
    /\ s.work = "none" /\ s.timer = "none" /\ ~s.stuck /\ s.cont # "none"

Running(s) == Loose(s) /\ s.do_floppy = "none"

\* The owner is the same, or has been told that its command is done, or there
\* was no process and the controller is free.
SameOwner(s, t) ==
    IF s.cont \in {"rw", "intr"}
    THEN t.cont \in {"rw", "intr"} \/ (t.cont = "none" /\ ~t.busy)
    ELSE /\ t.busy
         /\ t.cont \in {s.cont, "wakeup"} \/ (t.cont = "none" /\ t.status >= 2)

Keeps(s, t) == t.bad = s.bad /\ t.late = s.late /\ SameOwner(s, t)

\* A function has come from s to t, and goes on.
Comes(s, t) == Loose(t) /\ Keeps(s, t) /\ (Armed(s) => Armed(t))

\* A function has begun in s and left t.
Leaves(s, t) == t \in State /\ Settled(t) /\ Guarded(t) /\ Keeps(s, t)

\* What comes and leaves has left.
LEMMA ComesLeaves ==
    ASSUME NEW s, NEW t, NEW u, Loose(s), Comes(s, t), Leaves(t, u)
    PROVE  Leaves(s, u)
BY DEF Loose, Comes, Leaves, Keeps, SameOwner

LEMMA ComesComes ==
    ASSUME NEW s, NEW t, NEW u, Loose(s), Comes(s, t), Comes(t, u)
    PROVE  Comes(s, u)
BY DEF Loose, Comes, Keeps, SameOwner

-----------------------------------------------------------------------------
(* Continuations.                                                          *)

\* cont->done
LEMMA DoneComes ==
    ASSUME NEW s, Loose(s), NEW ok \in 0 .. 1
    PROVE  /\ Comes(s, done(s, ok))
           /\ done(s, ok).cont \in {"rw", "wakeup", "intr"}
           /\ done(s, ok).do_floppy = s.do_floppy
           /\ done(s, ok).cont = "rw" => Armed(done(s, ok))
<1>0. MaxWaits \in 0 .. MaxWaits /\ NoReq \in Reqs \cup {NoReq} /\ ok \in -1 .. 3
    BY FloppyAssumption
<1>s. s \in State
    BY DEF Loose
<1>1. CASE s.cont = "rw"
  <2>1. done(s, ok) = [s EXCEPT !.req = NoReq, !.got = FALSE, !.waits = MaxWaits, !.timeout = "armed"]
    BY <1>1, <1>s DEF done, request_done, reschedule_timeout, State
  <2>2. done(s, ok) \in State
    BY <1>s, <2>1, <1>0 DEF State
  <2> QED
    BY <1>1, <1>s, <2>1, <2>2 DEF State, Loose, Comes, Keeps, SameOwner, Sane, Armed
<1>2. CASE s.cont \in {"wakeup", "intr"}
  <2>1. done(s, ok) = s
    BY <1>2 DEF done
  <2> QED
    BY <1>2, <2>1 DEF Loose, Comes, Keeps, SameOwner, Sane, Armed
<1>3. CASE s.cont \in {"format", "raw", "poll", "reset"}
  <2>1. done(s, ok) = [s EXCEPT !.status = ok, !.cont = "wakeup", !.waits = MaxWaits]
    BY <1>3 DEF done, Loose, Sane
  <2>2. done(s, ok) \in State
    BY <1>s, <2>1, <1>0 DEF State, Conts
  <2> QED
    BY <1>3, <1>s, <2>1, <2>2 DEF State, Loose, Comes, Keeps, SameOwner, Sane, Armed
<1> QED
    BY <1>1, <1>2, <1>3 DEF Loose, State, Conts

\* An error is counted, and the controller perhaps reset, without the end of
\* the command.
LEMMA CountComes ==
    ASSUME NEW s, Loose(s), NEW r \in BOOLEAN,
           NEW n \in 0 .. MaxErrors + 1
    PROVE  LET e == [s EXCEPT !.errs = n, !.reset = r]
           IN  Comes(s, e) /\ e.do_floppy = s.do_floppy /\ e.cont = s.cont
<1> DEFINE e == [s EXCEPT !.errs = n, !.reset = r]
<1>s. s \in State
    BY DEF Loose
<1>1. e \in State
    BY <1>s DEF State
<1> QED
    BY <1>s, <1>1 DEF State, Loose, Comes, Keeps, SameOwner, Sane, Armed

\* bad_flp_intr, whosever count it is.
Counted(s) ==
    LET c == [s EXCEPT !.errs = IF @ > MaxErrors THEN @ ELSE @ + 1]
        f == IF c.errs > MaxErrors THEN done(c, 0) ELSE c
    IN  { [f EXCEPT !.reset = r] : r \in {f.reset, TRUE} }

LEMMA CountedComes ==
    ASSUME NEW s, Loose(s), NEW e \in Counted(s)
    PROVE  Comes(s, e) /\ e.do_floppy = s.do_floppy
<1>s. s \in State
    BY DEF Loose
<1> DEFINE n == IF s.errs > MaxErrors THEN s.errs ELSE s.errs + 1
           c == [s EXCEPT !.errs = n]
           f == IF c.errs > MaxErrors THEN done(c, 0) ELSE c
<1>1. PICK r \in {f.reset, TRUE} : e = [f EXCEPT !.reset = r]
    BY <1>s DEF Counted
<1>2. n \in 0 .. MaxErrors + 1
    BY <1>s, FloppyAssumption DEF State
<1>3. s.reset \in BOOLEAN /\ c = [s EXCEPT !.errs = n, !.reset = s.reset]
    BY <1>s DEF State
<1> HIDE DEF n, c
<1>4. Comes(s, c) /\ c.do_floppy = s.do_floppy
  <2>1. /\ Comes(s, [s EXCEPT !.errs = n, !.reset = s.reset])
        /\ [s EXCEPT !.errs = n, !.reset = s.reset].do_floppy = s.do_floppy
    BY <1>2, <1>3, CountComes
  <2> QED
    BY <1>3, <2>1
<1>5. Comes(s, f) /\ f.do_floppy = s.do_floppy
  <2>1. Comes(c, done(c, 0)) /\ done(c, 0).do_floppy = c.do_floppy
    BY <1>4, DoneComes DEF Comes
  <2> QED
    BY <2>1, <1>4, ComesComes
<1> HIDE DEF f
<1>6. f \in State
    BY <1>5 DEF Comes, Loose
<1>7. r \in BOOLEAN /\ f.errs \in 0 .. MaxErrors + 1
      /\ e = [f EXCEPT !.errs = f.errs, !.reset = r]
    BY <1>1, <1>6 DEF State
<1>8. Comes(f, e) /\ e.do_floppy = f.do_floppy
    BY <1>5, <1>7, CountComes DEF Comes
<1> QED
    BY <1>5, <1>8, ComesComes

\* cont->error, when errors points to the count of the current command.
LEMMA ErrorComes ==
    ASSUME NEW s, Loose(s), s.cont = "rw" => ~(s.errors \in Reqs /\ s.errors # s.req),
           NEW e \in error(s)
    PROVE  Comes(s, e) /\ e.do_floppy = s.do_floppy
<1>s. s \in State
    BY DEF Loose
<1>1. CASE s.cont \in {"rw", "format"}
  <2>1. ~(s.errors \in Reqs /\ s.errors # s.req)
    BY <1>1, FloppyAssumption DEF Loose, Sane
  <2>2. e \in bad_flp_intr(s)
    BY <1>1 DEF error
  <2> QED
    BY <2>1, <2>2, CountedComes DEF bad_flp_intr, Counted
<1>2. CASE s.cont \in {"raw", "poll", "reset"}
  <2>1. e = done(s, 0)
    BY <1>2 DEF error
  <2> QED
    BY <2>1, DoneComes
<1>3. CASE s.cont \in {"wakeup", "intr"}
  <2>1. e = s
    BY <1>3 DEF error
  <2> QED
    BY <1>3, <2>1 DEF Comes, Keeps, SameOwner, Loose, Sane
<1> QED
    BY <1>1, <1>2, <1>3, <1>s DEF Loose, State, Conts

\* A glitch.
LEMMA GlitchComes ==
    ASSUME NEW s, Loose(s), s.glitches > 0, NEW r \in BOOLEAN
    PROVE  LET t == [Glitch(s) EXCEPT !.reset = r]
           IN  /\ Comes(s, t) /\ t.do_floppy = s.do_floppy
               /\ Prepared(s) => Prepared(t)
               /\ t.cont = s.cont /\ t.reset = r
<1> DEFINE t == [Glitch(s) EXCEPT !.reset = r]
<1>s. s \in State
    BY DEF Loose
<1>1. s.glitches - 1 \in 0 .. Glitches
    BY <1>s, FloppyAssumption DEF State
<1>2. t = [s EXCEPT !.glitches = s.glitches - 1, !.reset = r]
    BY <1>s DEF Glitch, State
<1>3. t \in State
    BY <1>s, <1>1, <1>2 DEF State
<1>4. /\ t.cont = s.cont /\ t.busy = s.busy /\ t.status = s.status /\ t.work = s.work
      /\ t.timer = s.timer /\ t.do_floppy = s.do_floppy /\ t.timeout = s.timeout
      /\ t.raw_cmd = s.raw_cmd /\ t.req = s.req /\ t.errors = s.errors
      /\ t.stuck = s.stuck /\ t.bad = s.bad /\ t.late = s.late /\ t.reset = r
    BY <1>s, <1>2 DEF State
<1> HIDE DEF t
<1>5. Comes(s, t)
    BY <1>3, <1>4 DEF Loose, Comes, Keeps, SameOwner, Sane, Armed
<1>6. Prepared(s) => Prepared(t)
    BY <1>4 DEF Prepared
<1> QED
    BY <1>4, <1>5, <1>6 DEF t

\* Only FDCS->reset and the failures still to come change when the controller is
\* disturbed.
LEMMA DisturbedFields ==
    ASSUME NEW s \in State, NEW t \in Disturbed(s)
    PROVE  /\ t \in State
           /\ t.cont = s.cont /\ t.busy = s.busy /\ t.status = s.status /\ t.work = s.work
           /\ t.timer = s.timer /\ t.do_floppy = s.do_floppy /\ t.timeout = s.timeout
           /\ t.raw_cmd = s.raw_cmd /\ t.req = s.req /\ t.errors = s.errors
           /\ t.stuck = s.stuck /\ t.bad = s.bad /\ t.late = s.late
           /\ t.reset = s.reset \/ (t.reset /\ s.glitches > 0)
<1>1. CASE t = s
    BY <1>1
<1>2. CASE s.glitches > 0 /\ t = [Glitch(s) EXCEPT !.reset = TRUE]
  <2>1. t = [s EXCEPT !.glitches = s.glitches - 1, !.reset = TRUE]
    BY <1>2 DEF Glitch, State
  <2>2. s.glitches - 1 \in 0 .. Glitches
    BY <1>2, FloppyAssumption DEF State
  <2>3. t \in State
    BY <2>1, <2>2 DEF State
  <2> QED
    BY <1>2, <2>1, <2>3 DEF State
<1> QED
    BY <1>1, <1>2 DEF Disturbed, IfGlitch

\* The controller is disturbed, or not.
LEMMA DisturbedComes ==
    ASSUME NEW s, Loose(s), NEW t \in Disturbed(s)
    PROVE  /\ Comes(s, t) /\ t.do_floppy = s.do_floppy
           /\ Prepared(s) => Prepared(t)
           /\ t.cont = s.cont
<1>1. CASE t = s
    BY <1>1 DEF Comes, Keeps, SameOwner, Loose, Sane
<1>2. CASE s.glitches > 0 /\ t = [Glitch(s) EXCEPT !.reset = TRUE]
    BY <1>2, GlitchComes
<1> QED
    BY <1>1, <1>2 DEF Disturbed, IfGlitch

\* reset_fdc: the handler of the reset is set.
LEMMA ResetLeaves ==
    ASSUME NEW s, Loose(s), Armed(s)
    PROVE  Leaves(s, reset_fdc(s))
<1> DEFINE t == [s EXCEPT !.do_floppy = "reset_interrupt", !.reset = FALSE, !.irq = TRUE]
<1>s. s \in State
    BY DEF Loose
<1>1. t \in State
    BY <1>s DEF State, Irqs
<1>2. reset_fdc(s) = t
    BY DEF reset_fdc
<1>3. /\ t.cont = s.cont /\ t.busy = s.busy /\ t.status = s.status /\ t.work = s.work
      /\ t.timer = s.timer /\ t.do_floppy = "reset_interrupt" /\ t.timeout = s.timeout
      /\ t.raw_cmd = s.raw_cmd /\ t.req = s.req /\ t.errors = s.errors
      /\ t.stuck = s.stuck /\ t.bad = s.bad /\ t.late = s.late
    BY <1>s DEF State
<1> HIDE DEF t
<1>4. Settled(t)
    BY <1>3 DEF Settled, Sane, OneAtATime, Expected, Loose, ForDrive, Dormant
<1> QED
    BY <1>1, <1>2, <1>3, <1>4 DEF Leaves, Loose, Sane, Guarded, Armed, Keeps, SameOwner

\* A function that does nothing leaves the rest to the timeout.
LEMMA NothingLeaves == ASSUME NEW s, Running(s), Armed(s) PROVE Leaves(s, s)
BY DEF Leaves, Settled, Sane, OneAtATime, Expected, Running, Loose, ForDrive, Dormant,
       Guarded, Keeps, SameOwner

-----------------------------------------------------------------------------
(* The next request.                                                       *)

\* A bottom half is scheduled.
LEMMA ScheduleLeaves ==
    ASSUME NEW s, Running(s), NEW handler \in Works \ {"none"},
           handler = "redo_fd_request" => s.cont = "rw",
           handler \in ForDrive => Prepared(s),
           Armed(s) \/ handler = "redo_fd_request"
    PROVE  Leaves(s, schedule_bh(s, handler))
<1> DEFINE t == [s EXCEPT !.work = handler]
<1>s. s \in State
    BY DEF Running, Loose
<1>1. t \in State
    BY <1>s DEF State
<1>2. schedule_bh(s, handler) = t
    BY DEF schedule_bh, Running, Loose
<1>3. /\ t.cont = s.cont /\ t.busy = s.busy /\ t.status = s.status /\ t.work = handler
      /\ t.timer = s.timer /\ t.do_floppy = s.do_floppy /\ t.timeout = s.timeout
      /\ t.raw_cmd = s.raw_cmd /\ t.req = s.req /\ t.errors = s.errors
      /\ t.stuck = s.stuck /\ t.bad = s.bad /\ t.late = s.late
    BY <1>s DEF State
<1> HIDE DEF t
<1>4. Settled(t)
    BY <1>3 DEF Settled, Sane, OneAtATime, Expected, Running, Loose, ForDrive, Dormant, Prepared
<1> QED
    BY <1>1, <1>2, <1>3, <1>4 DEF Leaves, Running, Loose, Sane, Guarded, Armed, Keeps, SameOwner

\* fd_wait_for_completion: the timer is set, unless the controller is reset.
LEMMA WaitsLeaves ==
    ASSUME NEW s, Running(s), Armed(s), NEW function \in Timers \ {"none", "fd_watchdog"},
           IF function = "redo_fd_request" THEN s.cont = "rw" ELSE Prepared(s),
           NEW t \in Waits(s, function)
    PROVE  Leaves(s, t)
<1>s. s \in State
    BY DEF Running, Loose
<1>1. CASE s.reset
  <2>1. Waits(s, function) = {reset_fdc(s)}
    BY <1>1 DEF Waits
  <2> QED
    BY <2>1, ResetLeaves DEF Running
<1>2. CASE ~s.reset
  <2>1. s.waits > 0 /\ t = [s EXCEPT !.timer = function, !.waits = s.waits - 1]
    BY <1>2 DEF Waits
  <2>2. s.waits - 1 \in 0 .. MaxWaits
    BY <1>s, <2>1, FloppyAssumption DEF State
  <2>3. t \in State
    BY <1>s, <2>1, <2>2 DEF State
  <2>4. /\ t.cont = s.cont /\ t.busy = s.busy /\ t.status = s.status /\ t.work = s.work
        /\ t.timer = function /\ t.do_floppy = s.do_floppy /\ t.timeout = s.timeout
        /\ t.raw_cmd = s.raw_cmd /\ t.req = s.req /\ t.errors = s.errors
        /\ t.stuck = s.stuck /\ t.bad = s.bad /\ t.late = s.late
    BY <1>s, <2>1 DEF State
  <2>5. Settled(t)
    BY <2>4 DEF Settled, Sane, OneAtATime, Expected, Running, Loose, ForDrive, Dormant,
                Prepared, Timers
  <2> QED
    BY <2>3, <2>4, <2>5 DEF Leaves, Running, Loose, Sane, Guarded, Armed, Keeps, SameOwner
<1> QED
    BY <1>1, <1>2

\* unlock_fdc, when the request that was served is over.
LEMMA UnlockLeaves ==
    ASSUME NEW s, Running(s), s.cont = "rw", s.req = NoReq
    PROVE  Leaves(s, unlock_fdc([s EXCEPT !.queue = <<>>]))
<1>s. s \in State /\ s.busy
    BY DEF Running, Loose, Sane
<1> DEFINE t == unlock_fdc([s EXCEPT !.queue = <<>>])
<1>1. t = [s EXCEPT !.queue = <<>>, !.raw_cmd = "null", !.status = -1, !.timeout = "off",
                    !.do_floppy = "none", !.cont = "none", !.busy = FALSE,
                    !.glitches = Glitches, !.waits = MaxWaits]
    BY <1>s DEF unlock_fdc, State
<1>2. Glitches \in 0 .. Glitches /\ MaxWaits \in 0 .. MaxWaits /\ -1 \in -1 .. 3
    BY FloppyAssumption
<1>3. t \in State
  <2> DEFINE u == [s EXCEPT !.queue = <<>>]
  <2>1. u \in State
    <3>1. \A q \in Seq(Reqs) : [s EXCEPT !.queue = q] \in State
        BY <1>s DEF State
    <3>2. <<>> \in Seq(Reqs)
        OBVIOUS
    <3> QED
        BY <3>1, <3>2
  <2>2. t = [u EXCEPT !.raw_cmd = "null", !.status = -1, !.timeout = "off",
                      !.do_floppy = "none", !.cont = "none", !.busy = FALSE,
                      !.glitches = Glitches, !.waits = MaxWaits]
    BY <1>1, <1>s DEF State
  <2> HIDE DEF u, t
  <2> QED
    BY <2>1, <2>2, <1>2 DEF State, Conts, Irqs
<1>4. /\ t.cont = "none" /\ ~t.busy /\ t.work = s.work /\ t.timer = s.timer
      /\ t.do_floppy = "none" /\ t.req = s.req /\ t.stuck = s.stuck /\ t.bad = s.bad
      /\ t.late = s.late
    BY <1>s, <1>1 DEF State
<1> HIDE DEF t
<1>5. Settled(t)
    BY <1>4 DEF Settled, Sane, OneAtATime, Expected, Running, Loose, ForDrive, Dormant
<1>6. Leaves(s, t)
    BY <1>3, <1>4, <1>5 DEF Leaves, Guarded, Keeps, SameOwner
<1> QED
    BY <1>6 DEF t

\* set_next_request and what follows: a request from the queue.
LEMMA NextRequest ==
    ASSUME NEW s, Running(s), s.cont = "rw", NEW all \in Seq(Reqs), all # <<>>
    PROVE  LET t == next_request(s, all)
           IN  /\ Comes(s, t) /\ Running(t) /\ Armed(t)
               /\ t.cont = "rw" /\ t.req \in Reqs /\ t.raw_cmd = "default"
<1>s. s \in State
    BY DEF Running, Loose
<1> DEFINE t == next_request(s, all)
<1>1. t = [s EXCEPT !.req = Head(all), !.queue = Tail(all), !.raw_cmd = "default",
                    !.timeout = "armed"]
    BY <1>s DEF next_request, reschedule_timeout, State
<1>2. Head(all) \in Reqs /\ Tail(all) \in Seq(Reqs)
    OBVIOUS
<1>3. t \in State
    BY <1>s, <1>1, <1>2 DEF State
<1>4. /\ t.cont = s.cont /\ t.busy = s.busy /\ t.status = s.status /\ t.work = s.work
      /\ t.timer = s.timer /\ t.do_floppy = s.do_floppy /\ t.timeout = "armed"
      /\ t.raw_cmd = "default" /\ t.req = Head(all) /\ t.errors = s.errors
      /\ t.stuck = s.stuck /\ t.bad = s.bad /\ t.late = s.late
    BY <1>s, <1>1 DEF State
<1> HIDE DEF t
<1>5. Comes(s, t) /\ Running(t) /\ Armed(t)
    BY <1>3, <1>4 DEF Running, Loose, Comes, Keeps, SameOwner, Sane, Armed
<1>6. t.cont = "rw" /\ t.req \in Reqs /\ t.raw_cmd = "default"
    BY <1>2, <1>4
<1> QED
    BY <1>5, <1>6 DEF t

\* The command for the request is scheduled.
LEMMA StartRequest ==
    ASSUME NEW s, Running(s), Armed(s), s.cont = "rw", s.req \in Reqs, s.raw_cmd = "default"
    PROVE  Leaves(s, start_request(s))
<1>s. s \in State
    BY DEF Running, Loose
<1> DEFINE n == IF s.errors = s.req THEN s.errs ELSE 0
           t == [s EXCEPT !.errors = s.req, !.errs = n]
<1>1. n \in 0 .. MaxErrors + 1
    BY <1>s, FloppyAssumption DEF State
<1>2. start_request(s) = schedule_bh(t, "floppy_start")
    BY <1>s DEF start_request, State
<1> HIDE DEF n
<1>3. t \in State
    BY <1>s, <1>1 DEF State
<1>4. /\ t.cont = s.cont /\ t.busy = s.busy /\ t.status = s.status /\ t.work = s.work
      /\ t.timer = s.timer /\ t.do_floppy = s.do_floppy /\ t.timeout = s.timeout
      /\ t.raw_cmd = s.raw_cmd /\ t.req = s.req /\ t.errors = s.req
      /\ t.stuck = s.stuck /\ t.bad = s.bad /\ t.late = s.late
    BY <1>s DEF State
<1> HIDE DEF t
<1>5. Comes(s, t) /\ Running(t) /\ Armed(t)
    BY <1>3, <1>4 DEF Running, Loose, Comes, Keeps, SameOwner, Sane, Armed
<1>6. Prepared(t)
    BY <1>4, FloppyAssumption DEF Prepared
<1>7. "floppy_start" \in Works \ {"none"}
    BY DEF Works
<1>8. Leaves(t, schedule_bh(t, "floppy_start"))
    BY <1>5, <1>6, <1>7, ScheduleLeaves
<1> QED
    BY <1>2, <1>5, <1>8, ComesLeaves DEF Running

\* redo_fd_request, however many requests it ends at once.
LEMMA RedoRequestLeaves ==
    ASSUME NEW s, Running(s), s.cont = "rw", NEW t \in redo_fd_request(s)
    PROVE  Leaves(s, t)
<1>s. s \in State
    BY DEF Running, Loose
<1> DEFINE all == (IF s.req = NoReq THEN <<>> ELSE << s.req >>) \o s.queue
           ended(n) == IF n = 0 THEN s ELSE request_done(s)
           rest(n) == SubSeq(all, n + 1, Len(all))
           with(n) == IF rest(n) = <<>> THEN {unlock_fdc([ended(n) EXCEPT !.queue = <<>>])}
                      ELSE UNION { Waits(v, "redo_fd_request")
                                   \cup (IF v.reset \/ v.got THEN {} ELSE {start_request(v)}) :
                                   v \in set_fdc(next_request(ended(n), rest(n))) }
<1>1. all \in Seq(Reqs)
    BY <1>s DEF State
<1>2. PICK n \in 0 .. Len(all) : t \in with(n)
  <2>1. redo_fd_request(s) = UNION { with(n) : n \in IF s.reset THEN {0} ELSE 0 .. Len(all) }
    BY DEF redo_fd_request
  <2>2. PICK n \in IF s.reset THEN {0} ELSE 0 .. Len(all) : t \in with(n)
    <3> HIDE DEF with
    <3> QED
        BY <2>1
  <2>3. n \in 0 .. Len(all)
    <3> HIDE DEF all, with
    <3>1. Len(all) \in Nat
        BY <1>1
    <3> QED
        BY <3>1
  <2> QED
    BY <2>2, <2>3
<1>3. rest(n) \in Seq(Reqs) /\ (rest(n) = <<>> => n = Len(all))
  <2> HIDE DEF all
  <2>1. Len(all) \in Nat /\ n \in Nat /\ n <= Len(all)
    BY <1>1
  <2>2. \A j \in n + 1 .. Len(all) : all[j] \in Reqs
    BY <1>1, <2>1
  <2>3. rest(n) \in Seq(Reqs)
        /\ Len(rest(n)) = IF n + 1 <= Len(all) THEN Len(all) - (n + 1) + 1 ELSE 0
    BY <2>1, <2>2, SubSeqProperties
  <2> HIDE DEF rest
  <2>4. rest(n) = <<>> => Len(rest(n)) = 0
    BY EmptySeq
  <2> QED
    BY <2>1, <2>3, <2>4
<1>4. s.req # NoReq => Len(all) # 0
    BY <1>s DEF State
<1>5. /\ Comes(s, ended(n)) /\ Running(ended(n)) /\ ended(n).cont = "rw"
      /\ n # 0 \/ s.req = NoReq => ended(n).req = NoReq
  <2>1. CASE n = 0
    BY <2>1 DEF Running, Loose, Comes, Keeps, SameOwner
  <2>2. CASE n # 0
    <3>1. done(s, 1) = request_done(s)
        BY DEF done
    <3>2. Comes(s, request_done(s)) /\ request_done(s).do_floppy = s.do_floppy
        BY <3>1, DoneComes DEF Running
    <3>3. request_done(s).cont = "rw" /\ request_done(s).req = NoReq
        BY <1>s DEF request_done, reschedule_timeout, State
    <3> QED
        BY <2>2, <3>2, <3>3 DEF Running, Comes
  <2> QED
    BY <2>1, <2>2
<1> HIDE DEF all, ended
<1>6. CASE rest(n) = <<>>
  <2>1. ended(n).req = NoReq
    BY <1>3, <1>4, <1>5, <1>6
  <2>2. t = unlock_fdc([ended(n) EXCEPT !.queue = <<>>])
    BY <1>2, <1>6
  <2>3. Leaves(ended(n), t)
    BY <1>5, <2>1, <2>2, UnlockLeaves
  <2> QED
    BY <1>5, <2>3, ComesLeaves DEF Running
<1>7. CASE rest(n) # <<>>
  <2> DEFINE u == next_request(ended(n), rest(n))
  <2>1. Comes(ended(n), u) /\ Running(u) /\ Armed(u) /\ u.cont = "rw" /\ u.req \in Reqs
        /\ u.raw_cmd = "default"
    BY <1>3, <1>5, <1>7, NextRequest
  <2>2. PICK v \in Disturbed(u) : t \in Waits(v, "redo_fd_request") \/ t = start_request(v)
    BY <1>2, <1>7 DEF set_fdc
  <2> HIDE DEF u
  <2>3. "redo_fd_request" \in Timers \ {"none", "fd_watchdog"}
    BY DEF Timers
  <2>4. /\ v.cont = "rw" /\ v.req \in Reqs /\ v.raw_cmd = "default" /\ Armed(v)
        /\ Comes(u, v) /\ Running(v)
    BY <2>1, DisturbedComes, DisturbedFields DEF Running, Loose, Comes, Armed
  <2>5. Leaves(v, t)
    BY <2>2, <2>3, <2>4, WaitsLeaves, StartRequest
  <2>6. Leaves(u, t)
    BY <2>1, <2>4, <2>5, ComesLeaves DEF Running
  <2> QED
    BY <1>5, <2>1, <2>6, ComesLeaves DEF Running
<1> QED
    BY <1>6, <1>7

\* process_fd_request: redo_fd_request will run.
LEMMA ProcessLeaves ==
    ASSUME NEW s, Running(s), s.cont = "intr"
    PROVE  Leaves(s, process_fd_request(s))
<1>s. s \in State
    BY DEF Running, Loose
<1> DEFINE t == [s EXCEPT !.cont = "rw"]
<1>1. t \in State
    BY <1>s DEF State, Conts
<1>2. /\ t.cont = "rw" /\ t.busy = s.busy /\ t.status = s.status /\ t.work = s.work
      /\ t.timer = s.timer /\ t.do_floppy = s.do_floppy /\ t.timeout = s.timeout
      /\ t.raw_cmd = s.raw_cmd /\ t.req = s.req /\ t.errors = s.errors
      /\ t.stuck = s.stuck /\ t.bad = s.bad /\ t.late = s.late
    BY <1>s DEF State
<1> HIDE DEF t
<1>3. Comes(s, t) /\ Running(t)
    BY <1>1, <1>2 DEF Running, Loose, Comes, Keeps, SameOwner, Sane, Armed
<1>4. "redo_fd_request" \in Works \ {"none"} /\ "redo_fd_request" \notin ForDrive
    BY DEF Works, ForDrive
<1>5. Leaves(t, schedule_bh(t, "redo_fd_request"))
    BY <1>2, <1>3, <1>4, ScheduleLeaves
<1>6. process_fd_request(s) = schedule_bh(t, "redo_fd_request")
    BY DEF process_fd_request, t
<1> QED
    BY <1>3, <1>5, <1>6, ComesLeaves DEF Running

\* do_wakeup: the process will find its command done.
LEMMA WakeupLeaves ==
    ASSUME NEW s, Running(s), s.cont = "wakeup"
    PROVE  Leaves(s, do_wakeup(s))
<1>s. s \in State /\ s.status \in 0 .. 1
    BY DEF Running, Loose, Sane, State
<1> DEFINE t == do_wakeup(s)
<1>1. t = [s EXCEPT !.cont = "none", !.status = s.status + 2, !.timeout = "armed"]
    BY <1>s DEF do_wakeup, reschedule_timeout, State
<1>2. s.status + 2 \in -1 .. 3 /\ s.status + 2 >= 2
    BY <1>s
<1>3. t \in State
    BY <1>s, <1>1, <1>2 DEF State, Conts
<1>4. /\ t.cont = "none" /\ t.busy = s.busy /\ t.status = s.status + 2 /\ t.work = s.work
      /\ t.timer = s.timer /\ t.do_floppy = s.do_floppy /\ t.timeout = "armed"
      /\ t.raw_cmd = s.raw_cmd /\ t.req = s.req /\ t.errors = s.errors
      /\ t.stuck = s.stuck /\ t.bad = s.bad /\ t.late = s.late
    BY <1>s, <1>1 DEF State
<1> HIDE DEF t
<1>5. Settled(t)
    BY <1>4 DEF Settled, Sane, OneAtATime, Expected, Running, Loose, ForDrive, Dormant
<1>6. Leaves(s, t)
    BY <1>2, <1>3, <1>4, <1>5 DEF Leaves, Guarded, Armed, Keeps, SameOwner, Running, Loose, Sane
<1> QED
    BY <1>6 DEF t

\* cont->redo, after cont->done
LEMMA RedoDoneLeaves ==
    ASSUME NEW s, Running(s), s.cont \in {"rw", "wakeup", "intr"}, NEW t \in redo_done(s)
    PROVE  Leaves(s, t)
<1>1. CASE s.cont = "rw"
    BY <1>1, RedoRequestLeaves DEF redo_done
<1>2. CASE s.cont = "wakeup"
    BY <1>2, WakeupLeaves DEF redo_done
<1>3. CASE s.cont = "intr"
    BY <1>3, ProcessLeaves DEF redo_done
<1> QED
    BY <1>1, <1>2, <1>3

\* cont->done, and cont->redo.  The timeout may have fired.
LEMMA EndLeaves ==
    ASSUME NEW s, Running(s), NEW ok \in 0 .. 1, NEW t \in redo_done(done(s, ok))
    PROVE  Leaves(s, t)
<1>1. /\ Comes(s, done(s, ok)) /\ done(s, ok).cont \in {"rw", "wakeup", "intr"}
      /\ done(s, ok).do_floppy = s.do_floppy
    BY DoneComes DEF Running
<1>2. Running(done(s, ok))
    BY <1>1 DEF Running, Comes
<1>3. Leaves(done(s, ok), t)
    BY <1>1, <1>2, RedoDoneLeaves
<1> QED
    BY <1>1, <1>3, ComesLeaves DEF Running

LEMMA SuccessLeaves ==
    ASSUME NEW s, Running(s), NEW t \in success_and_wakeup(s)
    PROVE  Leaves(s, t)
BY EndLeaves DEF success_and_wakeup

-----------------------------------------------------------------------------
(* The way to a command.                                                   *)

\* cancel_activity: nothing is set any more.
LEMMA CancelComes ==
    ASSUME NEW s \in State, Sane(s), ~s.stuck, s.cont # "none"
    PROVE  LET t == cancel_activity(s)
           IN  Running(t) /\ t.cont = s.cont /\ t.timeout = s.timeout /\ Keeps(s, t)
<1> DEFINE t == cancel_activity(s)
<1>1. t = [s EXCEPT !.do_floppy = "none", !.timer = "none", !.work = "none"]
    BY DEF cancel_activity
<1>0. "none" \in Irqs /\ "none" \in Timers /\ "none" \in Works
    BY DEF Irqs, Timers, Works
<1>2. t \in State
    BY <1>0, <1>1 DEF State
<1>3. /\ t.cont = s.cont /\ t.busy = s.busy /\ t.status = s.status /\ t.work = "none"
      /\ t.timer = "none" /\ t.do_floppy = "none" /\ t.timeout = s.timeout
      /\ t.raw_cmd = s.raw_cmd /\ t.req = s.req /\ t.errors = s.errors
      /\ t.stuck = s.stuck /\ t.bad = s.bad /\ t.late = s.late
    BY <1>1 DEF State
<1> HIDE DEF t
<1>4. Running(t) /\ Keeps(s, t)
    BY <1>2, <1>3 DEF Running, Loose, Sane, Keeps, SameOwner
<1> QED
    BY <1>3, <1>4 DEF t

\* The watchdog of a command that the controller works on, or has finished.
LEMMA WatchdogLeaves ==
    ASSUME NEW s \in State, Sane(s), Prepared(s), ~s.stuck, s.timer = "none", Armed(s),
           \/ s.work = "main_command_interrupt" /\ s.do_floppy = "none"
           \/ s.work = "none" /\ s.do_floppy = "main_command_interrupt",
           NEW w \in BOOLEAN, NEW t \in fd_watchdog(s, w)
    PROVE  Leaves(s, t)
<1>0. s.cont # "none"
    BY DEF Prepared
<1>1. CASE t = [s EXCEPT !.timer = "fd_watchdog"]
  <2>1. t \in State
    BY <1>1 DEF State, Timers
  <2>2. /\ t.cont = s.cont /\ t.busy = s.busy /\ t.status = s.status /\ t.work = s.work
        /\ t.timer = "fd_watchdog" /\ t.do_floppy = s.do_floppy /\ t.timeout = s.timeout
        /\ t.raw_cmd = s.raw_cmd /\ t.req = s.req /\ t.errors = s.errors
        /\ t.stuck = s.stuck /\ t.bad = s.bad /\ t.late = s.late
    BY <1>1 DEF State
  <2>3. Settled(t)
    BY <1>0, <2>2 DEF Settled, Sane, OneAtATime, Expected, ForDrive, Prepared
  <2> QED
    BY <1>0, <2>1, <2>2, <2>3 DEF Leaves, Guarded, Armed, Keeps, SameOwner, Sane
<1>2. CASE w /\ t = [cancel_activity(s) EXCEPT !.stuck = TRUE]
  <2> DEFINE c == cancel_activity(s)
  <2>1. Running(c) /\ Keeps(s, c)
    BY <1>0, CancelComes
  <2> HIDE DEF c
  <2>2. c \in State /\ t = [c EXCEPT !.stuck = TRUE]
    BY <1>2, <2>1 DEF Running, Loose, c
  <2>3. t \in State
    BY <2>2 DEF State
  <2>4. /\ t.cont = c.cont /\ t.busy = c.busy /\ t.status = c.status /\ t.work = c.work
        /\ t.timer = c.timer /\ t.do_floppy = c.do_floppy /\ t.timeout = c.timeout
        /\ t.raw_cmd = c.raw_cmd /\ t.req = c.req /\ t.errors = c.errors
        /\ t.stuck /\ t.bad = c.bad /\ t.late = c.late
    BY <2>2 DEF State
  <2>5. Settled(t)
    BY <2>1, <2>4 DEF Settled, Sane, OneAtATime, Expected, Running, Loose, ForDrive, Dormant
  <2> QED
    BY <2>1, <2>3, <2>4, <2>5 DEF Leaves, Guarded, Keeps, SameOwner
<1>3. CASE t = reset_fdc(done(cancel_activity(s), 0))
  <2> DEFINE c == cancel_activity(s)
  <2>1. Running(c) /\ Keeps(s, c) /\ Armed(c) /\ c.cont = s.cont
    BY <1>0, CancelComes DEF Armed
  <2> HIDE DEF c
  <2>2. Comes(c, done(c, 0))
    BY <2>1, DoneComes DEF Running
  <2>3. Leaves(done(c, 0), reset_fdc(done(c, 0)))
    BY <2>1, <2>2, ResetLeaves DEF Comes
  <2>4. Leaves(c, t)
    BY <1>3, <2>1, <2>2, <2>3, ComesLeaves DEF Running, c
  <2> QED
    BY <2>1, <2>4 DEF Leaves, Keeps, SameOwner
<1> QED
    BY <1>1, <1>2, <1>3 DEF fd_watchdog

\* A handler for the next interrupt is set.
LEMMA HandlerSet ==
    ASSUME NEW s, Running(s), Prepared(s), Armed(s), NEW h \in Irqs \cap ForDrive, NEW q \in BOOLEAN
    PROVE  LET t == [s EXCEPT !.do_floppy = h, !.irq = q]
           IN  /\ Loose(t) /\ Prepared(t) /\ Armed(t) /\ Leaves(s, t)
               /\ t.do_floppy = h /\ t.cont = s.cont /\ t.glitches = s.glitches
               /\ Comes(s, t)
<1>s. s \in State
    BY DEF Running, Loose
<1> DEFINE t == [s EXCEPT !.do_floppy = h, !.irq = q]
<1>1. t \in State
    BY <1>s DEF State
<1>2. /\ t.cont = s.cont /\ t.busy = s.busy /\ t.status = s.status /\ t.work = s.work
      /\ t.timer = s.timer /\ t.do_floppy = h /\ t.timeout = s.timeout
      /\ t.raw_cmd = s.raw_cmd /\ t.req = s.req /\ t.errors = s.errors
      /\ t.stuck = s.stuck /\ t.bad = s.bad /\ t.late = s.late /\ t.glitches = s.glitches
    BY <1>s DEF State
<1> HIDE DEF t
<1>3. Loose(t) /\ Prepared(t) /\ Armed(t)
    BY <1>1, <1>2 DEF Running, Loose, Sane, Prepared, Armed
<1>4. Settled(t)
    BY <1>2, <1>3 DEF Settled, Sane, OneAtATime, Expected, Running, Loose, ForDrive, Dormant
<1>5. Leaves(s, t) /\ Comes(s, t)
    BY <1>1, <1>2, <1>3, <1>4
    DEF Leaves, Comes, Guarded, Armed, Keeps, SameOwner, Running, Loose, Sane
<1> QED
    BY <1>2, <1>3, <1>5 DEF t

\* A command that fails at once: the controller is reset.
LEMMA RefusedLeaves ==
    ASSUME NEW s, Loose(s), Prepared(s), Armed(s), NEW e \in error(s)
    PROVE  Leaves(s, reset_fdc(e))
<1>1. Comes(s, e)
    BY ErrorComes DEF Prepared
<1>2. Leaves(e, reset_fdc(e))
    BY <1>1, ResetLeaves DEF Comes
<1> QED
    BY <1>1, <1>2, ComesLeaves

LEMMA GiveLeaves ==
    ASSUME NEW s, Running(s), Prepared(s), Armed(s), NEW w \in BOOLEAN,
           NEW t \in give_command(s, w)
    PROVE  Leaves(s, t)
<1>s. s \in State
    BY DEF Running, Loose
<1> DEFINE c == [s EXCEPT !.do_floppy = "main_command_interrupt"]
           u == [c EXCEPT !.irq = TRUE]
<1>0. "main_command_interrupt" \in Irqs \cap ForDrive
    BY DEF Irqs, ForDrive
<1>1. c = [s EXCEPT !.do_floppy = "main_command_interrupt", !.irq = s.irq]
      /\ u = [s EXCEPT !.do_floppy = "main_command_interrupt", !.irq = TRUE]
      /\ s.irq \in BOOLEAN
    BY <1>s DEF State
<1>2. give_command(s, w) = IF s.reset THEN { reset_fdc(e) : e \in error(c) }
                           ELSE IfGlitch(c, { reset_fdc(e) : e \in error(Glitch(c)) })
                                \cup fd_watchdog(u, w)
                                \cup (IF s.cont = "raw" THEN {u} ELSE {})
    BY DEF give_command
<1> HIDE DEF c, u
<1>3. /\ Loose(c) /\ Prepared(c) /\ Armed(c) /\ Comes(s, c)
      /\ Loose(u) /\ Prepared(u) /\ Armed(u) /\ Comes(s, u) /\ Leaves(s, u)
      /\ u.do_floppy = "main_command_interrupt"
    BY <1>0, <1>1, HandlerSet
<1>4. CASE \E e \in error(c) : t = reset_fdc(e)
    BY <1>3, <1>4, RefusedLeaves, ComesLeaves DEF Running
<1>5. CASE c.glitches > 0 /\ \E e \in error(Glitch(c)) : t = reset_fdc(e)
  <2>1. c \in State /\ c.reset \in BOOLEAN
    BY <1>3 DEF Loose, State
  <2>2. Glitch(c) = [Glitch(c) EXCEPT !.reset = c.reset]
    BY <2>1 DEF Glitch, State
  <2>3. Comes(c, Glitch(c)) /\ Prepared(Glitch(c))
    BY <1>3, <1>5, <2>1, <2>2, GlitchComes
  <2>4. Leaves(Glitch(c), t)
    BY <1>3, <1>5, <2>3, RefusedLeaves DEF Comes
  <2>5. Leaves(c, t)
    BY <1>3, <2>3, <2>4, ComesLeaves
  <2> QED
    BY <1>3, <2>5, ComesLeaves DEF Running
<1>6. CASE t \in fd_watchdog(u, w)
  <2>1. Leaves(u, t)
    BY <1>3, <1>6, WatchdogLeaves DEF Loose
  <2> QED
    BY <1>3, <2>1, ComesLeaves DEF Running
<1>7. CASE t = u
    BY <1>3, <1>7
<1> QED
    BY <1>2, <1>4, <1>5, <1>6, <1>7 DEF IfGlitch

LEMMA SetupLeaves ==
    ASSUME NEW s, Running(s), Prepared(s), Armed(s), NEW w \in BOOLEAN,
           NEW t \in setup_rw_floppy(s, w)
    PROVE  Leaves(s, t)
<1>0. {"setup_rw_floppy", "floppy_start"} \subseteq Timers \ {"none", "fd_watchdog", "redo_fd_request"}
    BY DEF Timers
<1>1. CASE t \in Waits(s, "setup_rw_floppy") \/ t \in Waits(s, "floppy_start")
    BY <1>0, <1>1, WaitsLeaves
<1>2. CASE t \in give_command(s, w)
    BY <1>2, GiveLeaves
<1>3. CASE t \in success_and_wakeup(s)
    BY <1>3, SuccessLeaves
<1>4. ~(s.raw_cmd \in {"null", "freed"})
    BY DEF Prepared
<1> QED
    BY <1>1, <1>2, <1>3, <1>4 DEF setup_rw_floppy

LEMMA CommandLeaves ==
    ASSUME NEW s, Running(s), Prepared(s), Armed(s), NEW h \in Irqs \cap ForDrive,
           NEW t \in Command(s, h)
    PROVE  Leaves(s, t)
<1>1. PICK u \in Disturbed(s) :
          t = IF u.reset THEN reset_fdc(u) ELSE [u EXCEPT !.do_floppy = h, !.irq = TRUE]
    BY DEF Command
<1>2. Comes(s, u) /\ Running(u) /\ Prepared(u) /\ Armed(u)
    BY DisturbedComes DEF Running, Comes
<1>3. Leaves(u, t)
  <2>1. CASE t = reset_fdc(u)
    BY <1>2, <2>1, ResetLeaves DEF Running
  <2>2. CASE t = [u EXCEPT !.do_floppy = h, !.irq = TRUE]
    BY <1>2, <2>2, HandlerSet
  <2> QED
    BY <1>1, <2>1, <2>2
<1> QED
    BY <1>2, <1>3, ComesLeaves DEF Running

LEMMA SeekLeaves ==
    ASSUME NEW s, Running(s), Prepared(s), Armed(s), NEW w \in BOOLEAN,
           NEW t \in seek_floppy(s, w)
    PROVE  Leaves(s, t)
<1>0. {"recal_interrupt", "seek_interrupt"} \subseteq Irqs \cap ForDrive
    BY DEF Irqs, ForDrive
<1>1. CASE t \in redo_done(done(s, 0))
    BY <1>1, EndLeaves
<1>2. CASE t \in Command(s, "recal_interrupt") \/ t \in Command(s, "seek_interrupt")
    BY <1>0, <1>2, CommandLeaves
<1>3. CASE t \in setup_rw_floppy(s, w)
    BY <1>3, SetupLeaves
<1> QED
    BY <1>1, <1>2, <1>3 DEF seek_floppy

\* A data rate that perpendicular_mode refuses: the process is woken, after a
\* reset of the controller or at once.
LEMMA BadRateLeaves ==
    ASSUME NEW s, Running(s), s.cont = "raw", Armed(s), NEW w \in BOOLEAN,
           NEW t \in bad_rate(s, w)
    PROVE  Leaves(s, t)
<1> DEFINE f == done(s, 0)
           u == [f EXCEPT !.reset = TRUE]
<1>s. s \in State /\ s.raw_cmd = "user"
    BY DEF Running, Loose, Sane
<1>1. Comes(s, f) /\ f.do_floppy = s.do_floppy
    BY DoneComes DEF Running
<1>2. f = [s EXCEPT !.status = 0, !.cont = "wakeup", !.waits = MaxWaits]
    BY <1>s DEF done
<1>3. f.cont = "wakeup" /\ f.raw_cmd = "user" /\ Running(f)
    BY <1>s, <1>1, <1>2 DEF State, Comes, Running
<1> HIDE DEF f
<1>4. f \in State
    BY <1>1 DEF Comes, Loose
<1>5. u = [f EXCEPT !.errs = f.errs, !.reset = TRUE] /\ f.errs \in 0 .. MaxErrors + 1
    BY <1>4 DEF State
<1>6. Comes(f, u) /\ u.do_floppy = f.do_floppy /\ u.cont = "wakeup"
    BY <1>3, <1>5, CountComes DEF Running
<1>7. u.reset /\ u.raw_cmd = "user"
    BY <1>3, <1>4 DEF State
<1>8. t \in seek_floppy(u, w)
    BY DEF bad_rate, f
<1> HIDE DEF u
<1>9. Running(u) /\ Comes(s, u) /\ Armed(u)
    BY <1>1, <1>3, <1>6, ComesComes DEF Running, Comes
<1>10. CASE t \in redo_done(done(u, 0))
    BY <1>9, <1>10, EndLeaves, ComesLeaves DEF Running
<1>11. CASE \E h : t \in Command(u, h)
  <2>0. PICK h : t \in Command(u, h)
    BY <1>11
  <2>1. PICK v \in Disturbed(u) : t = IF v.reset THEN reset_fdc(v)
                                  ELSE [v EXCEPT !.do_floppy = h, !.irq = TRUE]
    BY <2>0 DEF Command
  <2>2. u \in State
    BY <1>9 DEF Running, Loose
  <2>3. v.reset
    BY <1>7, <2>2, DisturbedFields
  <2>4. t = reset_fdc(v) /\ Comes(u, v) /\ Armed(v) /\ Loose(v)
    BY <1>9, <2>1, <2>3, DisturbedComes DEF Running, Comes
  <2>5. Leaves(v, t)
    BY <2>4, ResetLeaves
  <2>6. Leaves(u, t)
    BY <1>9, <2>4, <2>5, ComesLeaves DEF Running
  <2> QED
    BY <1>9, <2>6, ComesLeaves DEF Running
<1>12. CASE t \in setup_rw_floppy(u, w)
  <2>1. t = reset_fdc(u)
    BY <1>6, <1>7, <1>12 DEF setup_rw_floppy, Waits
  <2>2. Leaves(u, t)
    BY <1>9, <2>1, ResetLeaves DEF Running
  <2> QED
    BY <1>9, <2>2, ComesLeaves DEF Running
<1> QED
    BY <1>8, <1>10, <1>11, <1>12 DEF seek_floppy

LEMMA ReadyLeaves ==
    ASSUME NEW s, Running(s), Prepared(s), Armed(s), NEW w \in BOOLEAN,
           NEW t \in floppy_ready(s, w)
    PROVE  Leaves(s, t)
<1>1. CASE s.reset
  <2>1. t = reset_fdc(s)
    BY <1>1 DEF floppy_ready
  <2> QED
    BY <2>1, ResetLeaves DEF Running
<1>2. CASE ~s.reset
  <2>1. floppy_ready(s, w) = Waits(s, "floppy_ready")
            \cup UNION { seek_floppy(u, w)
                         \cup (IF u.cont = "raw"
                               THEN bad_rate(u, w) \cup setup_rw_floppy(u, w) ELSE {}) :
                         u \in Disturbed(s) }
    BY <1>2 DEF floppy_ready, Prepared
  <2>2. CASE t \in Waits(s, "floppy_ready")
    <3>1. "floppy_ready" \in Timers \ {"none", "fd_watchdog", "redo_fd_request"}
        BY DEF Timers
    <3> QED
        BY <2>2, <3>1, WaitsLeaves
  <2>3. CASE \E u \in Disturbed(s) : t \in seek_floppy(u, w) \/ t \in setup_rw_floppy(u, w)
    <3>1. PICK u \in Disturbed(s) : t \in seek_floppy(u, w) \/ t \in setup_rw_floppy(u, w)
        BY <2>3
    <3>2. Comes(s, u) /\ Running(u) /\ Prepared(u) /\ Armed(u)
        BY DisturbedComes DEF Running, Comes
    <3>3. Leaves(u, t)
        BY <3>1, <3>2, SeekLeaves, SetupLeaves
    <3> QED
        BY <3>2, <3>3, ComesLeaves DEF Running
  <2>4. CASE \E u \in Disturbed(s) : u.cont = "raw" /\ t \in bad_rate(u, w)
    <3>1. PICK u \in Disturbed(s) : u.cont = "raw" /\ t \in bad_rate(u, w)
        BY <2>4
    <3>2. Comes(s, u) /\ Running(u) /\ Armed(u)
        BY DisturbedComes DEF Running, Comes
    <3>3. Leaves(u, t)
        BY <3>1, <3>2, BadRateLeaves
    <3> QED
        BY <3>2, <3>3, ComesLeaves DEF Running
  <2> QED
    BY <2>1, <2>2, <2>3, <2>4
<1> QED
    BY <1>1, <1>2

\* floppy_start sets the timeout again.
LEMMA StartLeaves ==
    ASSUME NEW s, Running(s), Prepared(s), NEW w \in BOOLEAN, NEW t \in floppy_start(s, w)
    PROVE  Leaves(s, t)
<1>s. s \in State
    BY DEF Running, Loose
<1> DEFINE u == reschedule_timeout(s)
<1>1. u = [s EXCEPT !.timeout = "armed"]
    BY DEF reschedule_timeout
<1>2. u \in State
    BY <1>s, <1>1 DEF State
<1>3. /\ u.cont = s.cont /\ u.busy = s.busy /\ u.status = s.status /\ u.work = s.work
      /\ u.timer = s.timer /\ u.do_floppy = s.do_floppy /\ u.timeout = "armed"
      /\ u.raw_cmd = s.raw_cmd /\ u.req = s.req /\ u.errors = s.errors
      /\ u.stuck = s.stuck /\ u.bad = s.bad /\ u.late = s.late
    BY <1>s, <1>1 DEF State
<1> HIDE DEF u
<1>4. Comes(s, u) /\ Running(u) /\ Prepared(u) /\ Armed(u)
    BY <1>2, <1>3 DEF Running, Loose, Comes, Keeps, SameOwner, Sane, Armed, Prepared
<1>5. PICK v \in Disturbed(u) : t \in floppy_ready(v, w)
    BY DEF floppy_start, set_fdc, u
<1>6. Comes(u, v) /\ Running(v) /\ Prepared(v) /\ Armed(v)
    BY <1>4, DisturbedComes DEF Running, Comes
<1>7. Leaves(v, t)
    BY <1>5, <1>6, ReadyLeaves
<1>8. Leaves(u, t)
    BY <1>4, <1>6, <1>7, ComesLeaves DEF Running
<1> QED
    BY <1>4, <1>8, ComesLeaves DEF Running

\* cont->redo
LEMMA RedoLeaves ==
    ASSUME NEW s, Running(s), Armed(s), NEW w \in BOOLEAN, NEW t \in redo(s, w)
    PROVE  Leaves(s, t)
<1>1. CASE s.cont \in {"format", "raw"}
  <2>1. Prepared(s)
    BY <1>1 DEF Prepared, Running, Loose, Sane
  <2> QED
    BY <1>1, <2>1, StartLeaves DEF redo
<1>2. CASE s.cont = "poll"
  <2>1. Prepared(s)
    BY <1>2 DEF Prepared, Running, Loose, Sane
  <2> QED
    BY <1>2, <2>1, ReadyLeaves DEF redo
<1>3. CASE s.cont = "reset"
    BY <1>3, SuccessLeaves DEF redo
<1>4. CASE s.cont \in {"rw", "wakeup", "intr"}
    BY <1>4, RedoDoneLeaves DEF redo
<1> QED
    BY <1>1, <1>2, <1>3, <1>4 DEF Running, Loose, State, Conts

\* A function goes on with cont->redo.
LEMMA RedoAfter ==
    ASSUME NEW s, Running(s), Armed(s), NEW e, Comes(s, e), e.do_floppy = s.do_floppy,
           NEW w \in BOOLEAN, NEW t \in redo(e, w)
    PROVE  Leaves(s, t)
<1>1. Running(e) /\ Armed(e)
    BY DEF Running, Comes
<1>2. Leaves(e, t)
    BY <1>1, RedoLeaves
<1> QED
    BY <1>2, ComesLeaves DEF Running

LEMMA ErrorAndRedoLeaves ==
    ASSUME NEW s, Running(s), Armed(s),
           s.cont = "rw" => ~(s.errors \in Reqs /\ s.errors # s.req),
           NEW w \in BOOLEAN, NEW t \in error_and_redo(s, w)
    PROVE  Leaves(s, t)
<1>1. PICK e \in error(s) : t \in redo(e, w)
    BY DEF error_and_redo
<1>2. Comes(s, e) /\ e.do_floppy = s.do_floppy
    BY ErrorComes DEF Running
<1> QED
    BY <1>1, <1>2, RedoAfter

\* cont->done and cont->redo, while the timeout is set.
LEMMA DoneAndRedoLeaves ==
    ASSUME NEW s, Running(s), Armed(s), NEW ok \in 0 .. 1,
           NEW w \in BOOLEAN, NEW t \in redo(done(s, ok), w)
    PROVE  Leaves(s, t)
<1>1. Comes(s, done(s, ok)) /\ done(s, ok).do_floppy = s.do_floppy
    BY DoneComes DEF Running
<1> QED
    BY <1>1, RedoAfter

-----------------------------------------------------------------------------
(* What runs after an interrupt.                                           *)

LEMMA RwInterruptLeaves ==
    ASSUME NEW s, Running(s), Armed(s), Prepared(s), s.cont = "rw",
           NEW w \in BOOLEAN, NEW t \in rw_interrupt(s, w)
    PROVE  Leaves(s, t)
<1>s. s \in State /\ s.req # NoReq
    BY DEF Running, Loose, Prepared
<1>1. CASE t = s
    BY <1>1, NothingLeaves
<1>2. CASE \E u \in Disturbed(s) : t \in redo(done(u, 1), w) \/ t \in redo([u EXCEPT !.got = TRUE], w)
  <2>1. PICK u \in Disturbed(s) : t \in redo(done(u, 1), w) \/ t \in redo([u EXCEPT !.got = TRUE], w)
    BY <1>2
  <2>2. Comes(s, u) /\ Running(u) /\ Armed(u)
    BY DisturbedComes DEF Running, Comes
  <2>3. CASE t \in redo(done(u, 1), w)
    <3>1. Leaves(u, t)
        BY <2>2, <2>3, DoneAndRedoLeaves
    <3> QED
        BY <2>2, <3>1, ComesLeaves DEF Running
  <2>4. CASE t \in redo([u EXCEPT !.got = TRUE], w)
    <3> DEFINE g == [u EXCEPT !.got = TRUE]
    <3>s. u \in State
        BY <2>2 DEF Running, Loose
    <3>1. g \in State
        BY <3>s DEF State
    <3>2. /\ g.cont = u.cont /\ g.busy = u.busy /\ g.status = u.status /\ g.work = u.work
          /\ g.timer = u.timer /\ g.do_floppy = u.do_floppy /\ g.timeout = u.timeout
          /\ g.raw_cmd = u.raw_cmd /\ g.req = u.req /\ g.errors = u.errors
          /\ g.stuck = u.stuck /\ g.bad = u.bad /\ g.late = u.late
        BY <3>s DEF State
    <3> HIDE DEF g
    <3>3. Comes(u, g)
        BY <2>2, <3>1, <3>2 DEF Running, Loose, Comes, Keeps, SameOwner, Sane, Armed
    <3>4. Leaves(u, t)
        BY <2>2, <2>4, <3>2, <3>3, RedoAfter DEF g
    <3> QED
        BY <2>2, <3>4, ComesLeaves DEF Running
  <2> QED
    BY <2>1, <2>3, <2>4
<1>3. CASE t \in error_and_redo(s, w)
    BY <1>3, ErrorAndRedoLeaves DEF Prepared
<1>4. CASE t \in redo(done(s, 0), w)
    BY <1>4, DoneAndRedoLeaves
<1>5. CASE s.glitches > 0 /\ t \in redo(Glitch(s), w)
  <2>1. Glitch(s) = [Glitch(s) EXCEPT !.reset = s.reset] /\ s.reset \in BOOLEAN
    BY <1>s DEF Glitch, State
  <2>2. Comes(s, Glitch(s)) /\ Glitch(s).do_floppy = s.do_floppy
    BY <1>5, <2>1, GlitchComes DEF Running
  <2> QED
    BY <1>5, <2>2, RedoAfter
<1> QED
    BY <1>s, <1>1, <1>2, <1>3, <1>4, <1>5 DEF rw_interrupt, IfGlitch

\* main_command_interrupt stops the watchdog.
LEMMA MainCommandLeaves ==
    ASSUME NEW s \in State, Sane(s), Prepared(s), Armed(s), ~s.stuck,
           s.work = "none", s.do_floppy = "none",
           NEW w \in BOOLEAN, NEW t \in main_command_interrupt(s, w)
    PROVE  Leaves(s, t)
<1> DEFINE u == [s EXCEPT !.timer = "none"]
<1>1. u \in State
    BY DEF State, Timers
<1>2. /\ u.cont = s.cont /\ u.busy = s.busy /\ u.status = s.status /\ u.work = s.work
      /\ u.timer = "none" /\ u.do_floppy = s.do_floppy /\ u.timeout = s.timeout
      /\ u.raw_cmd = s.raw_cmd /\ u.req = s.req /\ u.errors = s.errors
      /\ u.stuck = s.stuck /\ u.bad = s.bad /\ u.late = s.late
    BY DEF State
<1>3. main_command_interrupt(s, w) =
          CASE u.cont = "rw"     -> rw_interrupt(u, w)
            [] u.cont = "format" -> format_interrupt(u, w)
            [] u.cont \in {"poll", "raw"} -> success_and_wakeup(u)
            [] u.cont \in {"reset", "wakeup", "intr"} -> {u}
            [] u.cont = "none"   -> {Bad(u, "null")}
    BY DEF main_command_interrupt
<1> HIDE DEF u
<1>4. Running(u) /\ Armed(u) /\ Prepared(u)
    BY <1>1, <1>2 DEF Running, Loose, Sane, Armed, Prepared
<1>5. Leaves(u, t)
  <2>1. CASE u.cont = "rw"
    BY <1>3, <1>4, <2>1, RwInterruptLeaves
  <2>2. CASE u.cont = "format"
    <3>1. t \in error_and_redo(u, w) \/ t \in redo(done(u, 0), w) \/ t \in redo(done(u, 1), w)
        BY <1>3, <2>2 DEF format_interrupt
    <3> QED
        BY <1>4, <2>2, <3>1, ErrorAndRedoLeaves, DoneAndRedoLeaves
  <2>3. CASE u.cont \in {"poll", "raw"}
    BY <1>3, <1>4, <2>3, SuccessLeaves
  <2> QED
    BY <1>4, <2>1, <2>2, <2>3 DEF Prepared
<1> QED
    BY <1>2, <1>5 DEF Leaves, Keeps, SameOwner

LEMMA SeekInterruptLeaves ==
    ASSUME NEW s, Running(s), Armed(s), Prepared(s), NEW w \in BOOLEAN,
           NEW t \in recal_interrupt(s, w)
    PROVE  Leaves(s, t)
<1>1. CASE t \in error_and_redo(s, w)
    BY <1>1, ErrorAndRedoLeaves DEF Prepared
<1>2. CASE t \in floppy_ready(s, w)
    BY <1>2, ReadyLeaves
<1>3. CASE s.glitches > 0 /\ t \in floppy_ready([Glitch(s) EXCEPT !.reset = TRUE], w)
  <2> DEFINE u == [Glitch(s) EXCEPT !.reset = TRUE]
  <2>1. Comes(s, u) /\ u.do_floppy = s.do_floppy /\ Prepared(u)
    BY <1>3, GlitchComes DEF Running
  <2> HIDE DEF u
  <2>2. Running(u) /\ Armed(u)
    BY <2>1 DEF Running, Comes
  <2>3. Leaves(u, t)
    BY <1>3, <2>1, <2>2, ReadyLeaves DEF u
  <2> QED
    BY <2>1, <2>3, ComesLeaves DEF Running
<1> QED
    BY <1>1, <1>2, <1>3 DEF recal_interrupt, seek_interrupt, IfGlitch

\* The error of a failed reset may find errors pointing to a request that is over.
LEMMA FailedResetLeaves ==
    ASSUME NEW s, Running(s), Armed(s), NEW w \in BOOLEAN,
           NEW t \in error_and_redo(s, w)
    PROVE  Leaves(s, t) \/ Leaves(Bad(s, "wild"), t)
<1>s. s \in State
    BY DEF Running, Loose
<1>2. CASE ~(s.cont = "rw" /\ s.errors \in Reqs /\ s.errors # s.req)
    BY <1>2, ErrorAndRedoLeaves
<1>3. CASE s.cont = "rw" /\ s.errors \in Reqs /\ s.errors # s.req
  <2> DEFINE b == Bad(s, "wild")
  <2>1. b = [s EXCEPT !.bad = s.bad \cup {"wild"}]
    BY <1>s DEF Bad, State
  <2>2. s.bad \cup {"wild"} \in SUBSET Mishaps /\ s.bad \cup {"wild"} \subseteq {"wild"}
    BY <1>s DEF State, Mishaps, Running, Loose, Sane
  <2>3. b \in State
    BY <1>s, <2>1, <2>2 DEF State
  <2>4. /\ b.cont = s.cont /\ b.busy = s.busy /\ b.status = s.status /\ b.work = s.work
        /\ b.timer = s.timer /\ b.do_floppy = s.do_floppy /\ b.timeout = s.timeout
        /\ b.raw_cmd = s.raw_cmd /\ b.req = s.req /\ b.errors = s.errors
        /\ b.stuck = s.stuck /\ b.bad = s.bad \cup {"wild"} /\ b.late = s.late
    BY <1>s, <2>1 DEF State
  <2>5. PICK e \in bad_flp_intr(s) : t \in redo(e, w)
    BY <1>3 DEF error_and_redo, error
  <2> HIDE DEF b
  <2>6. Running(b) /\ Armed(b)
    BY <2>2, <2>3, <2>4 DEF Running, Loose, Sane, Armed
  <2>7. e \in Counted(b)
    BY <1>3, <2>5 DEF bad_flp_intr, Counted, b
  <2>8. Comes(b, e) /\ e.do_floppy = b.do_floppy
    BY <2>6, <2>7, CountedComes DEF Running
  <2>9. Leaves(b, t)
    BY <2>5, <2>6, <2>8, RedoAfter
  <2> QED
    BY <1>3, <2>9 DEF b
<1> QED
    BY <1>2, <1>3

\* reset_interrupt after a reset that failed, or whose result() fails.
LEMMA ResetInterruptLeaves ==
    ASSUME NEW s, Running(s), Armed(s), NEW w \in BOOLEAN,
           NEW t \in reset_interrupt(s, w)
    PROVE  \/ Leaves(s, t)
           \/ /\ s.reset \/ s.glitches > 0
              /\ \E b : b.cont = s.cont /\ b.late = s.late /\ Leaves(b, t)
<1>s. s \in State
    BY DEF Running, Loose
<1>1. PICK u \in Disturbed(s) :
          t \in IF u.reset THEN error_and_redo(u, w) ELSE redo(u, w)
    BY DEF reset_interrupt
<1>2. Comes(s, u) /\ Running(u) /\ Armed(u)
    BY DisturbedComes DEF Running, Comes
<1>3. u \in State /\ u.cont = s.cont /\ u.late = s.late /\ (u.reset => s.reset \/ s.glitches > 0)
    BY <1>s, DisturbedFields
<1>4. CASE Leaves(u, t)
    BY <1>2, <1>4, ComesLeaves DEF Running
<1>5. CASE u.reset /\ Leaves(Bad(u, "wild"), t)
  <2>1. Bad(u, "wild").cont = u.cont /\ Bad(u, "wild").late = u.late
    BY <1>3 DEF Bad, State
  <2> QED
    BY <1>3, <1>5, <2>1
<1>6. CASE ~u.reset
    BY <1>1, <1>2, <1>4, <1>6, RedoLeaves
<1> QED
    BY <1>1, <1>2, <1>4, <1>5, <1>6, FailedResetLeaves

-----------------------------------------------------------------------------
(* The worker, the timers and the interrupt, on the driver's state.        *)

Good(s) == s \in State /\ Settled(s) /\ Guarded(s)

\* floppy_work runs.  Only the handler of a reset, after a reset that failed,
\* counts an error for a request that is over.
LEMMA WorkLeaves ==
    ASSUME NEW s, Good(s), s.work # "none", ~s.stuck,
           NEW t \in Run(s.work, [s EXCEPT !.work = "none"], TRUE)
    PROVE  \E u : /\ u.cont = s.cont /\ u.late = s.late /\ Leaves(u, t)
                  /\ \/ u.bad = s.bad
                     \/ s.work = "reset_interrupt" /\ (s.reset \/ s.glitches > 0)
<1>s. s \in State
    BY DEF Good
<1> DEFINE u == [s EXCEPT !.work = "none"]
<1>0. "none" \in Works
    BY DEF Works, Irqs
<1>1. u \in State
    BY <1>s, <1>0 DEF State
<1>2. /\ u.cont = s.cont /\ u.busy = s.busy /\ u.status = s.status /\ u.work = "none"
      /\ u.timer = s.timer /\ u.do_floppy = s.do_floppy /\ u.timeout = s.timeout
      /\ u.raw_cmd = s.raw_cmd /\ u.req = s.req /\ u.errors = s.errors
      /\ u.stuck = s.stuck /\ u.bad = s.bad /\ u.late = s.late /\ u.reset = s.reset
      /\ u.glitches = s.glitches
    BY <1>s DEF State
<1>3. t \in Run(s.work, u, TRUE)
    OBVIOUS
<1> HIDE DEF u
<1>4. Sane(u) /\ ~u.stuck /\ u.do_floppy = "none" /\ s.cont # "none"
    BY <1>2 DEF Good, Settled, Sane, OneAtATime, Expected, Dormant
<1>5. s.work # "main_command_interrupt" => Running(u)
    BY <1>1, <1>2, <1>4 DEF Good, Settled, OneAtATime, Running, Loose
<1>6. s.work \in ForDrive => Prepared(u)
    BY <1>2 DEF Good, Settled, Expected, Prepared
<1>7. s.work # "redo_fd_request" => Armed(u)
    BY <1>2, <1>4 DEF Good, Settled, Sane, Guarded, Armed
<1>8. CASE s.work = "redo_fd_request"
  <2>1. t \in redo_fd_request(u) /\ u.cont = "rw"
    BY <1>2, <1>3, <1>8 DEF Run, Good, Settled, Expected
  <2> QED
    BY <1>2, <1>5, <1>8, <2>1, RedoRequestLeaves
<1>9. CASE s.work = "floppy_start"
    BY <1>2, <1>3, <1>5, <1>6, <1>9, StartLeaves DEF Run, ForDrive
<1>10. CASE s.work = "floppy_ready"
    BY <1>2, <1>3, <1>5, <1>6, <1>7, <1>10, ReadyLeaves DEF Run, ForDrive
<1>11. CASE s.work = "reset_fdc"
    BY <1>2, <1>3, <1>5, <1>7, <1>11, ResetLeaves DEF Run, Running
<1>12. CASE s.work = "main_command_interrupt"
    BY <1>1, <1>2, <1>3, <1>4, <1>6, <1>7, <1>12, MainCommandLeaves DEF Run, ForDrive
<1>13. CASE s.work = "seek_interrupt"
    BY <1>2, <1>3, <1>5, <1>6, <1>7, <1>13, SeekInterruptLeaves
    DEF Run, ForDrive, recal_interrupt
<1>14. CASE s.work = "recal_interrupt"
    BY <1>2, <1>3, <1>5, <1>6, <1>7, <1>14, SeekInterruptLeaves DEF Run, ForDrive
<1>15. CASE s.work = "reset_interrupt"
  <2>1. t \in reset_interrupt(u, TRUE)
    BY <1>3, <1>15 DEF Run
  <2>2. \/ Leaves(u, t)
        \/ /\ u.reset \/ u.glitches > 0
           /\ \E b : b.cont = u.cont /\ b.late = u.late /\ Leaves(b, t)
    BY <1>5, <1>7, <1>15, <2>1, ResetInterruptLeaves
  <2> QED
    BY <1>2, <1>15, <2>2
<1> QED
    BY <1>s, <1>8, <1>9, <1>10, <1>11, <1>12, <1>13, <1>14, <1>15 DEF State, Works, Irqs

\* fd_timer runs.
LEMMA TimerLeaves ==
    ASSUME NEW s, Good(s), s.timer # "none", ~s.stuck,
           NEW t \in Run(s.timer, [s EXCEPT !.timer = "none"], FALSE)
    PROVE  Leaves(s, t)
<1>s. s \in State
    BY DEF Good
<1> DEFINE u == [s EXCEPT !.timer = "none"]
<1>1. u \in State
    BY <1>s DEF State, Timers
<1>2. /\ u.cont = s.cont /\ u.busy = s.busy /\ u.status = s.status /\ u.work = s.work
      /\ u.timer = "none" /\ u.do_floppy = s.do_floppy /\ u.timeout = s.timeout
      /\ u.raw_cmd = s.raw_cmd /\ u.req = s.req /\ u.errors = s.errors
      /\ u.stuck = s.stuck /\ u.bad = s.bad /\ u.late = s.late
    BY <1>s DEF State
<1>3. t \in Run(s.timer, u, FALSE)
    OBVIOUS
<1> HIDE DEF u
<1>4. Sane(u) /\ ~u.stuck /\ s.cont # "none"
    BY <1>2 DEF Good, Settled, Sane, OneAtATime, Expected, Dormant
<1>5. s.timer # "fd_watchdog" => Running(u) /\ s.work = "none"
    BY <1>1, <1>2, <1>4 DEF Good, Settled, OneAtATime, Running, Loose
<1>6. s.timer \in ForDrive => Prepared(u)
    BY <1>2 DEF Good, Settled, Expected, Prepared
<1>7. s.work # "redo_fd_request" => Armed(u)
    BY <1>2, <1>4 DEF Good, Settled, Sane, Guarded, Armed
<1>8. Leaves(u, t)
  <2>1. CASE s.timer = "redo_fd_request"
    <3>1. t \in redo_fd_request(u) /\ u.cont = "rw"
        BY <1>2, <1>3, <2>1 DEF Run, Good, Settled, Expected
    <3> QED
        BY <1>5, <2>1, <3>1, RedoRequestLeaves
  <2>2. CASE s.timer = "floppy_start"
    BY <1>3, <1>5, <1>6, <2>2, StartLeaves DEF Run, ForDrive
  <2>3. CASE s.timer = "floppy_ready"
    BY <1>3, <1>5, <1>6, <1>7, <2>3, ReadyLeaves DEF Run, ForDrive
  <2>4. CASE s.timer = "setup_rw_floppy"
    BY <1>3, <1>5, <1>6, <1>7, <2>4, SetupLeaves DEF Run, ForDrive
  <2>5. CASE s.timer = "fd_watchdog"
    <3>1. t \in fd_watchdog(u, FALSE)
        BY <1>3, <2>5 DEF Run
    <3>2. \/ u.work = "main_command_interrupt" /\ u.do_floppy = "none"
          \/ u.work = "none" /\ u.do_floppy = "main_command_interrupt"
        BY <1>2, <2>5 DEF Good, Settled, OneAtATime
    <3>3. Prepared(u) /\ s.work # "redo_fd_request"
        BY <1>2, <3>2 DEF Good, Settled, Expected, Prepared, ForDrive
    <3> QED
        BY <1>1, <1>2, <1>4, <1>7, <3>1, <3>2, <3>3, WatchdogLeaves
  <2> QED
    BY <1>s, <2>1, <2>2, <2>3, <2>4, <2>5 DEF State, Timers
<1> QED
    BY <1>2, <1>8 DEF Leaves, Keeps, SameOwner

\* fd_timeout, while a command runs.
LEMMA TimeoutLeaves ==
    ASSUME NEW s, Good(s), ~s.stuck, s.cont # "none",
           NEW t \in floppy_shutdown([s EXCEPT !.timeout = "off"])
    PROVE  Leaves(s, t)
<1>s. s \in State /\ Sane(s)
    BY DEF Good, Settled
<1> DEFINE u == [s EXCEPT !.timeout = "off"]
           c == cancel_activity(u)
           v == [c EXCEPT !.reset = TRUE]
<1>1. u \in State
    BY <1>s DEF State
<1>2. /\ u.cont = s.cont /\ u.busy = s.busy /\ u.status = s.status
      /\ u.raw_cmd = s.raw_cmd /\ u.req = s.req /\ u.errors = s.errors
      /\ u.stuck = s.stuck /\ u.bad = s.bad /\ u.late = s.late
    BY <1>s DEF State
<1>3. floppy_shutdown(u) = IF v.cont # "none" THEN redo_done(done(v, 0))
                           ELSE {[process_fd_request(v) EXCEPT !.late = TRUE]}
    BY DEF floppy_shutdown
<1> HIDE DEF u
<1>4. Sane(u)
    BY <1>s, <1>2 DEF Sane
<1>5. Running(c) /\ c.cont = u.cont /\ Keeps(u, c)
    BY <1>1, <1>2, <1>4, CancelComes
<1> HIDE DEF c
<1>6. c \in State
    BY <1>5 DEF Running, Loose
<1>7. v \in State
    BY <1>6 DEF State
<1>8. /\ v.cont = c.cont /\ v.busy = c.busy /\ v.status = c.status /\ v.work = c.work
      /\ v.timer = c.timer /\ v.do_floppy = c.do_floppy
      /\ v.raw_cmd = c.raw_cmd /\ v.req = c.req /\ v.errors = c.errors
      /\ v.stuck = c.stuck /\ v.bad = c.bad /\ v.late = c.late
    BY <1>6 DEF State
<1> HIDE DEF v
<1>9. Running(v)
    BY <1>5, <1>7, <1>8 DEF Running, Loose, Sane
<1>10. t \in redo_done(done(v, 0))
    BY <1>2, <1>3, <1>5, <1>8 DEF u
<1>11. Leaves(v, t)
    BY <1>9, <1>10, EndLeaves
<1> QED
    BY <1>2, <1>5, <1>8, <1>11 DEF Leaves, Keeps, SameOwner

\* fd_timeout, while the owner copies or has not been scheduled.
LEMMA LateTimeout ==
    ASSUME NEW s, Good(s), s.cont = "none", NEW t \in floppy_shutdown([s EXCEPT !.timeout = "off"])
    PROVE  t \in State /\ Guarded(t) /\ t.late /\ t.bad = s.bad
<1>s. s \in State /\ s.work = "none"
    BY DEF Good, Settled, Expected, Dormant
<1> DEFINE v == [cancel_activity([s EXCEPT !.timeout = "off"]) EXCEPT !.reset = TRUE]
           u == [s EXCEPT !.timeout = "off", !.do_floppy = "none", !.timer = "none",
                          !.work = "none", !.reset = TRUE, !.cont = "rw"]
<1>1. v.cont = "none"
    BY <1>s DEF cancel_activity, State
<1>2. t = [process_fd_request(v) EXCEPT !.late = TRUE]
    BY <1>1 DEF floppy_shutdown
<1>3. [v EXCEPT !.cont = "rw"] = u
    BY <1>s DEF cancel_activity, State
<1>4. "none" \in Irqs /\ "none" \in Timers /\ "none" \in Works /\ "rw" \in Conts
      /\ "redo_fd_request" \in Works
    BY DEF Irqs, Timers, Works, Conts
<1>5. u \in State /\ u.work = "none" /\ u.bad = s.bad
    BY <1>s, <1>4 DEF State
<1> HIDE DEF u, v
<1>6. process_fd_request(v) = [u EXCEPT !.work = "redo_fd_request"]
    BY <1>3, <1>5 DEF process_fd_request, schedule_bh
<1>7. t = [u EXCEPT !.work = "redo_fd_request", !.late = TRUE]
    BY <1>2, <1>5, <1>6 DEF State
<1> QED
    BY <1>4, <1>5, <1>7 DEF State, Guarded

\* What floppy_interrupt makes of the driver's state.
Interrupt(s) ==
    LET u == [IF s.irq THEN s ELSE Glitch(s) EXCEPT
                 !.irq = FALSE, !.do_floppy = "none", !.reset = FALSE]
    IN  IF s.do_floppy = "none" THEN {[u EXCEPT !.reset = TRUE]}
        ELSE Disturbed(schedule_bh(u, s.do_floppy))

\* Nothing the owner of the controller can see has changed.
Alike(s, t) ==
    /\ t.busy = s.busy /\ t.cont = s.cont /\ t.status = s.status
    /\ t.bad = s.bad /\ t.late = s.late

LEMMA InterruptAlike ==
    ASSUME NEW s, Good(s), s.irq \/ s.glitches > 0, NEW t \in Interrupt(s)
    PROVE  Good(t) /\ Alike(s, t)
<1>s. s \in State
    BY DEF Good
<1> DEFINE g == IF s.irq THEN s ELSE Glitch(s)
           u == [g EXCEPT !.irq = FALSE, !.do_floppy = "none", !.reset = FALSE]
<1>1. PICK n \in 0 .. Glitches : g = [s EXCEPT !.glitches = n]
  <2>1. s.glitches \in 0 .. Glitches /\ (s.glitches > 0 => s.glitches - 1 \in 0 .. Glitches)
    BY <1>s, FloppyAssumption DEF State
  <2>2. CASE s.irq
    BY <1>s, <2>1, <2>2 DEF State
  <2>3. CASE ~s.irq
    BY <1>s, <2>1, <2>3 DEF Glitch, State
  <2> QED
    BY <2>2, <2>3
<1> HIDE DEF g
<1>2. u = [s EXCEPT !.glitches = n, !.irq = FALSE, !.do_floppy = "none", !.reset = FALSE]
    BY <1>s, <1>1 DEF State
<1>0. "none" \in Irqs
    BY DEF Irqs
<1>3. u \in State
  <2> HIDE DEF u
  <2> QED
    BY <1>s, <1>0, <1>2 DEF State
<1>4. /\ u.cont = s.cont /\ u.busy = s.busy /\ u.status = s.status /\ u.work = s.work
      /\ u.timer = s.timer /\ u.do_floppy = "none" /\ u.timeout = s.timeout
      /\ u.raw_cmd = s.raw_cmd /\ u.req = s.req /\ u.errors = s.errors
      /\ u.stuck = s.stuck /\ u.bad = s.bad /\ u.late = s.late
    BY <1>s, <1>2 DEF State
<1>5. Interrupt(s) = IF s.do_floppy = "none" THEN {[u EXCEPT !.reset = TRUE]}
                     ELSE Disturbed(schedule_bh(u, s.do_floppy))
    BY DEF Interrupt, g
<1> HIDE DEF u
<1>6. CASE s.do_floppy = "none"
  <2>1. t = [u EXCEPT !.reset = TRUE]
    BY <1>5, <1>6
  <2>2. t \in State
    BY <1>3, <2>1 DEF State
  <2>3. /\ t.cont = u.cont /\ t.busy = u.busy /\ t.status = u.status /\ t.work = u.work
        /\ t.timer = u.timer /\ t.do_floppy = u.do_floppy /\ t.timeout = u.timeout
        /\ t.raw_cmd = u.raw_cmd /\ t.req = u.req /\ t.errors = u.errors
        /\ t.stuck = u.stuck /\ t.bad = u.bad /\ t.late = u.late
    BY <1>3, <2>1 DEF State
  <2>4. Settled(t) /\ Guarded(t)
    BY <1>4, <1>6, <2>3
    DEF Good, Settled, Sane, OneAtATime, Expected, Dormant, Prepared, Guarded, Armed
  <2> QED
    BY <1>4, <2>2, <2>3, <2>4 DEF Good, Alike
<1>7. CASE s.do_floppy # "none"
  <2>1. s.work = "none" /\ s.cont # "none" /\ ~s.stuck
    BY <1>7 DEF Good, Settled, OneAtATime, Expected, Dormant
  <2> DEFINE v == schedule_bh(u, s.do_floppy)
  <2>2. v = [u EXCEPT !.work = s.do_floppy]
    BY <1>4, <2>1 DEF schedule_bh
  <2>3. v \in State
    BY <1>3, <1>s, <2>2 DEF State, Works
  <2>4. PICK m \in 0 .. Glitches, q \in BOOLEAN :
            t = [u EXCEPT !.work = s.do_floppy, !.glitches = m, !.reset = q]
    <3> HIDE DEF v
    <3>1. CASE t = v
      <4>1. t = [u EXCEPT !.work = s.do_floppy, !.glitches = u.glitches, !.reset = u.reset]
        BY <1>3, <2>2, <3>1 DEF State
      <4>2. u.glitches \in 0 .. Glitches /\ u.reset \in BOOLEAN
        BY <1>3 DEF State
      <4> QED
        BY <4>1, <4>2
    <3>2. CASE v.glitches > 0 /\ t = [Glitch(v) EXCEPT !.reset = TRUE]
      <4>1. v.glitches - 1 \in 0 .. Glitches
        BY <2>3, <3>2, FloppyAssumption DEF State
      <4> QED
        BY <1>3, <2>2, <2>3, <3>2, <4>1 DEF State, Glitch
    <3> QED
        BY <1>5, <1>7, <3>1, <3>2 DEF Disturbed, IfGlitch, v
  <2>5. t \in State
    BY <1>3, <1>s, <2>4 DEF State, Works
  <2>6. /\ t.cont = u.cont /\ t.busy = u.busy /\ t.status = u.status /\ t.work = s.do_floppy
        /\ t.timer = u.timer /\ t.do_floppy = u.do_floppy /\ t.timeout = u.timeout
        /\ t.raw_cmd = u.raw_cmd /\ t.req = u.req /\ t.errors = u.errors
        /\ t.stuck = u.stuck /\ t.bad = u.bad /\ t.late = u.late
    BY <1>3, <2>4 DEF State
  <2>7. s.do_floppy # "redo_fd_request"
    BY <1>s DEF State, Irqs
  <2>8. Settled(t) /\ Guarded(t)
    BY <1>4, <1>7, <2>1, <2>6, <2>7
    DEF Good, Settled, Sane, OneAtATime, Expected, Dormant, Prepared, Guarded, Armed
  <2> QED
    BY <1>4, <2>5, <2>6, <2>8 DEF Good, Alike
<1> QED
    BY <1>6, <1>7

-----------------------------------------------------------------------------
(* Taking the controller and giving it back.                               *)

\* The controller is owned, and nothing has been set up yet.
Held(s) ==
    /\ s \in State /\ s.bad \subseteq {"wild"}
    /\ s.busy /\ s.status = -1 /\ s.req = NoReq /\ Dormant(s) /\ ~s.stuck

\* process_fd_request gives the controller to the requests.
LEMMA GiveBack ==
    ASSUME NEW s, Held(s)
    PROVE  LET t == process_fd_request(s)
           IN  Good(t) /\ t.cont = "rw" /\ t.bad = s.bad /\ t.late = s.late
<1> DEFINE t == process_fd_request(s)
<1>1. t = [s EXCEPT !.cont = "rw", !.work = "redo_fd_request"]
    BY DEF process_fd_request, schedule_bh, Held, State, Dormant
<1>0. "rw" \in Conts /\ "redo_fd_request" \in Works
    BY DEF Conts, Works
<1>2. t \in State
    BY <1>0, <1>1 DEF Held, State
<1>3. /\ t.cont = "rw" /\ t.busy = s.busy /\ t.status = s.status /\ t.work = "redo_fd_request"
      /\ t.timer = s.timer /\ t.do_floppy = s.do_floppy /\ t.req = s.req
      /\ t.stuck = s.stuck /\ t.bad = s.bad /\ t.late = s.late
    BY <1>1 DEF Held, State
<1> HIDE DEF t
<1>4. Settled(t) /\ Guarded(t)
    BY <1>3 DEF Held, Settled, Sane, OneAtATime, Expected, Dormant, Guarded, ForDrive
<1> QED
    BY <1>2, <1>3, <1>4 DEF Good, t

\* The command of a process is scheduled.
LEMMA BeginGood ==
    ASSUME NEW s, Held(s), Armed(s), NEW op \in Ops
    PROVE  LET t == Begin(s, op)
           IN  Good(t) /\ t.busy /\ t.cont = op /\ t.status = -1 /\ t.bad = s.bad /\ t.late = s.late
<1> DEFINE raw == CASE op = "raw" -> "user" [] op = "reset" -> s.raw_cmd [] OTHER -> "default"
           h   == CASE op \in {"format", "raw"} -> "floppy_start"
                    [] op = "poll"  -> "floppy_ready"
                    [] op = "reset" -> "reset_fdc"
           e   == IF op = "format" THEN "static" ELSE s.errors
           n   == IF op = "format" THEN 0 ELSE s.errs
           q   == s.reset \/ op = "reset"
           u   == [s EXCEPT !.cont = op, !.raw_cmd = raw, !.errors = e, !.errs = n, !.reset = q]
           t   == Begin(s, op)
<1>0. op \in {"format", "raw", "poll", "reset"} /\ s \in State
    BY FloppyAssumption DEF Held
<1>1. /\ raw \in {"null", "default", "user", "freed"} /\ e \in Reqs \cup {"static"}
      /\ n \in 0 .. MaxErrors + 1 /\ q \in BOOLEAN /\ op \in Conts
      /\ h \in {"floppy_start", "floppy_ready", "reset_fdc"}
    BY <1>0, FloppyAssumption DEF State, Conts
<1>2. op = "raw" => raw = "user"
    OBVIOUS
<1>3. op \in {"format", "poll"} => raw = "default"
    OBVIOUS
<1>4. (op = "format" => e = "static") /\ (op = "reset" => h = "reset_fdc")
    OBVIOUS
<1>5. t = schedule_bh(u, h)
    BY <1>0 DEF Begin, State
<1> HIDE DEF raw, h, e, n, q
<1>6. u \in State /\ u.work = "none"
    BY <1>0, <1>1 DEF State, Held, Dormant
<1>7. t = [s EXCEPT !.cont = op, !.raw_cmd = raw, !.errors = e, !.errs = n, !.reset = q,
                    !.work = h]
    BY <1>0, <1>5, <1>6 DEF schedule_bh, State
<1>8. h \in Works
    BY <1>1 DEF Works
<1> HIDE DEF t, u
<1>9. t \in State
    BY <1>0, <1>1, <1>7, <1>8 DEF State
<1>10. /\ t.cont = op /\ t.busy = s.busy /\ t.status = s.status /\ t.work = h
       /\ t.timer = s.timer /\ t.do_floppy = s.do_floppy /\ t.timeout = s.timeout
       /\ t.raw_cmd = raw /\ t.req = s.req /\ t.errors = e
       /\ t.stuck = s.stuck /\ t.bad = s.bad /\ t.late = s.late
    BY <1>0, <1>7 DEF State
<1>11. Sane(t) /\ Guarded(t)
    BY <1>0, <1>2, <1>3, <1>4, <1>10 DEF Held, Sane, Guarded, Armed
<1>12. op # "reset" => Prepared(t)
    BY <1>0, <1>2, <1>3, <1>10 DEF Prepared
<1>13. OneAtATime(t) /\ Expected(t)
    BY <1>0, <1>1, <1>4, <1>10, <1>12 DEF Held, OneAtATime, Expected, Dormant, ForDrive
<1> QED
    BY <1>9, <1>10, <1>11, <1>13 DEF Good, Settled, Held, t

\* lock_fdc, when the controller is free.
LEMMA LockHeld ==
    ASSUME NEW s, Good(s), ~s.busy, NEW t \in lock_fdc(s)
    PROVE  Held(t) /\ Armed(t) /\ Good(t) /\ t.cont = "none" /\ t.bad = s.bad
           /\ t.late = s.late
<1>s. s \in State /\ s.cont = "none"
    BY DEF Good, Settled, Sane
<1> DEFINE l == [s EXCEPT !.busy = TRUE, !.status = -1, !.timeout = "armed"]
<1>1. t \in Disturbed(l)
    BY <1>s DEF lock_fdc, set_fdc, reschedule_timeout, State
<1>2. -1 \in -1 .. 3
    OBVIOUS
<1>l. l \in State
    BY <1>s, <1>2 DEF State
<1>m. /\ l.cont = s.cont /\ l.busy /\ l.status = -1 /\ l.work = s.work
      /\ l.timer = s.timer /\ l.do_floppy = s.do_floppy /\ l.timeout = "armed"
      /\ l.raw_cmd = s.raw_cmd /\ l.req = s.req /\ l.errors = s.errors
      /\ l.stuck = s.stuck /\ l.bad = s.bad /\ l.late = s.late
    BY <1>s DEF State
<1> HIDE DEF l
<1>3. t \in State
    BY <1>1, <1>l, DisturbedFields
<1>4. /\ t.cont = s.cont /\ t.busy /\ t.status = -1 /\ t.work = s.work
      /\ t.timer = s.timer /\ t.do_floppy = s.do_floppy /\ t.timeout = "armed"
      /\ t.raw_cmd = s.raw_cmd /\ t.req = s.req /\ t.errors = s.errors
      /\ t.stuck = s.stuck /\ t.bad = s.bad /\ t.late = s.late
    BY <1>1, <1>l, <1>m, DisturbedFields
<1>5. Held(t) /\ Armed(t) /\ Guarded(t)
    BY <1>s, <1>3, <1>4 DEF Held, Armed, Guarded, Good, Settled, Sane, Expected, Dormant
<1>6. Settled(t)
    BY <1>s, <1>4 DEF Good, Settled, Sane, OneAtATime, Expected, Dormant, ForDrive
<1> QED
    BY <1>s, <1>3, <1>4, <1>5, <1>6 DEF Good

\* A request is put into the queue.
LEMMA QueueAlike ==
    ASSUME NEW s, Good(s), NEW r \in Reqs
    PROVE  LET t == [s EXCEPT !.queue = Append(@, r)]
           IN  Good(t) /\ Alike(s, t)
<1>s. s \in State
    BY DEF Good
<1> DEFINE t == [s EXCEPT !.queue = Append(s.queue, r)]
<1>0. Append(s.queue, r) \in Seq(Reqs)
    BY <1>s DEF State
<1>1. t \in State
    BY <1>s, <1>0 DEF State
<1>2. /\ t.cont = s.cont /\ t.busy = s.busy /\ t.status = s.status /\ t.work = s.work
      /\ t.timer = s.timer /\ t.do_floppy = s.do_floppy /\ t.timeout = s.timeout
      /\ t.raw_cmd = s.raw_cmd /\ t.req = s.req /\ t.errors = s.errors
      /\ t.stuck = s.stuck /\ t.bad = s.bad /\ t.late = s.late
    BY <1>s DEF State
<1> HIDE DEF t
<1>3. Settled(t) /\ Guarded(t)
    BY <1>2 DEF Good, Settled, Sane, OneAtATime, Expected, Dormant, Prepared, Guarded, Armed
<1> QED
    BY <1>1, <1>2, <1>3 DEF Good, Alike, t

\* wait_til_done is interrupted: the controller is reset, and the requests go on
\* after that.
LEMMA InterruptedGood ==
    ASSUME NEW s, Good(s), ~s.stuck, s.cont \notin {"none", "rw"}, NEW raw \in BOOLEAN
    PROVE  LET u == reset_fdc([cancel_activity(s) EXCEPT !.cont = "intr"])
               t == IF raw THEN [u EXCEPT !.raw_cmd = "freed"] ELSE u
           IN  Good(t) /\ t.cont = "intr" /\ t.bad = s.bad /\ t.late = s.late
<1>s. s \in State
    BY DEF Good
<1> DEFINE u == reset_fdc([cancel_activity(s) EXCEPT !.cont = "intr"])
           t == IF raw THEN [u EXCEPT !.raw_cmd = "freed"] ELSE u
           m == IF raw THEN "freed" ELSE s.raw_cmd
<1>0. /\ "none" \in Timers /\ "none" \in Works /\ "intr" \in Conts /\ "reset_interrupt" \in Irqs
      /\ m \in {"null", "default", "user", "freed"}
    BY <1>s DEF Irqs, Timers, Works, Conts, State
<1>1. t = [s EXCEPT !.timer = "none", !.work = "none", !.cont = "intr",
                    !.do_floppy = "reset_interrupt", !.reset = FALSE, !.irq = TRUE,
                    !.raw_cmd = m]
    BY <1>s DEF reset_fdc, cancel_activity, State
<1> HIDE DEF m, u, t
<1>2. t \in State
    BY <1>s, <1>0, <1>1 DEF State
<1>3. /\ t.cont = "intr" /\ t.busy = s.busy /\ t.status = s.status /\ t.work = "none"
      /\ t.timer = "none" /\ t.do_floppy = "reset_interrupt" /\ t.timeout = s.timeout
      /\ t.req = s.req /\ t.errors = s.errors
      /\ t.stuck = s.stuck /\ t.bad = s.bad /\ t.late = s.late
    BY <1>s, <1>1 DEF State
<1>4. Settled(t)
    BY <1>3 DEF Good, Settled, Sane, OneAtATime, Expected, Dormant, ForDrive
<1>5. Guarded(t)
    BY <1>3 DEF Good, Settled, Expected, Guarded, Armed
<1> QED
    BY <1>2, <1>3, <1>4, <1>5 DEF Good, t, u

-----------------------------------------------------------------------------
(* The invariant.                                                          *)

ProcType ==
    proc \in [Procs -> [pc : {"idle", "copyin", "wait", "copyout"}, op : Ops \cup {"none"}]]

LEMMA InvGood == IInv /\ ~d.late => Good(d) /\ ProcType /\ \A p \in Procs : Owner(p)
BY DEF IInv, Good, ProcType

\* A driver that serves requests, or was interrupted, is owned by no process.
LEMMA NoOwner ==
    ASSUME ProcType, \A p \in Procs : Owner(p), d.cont \in {"rw", "intr"} \/ ~d.busy
    PROVE  \A p \in Procs : proc[p].pc = "idle"
<1> SUFFICES ASSUME NEW p \in Procs, proc[p].pc # "idle" PROVE FALSE
    OBVIOUS
<1>1. proc[p].op \in Ops /\ d.busy /\ d.cont \in {proc[p].op, "wakeup", "none"}
    BY DEF ProcType, Owner
<1> QED
    BY <1>1, FloppyAssumption

\* Error counts stray only after a reset that failed, or whose result() fails.
Strays(a, b) ==
    "wild" \in b.bad \ a.bad => a.work = "reset_interrupt" /\ (a.reset \/ a.glitches > 0)

\* The worker or fd_timer has run, on the command of the owner.
LEMMA OwnersKept ==
    ASSUME IInv, ~d.late, UNCHANGED proc, NEW s, s.cont = d.cont, s.late = d.late,
           d.cont # "none", Leaves(s, d')
    PROVE  IInv'
<1>1. ProcType /\ \A p \in Procs : Owner(p)
    BY InvGood
<1>2. d' \in State /\ Settled(d') /\ Guarded(d') /\ SameOwner(s, d')
    BY DEF Leaves, Keeps
<1>3. ASSUME NEW p \in Procs PROVE Owner(p)'
  <2>1. CASE d.cont \in {"rw", "intr"}
    BY <1>1, <2>1, NoOwner DEF Owner
  <2>2. CASE d.cont \notin {"rw", "intr"}
    <3>1. d'.busy /\ (d'.cont \in {d.cont, "wakeup"} \/ (d'.cont = "none" /\ d'.status >= 2))
        BY <1>2, <2>2 DEF SameOwner
    <3>2. d'.cont # "none" => d'.status < 2
        BY <1>2 DEF Settled, Sane
    <3>3. Owner(p)
        BY <1>1
    <3>4. d'.status \in Int
        BY <1>2 DEF State
    <3> QED
        BY <3>1, <3>2, <3>3, <3>4 DEF Owner
  <2> QED
    BY <2>1, <2>2
<1> QED
    BY <1>1, <1>2, <1>3 DEF IInv, ProcType

\* Nothing has changed for the owner.
LEMMA AlikeKept ==
    ASSUME IInv, ~d.late, UNCHANGED proc, Good(d'), Alike(d, d')
    PROVE  IInv' /\ Strays(d, d')
BY DEF IInv, Good, Alike, Owner, Strays

\* No process owns the controller any more, or none did.
LEMMA AllIdle ==
    ASSUME ProcType', Good(d'), \A p \in Procs : proc'[p].pc = "idle"
    PROVE  IInv'
BY DEF IInv, ProcType, Good, Owner

\* A process is the only one that is not idle.
LEMMA OnlyOne ==
    ASSUME ProcType, \A q \in Procs : Owner(q), NEW p \in Procs, proc[p].pc # "idle"
    PROVE  /\ \A q \in Procs : q # p => proc[q].pc = "idle"
           /\ d.busy /\ proc[p].op \in Ops
BY DEF Owner, ProcType

LEMMA NowType ==
    ASSUME ProcType, NEW p \in Procs, NEW l \in {"idle", "copyin", "wait", "copyout"},
           NEW op \in Ops \cup {"none"}, Now(p, l, op)
    PROVE  /\ ProcType' /\ proc'[p] = [pc |-> l, op |-> op]
           /\ \A q \in Procs : q # p => proc'[q] = proc[q]
BY DEF ProcType, Now

LEMMA ReturnIdle ==
    ASSUME ProcType, NEW p \in Procs, Return(p), \A q \in Procs : q # p => proc[q].pc = "idle"
    PROVE  ProcType' /\ \A q \in Procs : proc'[q].pc = "idle"
<1>1. /\ ProcType' /\ proc'[p] = [pc |-> "idle", op |-> "none"]
      /\ \A q \in Procs : q # p => proc'[q] = proc[q]
    BY NowType DEF Return
<1>2. proc'[p].pc = "idle"
    BY <1>1
<1> QED
    BY <1>1, <1>2

LEMMA InvInit == Init => IInv
<1> SUFFICES ASSUME Init PROVE IInv
    OBVIOUS
<1>1. d \in State
  <2>1. /\ MaxWaits \in 0 .. MaxWaits /\ Glitches \in 0 .. Glitches /\ 0 \in 0 .. MaxErrors + 1
        /\ -1 \in -1 .. 3 /\ {} \in SUBSET Mishaps
    BY FloppyAssumption
  <2>2. PICK e \in Seq(Reqs) : e = <<>>
    <3>1. <<>> \in Seq(Reqs)
        BY EmptySeq
    <3> QED
        BY <3>1
  <2>3. "none" \in Conts /\ "none" \in Irqs /\ "none" \in Works /\ "none" \in Timers
    BY DEF Conts, Irqs, Works, Timers
  <2>4. d = [busy |-> FALSE, status |-> -1, cont |-> "none", do_floppy |-> "none",
             work |-> "none", timer |-> "none", timeout |-> "off", reset |-> FALSE,
             irq |-> FALSE, raw_cmd |-> "null", req |-> NoReq, queue |-> e,
             errors |-> "static", errs |-> 0, got |-> FALSE, glitches |-> Glitches,
             waits |-> MaxWaits, stuck |-> FALSE, bad |-> {}, late |-> FALSE]
    BY <2>2 DEF Init
  <2> QED
    BY <2>1, <2>3, <2>4 DEF State
<1>2. /\ d.cont = "none" /\ ~d.busy /\ d.work = "none" /\ d.timer = "none"
      /\ d.do_floppy = "none" /\ d.req = NoReq /\ ~d.stuck /\ d.bad = {}
    BY DEF Init
<1>3. Settled(d) /\ Guarded(d)
    BY <1>2 DEF Settled, Sane, OneAtATime, Expected, Dormant, ForDrive, Guarded
<1>4. ProcType /\ \A p \in Procs : proc[p].pc = "idle"
    BY DEF Init, ProcType
<1> QED
    BY <1>1, <1>3, <1>4 DEF IInv, ProcType, Owner

\* Every step keeps the invariant, and error counts stray only after a failed
\* reset.
LEMMA InvStep == IInv /\ [Next]_vars => IInv' /\ Strays(d, d')
<1> SUFFICES ASSUME IInv, [Next]_vars
             PROVE  IInv' /\ Strays(d, d')
    OBVIOUS
<1>1. CASE UNCHANGED vars
    BY <1>1 DEF vars, IInv, Strays, Owner
<1>2. CASE ~d.late /\ Driver
  <2>d. ~d.late
    BY <1>2
  <2>g. Good(d) /\ ProcType /\ \A p \in Procs : Owner(p)
    BY <2>d, InvGood
  <2>s. d \in State
    BY <2>g DEF Good
  <2>1. CASE floppy_work
    <3>1. d.work # "none" /\ ~d.stuck /\ d' \in Run(d.work, [d EXCEPT !.work = "none"], TRUE)
          /\ UNCHANGED proc
        BY <2>1 DEF floppy_work
    <3>2. PICK u : /\ u.cont = d.cont /\ u.late = d.late /\ Leaves(u, d')
                   /\ \/ u.bad = d.bad
                      \/ d.work = "reset_interrupt" /\ (d.reset \/ d.glitches > 0)
        BY <2>g, <3>1, WorkLeaves
    <3>3. d.cont # "none"
        BY <2>g, <3>1 DEF Good, Settled, Expected, Dormant
    <3>4. IInv'
        BY <2>d, <3>1, <3>2, <3>3, OwnersKept
    <3> QED
        BY <3>2, <3>4 DEF Leaves, Keeps, Strays
  <2>2. CASE fd_timer
    <3>1. d.timer # "none" /\ ~d.stuck /\ d' \in Run(d.timer, [d EXCEPT !.timer = "none"], FALSE)
          /\ UNCHANGED proc
        BY <2>2 DEF fd_timer
    <3>2. Leaves(d, d')
        BY <2>g, <3>1, TimerLeaves
    <3>3. d.cont # "none"
        BY <2>g, <3>1 DEF Good, Settled, Expected, Dormant
    <3>4. IInv'
        BY <2>d, <3>1, <3>2, <3>3, OwnersKept
    <3> QED
        BY <3>2, <3>4 DEF Leaves, Keeps, Strays
  <2>3. CASE timeout_due
    <3>1. d' = [d EXCEPT !.timeout = "due"] /\ UNCHANGED proc
        BY <2>3 DEF timeout_due
    <3>2. d' \in State
        BY <2>s, <3>1 DEF State
    <3>3. /\ d'.cont = d.cont /\ d'.busy = d.busy /\ d'.status = d.status /\ d'.work = d.work
          /\ d'.timer = d.timer /\ d'.do_floppy = d.do_floppy /\ d'.timeout = "due"
          /\ d'.raw_cmd = d.raw_cmd /\ d'.req = d.req /\ d'.errors = d.errors
          /\ d'.stuck = d.stuck /\ d'.bad = d.bad /\ d'.late = d.late
        BY <2>s, <3>1 DEF State
    <3>4. Good(d') /\ Alike(d, d')
        BY <2>g, <3>2, <3>3
        DEF Good, Alike, Settled, Sane, OneAtATime, Expected, Dormant, Prepared, Guarded, Armed
    <3> QED
        BY <2>d, <3>1, <3>4, AlikeKept
  <2>4. CASE fd_timeout
    <3>1. ~d.stuck /\ d' \in floppy_shutdown([d EXCEPT !.timeout = "off"]) /\ UNCHANGED proc
        BY <2>4 DEF fd_timeout
    <3>2. CASE d.cont # "none"
      <4>1. Leaves(d, d')
        BY <2>g, <3>1, <3>2, TimeoutLeaves
      <4>2. IInv'
        BY <2>d, <3>1, <3>2, <4>1, OwnersKept
      <4> QED
        BY <4>1, <4>2 DEF Leaves, Keeps, Strays
    <3>3. CASE d.cont = "none"
      <4>1. d' \in State /\ Guarded(d') /\ d'.late /\ d'.bad = d.bad
        BY <2>g, <3>1, <3>3, LateTimeout
      <4> QED
        BY <2>g, <3>1, <4>1 DEF IInv, ProcType, Strays
    <3> QED
        BY <3>2, <3>3
  <2>5. CASE floppy_interrupt
    <3>1. (d.irq \/ d.glitches > 0) /\ d' \in Interrupt(d) /\ UNCHANGED proc
        BY <2>5 DEF floppy_interrupt, Interrupt
    <3>2. Good(d') /\ Alike(d, d')
        BY <2>g, <3>1, InterruptAlike
    <3> QED
        BY <2>d, <3>1, <3>2, AlikeKept
  <2>6. ASSUME NEW p \in Procs, raw_cmd_copyin(p)
        PROVE  IInv' /\ Strays(d, d')
    <3>1. proc[p].pc = "copyin"
        BY <2>6 DEF raw_cmd_copyin
    <3>2. /\ d.busy /\ d.cont = "none" /\ d.status = -1 /\ proc[p].op = "raw"
          /\ \A q \in Procs : q # p => proc[q].pc = "idle"
        BY <2>g, <3>1, OnlyOne DEF Owner
    <3>3. Held(d) /\ Armed(d) /\ "raw" \in Ops
        BY <2>g, <3>1, <3>2, OnlyOne DEF Good, Held, Settled, Sane, Expected, Dormant, Guarded
    <3>4. CASE d' = Begin(d, "raw") /\ Now(p, "wait", "raw")
      <4>1. Good(d') /\ d'.busy /\ d'.cont = "raw" /\ d'.status = -1 /\ d'.bad = d.bad
            /\ d'.late = d.late
        BY <3>3, <3>4, BeginGood
      <4>2. ProcType' /\ proc'[p] = [pc |-> "wait", op |-> "raw"]
            /\ \A q \in Procs : q # p => proc'[q] = proc[q]
        BY <2>g, <3>3, <3>4, NowType
      <4>3. \A q \in Procs : Owner(q)'
        BY <3>2, <4>1, <4>2 DEF Owner
      <4> QED
        BY <4>1, <4>2, <4>3 DEF IInv, Good, ProcType, Strays
    <3>5. CASE d' = process_fd_request(d) /\ Return(p)
      <4>1. Good(d') /\ d'.bad = d.bad
        BY <3>3, <3>5, GiveBack
      <4>2. ProcType' /\ \A q \in Procs : proc'[q].pc = "idle"
        BY <2>g, <3>2, <3>5, ReturnIdle
      <4> QED
        BY <4>1, <4>2, AllIdle DEF Strays
    <3> QED
        BY <2>6, <3>4, <3>5 DEF raw_cmd_copyin
  <2>7. ASSUME NEW p \in Procs, command_done(p)
        PROVE  IInv' /\ Strays(d, d')
    <3>1. proc[p].pc = "wait" /\ d.status >= 2
        BY <2>7 DEF command_done
    <3>2. /\ d.busy /\ d.cont = "none"
          /\ \A q \in Procs : q # p => proc[q].pc = "idle"
        BY <2>g, <3>1, OnlyOne DEF Owner
    <3> DEFINE s == [d EXCEPT !.status = -1]
    <3>3. s \in State
        BY <2>s DEF State
    <3>4. /\ s.cont = d.cont /\ s.busy = d.busy /\ s.status = -1 /\ s.work = d.work
          /\ s.timer = d.timer /\ s.do_floppy = d.do_floppy /\ s.timeout = d.timeout
          /\ s.raw_cmd = d.raw_cmd /\ s.req = d.req /\ s.errors = d.errors
          /\ s.stuck = d.stuck /\ s.bad = d.bad /\ s.late = d.late
        BY <2>s DEF State
    <3>5. Held(s) /\ Good(s)
      <4> HIDE DEF s
      <4> QED
        BY <2>g, <3>2, <3>3, <3>4
        DEF Good, Held, Settled, Sane, OneAtATime, Expected, Dormant, Guarded, Armed, ForDrive
    <3>6. CASE d' = s /\ Now(p, "copyout", "raw") /\ proc[p].op = "raw"
      <4>1. "raw" \in Ops
        BY <2>g, <3>1, <3>6, OnlyOne
      <4>2. ProcType' /\ proc'[p] = [pc |-> "copyout", op |-> "raw"]
            /\ \A q \in Procs : q # p => proc'[q] = proc[q]
        BY <2>g, <3>6, <4>1, NowType
      <4> HIDE DEF s
      <4>3. \A q \in Procs : Owner(q)'
        <5>1. d'.busy /\ d'.cont = "none" /\ d'.status = -1
            BY <3>2, <3>4, <3>6
        <5> QED
            BY <3>2, <4>2, <5>1 DEF Owner
      <4> QED
        BY <3>4, <3>5, <3>6, <4>2, <4>3 DEF IInv, Good, ProcType, Strays
    <3>7. CASE d' = process_fd_request(s) /\ Return(p)
      <4>1. Good(d') /\ d'.bad = d.bad
        BY <3>4, <3>5, <3>7, GiveBack
      <4>2. ProcType' /\ \A q \in Procs : proc'[q].pc = "idle"
        BY <2>g, <3>2, <3>7, ReturnIdle
      <4> QED
        BY <4>1, <4>2, AllIdle DEF Strays
    <3> QED
        BY <2>7, <3>6, <3>7 DEF command_done
  <2>8. ASSUME NEW p \in Procs, raw_cmd_copyout(p)
        PROVE  IInv' /\ Strays(d, d')
    <3>1. /\ proc[p].pc = "copyout" /\ Return(p)
          /\ d' = process_fd_request([d EXCEPT !.raw_cmd = "freed"])
        BY <2>8 DEF raw_cmd_copyout
    <3>2. /\ d.busy /\ d.cont = "none" /\ d.status = -1
          /\ \A q \in Procs : q # p => proc[q].pc = "idle"
        BY <2>g, <3>1, OnlyOne DEF Owner
    <3> DEFINE s == [d EXCEPT !.raw_cmd = "freed"]
    <3>3. s \in State
        BY <2>s DEF State
    <3>4. /\ s.busy = d.busy /\ s.status = d.status /\ s.work = d.work
          /\ s.timer = d.timer /\ s.do_floppy = d.do_floppy
          /\ s.req = d.req /\ s.stuck = d.stuck /\ s.bad = d.bad /\ s.late = d.late
        BY <2>s DEF State
    <3> HIDE DEF s
    <3>5. Held(s)
        BY <2>g, <3>2, <3>3, <3>4 DEF Good, Held, Settled, Sane, Expected, Dormant
    <3>6. Good(d') /\ d'.bad = d.bad
        BY <3>1, <3>4, <3>5, GiveBack DEF s
    <3>7. ProcType' /\ \A q \in Procs : proc'[q].pc = "idle"
        BY <2>g, <3>1, <3>2, ReturnIdle
    <3> QED
        BY <3>6, <3>7, AllIdle DEF Strays
  <2>9. ASSUME NEW p \in Procs, interrupted(p)
        PROVE  IInv' /\ Strays(d, d')
    <3> DEFINE raw == proc[p].op = "raw"
               u == reset_fdc([cancel_activity(d) EXCEPT !.cont = "intr"])
    <3>1. /\ proc[p].pc = "wait" /\ d.status < 2 /\ ~d.stuck /\ Return(p)
          /\ d' = IF raw THEN [u EXCEPT !.raw_cmd = "freed"] ELSE u
        BY <2>9 DEF interrupted
    <3>2. d.status \in Int
        BY <2>s DEF State
    <3>3. /\ d.cont \notin {"none", "rw"}
          /\ \A q \in Procs : q # p => proc[q].pc = "idle"
        BY <2>g, <3>1, <3>2, OnlyOne, FloppyAssumption DEF Owner
    <3>4. Good(d') /\ d'.bad = d.bad
        BY <2>g, <3>1, <3>3, InterruptedGood
    <3>5. ProcType' /\ \A q \in Procs : proc'[q].pc = "idle"
        BY <2>g, <3>1, <3>3, ReturnIdle
    <3> QED
        BY <3>4, <3>5, AllIdle DEF Strays
  <2>10. ASSUME NEW p \in Procs, NEW op \in Ops, ioctl(p, op)
         PROVE  IInv' /\ Strays(d, d')
    <3>1. ~d.busy
        BY <2>10 DEF ioctl
    <3>2. \A q \in Procs : proc[q].pc = "idle"
        BY <2>g, <3>1, NoOwner
    <3>s. PICK s \in lock_fdc(d) :
              \/ op = "raw" /\ d' = s /\ Now(p, "copyin", op)
              \/ d' = Begin(s, op) /\ Now(p, "wait", op)
              \/ d' = process_fd_request(s) /\ UNCHANGED proc
        BY <2>10 DEF ioctl
    <3>3. Held(s) /\ Armed(s) /\ Good(s) /\ s.cont = "none" /\ s.bad = d.bad /\ s.late = d.late
        BY <2>g, <3>1, LockHeld
    <3>4. CASE op = "raw" /\ d' = s /\ Now(p, "copyin", op)
      <4>1. ProcType' /\ proc'[p] = [pc |-> "copyin", op |-> op]
            /\ \A q \in Procs : q # p => proc'[q] = proc[q]
        BY <2>g, <3>4, NowType
      <4>2. \A q \in Procs : Owner(q)'
        BY <3>2, <3>3, <3>4, <4>1 DEF Owner, Held
      <4> QED
        BY <3>3, <3>4, <4>1, <4>2 DEF IInv, Good, ProcType, Strays
    <3>5. CASE d' = Begin(s, op) /\ Now(p, "wait", op)
      <4>1. ProcType' /\ proc'[p] = [pc |-> "wait", op |-> op]
            /\ \A q \in Procs : q # p => proc'[q] = proc[q]
        BY <2>g, <3>5, NowType
      <4>2. Good(d') /\ d'.busy /\ d'.cont = op /\ d'.status = -1 /\ d'.bad = d.bad
        BY <3>3, <3>5, BeginGood
      <4>3. op \notin {"none"}
        BY FloppyAssumption
      <4>4. \A q \in Procs : Owner(q)'
        BY <3>2, <4>1, <4>2, <4>3 DEF Owner
      <4> QED
        BY <4>1, <4>2, <4>4 DEF IInv, Good, ProcType, Strays
    <3>6. CASE d' = process_fd_request(s) /\ UNCHANGED proc
      <4>1. Good(d') /\ d'.bad = d.bad
        BY <3>3, <3>6, GiveBack
      <4>2. ProcType' /\ \A q \in Procs : proc'[q].pc = "idle"
        BY <2>g, <3>2, <3>6 DEF ProcType
      <4> QED
        BY <4>1, <4>2, AllIdle DEF Strays
    <3> QED
        BY <3>s, <3>4, <3>5, <3>6
  <2>11. ASSUME NEW r \in Reqs, do_fd_request(r)
         PROVE  IInv' /\ Strays(d, d')
    <3> DEFINE s == [d EXCEPT !.queue = Append(@, r)]
    <3>1. /\ UNCHANGED proc
          /\ IF s.busy THEN d' = s ELSE \E t \in lock_fdc(s) : d' = process_fd_request(t)
        BY <2>11 DEF do_fd_request
    <3>2. Good(s) /\ Alike(d, s)
        BY <2>g, QueueAlike
    <3> HIDE DEF s
    <3>3. CASE s.busy
        BY <2>d, <3>1, <3>2, <3>3, AlikeKept
    <3>4. CASE ~s.busy
      <4>1. PICK t \in lock_fdc(s) : d' = process_fd_request(t)
        BY <3>1, <3>4
      <4>5. Held(t) /\ t.bad = s.bad
        BY <3>2, <3>4, LockHeld
      <4>2. Good(d') /\ d'.bad = d.bad
        BY <3>2, <4>1, <4>5, GiveBack DEF Alike
      <4>3. \A q \in Procs : proc[q].pc = "idle"
        BY <2>g, <3>2, <3>4, NoOwner DEF Alike
      <4>4. ProcType' /\ \A q \in Procs : proc'[q].pc = "idle"
        BY <2>g, <3>1, <4>3 DEF ProcType
      <4> QED
        BY <4>2, <4>4, AllIdle DEF Strays
    <3> QED
        BY <3>3, <3>4
  <2> QED
    BY <1>2, <2>1, <2>2, <2>3, <2>4, <2>5, <2>6, <2>7, <2>8, <2>9, <2>10, <2>11
    DEF Driver, Process
<1> QED
    BY <1>1, <1>2 DEF Next, given_up

LEMMA Invariance == Spec => []IInv
BY InvInit, InvStep, PTL DEF Spec

-----------------------------------------------------------------------------
(* The theorems.                                                           *)

\* TypeOK: the driver's variables keep their types; *errors stays within
\* max_errors.abort and one more, command_status within its codes.
THEOREM TypeCorrect == Spec => []TypeOK
<1>1. IInv => TypeOK
    BY DEF IInv, State, TypeOK
<1> QED
    BY Invariance, <1>1, PTL

\* NoMishapUntilLate: the driver follows no null or freed pointer, no bottom half
\* replaces a pending one, and nobody unlocks a free controller, for any number
\* of processes, requests, failures and delays in any order, as long as fd_timeout
\* has not overtaken a process that copies its arguments or results.
THEOREM DriverKeepsOrder == Spec => []NoMishapUntilLate
<1>1. IInv => NoMishapUntilLate
    BY DEF IInv, Settled, Sane, NoMishapUntilLate
<1> QED
    BY Invariance, <1>1, PTL

\* Exclusive: between lock_fdc and process_fd_request a process is alone with
\* the controller.
THEOREM OwnerAlone == Spec => []Exclusive
<1>1. IInv => Exclusive
  <2> SUFFICES ASSUME IInv, ~d.late, NEW p \in Procs, proc[p].pc # "idle"
               PROVE  /\ d.busy /\ d.req = NoReq
                      /\ d.cont \in {proc[p].op, "wakeup", "none"}
                      /\ \A q \in Procs : proc[q].pc # "idle" => q = p
    BY DEF Exclusive
  <2>1. ProcType /\ Owner(p) /\ Good(d)
    BY InvGood
  <2>2. d.cont # "rw"
    BY <2>1, FloppyAssumption DEF Owner, ProcType
  <2> QED
    BY <2>1, <2>2 DEF Owner, Good, Settled, Sane
<1> QED
    BY Invariance, <1>1, PTL

\* TimeoutAlive: while a command runs, fd_timeout is set, or redo_fd_request,
\* which sets it, is about to run, or the worker waits for itself.
THEOREM TimeoutStaysSet == Spec => []TimeoutAlive
<1>1. IInv => TimeoutAlive
    BY DEF IInv, Guarded, Armed, TimeoutAlive
<1> QED
    BY Invariance, <1>1, PTL

\* ErrorsOfCurrent: bad_flp_intr counts an error for a request that is over only
\* if the controller has failed in a reset, or can fail in it.
THEOREM ErrorsCounted == Spec => ErrorsOfCurrent
<1>1. IInv /\ [Next]_vars =>
          [ "wild" \in d'.bad \ d.bad =>
                d.work = "reset_interrupt" /\ (d.reset \/ d.glitches > 0) ]_vars
    BY InvStep DEF Strays
<1> QED
    BY Invariance, <1>1, PTL DEF Spec, ErrorsOfCurrent
=============================================================================
