---------------------------- MODULE BusyboxInit ----------------------------
(***************************************************************************)
(* PID 1: busybox init (init/init.c), as gray386linux configures it        *)
(* (FEATURE_USE_INITTAB, no FEATURE_KILL_REMOVED).                         *)
(*                                                                         *)
(* One step is what init does between two points where a SIGTSTP can make  *)
(* a difference: its handler runs at any time, reaps children itself and   *)
(* clears their pids in the list.  The other signals are blocked, and      *)
(* fetched one at a time by check_delayed_sigs.                            *)
(*                                                                         *)
(* A command stands for a command and its terminal.  SIGUSR1, SIGUSR2 and  *)
(* SIGPWR do what SIGTERM does.  ASKFIRST entries are RESPAWN entries      *)
(* whose child asks first.                                                 *)
(***************************************************************************)
EXTENDS Integers, Sequences, SequencesExt, FiniteSets

CONSTANTS
    Pids,       \* pids there are for processes other than init
    Tables,     \* what /etc/inittab may say whenever it is read
    Signals,    \* the signals other processes send to init
    MaxSent,    \* of these are pending at a time, at most
    Faults,     \* "fork": fork fails; "stop": init is sent SIGTSTP
    MaxOrphans  \* children init has not started itself, at most

Waited == {"sysinit", "wait", "ctrlaltdel", "shutdown"}
Types  == Waited \cup {"once", "respawn", "restart"}
Lines  == [type : Types, cmd : STRING]
Cmds   == UNION { { t[k].cmd : k \in DOMAIN t } : t \in Tables }

ASSUME InitAssumption ==
    /\ Pids \subseteq Nat \ {0, 1} /\ IsFiniteSet(Pids)
    /\ Tables \subseteq Seq(Lines)
    /\ \A t \in Tables : \A j, k \in DOMAIN t : t[j].cmd = t[k].cmd => j = k
    /\ Signals \subseteq {"HUP", "INT", "QUIT", "TERM"}
    /\ Faults \subseteq {"fork", "stop"}
    /\ MaxSent \in Nat /\ MaxOrphans \in Nat

VARIABLES
    list,       \* G.init_action_list; a pid is 0, a child, or -1
    loaded,     \* the inittab that was read last
    pending,    \* the delayed signals that are pending
    proc,       \* the processes
    pc, i, got, \* the step; the entry or line a loop is at; the pid of run()
    phase,      \* how far init_main is: sysinit, wait, once, loop
    doing,      \* main, or inside check_delayed_sigs: ctrlaltdel, shutdown
    why,        \* what the shutdown is for: restart or halt
    held,       \* reload_inittab: the entry that is off the list
    stopped     \* in the SIGTSTP handler

ctl  == << pc, i, got, phase, doing, why, held >>
vars == << list, loaded, pending, proc, ctl, stopped >>

Nobody  == [st |-> "none", cmd |-> "none", as |-> "none"]
NoEntry == [cmd |-> "none", type |-> "none", pid |-> 0]

Alive(p)  == proc[p].st = "alive"
Zombie(p) == proc[p].st = "zombie"

Entries == [cmd : Cmds, type : Types \cup {"none"}, pid : Pids \cup {0, -1}]

TypeOK ==
    /\ list \in Seq(Entries)
    /\ loaded \in Tables
    /\ pending \subseteq Signals \cup {"CHLD"}
    /\ \A p \in Pids : proc[p] = Nobody
                       \/ proc[p] \in [st : {"alive", "zombie"}, cmd : Cmds \cup {"none"},
                                       as : Types \cup {"orphan"}]
    /\ pc \in {"run", "assign", "wait", "check", "parse", "append", "sweep", "reap", "kill", "down"}
    /\ i \in Nat /\ got \in Pids \cup {0, -1}
    /\ phase \in {"sysinit", "wait", "once", "loop"}
    /\ doing \in {"main", "ctrlaltdel", "shutdown"}
    /\ why \in {"none", "restart", "halt"}
    /\ held \in Entries \cup {NoEntry}
    /\ stopped \in BOOLEAN

-----------------------------------------------------------------------------
(* The list.                                                               *)

\* new_init_action: the index of the entry for this line, 0 if there is none.
Match(l, line) == SelectInSeq(l, LAMBDA a : a.cmd = line.cmd)

\* Mutant of new_init_action: a new entry is not cleared.
new_init_action_Dirty(line) == [cmd |-> line.cmd, type |-> line.type, pid |-> 1]

\* new_init_action: the entry that is made for a line that has none.
new_init_action(line) == [cmd |-> line.cmd, type |-> line.type, pid |-> 0]

\* parse_inittab, from an empty list: each line gets an entry at the end.
parse_inittab(t) == [k \in DOMAIN t |-> new_init_action(t[k])]

\* mark_terminated: the first entry with this pid has none any more.
mark_terminated(l, p) ==
    LET k == SelectInSeq(l, LAMBDA a : a.pid = p)
    IN  IF k = 0 THEN l ELSE [l EXCEPT ![k].pid = 0]

\* wait: the zombie is gone.
Reap(p) ==
    /\ Zombie(p)
    /\ proc' = [proc EXCEPT ![p] = Nobody]
    /\ list' = mark_terminated(list, p)

\* kill(p, 0) fails.
Gone(p) == proc[p] = Nobody

-----------------------------------------------------------------------------
(* run_actions.                                                            *)

Wanted ==
    IF doing # "main" THEN doing ELSE IF phase = "loop" THEN "respawn" ELSE phase

Goto(label, k) == pc' = label /\ i' = k

Selected(k) == list[k].type = Wanted /\ (Wanted = "respawn" => list[k].pid = 0)

skip_action ==
    /\ pc = "run" /\ i <= Len(list) /\ ~Selected(i)
    /\ Goto("run", i + 1)
    /\ UNCHANGED << list, loaded, pending, proc, got, phase, doing, why, held >>

\* run(), and where run_actions goes with the pid: waitfor returns at once if
\* there is none.
AfterRun(pid) ==
    CASE Wanted = "respawn" -> Goto("assign", i) /\ got' = pid
      [] Wanted \in Waited /\ pid > 0 -> Goto("wait", i) /\ got' = pid
      [] OTHER -> Goto("run", i + 1) /\ got' = 0

run(p) ==
    /\ pc = "run" /\ i <= Len(list) /\ Selected(i)
    /\ Gone(p)
    /\ proc' = [proc EXCEPT ![p] = [st |-> "alive", cmd |-> list[i].cmd, as |-> Wanted]]
    /\ AfterRun(p)
    /\ UNCHANGED << list, loaded, pending, phase, doing, why, held >>

\* "can't fork"
run_fails ==
    /\ pc = "run" /\ i <= Len(list) /\ Selected(i)
    /\ "fork" \in Faults \/ \A p \in Pids : ~Gone(p)
    /\ AfterRun(-1)
    /\ UNCHANGED << list, loaded, pending, proc, phase, doing, why, held >>

\* a->pid = run(a): the assignment.
store_pid ==
    /\ pc = "assign"
    /\ list' = [list EXCEPT ![i].pid = got]
    /\ Goto("run", i + 1) /\ got' = 0
    /\ UNCHANGED << loaded, pending, proc, phase, doing, why, held >>

WaitDone == Goto("run", i + 1) /\ got' = 0

\* Mutant of waitfor: any child will do.
waitfor_Any(p) ==
    /\ pc = "wait"
    /\ Reap(p)
    /\ WaitDone
    /\ UNCHANGED << loaded, pending, phase, doing, why, held >>

\* waitfor: wait() returns p.
waitfor(p) ==
    /\ pc = "wait"
    /\ Reap(p)
    /\ IF p = got \/ Gone(got) THEN WaitDone ELSE UNCHANGED << pc, i, got >>
    /\ UNCHANGED << loaded, pending, phase, doing, why, held >>

\* waitfor: wait() says ECHILD.
waitfor_no_child ==
    /\ pc = "wait" /\ \A p \in Pids : Gone(p)
    /\ WaitDone
    /\ UNCHANGED << list, loaded, pending, proc, phase, doing, why, held >>

-----------------------------------------------------------------------------
(* init_main and check_delayed_sigs.                                       *)

\* Mutant of AfterCheck: the main loop does not call waitpid.
AfterCheck_NoReap ==
    /\ phase' = CASE phase = "sysinit" -> "wait" [] phase = "wait" -> "once" [] OTHER -> phase
    /\ Goto("run", 1)

\* Where init_main goes on after a check_delayed_sigs.
AfterCheck ==
    CASE phase = "sysinit" -> phase' = "wait" /\ Goto("run", 1)
      [] phase = "wait"    -> phase' = "once" /\ Goto("run", 1)
      [] phase = "loop"    -> phase' = "loop" /\ Goto("reap", 0)

\* The end of run_actions.
actions_done ==
    /\ pc = "run" /\ i > Len(list)
    /\ CASE doing = "shutdown"   -> Goto("kill", 0) /\ UNCHANGED << phase, doing >>
         [] doing = "ctrlaltdel" -> AfterCheck /\ doing' = "main"
         [] phase = "once"       -> phase' = "loop" /\ Goto("run", 1) /\ UNCHANGED doing
         [] OTHER                -> Goto("check", 0) /\ UNCHANGED << phase, doing >>
    /\ UNCHANGED << list, loaded, pending, proc, got, why, held >>

\* sigtimedwait with a zero timeout finds nothing.
no_signal ==
    /\ pc = "check" /\ pending = {} /\ phase # "loop"
    /\ AfterCheck
    /\ UNCHANGED << list, loaded, pending, proc, got, doing, why, held >>

\* The head of halt_reboot_pwoff and of exec_restart_action: from here on all
\* signals are unblocked and ignored.
Shutdown(reason) ==
    /\ doing' = "shutdown" /\ why' = reason
    /\ pending' = {}
    /\ Goto("run", 1)
    /\ UNCHANGED << list, loaded, phase >>

\* Any pending signal may be fetched.
signal(s) ==
    /\ pc = "check" /\ s \in pending
    /\ CASE s = "HUP" ->
              /\ pending' = pending \ {s}
              /\ list' = [k \in DOMAIN list |-> [list[k] EXCEPT !.type = "none"]]
              /\ loaded' \in Tables
              /\ Goto("parse", 1)
              /\ UNCHANGED << phase, doing, why >>
         [] s = "INT" ->
              /\ pending' = pending \ {s}
              /\ doing' = "ctrlaltdel" /\ Goto("run", 1)
              /\ UNCHANGED << list, loaded, phase, why >>
         [] s = "TERM" -> Shutdown("halt")
         [] s = "QUIT" /\ \E k \in DOMAIN list : list[k].type = "restart" -> Shutdown("restart")
         [] OTHER ->
              /\ pending' = pending \ {s}
              /\ AfterCheck
              /\ UNCHANGED << list, loaded, doing, why >>
    /\ UNCHANGED << proc, got, held >>

\* The waitpid loop: one more child.
reap_child(p) ==
    /\ pc = "reap"
    /\ Reap(p)
    /\ UNCHANGED << loaded, pending, ctl >>

\* Mutant of loop_again: run_actions is called before the loop only.
loop_again_NoRun ==
    /\ pc = "reap" /\ \A p \in Pids : ~Zombie(p)
    /\ Goto("check", 0)
    /\ UNCHANGED << list, loaded, pending, proc, got, phase, doing, why, held >>

\* No more children have exited; sleep1, and run_actions again.
loop_again ==
    /\ pc = "reap" /\ \A p \in Pids : ~Zombie(p)
    /\ Goto("run", 1)
    /\ UNCHANGED << list, loaded, pending, proc, got, phase, doing, why, held >>

-----------------------------------------------------------------------------
(* reload_inittab.                                                         *)

\* Mutant of reload_line: an entry that is there stays where it is.
reload_line_InPlace ==
    /\ pc = "parse" /\ i <= Len(loaded)
    /\ LET k == Match(list, loaded[i])
       IN  list' = IF k = 0 THEN Append(list, new_init_action(loaded[i]))
                            ELSE [list EXCEPT ![k].type = loaded[i].type]
    /\ Goto("parse", i + 1)
    /\ UNCHANGED << loaded, pending, proc, got, phase, doing, why, held >>

\* new_init_action for the next line: a new entry is appended, one that is
\* there is taken off the list first.
reload_line ==
    /\ pc = "parse" /\ i <= Len(loaded)
    /\ LET k == Match(list, loaded[i])
       IN  \/ /\ k = 0
              /\ list' = Append(list, new_init_action(loaded[i]))
              /\ Goto("parse", i + 1)
              /\ UNCHANGED held
           \/ /\ k # 0
              /\ list' = RemoveAt(list, k)
              /\ held' = list[k]
              /\ Goto("append", i)
    /\ UNCHANGED << loaded, pending, proc, got, phase, doing, why >>

\* Mutant of reload_append: the entry is made anew.
reload_append_Anew ==
    /\ pc = "append"
    /\ list' = Append(list, new_init_action(loaded[i]))
    /\ held' = NoEntry
    /\ Goto("parse", i + 1)
    /\ UNCHANGED << loaded, pending, proc, got, phase, doing, why >>

\* The entry is put at the end of the list.
reload_append ==
    /\ pc = "append"
    /\ list' = Append(list, [held EXCEPT !.type = loaded[i].type])
    /\ held' = NoEntry
    /\ Goto("parse", i + 1)
    /\ UNCHANGED << loaded, pending, proc, got, phase, doing, why >>

\* The end of parse_inittab.
reload_parsed ==
    /\ pc = "parse" /\ i > Len(loaded)
    /\ Goto("sweep", 1)
    /\ UNCHANGED << list, loaded, pending, proc, got, phase, doing, why, held >>

\* Mutant of Stale: a running process does not keep its entry.
Stale_Any(a) == a.type \in {"none", "sysinit"}

Stale(a) == a.type \in {"none", "sysinit"} /\ a.pid = 0

\* The loop that removes stale entries: it passes over the ones it keeps, and
\* takes the next one off the list.
reload_sweep(k) ==
    /\ pc = "sweep" /\ i <= k
    /\ Stale(list[k]) /\ \A j \in i .. k - 1 : ~Stale(list[j])
    /\ list' = RemoveAt(list, k)
    /\ Goto("sweep", k)
    /\ UNCHANGED << loaded, pending, proc, got, phase, doing, why, held >>

reload_done ==
    /\ pc = "sweep" /\ \A k \in i .. Len(list) : ~Stale(list[k])
    /\ AfterCheck
    /\ UNCHANGED << list, loaded, pending, proc, got, doing, why, held >>

-----------------------------------------------------------------------------
(* The end, and the SIGTSTP handler.                                       *)

\* run_shutdown_and_kill_processes, after the SHUTDOWN actions.
KillAll == proc' = [p \in Pids |-> IF Alive(p) THEN [proc[p] EXCEPT !.st = "zombie"]
                                               ELSE proc[p]]

\* pause_and_low_level_reboot: after a halt, or if the restart cannot exec.
low_level_reboot ==
    /\ pc = "kill"
    /\ KillAll
    /\ Goto("down", 0)
    /\ UNCHANGED << list, loaded, pending, got, phase, doing, why, held >>

\* exec_restart_action: the new init has children it did not start.
exec_restart ==
    /\ pc = "kill" /\ why = "restart"
    /\ KillAll
    /\ loaded' \in Tables /\ list' = parse_inittab(loaded')
    /\ phase' = "sysinit" /\ doing' = "main" /\ why' = "none"
    /\ Goto("run", 1)
    /\ UNCHANGED << pending, got, held >>

\* The handlers are set, and not yet reset.
Listening == doing # "shutdown" /\ pc # "down"

SIGTSTP ==
    /\ "stop" \in Faults /\ Listening /\ ~stopped
    /\ stopped' = TRUE
    /\ UNCHANGED << list, loaded, pending, proc, ctl >>

stop_handler(p) ==
    /\ stopped
    /\ Reap(p)
    /\ UNCHANGED << loaded, pending, ctl, stopped >>

\* The handler returns.  wait() is restarted (SA_RESTART); a sigtimedwait that
\* was waiting is not.
SIGCONT ==
    /\ stopped /\ stopped' = FALSE
    /\ \/ UNCHANGED << pc, i, phase >>
       \/ pc = "check" /\ AfterCheck
    /\ UNCHANGED << list, loaded, pending, proc, got, doing, why, held >>

-----------------------------------------------------------------------------
(* The rest of the system.                                                 *)

send(s) ==
    /\ Listening /\ s \notin pending
    /\ Cardinality(pending \ {"CHLD"}) < MaxSent
    /\ pending' = pending \cup {s}
    /\ UNCHANGED << list, loaded, proc, ctl, stopped >>

exit(p) ==
    /\ Alive(p) /\ pc # "down"
    /\ proc' = [proc EXCEPT ![p].st = "zombie"]
    /\ pending' = IF Listening THEN pending \cup {"CHLD"} ELSE pending
    /\ UNCHANGED << list, loaded, ctl, stopped >>

\* A process whose parent is gone becomes init's child.
orphan(p) ==
    /\ Gone(p) /\ pc # "down"
    /\ Cardinality({ q \in Pids : proc[q].as = "orphan" }) < MaxOrphans
    /\ proc' = [proc EXCEPT ![p] = [st |-> "alive", cmd |-> "none", as |-> "orphan"]]
    /\ UNCHANGED << list, loaded, pending, ctl, stopped >>

-----------------------------------------------------------------------------
Init ==
    /\ loaded \in Tables /\ list = parse_inittab(loaded)
    /\ pending = {}
    /\ proc = [p \in Pids |-> Nobody]
    /\ pc = "run" /\ i = 1 /\ got = 0
    /\ phase = "sysinit" /\ doing = "main" /\ why = "none"
    /\ held = NoEntry
    /\ stopped = FALSE

\* A step of init outside of the handler.
Main ==
    /\ ~stopped /\ UNCHANGED stopped
    /\ \/ skip_action \/ run_fails \/ store_pid \/ waitfor_no_child
       \/ actions_done \/ no_signal \/ loop_again
       \/ reload_line \/ reload_append \/ reload_parsed \/ reload_done
       \/ low_level_reboot \/ exec_restart
       \/ \E p \in Pids : run(p) \/ waitfor(p) \/ reap_child(p)
       \/ \E s \in pending : signal(s)
       \/ \E k \in DOMAIN list : reload_sweep(k)

Others ==
    \/ SIGTSTP
    \/ \E s \in Signals : send(s)
    \/ \E p \in Pids : exit(p) \/ orphan(p)

Handler == SIGCONT \/ \E p \in Pids : stop_handler(p)

\* The system has been halted.
halted == pc = "down" /\ UNCHANGED vars

Next == Main \/ Handler \/ Others \/ halted

\* init gets to run however often it is stopped, and the kernel passes over no
\* zombie for ever (do_wait takes the oldest child first); orphans do not die in
\* an endless stream, each before the last is reaped; what init waits for ends
\* by itself; whoever stops init lets it go on.
Fairness ==
    /\ SF_vars(Main)
    /\ SF_vars(~stopped /\ UNCHANGED stopped /\ loop_again)
    /\ \A p \in Pids :
           SF_vars(stop_handler(p) \/ (~stopped /\ UNCHANGED stopped /\ (waitfor(p) \/ reap_child(p))))
    /\ WF_vars(SIGCONT)
    /\ \A p \in Pids : WF_vars(exit(p) /\ proc[p].as \in Waited)

Spec == Init /\ [][Next]_vars /\ Fairness

-----------------------------------------------------------------------------
(* Properties.                                                             *)

\* A process that is removed from inittab and added again, or whose entry is
\* moved, is not started twice, however reloads, deaths and SIGTSTP interleave.
NoDuplicate ==
    \A p, q \in Pids :
        /\ Alive(p) /\ proc[p].as = "respawn"
        /\ Alive(q) /\ proc[q].as = "respawn"
        /\ proc[p].cmd = proc[q].cmd
        => p = q

\* A running RESPAWN process is never lost: an entry has its pid, or will have.
Tracked ==
    \A p \in Pids : Alive(p) /\ proc[p].as = "respawn" =>
        \/ \E k \in DOMAIN list : list[k].pid = p
        \/ held.pid = p
        \/ pc = "assign" /\ got = p

\* While a SYSINIT, WAIT, CTRLALTDEL or SHUTDOWN process runs, init starts
\* nothing else and does not kill what is left, whoever reaped its children.
StagesInOrder ==
    [][ \A q \in Pids : Alive(q) /\ proc[q].as \in Waited =>
            /\ \A p \in Pids : Gone(p) => proc'[p].as \notin Types
            /\ pc # "kill" ]_vars

\* After a reload the entries in force are those of the file, in its order.
InForce(a) == a.type \notin {"none", "sysinit"}
Made(j, k) == InForce(list[j]) /\ list[j].cmd = loaded[k].cmd /\ list[j].type = loaded[k].type
ListMatchesFile ==
    pc \notin {"parse", "append"} =>
        /\ \A k \in DOMAIN loaded : InForce(loaded[k]) => \E j \in DOMAIN list : Made(j, k)
        /\ \A j \in DOMAIN list : InForce(list[j]) =>
               \E k \in DOMAIN loaded :
                  /\ Made(j, k)
                  /\ \A h \in 1 .. j - 1, m \in k .. Len(loaded) : ~Made(h, m)

\* The death of a process some entry has as running is noticed, by one of the
\* three loops that wait, unless the system goes down.
Noticed ==
    \A p \in Pids :
        Zombie(p) /\ (\E k \in DOMAIN list : list[k].pid = p) ~> Gone(p) \/ doing = "shutdown"

\* waitfor waits for a process that the SIGTSTP handler has reaped.  wait() is
\* restarted, so it returns only when another child dies; and even then not to
\* run_actions, if a new process has got the pid.
Stranded == pc = "wait" /\ proc[got].as \notin Waited

\* A RESPAWN entry whose pid is 0 is run again, or removed, or the system goes
\* down, unless a stranded waitfor holds init up for ever: the main loop comes
\* round to run_actions whatever signals, deaths and reloads come.  It says
\* nothing of an entry whose pid is -1 or that of a process long reaped, nor of
\* a stranded init: RestartsOnExit does.
Idle(c) == \E k \in DOMAIN list : list[k] = [cmd |-> c, type |-> "respawn", pid |-> 0]
Respawned == { c \in Cmds : \E t \in Tables : \E k \in DOMAIN t :
                                t[k] = [type |-> "respawn", cmd |-> c] }
IdleRunsAgain ==
    []<>~Stranded => \A c \in Respawned : Idle(c) ~> ~Idle(c) \/ doing = "shutdown"

\* What the definition of RESPAWN says, "restart on exit": a RESPAWN entry none of
\* whose processes runs gets one again, or is removed, or the system goes down.
Down(c) ==
    /\ \E k \in DOMAIN list : list[k].cmd = c /\ list[k].type = "respawn"
    /\ \A p \in Pids : ~(Alive(p) /\ proc[p].cmd = c /\ proc[p].as = "respawn")
RestartsOnExit ==
    \A c \in Respawned : Down(c) ~> ~Down(c) \/ doing = "shutdown"
=============================================================================
