--------------------------- MODULE MCBusyboxInit ---------------------------
(* gray386linux's inittab, and one without its shell.                      *)
EXTENDS BusyboxInit

Line(type, cmd) == [type |-> type, cmd |-> cmd]

Gray386 == << Line("sysinit", "rc"), Line("respawn", "sh"), Line("restart", "init"),
              Line("ctrlaltdel", "reboot"), Line("shutdown", "umount") >>

Edited == << Line("wait", "fsck"), Line("shutdown", "umount"), Line("once", "syslogd"),
             Line("ctrlaltdel", "reboot") >>

Inittabs == { Gray386, Edited }
Shipped  == { Gray386 }
=============================================================================
