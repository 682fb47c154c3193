------------------------------- MODULE RwLock -------------------------------
(***************************************************************************)
(* What a struct rw_semaphore promises its users: any number of readers or *)
(* one writer, requests served in the order they were made, and nobody     *)
(* left waiting who could be served.                                       *)
(***************************************************************************)
EXTENDS Integers, Sequences

CONSTANT Tasks

VARIABLES
    holders,    \* the mode each task holds the lock in
    queue       \* the requests not granted yet, oldest first

vars == << holders, queue >>

Mode    == {"read", "write"}
Request == [task : Tasks, mode : Mode]

\* A writer is alone.
Compatible(h) ==
    \A t, u \in Tasks : h[t] = "write" /\ u # t => h[u] = "none"

\* The holders once the first k requests of q are granted on top of h.
Granted(h, q, k) ==
    [t \in Tasks |->
        IF \E i \in 1 .. k : q[i].task = t
        THEN q[CHOOSE i \in 1 .. k : q[i].task = t].mode
        ELSE h[t]]

\* With the holders h, the first request of q has to wait.
Blocked(h, q) == q # << >> => ~Compatible(Granted(h, q, 1))

\* From h and q, grant a prefix of q, as long as possible.
Settle(h, q) ==
    \E k \in 0 .. Len(q) :
        /\ holders' = Granted(h, q, k)
        /\ queue' = SubSeq(q, k + 1, Len(q))
        /\ Compatible(holders')
        /\ Blocked(holders', queue')

Ask(t, mode) ==
    /\ holders[t] = "none"
    /\ \A i \in 1 .. Len(queue) : queue[i].task # t
    /\ Settle(holders, Append(queue, [task |-> t, mode |-> mode]))

Release(t) ==
    /\ holders[t] # "none"
    /\ Settle([holders EXCEPT ![t] = "none"], queue)

Downgrade(t) ==
    /\ holders[t] = "write"
    /\ Settle([holders EXCEPT ![t] = "read"], queue)

Init ==
    /\ holders = [t \in Tasks |-> "none"]
    /\ queue = << >>

Next == \E t \in Tasks :
    \/ \E mode \in Mode : Ask(t, mode)
    \/ Release(t)
    \/ Downgrade(t)

Spec == Init /\ [][Next]_vars
=============================================================================
