----------------------------- MODULE SplitWord -----------------------------
(***************************************************************************)
(* What the emulated cmpxchg and xadd promise to the threads of a process  *)
(* on a word whose page may be absent, shared or write-protected.  It is   *)
(* less than the locked instructions give: a store may be a step of its    *)
(* own, on a word that has changed since it was read.                      *)
(***************************************************************************)
EXTENDS Integers

CONSTANTS
    Threads,
    WordMod,    \* the number of values of a word
    Calls       \* the operations threads perform

Word == 0 .. (WordMod - 1)
NoCall == [op |-> "none", old |-> 0, arg |-> 0]

VARIABLES
    word,
    access,     \* what the process may do with it: none, ro, rw
    one_step,   \* whether a cmpxchg always stores where it has compared
    call, ret,
    step,       \* call; between read and store: add, store; dead after an oops
    found       \* the word an xadd read

vars == << word, access, one_step, call, ret, step, found >>

Init ==
    /\ word \in Word
    /\ access = "rw"
    /\ one_step \in BOOLEAN
    /\ call = [t \in Threads |-> NoCall]
    /\ ret = [t \in Threads |-> 0]
    /\ step = [t \in Threads |-> "call"]
    /\ found = [t \in Threads |-> 0]

Invoke(t, c) ==
    /\ call[t] = NoCall
    /\ call' = [call EXCEPT ![t] = c]
    /\ UNCHANGED << word, ret, step, found >>

Return(t, v) ==
    /\ call' = [call EXCEPT ![t] = NoCall]
    /\ ret' = [ret EXCEPT ![t] = v]
    /\ step' = [step EXCEPT ![t] = "call"]
    /\ found' = [found EXCEPT ![t] = 0]

Readable == access # "none"
Writable == access = "rw"

\* A comparison that fails, or one that succeeds and stores.  Only a CPU that
\* takes one step stores into a word that is not writable.
Cmpxchg(t) ==
    /\ step[t] = "call" /\ call[t].op = "cmpxchg" /\ Readable
    /\ word = call[t].old => Writable \/ one_step
    /\ word' = IF word = call[t].old THEN call[t].arg ELSE word
    /\ Return(t, word)

Compare(t) ==
    /\ step[t] = "call" /\ call[t].op = "cmpxchg" /\ Readable
    /\ word = call[t].old /\ ~one_step
    /\ step' = [step EXCEPT ![t] = "store"]
    /\ UNCHANGED << word, call, ret, found >>

CmpxchgStore(t) ==
    /\ step[t] = "store" /\ Writable
    /\ word' = call[t].arg
    /\ Return(t, call[t].old)

Xadd(t) ==
    /\ step[t] = "call" /\ call[t].op = "xadd" /\ Writable
    /\ word' = (word + call[t].arg) % WordMod
    /\ Return(t, word)

Read(t) ==
    /\ step[t] = "call" /\ call[t].op = "xadd" /\ Readable
    /\ step' = [step EXCEPT ![t] = "add"]
    /\ found' = [found EXCEPT ![t] = word]
    /\ UNCHANGED << word, call, ret >>

Add(t) ==
    /\ step[t] = "add"
    /\ word' = IF Writable THEN (found[t] + call[t].arg) % WordMod ELSE word
    /\ Return(t, found[t])

\* A cmpxchg may oops the kernel; an xadd only where the word may not be read.
Oops(t) ==
    /\ \/ call[t].op = "cmpxchg"
       \/ call[t].op = "xadd" /\ step[t] = "call" /\ ~Readable
    /\ step' = [step EXCEPT ![t] = "dead"]
    /\ UNCHANGED << word, call, ret, found >>

Protect ==
    /\ access' \in {"none", "ro", "rw"} \ {access}
    /\ UNCHANGED << word, one_step, call, ret, step, found >>

Next ==
    \/ /\ \E t \in Threads :
            \/ \E c \in Calls : Invoke(t, c)
            \/ Cmpxchg(t) \/ Compare(t) \/ CmpxchgStore(t)
            \/ Xadd(t) \/ Read(t) \/ Add(t) \/ Oops(t)
       /\ UNCHANGED << access, one_step >>
    \/ Protect

Spec == Init /\ [][Next]_vars
=============================================================================
