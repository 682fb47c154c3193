CONSTANTS
    Threads = {t1}
    WordMod = 3
    Calls <- Cmpxchg
    WpFound = {FALSE}
    Env = {"mmap"}
SYMMETRY Perms
SPECIFICATION Spec
INVARIANT NoOops
