CONSTANTS
    Threads = {t1, t2, t3}
    WordMod = 2
    Calls <- Both
    WpFound = {TRUE, FALSE}
    Env = {"reclaim", "fork", "mmap", "mprotect"}
SYMMETRY Perms
SPECIFICATION Spec
INVARIANT TypeOK
 
PROPERTY ActsInTwoSteps
PROPERTY OnlyCmpxchgEscapes
