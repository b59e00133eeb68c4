\* The Caladan runtime and its IOKernel, one component at a time.
SPECIFICATION Spec
CONSTANTS
    K = {k1, k2}
    T = {t1, t2, t3}
    W = {t1, t2}
    Nobody = Nobody
    maxks = 2
    Obj = {t1, t2}
    NoObj = Nobody
    Width = 4
    P = {1, 2}
    NoProc = 0
    Cores <- MCCores
    Allowed <- MCAllowed
    Sibling <- MCSibling
    Socket <- MCSocket
    Preferred <- MCPreferred
    Guaranteed <- MCGuaranteed
    Max <- MCMax
    Priority <- MCPriority
    Policies = {"simple", "numa"}
SYMMETRY Sym
INVARIANTS  NoReaderOfFreed BooksBalance  
 
CHECK_DEADLOCK FALSE
