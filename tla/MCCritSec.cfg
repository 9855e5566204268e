SPECIFICATION Spec
CONSTANTS
    t1 = t1
    t2 = t2
    Threads = {t1, t2}
    SysTick = SysTick
    J_MAX_CRIT_SEC_DEPTH = 3
INVARIANTS
    TypeOK
    SectionsExclude
    MaskedIffProtected
