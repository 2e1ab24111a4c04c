SPECIFICATION Spec
CONSTANTS
    Callers = {t1}
    Admins = {a1}
    Chromes = {c1, c2}
    NoChrome = NoChrome
    Remote = Remote
    Configs <- SpawnHeadless
    MayCrash = FALSE
INVARIANTS
    RebootableAfterShutdown
