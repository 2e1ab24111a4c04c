SPECIFICATION VisibleSpec
CONSTANTS
    Callers = {t1, t2}
    Admins = {a1}
    Chromes = {c1, c2}
    NoChrome = NoChrome
    Remote = Remote
    Configs <- SpawnHeadless
    MayCrash = FALSE
PROPERTIES
    NextBootVisible
