SPECIFICATION HFairSpec
CONSTANTS
    Callers = {t1, t2}
    Admins = {a1, a2}
    Chromes = {c1, c2}
    NoChrome = NoChrome
    Remote = Remote
    Configs <- AllConfigs
    MayCrash = TRUE
INVARIANTS
    DeadSessionExplained
    TypeOK
    NoLeakedChrome
    SessionMatchesChrome
    GaugeNeedsSession
PROPERTIES
    CommandKeepsSession
    ShutdownKills
    NoSessionMeansShutdown
    VisibleUnlessMet
    EveryCallReturns
    ImplementsLazyBrowser
