SPECIFICATION Spec
CONSTANTS
    Launchers = {t1, t2}
    Nobody = Nobody
    Setups <- AllSetups
INVARIANTS
    TypeOK
    ManagedBinaryRuns
    TierZeroIsSoft
    FindsPreferred
PROPERTIES
    LaunchesEnd
