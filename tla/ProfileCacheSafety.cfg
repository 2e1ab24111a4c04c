SPECIFICATION Spec
CONSTANTS
    Calls = {t1, t2}
    Keys = {k1, k2}
    Serials = {s1, s2, s3}
    NoKey = NoKey
    NoPlugin = NoPlugin
    MaxProfiles = 1
    IdleChoices = {0, 1}
    AttachChoices = {FALSE, TRUE}
SYMMETRY Symmetry
INVARIANTS
    TypeOK
    OvershootBounded
    OneChromeWithoutEviction
    EvictionSparesCommands
PROPERTIES
    EvictionJustified
    ImplementsPluginPool
