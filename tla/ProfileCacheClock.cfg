SPECIFICATION Spec
CONSTANTS
    Calls = {t1}
    Keys = {k1}
    Serials = {s1, s2}
    NoKey = NoKey
    NoPlugin = NoPlugin
    MaxProfiles = 1
    IdleChoices = {2}
    AttachChoices = {FALSE}
PROPERTIES
    FailedCallsPreserveClock
