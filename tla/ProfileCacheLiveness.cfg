SPECIFICATION Spec
CONSTANTS
    Calls = {t1, t2}
    Keys = {k1}
    Serials = {s1, s2}
    NoKey = NoKey
    NoPlugin = NoPlugin
    MaxProfiles = 1
    IdleChoices = {1}
    AttachChoices = {FALSE}
PROPERTIES
    IdleProfilesGo
    EveryCallReturns
