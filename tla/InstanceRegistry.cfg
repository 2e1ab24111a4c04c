SPECIFICATION Spec
CONSTANTS
    Calls = {t1}
    Admins = {a1}
    l1 = l1
    l2 = l2
    Labels = {l1, l2}
    Serials = {s1, s2}
    RemoteSerials = {s2}
    NoPlugin = NoPlugin
    Payloads <- ShortPayloads
INVARIANTS
    TypeOK
    RegistryIsConfigured
    KeptInstancesServe
PROPERTIES
    ReloadsEnd
    ReplacedChromesEnd
    ImplementsPluginPool
