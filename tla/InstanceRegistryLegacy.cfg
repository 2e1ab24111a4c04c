SPECIFICATION Spec
CONSTANTS
    Calls = {t1}
    Admins = {}
    l1 = l1
    l2 = l2
    Labels = {l1, l2}
    Serials = {s1, s2, s3}
    RemoteSerials = {s3}
    NoPlugin = NoPlugin
    Payloads <- SwapPayloads
PROPERTIES
    LegacyOnlyWithoutInstances
