CONSTANTS
    t1 = t1  t2 = t2  t3 = t3  u1 = u1  u2 = u2  s1 = s1  s2 = s2
    Task = {t1, t2, t3}
    UidOf <- MCUidOf
    SidOf <- MCSidOf
    Socket <- MCSocket
    MaxInstances = 2
    MaxCalls = 1
    Root = Root  OtherUid = OtherUid  NoUid = NoUid  NoSid = NoSid  AppSid = AppSid
SPECIFICATION Spec
SYMMETRY MCSymmetry
INVARIANTS  MediationExact
