SPECIFICATION Spec
CONSTANTS
  MaxInstances = 2
  t1 = t1  t2 = t2  t3 = t3
  u1 = u1  u2 = u2
  sd1 = sd1  sd2 = sd2
  Uid = {u1}
  Sid = {sd1}
  NsId = {n1, n2, n3}
  NoUid = NoUid  NoSid = NoSid  NoNs = NoNs  AppNs = AppNs
  Task = {t1, t2}
  UidOf <- OneUid
  SidOf <- OneSid
  Work = {w1}
  MaxRetries = 0
  Overlap = FALSE
  RestoreFails = FALSE
INVARIANTS RevokedUidHasNoTask
