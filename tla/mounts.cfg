SPECIFICATION Spec
CONSTANTS
  g1 = g1  g2 = g2  i1 = i1
  Thread = {t1, t2}
  Target = {g1, g2}
  Inherited <- OneInherited
  Mnt = {m1, m2, m3}
  Size = {1, 2}
  MaxMounts = 2
  TmpfsLimit = 3
  NoThread = NoThread  NoMnt = NoMnt
  Regimes <- TwoRegimes
SYMMETRY Symmetry
INVARIANTS AccountsExact MountsWithinLimit InheritedNeverUnmounted
           EachMountOneRecord PendingHasCall TmpfsWithinLimit
