SPECIFICATION Spec
CONSTANTS
  yama = yama  integrity = integrity
  Sandbox = Sandbox  Empty = Empty  Selinux = Selinux  Ksu = Ksu
  Capability = Capability
  Name = {Sandbox, Empty, Selinux, Ksu, yama, integrity}
  KconfigDefault <- Default
  MaxLen = 4
  Tails <- RuntimeTails
CHECK_DEADLOCK FALSE
INVARIANTS EnabledValidates 
PROPERTIES EnableIdempotent
