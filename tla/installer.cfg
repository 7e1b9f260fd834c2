SPECIFICATION Spec
CONSTANTS
  File <- FileNames
  Dir <- DirNames
  DirOf <- Home
  Above <- Place
  Content <- Texts
  NoFile = NoFile  Torn = Torn  Symlink = Symlink  Folder = Folder
  Refused = Refused
  Layouts <- ThreeLayouts
  TreeOf <- Trees
  DirsOf <- Directories
  Exposed = {"namespace", "core", "kbuild"}
  MaxFaults = 2
INVARIANTS ChangedHasBackup VerifiedMeansComplete InstalledVerifies NoStaleObject
PROPERTIES RollbackRestores AcceptedTreeUnchanged ImplementsTransaction
