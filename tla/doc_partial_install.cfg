SPECIFICATION Spec
CONSTANTS
  File <- FileNames
  Dir <- DirNames
  DirOf <- Home
  Above <- Place
  Content <- Texts
  NoFile = NoFile  Torn = Torn  Symlink = Symlink  Folder = Folder
  Refused = Refused
  Layouts <- ThreeLayouts
  TreeOf <- Trees
  DirsOf <- Directories
  Exposed = {}
  MaxFaults = 1
INVARIANTS InstalledMeansComplete
