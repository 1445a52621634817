\* mklogfile racing another process, at the buffer boundary and at the
\* bounds of path_components[].
CONSTANTS
  Root = Root
  Ducc = Ducc
  Alice = Alice
  Bob = Bob
  Users = {Root, Ducc, Alice, Bob}
  NULL = NULL
  Names <- MCNames
  NameLen <- MCNameLen
  Depth = 3
  BUFLEN = 8
  SuffixLen = 2
  OtherUsers = {Alice, Bob}
  MaxOther = 2
  InitFs <- MCInitFs
  LogTemplates <- MCAllTemplates
  MAX_COMPONENTS = 3
  Cwds <- MCCwds

SPECIFICATION PathSpec

INVARIANT WalkedDirsAreDirs
INVARIANT BufferBounded
PROPERTY PathTerminates
