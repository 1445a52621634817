\* Templates at both sides of the buffer limit: overflow and truncation.
CONSTANTS
  Root = Root
  Ducc = Ducc
  Alice = Alice
  Bob = Bob
  Users = {Root, Ducc, Alice, Bob}
  NULL = NULL
  Names <- MCNames
  NameLen <- MCNameLen
  Depth = 3
  BUFLEN = 8
  SuffixLen = 2
  OtherUsers = {Alice}
  MaxOther = 1
  InitFs <- MCInitFs
  LogTemplates <- MCLogTemplates
  MAX_COMPONENTS = 4
  Cwds <- MCCwds

SPECIFICATION PathSpec

INVARIANT PathCapacityEnforced
