\* A caller without a passwd entry, and -f templates with no or too many components.
CONSTANTS
  Root = Root
  Ducc = Ducc
  Alice = Alice
  Bob = Bob
  Nobody = Nobody
  Users = {Root, Ducc, Alice, Bob}
  NULL = NULL
  Names <- MCNames
  NameLen <- MCNameLen
  Depth = 2
  BUFLEN = 16
  SuffixLen = 2
  OtherUsers = {Alice}
  MaxOther = 1
  InitFs <- MCInitFs
  LogTemplates <- MCCrashTemplates
  MAX_COMPONENTS = 2
  Cwds <- MCCwds
  Targets = {Alice, Root, Nobody}
  Callers = {Ducc, Bob}
  Installs = {"setuid_root", "plain"}
  WorkDirs <- MCWorkDirs
  Listeners <- MCListeners
  PortW = 4
  SetuidMayFail = FALSE
  Unset = Unset
  W = 6
  Envs <- MCEnvs
  InitSofts <- MCInitSofts
  Hard <- MCHard
  DuccAccount = {TRUE}
  Named = {Root, Ducc, Alice}
  Envps <- MCEnvps
  CopyOrders = {"forward"}

SPECIFICATION Spec

INVARIANT NeverCrashes
