\* Absolute and relative -f templates with -w: where and as whom log directories are made.
CONSTANTS
  Root = Root
  Ducc = Ducc
  Alice = Alice
  Bob = Bob
  Nobody = Nobody
  Users = {Root, Ducc, Alice, Bob}
  NULL = NULL
  Names <- MCNames
  NameLen <- MCNameLen
  Depth = 2
  BUFLEN = 16
  SuffixLen = 2
  OtherUsers = {Alice}
  MaxOther = 1
  InitFs <- MCStrayFs
  LogTemplates <- MCRelTemplates
  MAX_COMPONENTS = 4
  Cwds <- MCStrayCwds
  Targets = {Alice, Root, Nobody}
  Callers = {Ducc, Root}
  Installs = {"setuid_root", "plain"}
  WorkDirs <- MCWorkDirs
  Listeners <- MCListeners
  PortW = 4
  SetuidMayFail = FALSE
  Unset = Unset
  W = 6
  Envs <- MCEnvs
  InitSofts <- MCInitSofts
  Hard <- MCHard
  DuccAccount = {TRUE}
  Named = {Root, Ducc, Alice, Bob}
  Envps <- MCEnvps
  CopyOrders = {"forward"}

SPECIFICATION Spec

INVARIANT LogDirsMadeForLog
