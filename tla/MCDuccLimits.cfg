\* set_limits and renice over varied environments, as root or a user.
CONSTANTS
  Root = Root
  Ducc = Ducc
  Alice = Alice
  Users = {Root, Ducc, Alice}
  NULL = NULL
  Unset = Unset
  W = 6
  Envs <- MCEnvs
  InitSofts <- MCInitSofts
  Hard <- MCHard

SPECIFICATION LimSpec

INVARIANT LimitsFollowTable
INVARIANT NiceUnderRequestedLimits
