\* The in-place rename with the copy orders of a current C library.
CONSTANTS
  Envps <- MCEnvps
  CopyOrders = {"forward", "memmove"}

SPECIFICATION EnvSpec

INVARIANT EnvTranslatedInPlace
