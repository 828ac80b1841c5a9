SPECIFICATION Spec
CONSTANTS
  admin = admin
  key = key
  Tokens = {admin}
  Admins = {admin}
  ApiKeys = {key}
  Ips = {i1, i2}
  Window = 2
  ChallengeMax = 1
  MaxTrackedKeys = 2
  MaxClock = 3
  MaxPending = 2
  MaxEvents = 4
  TierMax <- MCTierMax
  Exp <- MCExp
  KeyExpiry <- MCKeyExpiry
  KeyScopes <- MCKeyScopes
  AdminCalls <- MCAdminCalls
  Patches <- MCPatches
SYMMETRY IpSymmetry
PROPERTIES
  NoServiceAfterSignOut
CHECK_DEADLOCK FALSE
