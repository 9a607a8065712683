SPECIFICATION FairSpec
CONSTANTS
  f1 = f1
  p1 = p1
  Forms <- OneForm
  Panels <- OnePanel
  Biometric = Biometric
  AutoLock = 3
  Background = 2
  Fresh = 1
  MaxDelay = 1
  MaxTime = 6
  MaxMisses = 3
INVARIANTS
  TypeOK
PROPERTIES
  AttemptsWaitOutTheDelay
  IdleVaultLocks
  LateReturnFindsItLocked
  EarlyReturnFindsItOpen
