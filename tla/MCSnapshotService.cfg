CONSTANTS
  Targets = {t1, t2}
  Currencies = {btc, usd}
  NoTarget = NoTarget
  MaxSnaps = 2
  MaxRestarts = 1
SPECIFICATION SnapshotFairSpec
INVARIANTS OkMeansDurable NoSilentGap LastSnapshotCurrent
PROPERTY ShutdownEnds
CHECK_DEADLOCK FALSE
