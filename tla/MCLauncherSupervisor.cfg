SPECIFICATION FairSpec
CONSTANTS
  BurstLimit = 3
  Window = 8
  Delay = 1
  Cooldown = 3
  Timeout = 2
  MaxQueue = 2
INVARIANTS TypeOK OkIsTrue ServerIsWatched BurstIsBounded
PROPERTIES CooldownIsEarned ServerComesBack
