\* Three tasks over one or two origins: an owner, two waiters, newcomers.
CONSTANTS
  Tasks = {t1, t2, t3}
  Keys = {k1, k2}
SPECIFICATION SFLiveSpec
INVARIANTS MarkHasOneOwner NoLostWakeup
PROPERTIES OnlyOwnerReleases ParkedIsPolledAgain
