\* Two unlock attempts in one browser, with every mishap, under fairness.
SPECIFICATION FairSpec
CONSTANTS
    MaxAttempts = 2
    Mishaps = {"network", "stop", "cancel", "close"}
INVARIANTS TypeOK UnlockedVaultWillLock ActiveWaitHasTimer TimerDiesWithSocket
PROPERTIES EventuallyLocked
CHECK_DEADLOCK FALSE
