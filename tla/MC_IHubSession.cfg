CONSTANTS
    MaxAttempts = 3
    Lossy = TRUE
SPECIFICATION FairSpec
INVARIANTS TypeOK NoGhostSession ServedAsAnnounced OneDeviceId
PROPERTIES EscalatesLast RecoveryShrinks PromiseSpec StopHonoured RecoveryEnds
