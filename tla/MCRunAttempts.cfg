CONSTANTS
    Lease = 2
    DispatchTimeout = 2
    MaxAttempts = 2
    MaxClaims = 3
SPECIFICATION Spec
INVARIANTS
    OnlyLatestRunning
    PublicationSerialized
    RecoveryReadStable
PROPERTIES
    ClosedAttemptsFrozen
    TerminalIsFinal
    NoLiveEviction
