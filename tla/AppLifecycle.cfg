CONSTANT
    MaxStarts = 2
SPECIFICATION AppSpec
INVARIANTS
    SessionLifetime
    StateTruthful
    DeviceLifetime
PROPERTIES
    StreamLossDisconnects
    StartAndStopEnd
