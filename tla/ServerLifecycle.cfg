SPECIFICATION Spec
INVARIANTS
    
    CrashNeedsRace
PROPERTY
    SignalEnds
