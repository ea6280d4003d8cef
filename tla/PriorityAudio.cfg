SPECIFICATION FairSpec
CONSTANTS
    Voice = Voice
    Proximity = Proximity
    NoCaller = NoCaller
    Callers <- MCCallers
    Repertoire <- MCRepertoire
INVARIANTS OneOwner
PROPERTIES OnlyUpwards NoOvertaking ImplementsOwnership WaitsEnd
