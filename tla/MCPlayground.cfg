SPECIFICATION FairSpec
CONSTANTS
    Sources <- MCSources
    Length <- MCLength
    MaxSourceLength = 2
    FirstSource = "short"
    BridgeResults <- MCBridgeResults
    MaxRuns = 3
    NoRun = NoRun
    NoMarker = NoMarker
    NoLocation = NoLocation
    NoEnd = NoEnd
INVARIANTS
    RunOwnsResources
    MarkerOnFailedText
PROPERTIES
    ImplementsPage
    EveryRunEnds
