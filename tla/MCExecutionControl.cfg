SPECIFICATION Spec
CONSTANTS
    h1 = h1
    Handles <- MCHandles
    MaxSteps = 2
    MaxDepth = 1
    MaxOperations = 2
    MaxFrames = 4
INVARIANTS
    ControlTypeOK
    CarrierInnermost
    DepthIsOwned
    TerminalReported
PROPERTIES
    StoppedStaysStopped
