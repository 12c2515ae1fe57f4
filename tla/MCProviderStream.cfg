SPECIFICATION Spec
CONSTANTS
    Fragments = 2
    Requests <- MCRequests
    Shapes <- MCShapes
    MaxHeartbeats = 1
INVARIANTS RoutedIsAccepted StreamIsWhole UsageReported FinishAgrees ItemsClosed EndMeansWhole
PROPERTIES StreamReleased
CHECK_DEADLOCK FALSE
