SPECIFICATION BumpSpec
CONSTANTS
    Jobs = {j1, j2}
    None = None
    MaxBase = 1
    MaxPin = 2
PROPERTIES
    OkMeansInSync
    SyncReturns
