CONSTANTS
    Nodes = {1}
    Lists = {1, 2}
    Elements = {1, 2}
    Values = {0, 1}
    ListOf <- MCListOf
    NodeOf <- MCNodeOfOne
    CrcActive = {1, 2}
    NoValue = NoValue
    NoNode = NoNode
    OtherReads = {1}
    MaxClicks = 2
SPECIFICATION Spec
INVARIANT FinishedListsIntact
CHECK_DEADLOCK FALSE
