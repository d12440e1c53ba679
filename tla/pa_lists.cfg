CONSTANTS
    Nodes = {1, 2}
    Lists = {1, 2}
    Elements = {1, 2}
    Values = {0, 1}
    ListOf <- MCListOf
    NodeOf <- MCNodeOfEach
    CrcActive = {1, 2}
    NoValue = NoValue
    NoNode = NoNode
    OtherReads = {1}
    MaxClicks = 2
SPECIFICATION FairSpec
INVARIANTS TypeOK UndisturbedListsIntact CrcStatusTrue
PROPERTIES ImplementsSeals DialogProceeds ReadEnds MissedStarted
CHECK_DEADLOCK FALSE
