CONSTANTS
    tester = tester
    ecu = ecu
    ecu2 = ecu2
    single = single
    short = short
    long = long
    longest = longest
    omf = omf
    tooLongOmf = tooLongOmf
    answer = answer
    event = event
    answer2 = answer2
    Nodes = {tester, ecu}
    Services = {longest, event}
    NoService = NoService
    Size <- MCSize
    Omf = {}
    Events = {event}
    Source <- MCSource
    Partner <- MCPartner
    MaxServiceQueueSize = 1
    MaxCanQueue = 20
    PayloadByte = 20
    MaxLoss = 0
    MaxFail = 2
    MaxLate = 0
    MaxSwitch = 0
SPECIFICATION Spec
INVARIANTS TypeOK TxPosition RxPosition
PROPERTY ImplementsChannel
CHECK_DEADLOCK FALSE
