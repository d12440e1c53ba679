CONSTANTS
    tester = tester
    ecu = ecu
    ecu2 = ecu2
    single = single
    short = short
    long = long
    longest = longest
    omf = omf
    tooLongOmf = tooLongOmf
    answer = answer
    event = event
    answer2 = answer2
    Nodes = {tester, ecu, ecu2}
    Services = {short, long}
    NoService = NoService
    Size <- MCSize
    Omf = {}
    Events = {}
    Source <- MCSource
    Partner <- MCPartner
    MaxServiceQueueSize = 2
    MaxCanQueue = 2
    PayloadByte = 20
    MaxLoss = 2
    MaxFail = 1
    MaxLate = 1
    MaxSwitch = 2
SPECIFICATION Spec
INVARIANTS WholeServices BehindOwnFirstFrame
CHECK_DEADLOCK FALSE
CONSTRAINT StaysApart
