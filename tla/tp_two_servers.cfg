CONSTANTS
    tester = tester
    ecu = ecu
    ecu2 = ecu2
    single = single
    short = short
    long = long
    longest = longest
    omf = omf
    tooLongOmf = tooLongOmf
    answer = answer
    event = event
    answer2 = answer2
    Nodes = {tester, ecu, ecu2}
    Services = {answer, answer2}
    NoService = NoService
    Size <- MCSize
    Omf = {}
    Events = {}
    Source <- MCSource
    Partner <- MCPartner
    MaxServiceQueueSize = 2
    MaxCanQueue = 8
    PayloadByte = 20
    MaxLoss = 0
    MaxFail = 0
    MaxLate = 0
    MaxSwitch = 2
SPECIFICATION Spec
INVARIANT OneSender
CHECK_DEADLOCK FALSE
CONSTRAINT NoStray
