CONSTANTS
    tester = tester
    ecu = ecu
    ecu2 = ecu2
    single = single
    short = short
    long = long
    longest = longest
    omf = omf
    tooLongOmf = tooLongOmf
    answer = answer
    event = event
    answer2 = answer2
    Nodes = {tester, ecu}
    Services = {tooLongOmf}
    NoService = NoService
    Size <- MCSize
    Omf = {tooLongOmf}
    Events = {}
    Source <- MCSource
    Partner <- MCPartner
    MaxServiceQueueSize = 2
    MaxCanQueue = 20
    PayloadByte = 20
    MaxLoss = 0
    MaxFail = 0
    MaxLate = 0
    MaxSwitch = 0
SPECIFICATION Spec
INVARIANT OmfNumbering
CHECK_DEADLOCK FALSE
