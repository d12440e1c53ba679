CONSTANTS
    tester = tester
    ecu = ecu
    ecu2 = ecu2
    single = single
    short = short
    long = long
    longest = longest
    omf = omf
    tooLongOmf = tooLongOmf
    answer = answer
    event = event
    answer2 = answer2
    Nodes = {tester, ecu}
    Services = {single, short, omf}
    NoService = NoService
    Size <- MCSize
    Omf = {omf}
    Events = {}
    Source <- MCSource
    Partner <- MCPartner
    MaxServiceQueueSize = 3
    MaxCanQueue = 8
    PayloadByte = 20
    MaxLoss = 0
    MaxFail = 2
    MaxLate = 1
    MaxSwitch = 0
SPECIFICATION FairSpec
PROPERTIES ImplementsChannel TransmissionEnds RequestsArrive
CHECK_DEADLOCK FALSE
