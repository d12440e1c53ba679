CONSTANTS
    p = p
    q = q
    e1 = e1
    e2 = e2
    read1 = read1
    register1 = register1
    register2 = register2
    stop = stop
    Pollers = {p}
    Calls = {register1, stop}
    Op <- MCOp
    Element <- MCElement
    Caller <- MCCaller
    Async = Async
    CyclicThread = TRUE
    Nobody = Nobody
    NoCall = NoCall
    NoElement = NoElement
    NoAnswer = NoAnswer
    Elements = {e1, e2}
    MaxServiceQueueSize = 2
    MaxEvents = 1
    EventKinds = {"error"}
    MaxPending = 0
    MaxSilent = 0
    MaxFail = 0
    MaxLate = 0
SPECIFICATION Spec
INVARIANT ErrorEventsReported
CHECK_DEADLOCK FALSE
