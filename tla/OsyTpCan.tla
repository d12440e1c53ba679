------------------------------ MODULE OsyTpCan ------------------------------
(***************************************************************************)
(* The openSYDE transport protocol on CAN, C_OscProtocolDriverOsyTpCan with *)
(* its base class C_OscProtocolDriverOsyTpBase: services of up to 4095      *)
(* bytes are cut into CAN frames (single frames, ISO 15765-2 segmentation   *)
(* with flow control, and openSYDE's own segmentation without flow control) *)
(* and put together again on the other side.                                *)
(*                                                                         *)
(* Every node of Nodes runs one instance of the class: Cycle() in one      *)
(* thread, SendRequest() and ReadResponse() in others.  The code is the     *)
(* client side; a server is external to the repository and is taken to be  *)
(* another instance of the same class.                                     *)
(*                                                                         *)
(* A service is abstract: it has a size in bytes, and its payload is the    *)
(* list of the pieces <<service, offset>> that were copied into the buffer, *)
(* which is enough to tell a service that arrived as it was sent from one   *)
(* put together of parts of several.                                       *)
(***************************************************************************)
EXTENDS Integers, Sequences, FiniteSets

CONSTANTS
    Nodes,               \* instances of the class
    Services,            \* the services that are ever sent, each once
    NoService,           \* not a service: the payload of a flow control
    Size,                \* bytes of a service
    Omf,                 \* services with q_CanTransferWithoutFlowControl
    Events,              \* services an ECU sends as an event-driven openSYDE single frame
    Source,              \* the node that sends a service
    Partner,             \* the server a node is first configured for
    MaxServiceQueueSize, \* mu16_MaxServiceQueueSize
    MaxCanQueue,         \* size of the node's Rx queue in the CAN dispatcher
    PayloadByte,         \* value a payload byte has when it is mistaken for a size
    MaxLoss,             \* bound on frames lost on the way to a node
    MaxFail,             \* bound on failing calls of CAN_Send_Msg
    MaxLate,             \* bound on time-outs that fire while an answer is under way
    MaxSwitch            \* bound on calls of SetNodeIdentifiers

\* hu16_OSY_MAXIMUM_SERVICE_SIZE
MaxServiceSize == 4095

ASSUME ServiceAssumption ==
    /\ NoService \notin Services
    /\ Size \in [Services -> Nat \ {0}]
    /\ Omf \subseteq Services
    /\ Events \subseteq Services
    /\ \A s \in Events : Size[s] <= 8
    /\ Source \in [Services -> Nodes]

ASSUME NodeAssumption == Partner \in [Nodes -> Nodes]

ASSUME BoundAssumption ==
    /\ MaxServiceQueueSize \in Nat
    /\ MaxCanQueue \in Nat
    /\ PayloadByte \in 0 .. 255
    /\ MaxLoss \in Nat
    /\ MaxFail \in Nat
    /\ MaxLate \in Nat
    /\ MaxSwitch \in Nat

VARIABLES
    pc,         \* where Cycle() or SetNodeIdentifiers() of a node is
    tx,         \* mc_TxService
    rx,         \* mc_RxService
    txQueue,    \* mc_TxQueue
    rxQueue,    \* mc_RxQueue
    wire,       \* frames on their way to a node, up to its CAN controller
    canQueue,   \* the node's Rx queue in its CAN dispatcher
    server,     \* mc_ServerId: the node talked to
    filter,     \* Rx filter of the node's queue: the one node whose frames pass
    unsent,     \* services no application has asked to send yet
    requested,  \* history: services SendRequest() has accepted, and event frames sent
    received,   \* history: services m_AddToRxQueue() has accepted
    faults      \* history: how much of each bound is used up, and two mishaps

vars == <<pc, tx, rx, txQueue, rxQueue, wire, canQueue, server, filter, unsent,
          requested, received, faults>>

-----------------------------------------------------------------------------
(* Frames. dlc counts the PCI byte, sn is the low nibble of the PCI byte,    *)
(* size the length a first frame announces, <<sv, at>> the payload: the bytes *)
(* of service sv from offset at on.                                         *)

PciTypes == {"SF", "FF", "CF", "FC", "OSF", "OMF"}

\* Services short enough for m_AddToTxQueue.
Sendable == {s \in Services : Size[s] <= MaxServiceSize}

Offsets == 0 .. MaxServiceSize

\* Only a flow control carries no payload, and no first frame announces a
\* service that fits a single frame.
Frames ==
    {f \in [pci : PciTypes, src : Nodes, dlc : 1 .. 8, sn : 0 .. 15,
            size : Offsets, sv : Sendable \cup {NoService}, at : Offsets] :
        /\ f.pci # "FC" => f.sv # NoService
        /\ f.pci = "FF" => f.size > 7}

Least(a, b) == IF a < b THEN a ELSE b

\* Number of consecutive frames needed for the bytes of a service from index on.
FramesLeft(size, index) == (size - index + 6) \div 7

SingleFrame(n, s) ==
    [pci |-> "SF", src |-> n, dlc |-> Size[s] + 1, sn |-> Size[s] % 16,
     size |-> Size[s], sv |-> s, at |-> 0]

FirstFrame(n, s) ==
    [pci |-> "FF", src |-> n, dlc |-> 8, sn |-> 0, size |-> Size[s], sv |-> s, at |-> 0]

\* Variant: the byte for the separation time is forgotten.
FlowControlTooShort(n) ==
    [pci |-> "FC", src |-> n, dlc |-> 2, sn |-> 0, size |-> 0, sv |-> NoService, at |-> 0]

FlowControl(n) ==
    [pci |-> "FC", src |-> n, dlc |-> 3, sn |-> 0, size |-> 0, sv |-> NoService, at |-> 0]

\* The count consecutive frames of s from index on, the first with number seq.
ConsecutiveFrames(n, s, index, seq, count) ==
    [k \in 1 .. count |->
        LET at == index + 7 * (k - 1)
        IN  [pci |-> "CF", src |-> n, dlc |-> 1 + Least(7, Size[s] - at),
             sn |-> (seq + k - 1) % 16, size |-> 0, sv |-> s, at |-> at]]

\* The first count frames of s in the openSYDE segmentation: the announced size
\* is one byte, and the sequence numbers count 0, 1, .., 15, 0, ..  Where a
\* receiver looks for the size, consecutive frames have some payload byte.
OmfFrames(n, s, count) ==
    [k \in 1 .. count |->
        LET at == IF k = 1 THEN 0 ELSE 6 + 7 * (k - 2)
        IN  [pci |-> "OMF", src |-> n,
             dlc |-> IF k = 1 THEN 8 ELSE 1 + Least(7, Size[s] - at),
             sn |-> (k - 1) % 16,
             size |-> IF k = 1 THEN Size[s] % 256 ELSE PayloadByte,
             sv |-> s, at |-> at]]

EventFrame(n, s) ==
    [pci |-> "OSF", src |-> n, dlc |-> Size[s], sn |-> 1, size |-> Size[s], sv |-> s, at |-> 0]

-----------------------------------------------------------------------------
(* Services in the Rx queue.                                                *)

Pieces == Sendable \X Offsets

Messages == [size : Offsets, data : Seq(Pieces)]

\* What arrives when service s arrives as it was sent.
Whole(s) ==
    [size |-> Size[s],
     data |-> IF s \in Events \/ Size[s] <= 7
              THEN << <<s, 0>> >>
              ELSE [i \in 1 .. 1 + FramesLeft(Size[s], 6) |->
                       <<s, IF i = 1 THEN 0 ELSE 6 + 7 * (i - 2)>>]]

Sender(m) == Source[m.data[1][1]]

-----------------------------------------------------------------------------
\* Between two cycles, in one of its three parts, or within SetNodeIdentifiers.
Places == {"ready", "tx", "dispatch", "rx", "identified", "cleared"}

TxStatus == {"IDLE", "WAITING_FOR_FLOW_CONTROL", "MORE_CONSECUTIVE_FRAMES_TO_SEND"}

RxStatus == {"IDLE", "WAITING_FOR_CONSECUTIVE_FRAME"}

\* C_ServiceState as mc_TxService and as mc_RxService use it.
Transmissions ==
    [status : TxStatus, sv : Sendable \cup {NoService}, index : Nat, seq : 0 .. 15,
     expired : BOOLEAN]

Receptions ==
    [status : RxStatus, size : Offsets, index : Nat, seq : 0 .. 15, data : Seq(Pieces)]

\* What went wrong so far: frames lost, calls failed, early time-outs, changes of
\* the server; whether a first frame did not get into a queue (first), and whether
\* a frame of a former server got into one after it was cleared (stray).
Faults ==
    [loss : 0 .. MaxLoss, fail : 0 .. MaxFail, late : 0 .. MaxLate, switch : 0 .. MaxSwitch,
     first : BOOLEAN, stray : BOOLEAN]

NoFaults ==
    [loss |-> 0, fail |-> 0, late |-> 0, switch |-> 0, first |-> FALSE, stray |-> FALSE]

Init ==
    /\ pc = [n \in Nodes |-> "ready"]
    /\ tx = [n \in Nodes |->
                [status |-> "IDLE", sv |-> NoService, index |-> 0, seq |-> 0, expired |-> FALSE]]
    /\ rx = [n \in Nodes |->
                [status |-> "IDLE", size |-> 0, index |-> 0, seq |-> 0, data |-> <<>>]]
    /\ txQueue = [n \in Nodes |-> <<>>]
    /\ rxQueue = [n \in Nodes |-> <<>>]
    /\ wire = [n \in Nodes |-> <<>>]
    /\ canQueue = [n \in Nodes |-> <<>>]
    /\ server = Partner
    /\ filter = Partner
    /\ unsent = Services
    /\ requested = [n \in Nodes |-> <<>>]
    /\ received = [n \in Nodes |-> <<>>]
    /\ faults = NoFaults

\* CAN_Send_Msg of node n took all of frames; failed says that the next call
\* did not take its frame.
CanSend(n, frames, failed) ==
    /\ wire' = [wire EXCEPT ![server[n]] = @ \o frames]
    /\ IF failed
       THEN /\ faults.fail < MaxFail
            /\ faults' = [faults EXCEPT !.fail = @ + 1]
       ELSE UNCHANGED faults

\* The service queues are full.  Variant: full one service too late.
FullTooLate(queue) == Len(queue) > MaxServiceQueueSize
Full(queue) == Len(queue) >= MaxServiceQueueSize

\* m_AddToRxQueue: a service that finds the queue full is dumped.
AddToRxQueue(n, m) ==
    IF ~Full(rxQueue[n])
    THEN /\ rxQueue' = [rxQueue EXCEPT ![n] = Append(@, m)]
         /\ received' = [received EXCEPT ![n] = Append(@, m)]
    ELSE UNCHANGED <<rxQueue, received>>

-----------------------------------------------------------------------------
(* The application.                                                         *)

\* SendRequest: put the service into the Tx queue if it is not too long and
\* there is room for it.
SendRequest(n, s) ==
    /\ s \in unsent \ Events
    /\ Source[s] = n
    /\ unsent' = unsent \ {s}
    /\ IF Size[s] <= MaxServiceSize /\ ~Full(txQueue[n])
       THEN /\ txQueue' = [txQueue EXCEPT ![n] = Append(@, s)]
            /\ requested' = [requested EXCEPT ![n] = Append(@, s)]
       ELSE UNCHANGED <<txQueue, requested>>
    /\ UNCHANGED <<pc, tx, rx, rxQueue, wire, canQueue, server, filter, received, faults>>

\* ReadResponse: take the oldest service from the Rx queue.
ReadResponse(n) ==
    /\ rxQueue[n] # <<>>
    /\ rxQueue' = [rxQueue EXCEPT ![n] = Tail(@)]
    /\ UNCHANGED <<pc, tx, rx, txQueue, wire, canQueue, server, filter, unsent, requested,
                   received, faults>>

\* SetNodeIdentifiers: talk to node m from now on.  Ongoing transfers and the
\* service queues stay as they are.  Called by the thread that calls Cycle, between
\* two cycles; three steps, between which other clients of the dispatcher dispatch.
SetNodeIdentifiers(n, m) ==
    /\ pc[n] = "ready"
    /\ m \notin {n, server[n]}
    /\ faults.switch < MaxSwitch
    /\ faults' = [faults EXCEPT !.switch = @ + 1]
    /\ server' = [server EXCEPT ![n] = m]
    /\ pc' = [pc EXCEPT ![n] = "identified"]
    /\ UNCHANGED <<tx, rx, txQueue, rxQueue, wire, canQueue, filter, unsent, requested,
                   received>>

ClearQueue(n) ==
    /\ pc[n] = "identified"
    /\ canQueue' = [canQueue EXCEPT ![n] = <<>>]
    /\ pc' = [pc EXCEPT ![n] = "cleared"]
    /\ UNCHANGED <<tx, rx, txQueue, rxQueue, wire, server, filter, unsent, requested,
                   received, faults>>

SetRxFilter(n) ==
    /\ pc[n] = "cleared"
    /\ filter' = [filter EXCEPT ![n] = server[n]]
    /\ pc' = [pc EXCEPT ![n] = "ready"]
    /\ UNCHANGED <<tx, rx, txQueue, rxQueue, wire, canQueue, server, unsent, requested,
                   received, faults>>

\* An ECU sends an event-driven openSYDE single frame (external).
SendEvent(n, s) ==
    /\ s \in unsent \cap Events
    /\ Source[s] = n
    /\ unsent' = unsent \ {s}
    /\ requested' = [requested EXCEPT ![n] = Append(@, s)]
    /\ wire' = [wire EXCEPT ![server[n]] = Append(@, EventFrame(n, s))]
    /\ UNCHANGED <<pc, tx, rx, txQueue, rxQueue, canQueue, server, filter, received, faults>>

-----------------------------------------------------------------------------
(* Cycle, first part: the Tx state machine.                                 *)

CycleStart(n) ==
    /\ pc[n] = "ready"
    /\ pc' = [pc EXCEPT ![n] = "tx"]
    /\ UNCHANGED <<tx, rx, txQueue, rxQueue, wire, canQueue, server, filter, unsent, requested,
                   received, faults>>

\* m_GetFromTxQueue in state eIDLE: s is the next service to send.
TakeFromTxQueue(n, s) ==
    /\ pc[n] = "tx"
    /\ tx[n].status = "IDLE"
    /\ txQueue[n] # <<>>
    /\ s = Head(txQueue[n])
    /\ txQueue' = [txQueue EXCEPT ![n] = Tail(@)]

NothingToSend(n) ==
    /\ pc[n] = "tx"
    /\ tx[n].status = "IDLE"
    /\ txQueue[n] = <<>>
    /\ pc' = [pc EXCEPT ![n] = "dispatch"]
    /\ UNCHANGED <<tx, rx, txQueue, rxQueue, wire, canQueue, server, filter, unsent, requested,
                   received, faults>>

\* A service of up to 7 bytes; if it cannot be sent it is lost and the loop ends.
SendSingleFrame(n) ==
    \E s \in Services, failed \in BOOLEAN :
        /\ TakeFromTxQueue(n, s)
        /\ Size[s] <= 7
        /\ tx' = [tx EXCEPT ![n].sv = s]
        /\ CanSend(n, IF failed THEN <<>> ELSE <<SingleFrame(n, s)>>, failed)
        /\ pc' = IF failed THEN [pc EXCEPT ![n] = "dispatch"] ELSE pc
        /\ UNCHANGED <<rx, rxQueue, canQueue, server, filter, unsent, requested, received>>

\* The openSYDE segmentation: all frames in a row; if one cannot be sent the
\* rest of the service is lost and the loop ends.
SendWithoutFlowControl(n) ==
    \E s \in Services :
        /\ TakeFromTxQueue(n, s)
        /\ Size[s] > 7
        /\ s \in Omf
        /\ LET total == 1 + FramesLeft(Size[s], 6)
           IN  \E sent \in 0 .. total :
                 /\ CanSend(n, OmfFrames(n, s, sent), sent < total)
                 /\ tx' = [tx EXCEPT ![n].sv = s,
                                     ![n].index = IF sent = 0 THEN 6
                                                  ELSE Least(Size[s], 6 + 7 * (sent - 1)),
                                     ![n].seq = Least(sent, total - 1) % 16]
                 /\ pc' = IF sent < total THEN [pc EXCEPT ![n] = "dispatch"] ELSE pc
        /\ UNCHANGED <<rx, rxQueue, canQueue, server, filter, unsent, requested, received>>

\* State of the transmission of s after its first frame.  Variant: the flow
\* control is not waited for.
DoNotAwaitFlowControl(s, failed) ==
    [status |-> IF failed THEN "IDLE" ELSE "MORE_CONSECUTIVE_FRAMES_TO_SEND",
     sv |-> s, index |-> 6, seq |-> 1, expired |-> FALSE]

AwaitFlowControl(s, failed) ==
    [status |-> IF failed THEN "IDLE" ELSE "WAITING_FOR_FLOW_CONTROL",
     sv |-> s, index |-> 6, seq |-> 1, expired |-> FALSE]

\* First frame of an ISO segmented transfer; if it cannot be sent the service
\* is lost.  Either way the loop ends.
SendFirstFrame(n) ==
    \E s \in Services, failed \in BOOLEAN :
        /\ TakeFromTxQueue(n, s)
        /\ Size[s] > 7
        /\ s \notin Omf
        /\ CanSend(n, IF failed THEN <<>> ELSE <<FirstFrame(n, s)>>, failed)
        /\ tx' = [tx EXCEPT ![n] = AwaitFlowControl(s, failed)]
        /\ pc' = [pc EXCEPT ![n] = "dispatch"]
        /\ UNCHANGED <<rx, rxQueue, canQueue, server, filter, unsent, requested, received>>

\* A transmission is given up when its time is over.  Variant: it never is.
NeverGiveUp(t) == t

GiveUp(t) == IF t.expired THEN [t EXCEPT !.status = "IDLE"] ELSE t

\* The N_Bs time-out is looked at before the frames that came in meanwhile.
CheckFlowControlTimeout(n) ==
    /\ pc[n] = "tx"
    /\ tx[n].status = "WAITING_FOR_FLOW_CONTROL"
    /\ tx' = [tx EXCEPT ![n] = GiveUp(tx[n])]
    /\ pc' = [pc EXCEPT ![n] = "dispatch"]
    /\ UNCHANGED <<rx, txQueue, rxQueue, wire, canQueue, server, filter, unsent, requested,
                   received, faults>>

\* The transmission t after so many more frames.  Variant: the sequence number runs
\* on after 15.
AdvanceWithoutWrap(t, sent) ==
    [t EXCEPT !.index = t.index + 7 * sent, !.seq = Least(t.seq + sent, 15)]

Advance(t, sent) ==
    [t EXCEPT !.index = t.index + 7 * sent, !.seq = (t.seq + sent) % 16]

\* m_SendNextConsecutiveFrames for the transmission t: send as many frames as
\* CAN_Send_Msg takes; what remains is given up if giveUp holds, or retried later.
SendNextConsecutiveFrames(n, t, giveUp) ==
    LET left == FramesLeft(Size[t.sv], t.index)
    IN  \E sent \in 0 .. left :
          /\ CanSend(n, ConsecutiveFrames(n, t.sv, t.index, t.seq, sent), sent < left)
          /\ tx' = [tx EXCEPT ![n] =
                       [Advance(t, sent) EXCEPT
                            !.status = IF sent = left \/ giveUp THEN "IDLE"
                                       ELSE "MORE_CONSECUTIVE_FRAMES_TO_SEND"]]

\* Retry in the next cycle; give up when the total time for the frames is over.
SendMoreConsecutiveFrames(n) ==
    /\ pc[n] = "tx"
    /\ tx[n].status = "MORE_CONSECUTIVE_FRAMES_TO_SEND"
    /\ SendNextConsecutiveFrames(n, tx[n], tx[n].expired)
    /\ pc' = [pc EXCEPT ![n] = "dispatch"]
    /\ UNCHANGED <<rx, txQueue, rxQueue, canQueue, server, filter, unsent, requested, received>>

-----------------------------------------------------------------------------
(* Cycle, second part: incoming frames.                                     *)

\* The queue of n takes frame f.
PassesRxFilter(n, f) == f.src = filter[n]
Queues(n, f) == PassesRxFilter(n, f) /\ Len(canQueue[n]) < MaxCanQueue

\* One round of DispatchIncoming, by this Cycle or by another client of the
\* dispatcher: the oldest frame passes the Rx filter into the queue, if it fits.
DispatchFrame(n) ==
    /\ wire[n] # <<>>
    /\ wire' = [wire EXCEPT ![n] = Tail(@)]
    /\ LET f == Head(wire[n])
       IN  /\ canQueue' = IF Queues(n, f) THEN [canQueue EXCEPT ![n] = Append(@, f)]
                          ELSE canQueue
           /\ faults' = [faults EXCEPT
                            !.first = @ \/ (f.pci = "FF" /\ ~Queues(n, f)),
                            !.stray = @ \/ (Queues(n, f) /\ pc[n] = "cleared")]
    /\ UNCHANGED <<pc, tx, rx, txQueue, rxQueue, server, filter, unsent, requested, received>>

DispatchDone(n) ==
    /\ pc[n] = "dispatch"
    /\ wire[n] = <<>>
    /\ pc' = [pc EXCEPT ![n] = "rx"]
    /\ UNCHANGED <<tx, rx, txQueue, rxQueue, wire, canQueue, server, filter, unsent, requested,
                   received, faults>>

CycleEnd(n) ==
    /\ pc[n] = "rx"
    /\ canQueue[n] = <<>>
    /\ pc' = [pc EXCEPT ![n] = "ready"]
    /\ UNCHANGED <<tx, rx, txQueue, rxQueue, wire, canQueue, server, filter, unsent, requested,
                   received, faults>>

\* ReadFromQueue: f is the next frame to handle, of one of the types pcis.
\* Variant: it is read and not taken from the queue.
PeekFrame(n, f, pcis) ==
    /\ pc[n] = "rx"
    /\ canQueue[n] # <<>>
    /\ f = Head(canQueue[n])
    /\ f.pci \in pcis
    /\ UNCHANGED <<pc, txQueue, canQueue, server, filter, unsent, requested>>

ReadFrame(n, f, pcis) ==
    /\ pc[n] = "rx"
    /\ canQueue[n] # <<>>
    /\ f = Head(canQueue[n])
    /\ f.pci \in pcis
    /\ canQueue' = [canQueue EXCEPT ![n] = Tail(@)]
    /\ UNCHANGED <<pc, txQueue, server, filter, unsent, requested>>

HandleIncomingSingleFrame(n) ==
    LET f == Head(canQueue[n])
    IN  /\ ReadFrame(n, f, {"SF", "OSF"})
        /\ AddToRxQueue(n, [size |-> f.size, data |-> << <<f.sv, f.at>> >>])
        /\ UNCHANGED <<tx, rx, wire, faults>>

\* Reception r after first frame f.  Variant: a reception in progress goes on.
KeepReception(r, f, status) ==
    IF r.status # "IDLE" THEN r
    ELSE [status |-> status, size |-> f.size, index |-> 6, seq |-> 1,
          data |-> << <<f.sv, f.at>> >>]

StartReception(r, f, status) ==
    [status |-> status, size |-> f.size, index |-> 6, seq |-> 1,
     data |-> << <<f.sv, f.at>> >>]

\* A transfer in progress is overwritten; without the flow control sent the
\* new one is not started.
HandleIncomingFirstFrame(n) ==
    LET f == Head(canQueue[n])
    IN  /\ ReadFrame(n, f, {"FF"})
        /\ \E failed \in BOOLEAN :
             /\ CanSend(n, IF failed THEN <<>> ELSE <<FlowControl(n)>>, failed)
             /\ rx' = [rx EXCEPT ![n] =
                          StartReception(rx[n], f, IF failed THEN "IDLE"
                                                   ELSE "WAITING_FOR_CONSECUTIVE_FRAME")]
        /\ UNCHANGED <<tx, rxQueue, received>>

\* In the waiting state a flow control starts the consecutive frames and their
\* time-out; in any other, and with a wrong length, it is ignored.
HandleIncomingFlowControl(n) ==
    LET f == Head(canQueue[n])
    IN  /\ ReadFrame(n, f, {"FC"})
        /\ IF tx[n].status = "WAITING_FOR_FLOW_CONTROL" /\ f.dlc = 3
           THEN SendNextConsecutiveFrames(n, [tx[n] EXCEPT !.expired = FALSE], FALSE)
           ELSE UNCHANGED <<tx, wire, faults>>
        /\ UNCHANGED <<rx, rxQueue, received>>

\* Frame f has the sequence number the reception r waits for.
ExpectedNumber(r, f) == f.sn = r.seq

\* Common to both segmentations: frame f continues the buffer of n with a
\* sequence number that counts 15 -> next; done and bad are the sequence numbers
\* a complete and an aborted transfer leave behind.  rx.data is the buffer up to
\* the write index, so the piece that completes a service is not part of it.
\* size - index is unsigned: if an announced size is less than the index the
\* transfer never completes (what is copied behind the buffer is left out).
ContinueTransfer(n, f, status, next, done, bad) ==
    LET r == rx[n]
        more == Append(r.data, <<f.sv, f.at>>)
        completes == r.index <= r.size /\ f.dlc - 1 >= r.size - r.index
    IN  \/ /\ ExpectedNumber(r, f) /\ completes
           /\ AddToRxQueue(n, [size |-> r.size, data |-> more])
           /\ rx' = [rx EXCEPT ![n].status = "IDLE", ![n].seq = done]
        \/ /\ ExpectedNumber(r, f) /\ ~completes /\ f.dlc = 8
           /\ rx' = [rx EXCEPT ![n] =
                        [status |-> status, size |-> r.size, index |-> r.index + 7,
                         seq |-> IF r.seq = 15 THEN next ELSE r.seq + 1, data |-> more]]
           /\ UNCHANGED <<rxQueue, received>>
        \/ /\ ~ExpectedNumber(r, f) \/ (~completes /\ f.dlc < 8)
           /\ rx' = [rx EXCEPT ![n].status = "IDLE", ![n].seq = bad]
           /\ UNCHANGED <<rxQueue, received>>

\* Variant: the sequence number counts as in openSYDE multi frames, 15 -> 1.
HandleConsecutiveFrameAsOmf(n) ==
    LET f == Head(canQueue[n])
    IN  /\ ReadFrame(n, f, {"CF"})
        /\ IF rx[n].status = "WAITING_FOR_CONSECUTIVE_FRAME"
           THEN ContinueTransfer(n, f, rx[n].status, 1, rx[n].seq, rx[n].seq)
           ELSE UNCHANGED <<rx, rxQueue, received>>
        /\ UNCHANGED <<tx, wire, faults>>

HandleIncomingConsecutiveFrame(n) ==
    LET f == Head(canQueue[n])
    IN  /\ ReadFrame(n, f, {"CF"})
        /\ IF rx[n].status = "WAITING_FOR_CONSECUTIVE_FRAME"
           THEN ContinueTransfer(n, f, rx[n].status, 0, rx[n].seq, rx[n].seq)
           ELSE UNCHANGED <<rx, rxQueue, received>>
        /\ UNCHANGED <<tx, wire, faults>>

\* The status says nothing about a transfer without flow control: it is "IDLE"
\* from the first frame on, and a frame that continues one is told by its
\* sequence number only.
HandleIncomingOsySpecificMultiFrame(n) ==
    LET f == Head(canQueue[n])
    IN  /\ ReadFrame(n, f, {"OMF"})
        /\ IF f.sn # 0
           THEN ContinueTransfer(n, f, "IDLE", 1, 0, 0)
           ELSE /\ rx' = IF f.dlc = 8
                         THEN [rx EXCEPT ![n] = StartReception(rx[n], f, "IDLE")]
                         ELSE [rx EXCEPT ![n].status = "IDLE"]
                /\ UNCHANGED <<rxQueue, received>>
        /\ UNCHANGED <<tx, wire, faults>>

-----------------------------------------------------------------------------
(* The environment.                                                         *)

\* A frame is lost before the dispatcher reads it.
LoseFrame(n) ==
    /\ wire[n] # <<>>
    /\ faults.loss < MaxLoss
    /\ faults' = [faults EXCEPT !.loss = @ + 1,
                                !.first = @ \/ Head(wire[n]).pci = "FF"]
    /\ wire' = [wire EXCEPT ![n] = Tail(@)]
    /\ UNCHANGED <<pc, tx, rx, txQueue, rxQueue, canQueue, server, filter, unsent, requested,
                   received>>

\* No frame is under way to any node.
Quiet == \A n \in Nodes : wire[n] = <<>> /\ canQueue[n] = <<>>

\* The time of the ongoing transfer of n is over: N_Bs while it waits for flow
\* control, u32_SendCfTimeout while it sends.  It is too early for an answer
\* that is still under way.
Expire(n) ==
    /\ tx[n].status # "IDLE"
    /\ ~tx[n].expired
    /\ tx' = [tx EXCEPT ![n].expired = TRUE]
    /\ IF Quiet
       THEN UNCHANGED faults
       ELSE /\ faults.late < MaxLate
            /\ faults' = [faults EXCEPT !.late = @ + 1]
    /\ UNCHANGED <<pc, rx, txQueue, rxQueue, wire, canQueue, server, filter, unsent, requested,
                   received>>

Cycle(n) ==
    \/ CycleStart(n)
    \/ NothingToSend(n)
    \/ SendSingleFrame(n)
    \/ SendWithoutFlowControl(n)
    \/ SendFirstFrame(n)
    \/ CheckFlowControlTimeout(n)
    \/ SendMoreConsecutiveFrames(n)
    \/ DispatchFrame(n)
    \/ DispatchDone(n)
    \/ HandleIncomingSingleFrame(n)
    \/ HandleIncomingFirstFrame(n)
    \/ HandleIncomingFlowControl(n)
    \/ HandleIncomingConsecutiveFrame(n)
    \/ HandleIncomingOsySpecificMultiFrame(n)
    \/ CycleEnd(n)

Next ==
    \E n \in Nodes :
        \/ \E s \in Services : SendRequest(n, s) \/ SendEvent(n, s)
        \/ ReadResponse(n)
        \/ \E m \in Nodes : SetNodeIdentifiers(n, m)
        \/ ClearQueue(n)
        \/ SetRxFilter(n)
        \/ Cycle(n)
        \/ LoseFrame(n)
        \/ Expire(n)

Spec == Init /\ [][Next]_vars

(***************************************************************************)
(* Fairness.  A thread keeps calling Cycle() - the one polling for a        *)
(* response, and the application's cyclic thread - and each call comes to   *)
(* its end; the clock goes on, so that a time-out not overtaken by an        *)
(* answer elapses; the application reads what it is given.                  *)
(***************************************************************************)
FairSpec ==
    /\ Spec
    /\ \A n \in Nodes :
          /\ WF_vars(Cycle(n))
          /\ WF_vars(ClearQueue(n) \/ SetRxFilter(n))
          /\ WF_vars(Expire(n))
          /\ WF_vars(ReadResponse(n))

-----------------------------------------------------------------------------
(* Properties.                                                              *)

\* Every variable stays in its range: indices and sequence numbers in the ranges
\* of their C++ types and their use, queues within their bounds.
TypeOK ==
    /\ pc \in [Nodes -> Places]
    /\ tx \in [Nodes -> Transmissions]
    /\ rx \in [Nodes -> Receptions]
    /\ txQueue \in [Nodes -> Seq(Sendable)]
    /\ rxQueue \in [Nodes -> Seq(Messages)]
    /\ \A n \in Nodes : Len(txQueue[n]) <= MaxServiceQueueSize
    /\ \A n \in Nodes : Len(rxQueue[n]) <= MaxServiceQueueSize
    /\ wire \in [Nodes -> Seq(Frames)]
    /\ canQueue \in [Nodes -> Seq(Frames)]
    /\ \A n \in Nodes : Len(canQueue[n]) <= MaxCanQueue
    /\ server \in [Nodes -> Nodes]
    /\ filter \in [Nodes -> Nodes]
    /\ unsent \in SUBSET Services
    /\ requested \in [Nodes -> Seq(Sendable)]
    /\ received \in [Nodes -> Seq(Messages)]
    /\ faults \in Faults

TxAligned(t) ==
    t.status # "IDLE" =>
        /\ t.sv \in Sendable \ Omf
        /\ t.index < Size[t.sv]
        /\ t.index % 7 = 6
        /\ t.seq = (1 + t.index \div 7) % 16
        /\ t.status = "WAITING_FOR_FLOW_CONTROL" => t.index = 6

\* The Tx state machine and the service it sends agree: index and sequence number
\* move together over partial sends and retries, whatever CAN_Send_Msg takes, and
\* an unfinished transfer always has bytes left (m_SendNextConsecutiveFrames
\* would otherwise read behind the service).
TxPosition == \A n \in Nodes : TxAligned(tx[n])

RxAligned(r) ==
    r.status = "WAITING_FOR_CONSECUTIVE_FRAME" =>
        /\ r.index < r.size
        /\ r.index % 7 = 6
        /\ r.seq = (1 + r.index \div 7) % 16
        /\ Len(r.data) = 1 + r.index \div 7

\* The Rx state machine and its buffer agree while a segmented transfer is
\* received: what is in the buffer, the write index and the expected sequence
\* number belong together, and there is room for the next frame (the handlers
\* copy without a check of their own).
RxPosition == \A n \in Nodes : RxAligned(rx[n])

\* No time-out has overtaken its answer, and if a server was changed, then without the
\* rest of a burst to be sent to the new one or a frame of the former one left behind.
Timely ==
    /\ faults.late = 0
    /\ faults.switch = 0 \/ (faults.fail = 0 /\ ~faults.stray)

\* Nobody has changed its server, and every first frame has got through.
Announced == faults.switch = 0 /\ ~faults.first

\* Where services sent with flow control stay apart, whatever frames are lost.
StaysApart == Timely \/ Announced

\* A service the application reads is one the other side sent, with all its
\* parts and no part of another service, whatever else is lost, cut short by
\* CAN_Send_Msg, given up, or left at the wrong node.
WholeServices ==
    StaysApart =>
        \A n \in Nodes : \A i \in DOMAIN received[n] :
            \E s \in Services : received[n][i] = Whole(s)

\* Consecutive frames find a receiver that has begun with their service: its first
\* frame is ahead of them, or was the last that was read, even where the flow control
\* that released them was a late one for a service that was given up.
BehindOwnFirstFrame ==
    StaysApart =>
        \A n \in Nodes :
            LET coming == canQueue[n] \o wire[n]
            IN  \A i \in DOMAIN coming :
                    coming[i].pci = "CF" =>
                        \/ rx[n].data # <<>> /\ rx[n].data[1][1] = coming[i].sv
                        \/ \E j \in 1 .. i - 1 :
                              coming[j].pci = "FF" /\ coming[j].sv = coming[i].sv

\* The numbering of openSYDE multi frames as the class states it: 0 for the first
\* frame, 15 is followed by 1.
OmfNumbering ==
    \A n \in Nodes : \A i \in DOMAIN wire[n] :
        LET f == wire[n][i]
        IN  f.pci = "OMF" =>
                f.sn = IF f.at = 0 THEN 0 ELSE 1 + (((f.at - 6) \div 7) % 15)

\* After a change of the server the driver is no longer interested in what the
\* former one has sent: bytes of two servers are never put into one service.
OneSender ==
    \A n \in Nodes : \A i \in DOMAIN received[n] :
        LET data == received[n][i].data
        IN  \A j \in DOMAIN data : Source[data[j][1]] = Sender(received[n][i])

ServiceOf(m) ==
    IF \E s \in Services : m = Whole(s)
    THEN CHOOSE s \in Services : m = Whole(s)
    ELSE NoService

Channel ==
    INSTANCE ServiceChannel WITH
        Kind <- [s \in Services |-> s \in Events],
        sent <- requested,
        got <- [n \in Nodes |-> [i \in DOMAIN received[n] |-> ServiceOf(received[n][i])]]

\* The driver implements the channel: nothing mixed, doubled or overtaken.
ImplementsChannel == Channel!Spec

\* No segmented transmission stays open: flow control, a full Tx buffer or a dead
\* peer only delay the state machine until one of its two time-outs.
TransmissionEnds ==
    \A n \in Nodes : tx[n].status # "IDLE" ~> tx[n].status = "IDLE"

\* A service SendRequest() accepted is read at the other side, unless a frame is
\* lost, a call fails or a time-out comes too early.
RequestsArrive ==
    \A s \in Services :
        s \in Channel!Elements(requested[Source[s]]) ~>
            \/ \E m \in Nodes : Whole(s) \in Channel!Elements(received[m])
            \/ faults # NoFaults
=============================================================================
