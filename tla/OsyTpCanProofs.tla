--------------------------- MODULE OsyTpCanProofs ---------------------------
(***************************************************************************)
(* Invariants of OsyTpCan, proved for every set of nodes and services and   *)
(* every bound on the faults.                                               *)
(***************************************************************************)
EXTENDS OsyTpCan, SequenceFacts, TLAPS

USE DEF ServiceAssumption, NodeAssumption, BoundAssumption

\* All the proofs need of the maximum size of a service.
LEMMA MaxServiceSizeFact == MaxServiceSize \in Nat /\ MaxServiceSize > 255
  BY DEF MaxServiceSize

LEMMA SendableSize ==
    ASSUME NEW s \in Sendable
    PROVE  /\ s \in Services /\ s # NoService
           /\ Size[s] \in Nat /\ Size[s] > 0 /\ Size[s] <= MaxServiceSize
  BY ServiceAssumption, MaxServiceSizeFact DEF Sendable

-----------------------------------------------------------------------------
(* Frames and messages have their types.                                    *)

LEMMA FlowControlType ==
    ASSUME NEW n \in Nodes
    PROVE  FlowControl(n) \in Frames
  BY MaxServiceSizeFact DEF FlowControl, Frames, Offsets, PciTypes

LEMMA FrameTypes ==
    ASSUME NEW n \in Nodes, NEW s \in Sendable
    PROVE  /\ Size[s] <= 7 => SingleFrame(n, s) \in Frames
           /\ Size[s] > 7 => FirstFrame(n, s) \in Frames
           /\ s \in Events => EventFrame(n, s) \in Frames
  <1> USE SendableSize, MaxServiceSizeFact DEF Offsets, PciTypes
  <1>1. Size[s] \in Offsets /\ 0 \in Offsets
    OBVIOUS
  <1>2. Size[s] <= 7 => SingleFrame(n, s) \in Frames
    <2> SUFFICES ASSUME Size[s] <= 7 PROVE SingleFrame(n, s) \in Frames
      OBVIOUS
    <2>1. Size[s] + 1 \in 1 .. 8 /\ Size[s] % 16 \in 0 .. 15
      OBVIOUS
    <2> QED
      BY <1>1, <2>1 DEF SingleFrame, Frames
  <1>3. Size[s] > 7 => FirstFrame(n, s) \in Frames
    BY <1>1 DEF FirstFrame, Frames
  <1>4. s \in Events => EventFrame(n, s) \in Frames
    BY <1>1, ServiceAssumption DEF EventFrame, Frames
  <1> QED
    BY <1>2, <1>3, <1>4

\* The consecutive frames that are left all lie within the service.
LEMMA ConsecutiveFramesType ==
    ASSUME NEW n \in Nodes, NEW s \in Sendable, NEW index \in Nat, NEW seq \in 0 .. 15,
           NEW count \in 0 .. FramesLeft(Size[s], index)
    PROVE  ConsecutiveFrames(n, s, index, seq, count) \in Seq(Frames)
  <1> USE SendableSize, MaxServiceSizeFact
  <1>1. count \in Nat
    BY DEF FramesLeft
  <1>2. ASSUME NEW k \in 1 .. count
        PROVE  ConsecutiveFrames(n, s, index, seq, count)[k] \in Frames
    <2> DEFINE at == index + 7 * (k - 1)
    <2>1. at \in Offsets /\ at < Size[s]
      BY <1>1, <1>2 DEF FramesLeft, Offsets
    <2>2. 1 + Least(7, Size[s] - at) \in 1 .. 8
      BY <2>1 DEF Least, Offsets
    <2>3. (seq + k - 1) % 16 \in 0 .. 15
      BY <1>1, <1>2
    <2>4. ConsecutiveFrames(n, s, index, seq, count)[k] =
            [pci |-> "CF", src |-> n, dlc |-> 1 + Least(7, Size[s] - at),
             sn |-> (seq + k - 1) % 16, size |-> 0, sv |-> s, at |-> at]
      BY <1>2 DEF ConsecutiveFrames
    <2> HIDE DEF at
    <2> QED
      BY <2>1, <2>2, <2>3, <2>4 DEF Frames, PciTypes, Offsets
  <1>3. ConsecutiveFrames(n, s, index, seq, count) \in [1 .. count -> Frames]
    BY <1>2 DEF ConsecutiveFrames
  <1> QED
    BY <1>1, <1>3

LEMMA OmfFramesType ==
    ASSUME NEW n \in Nodes, NEW s \in Sendable, Size[s] > 7,
           NEW count \in 0 .. 1 + FramesLeft(Size[s], 6)
    PROVE  OmfFrames(n, s, count) \in Seq(Frames)
  <1> USE SendableSize, MaxServiceSizeFact
  <1>1. count \in Nat
    BY DEF FramesLeft
  <1>2. ASSUME NEW k \in 1 .. count PROVE OmfFrames(n, s, count)[k] \in Frames
    <2> DEFINE at == IF k = 1 THEN 0 ELSE 6 + 7 * (k - 2)
               dlc == IF k = 1 THEN 8 ELSE 1 + Least(7, Size[s] - at)
               size == IF k = 1 THEN Size[s] % 256 ELSE PayloadByte
    <2>1. at \in Offsets /\ at < Size[s]
      BY <1>1, <1>2 DEF FramesLeft, Offsets
    <2>2. dlc \in 1 .. 8
      BY <2>1 DEF Least, Offsets
    <2>3. (k - 1) % 16 \in 0 .. 15 /\ size \in Offsets
      BY <1>1, <1>2, BoundAssumption DEF Offsets
    <2>4. OmfFrames(n, s, count)[k] =
            [pci |-> "OMF", src |-> n, dlc |-> dlc, sn |-> (k - 1) % 16,
             size |-> size, sv |-> s, at |-> at]
      BY <1>2 DEF OmfFrames
    <2> HIDE DEF at, dlc, size
    <2> QED
      BY <2>1, <2>2, <2>3, <2>4 DEF Frames, PciTypes
  <1>3. OmfFrames(n, s, count) \in [1 .. count -> Frames]
    BY <1>2 DEF OmfFrames
  <1> QED
    BY <1>1, <1>3

-----------------------------------------------------------------------------
(* What the operators shared by several actions do to the types.            *)

LEMMA CanSendType ==
    ASSUME TypeOK, NEW n \in Nodes, NEW frames \in Seq(Frames), NEW failed \in BOOLEAN,
           CanSend(n, frames, failed)
    PROVE  wire' \in [Nodes -> Seq(Frames)] /\ faults' \in Faults
  <1>1. wire' \in [Nodes -> Seq(Frames)]
    <2>1. server[n] \in Nodes /\ wire[server[n]] \in Seq(Frames)
      BY DEF TypeOK
    <2>2. wire[server[n]] \o frames \in Seq(Frames)
      BY <2>1
    <2> QED
      BY <2>1, <2>2 DEF CanSend, TypeOK
  <1>2. CASE failed
    <2>1. faults \in Faults /\ faults.fail < MaxFail /\ faults' = [faults EXCEPT !.fail = @ + 1]
      BY <1>2 DEF CanSend, TypeOK, Faults
    <2>2. faults.fail + 1 \in 0 .. MaxFail
      BY <2>1, BoundAssumption DEF Faults
    <2>3. faults' \in Faults
      BY <2>1, <2>2 DEF Faults
    <2> QED
      BY <1>1, <2>3
  <1>3. CASE ~failed
    BY <1>1, <1>3 DEF CanSend, TypeOK, Faults
  <1> QED
    BY <1>2, <1>3

LEMMA AddToRxQueueType ==
    ASSUME TypeOK, NEW n \in Nodes, NEW m \in Messages, AddToRxQueue(n, m)
    PROVE  /\ rxQueue' \in [Nodes -> Seq(Messages)]
           /\ received' \in [Nodes -> Seq(Messages)]
           /\ \A k \in Nodes : Len(rxQueue'[k]) <= MaxServiceQueueSize
  <1>1. CASE Full(rxQueue[n])
    BY <1>1 DEF AddToRxQueue, TypeOK
  <1>2. CASE ~Full(rxQueue[n])
    <2>1. Append(rxQueue[n], m) \in Seq(Messages) /\ Append(received[n], m) \in Seq(Messages)
      BY DEF TypeOK
    <2>2. Len(Append(rxQueue[n], m)) = Len(rxQueue[n]) + 1 /\ Len(rxQueue[n]) \in Nat
      BY DEF TypeOK
    <2>3. Len(Append(rxQueue[n], m)) <= MaxServiceQueueSize
      BY <1>2, <2>2, BoundAssumption DEF Full
    <2>4. /\ rxQueue' = [rxQueue EXCEPT ![n] = Append(rxQueue[n], m)]
          /\ received' = [received EXCEPT ![n] = Append(received[n], m)]
      BY <1>2 DEF AddToRxQueue
    <2>5. rxQueue' \in [Nodes -> Seq(Messages)] /\ received' \in [Nodes -> Seq(Messages)]
      BY <2>1, <2>4 DEF TypeOK
    <2>6. ASSUME NEW k \in Nodes PROVE Len(rxQueue'[k]) <= MaxServiceQueueSize
      BY <2>3, <2>4 DEF TypeOK
    <2> QED
      BY <2>5, <2>6
  <1> QED
    BY <1>1, <1>2

-----------------------------------------------------------------------------
(* The inductive invariant: the state machines are aligned.  TxPosition also *)
(* supplies what the types alone do not: that an unfinished transmission has *)
(* a service.                                                               *)

IInv == TypeOK /\ TxPosition /\ RxPosition

LEMMA InitIInv == Init => IInv
  <1> SUFFICES ASSUME Init PROVE IInv
    OBVIOUS
  <1> USE MaxServiceSizeFact, BoundAssumption, NodeAssumption
  <1>1. [status |-> "IDLE", sv |-> NoService, index |-> 0, seq |-> 0, expired |-> FALSE]
            \in Transmissions
    BY DEF Transmissions, TxStatus
  <1>2. [status |-> "IDLE", size |-> 0, index |-> 0, seq |-> 0, data |-> <<>>] \in Receptions
    BY DEF Receptions, RxStatus, Offsets
  <1>3. TypeOK
    BY <1>1, <1>2 DEF Init, TypeOK, Faults, NoFaults, Places
  <1>4. TxPosition /\ RxPosition
    BY DEF Init, TxPosition, TxAligned, RxPosition, RxAligned
  <1> QED
    BY <1>3, <1>4 DEF IInv

\* A node gets a new state of its transmission, or of its reception.
LEMMA TxUpdate ==
    ASSUME IInv, NEW n \in Nodes, NEW t \in Transmissions, TxAligned(t),
           tx' = [tx EXCEPT ![n] = t]
    PROVE  tx' \in [Nodes -> Transmissions] /\ TxPosition'
  <1>1. tx \in [Nodes -> Transmissions] /\ \A k \in Nodes : TxAligned(tx[k])
    BY DEF IInv, TypeOK, TxPosition
  <1>2. \A k \in Nodes : tx'[k] = IF k = n THEN t ELSE tx[k]
    BY <1>1
  <1>3. \A k \in Nodes : TxAligned(tx'[k])
    BY <1>1, <1>2
  <1> QED
    BY <1>1, <1>3 DEF TxPosition

LEMMA RxUpdate ==
    ASSUME IInv, NEW n \in Nodes, NEW r \in Receptions, RxAligned(r),
           rx' = [rx EXCEPT ![n] = r]
    PROVE  rx' \in [Nodes -> Receptions] /\ RxPosition'
  <1>1. rx \in [Nodes -> Receptions] /\ \A k \in Nodes : RxAligned(rx[k])
    BY DEF IInv, TypeOK, RxPosition
  <1>2. \A k \in Nodes : rx'[k] = IF k = n THEN r ELSE rx[k]
    BY <1>1
  <1>3. \A k \in Nodes : RxAligned(rx'[k])
    BY <1>1, <1>2
  <1> QED
    BY <1>1, <1>3 DEF RxPosition

LEMMA ApplicationStep ==
    ASSUME IInv, NEW n \in Nodes,
           \/ \E s \in Services : SendRequest(n, s) \/ SendEvent(n, s)
           \/ ReadResponse(n)
           \/ \E m \in Nodes : SetNodeIdentifiers(n, m)
           \/ ClearQueue(n)
           \/ SetRxFilter(n)
    PROVE  IInv'
  <1> USE MaxServiceSizeFact, BoundAssumption
  <1>1. ASSUME NEW s \in Services, SendRequest(n, s) PROVE IInv'
    <2>1. TypeOK'
      <3>1. CASE Size[s] <= MaxServiceSize /\ ~Full(txQueue[n])
        <4>1. s \in Sendable
          BY <3>1 DEF Sendable
        <4>2. /\ txQueue' = [txQueue EXCEPT ![n] = Append(txQueue[n], s)]
              /\ requested' = [requested EXCEPT ![n] = Append(requested[n], s)]
          BY <1>1, <3>1 DEF SendRequest
        <4>3. txQueue' \in [Nodes -> Seq(Sendable)] /\ requested' \in [Nodes -> Seq(Sendable)]
          BY <4>1, <4>2 DEF IInv, TypeOK
        <4>4. \A k \in Nodes : Len(txQueue'[k]) <= MaxServiceQueueSize
          <5>1. Len(Append(txQueue[n], s)) <= MaxServiceQueueSize
            BY <3>1, <4>1 DEF IInv, TypeOK, Full
          <5> QED
            BY <4>2, <5>1 DEF IInv, TypeOK
        <4> QED
          BY <1>1, <4>3, <4>4 DEF SendRequest, IInv, TypeOK
      <3>2. CASE ~(Size[s] <= MaxServiceSize /\ ~Full(txQueue[n]))
        BY <1>1, <3>2 DEF SendRequest, IInv, TypeOK
      <3> QED
        BY <3>1, <3>2
    <2>2. TxPosition' /\ RxPosition'
      BY <1>1 DEF SendRequest, IInv, TxPosition, RxPosition
    <2> QED
      BY <2>1, <2>2 DEF IInv
  <1>2. ASSUME NEW s \in Services, SendEvent(n, s) PROVE IInv'
    <2>1. s \in Sendable /\ EventFrame(n, s) \in Frames
      BY <1>2, FrameTypes, ServiceAssumption DEF SendEvent, Sendable
    <2>2. wire' \in [Nodes -> Seq(Frames)]
      BY <1>2, <2>1 DEF SendEvent, IInv, TypeOK
    <2>3. requested' \in [Nodes -> Seq(Sendable)]
      BY <1>2, <2>1 DEF SendEvent, IInv, TypeOK
    <2>4. TypeOK'
      BY <1>2, <2>2, <2>3 DEF SendEvent, IInv, TypeOK
    <2>5. TxPosition' /\ RxPosition'
      BY <1>2 DEF SendEvent, IInv, TxPosition, RxPosition
    <2> QED
      BY <2>4, <2>5 DEF IInv
  <1>3. ASSUME ReadResponse(n) PROVE IInv'
    <2>1. rxQueue[n] \in Seq(Messages) /\ rxQueue[n] # <<>>
      BY <1>3 DEF ReadResponse, IInv, TypeOK
    <2>2. Tail(rxQueue[n]) \in Seq(Messages) /\ Len(Tail(rxQueue[n])) <= Len(rxQueue[n])
      BY <2>1
    <2>3. TypeOK'
      BY <1>3, <2>2 DEF ReadResponse, IInv, TypeOK
    <2>4. TxPosition' /\ RxPosition'
      BY <1>3 DEF ReadResponse, IInv, TxPosition, RxPosition
    <2> QED
      BY <2>3, <2>4 DEF IInv
  <1>4. ASSUME NEW m \in Nodes, SetNodeIdentifiers(n, m) PROVE IInv'
    <2>1. faults' \in Faults
      <3>1. faults \in Faults /\ faults.switch < MaxSwitch
            /\ faults' = [faults EXCEPT !.switch = @ + 1]
        BY <1>4 DEF SetNodeIdentifiers, IInv, TypeOK
      <3>2. faults.switch + 1 \in 0 .. MaxSwitch
        BY <3>1 DEF Faults
      <3> QED
        BY <3>1, <3>2 DEF Faults
    <2>2. TypeOK'
      BY <1>4, <2>1 DEF SetNodeIdentifiers, IInv, TypeOK, Places
    <2>3. TxPosition' /\ RxPosition'
      BY <1>4 DEF SetNodeIdentifiers, IInv, TxPosition, RxPosition
    <2> QED
      BY <2>2, <2>3 DEF IInv
  <1>5. ASSUME ClearQueue(n) PROVE IInv'
    <2>1. canQueue' \in [Nodes -> Seq(Frames)]
      <3>1. <<>> \in Seq(Frames)
        OBVIOUS
      <3>2. canQueue' = [canQueue EXCEPT ![n] = <<>>] /\ canQueue \in [Nodes -> Seq(Frames)]
        BY <1>5 DEF ClearQueue, IInv, TypeOK
      <3> QED
        BY <3>1, <3>2
    <2>2. \A k \in Nodes : Len(canQueue'[k]) <= MaxCanQueue
      BY <1>5 DEF ClearQueue, IInv, TypeOK
    <2>3. TypeOK'
      BY <1>5, <2>1, <2>2 DEF ClearQueue, IInv, TypeOK, Places
    <2>4. TxPosition' /\ RxPosition'
      BY <1>5 DEF ClearQueue, IInv, TxPosition, RxPosition
    <2> QED
      BY <2>3, <2>4 DEF IInv
  <1>6. ASSUME SetRxFilter(n) PROVE IInv'
    <2>1. TypeOK'
      BY <1>6 DEF SetRxFilter, IInv, TypeOK, Places
    <2> QED
      BY <1>6, <2>1 DEF SetRxFilter, IInv, TxPosition, RxPosition
  <1> QED
    BY <1>1, <1>2, <1>3, <1>4, <1>5, <1>6

-----------------------------------------------------------------------------
(* Cycle, sending.                                                          *)

LEMMA TakenIsSendable ==
    ASSUME TypeOK, NEW n \in Nodes, NEW s \in Services, TakeFromTxQueue(n, s)
    PROVE  /\ s \in Sendable
           /\ txQueue' \in [Nodes -> Seq(Sendable)]
           /\ \A k \in Nodes : Len(txQueue'[k]) <= MaxServiceQueueSize
  <1>1. /\ txQueue[n] \in Seq(Sendable) /\ txQueue[n] # <<>> /\ s = Head(txQueue[n])
        /\ txQueue' = [txQueue EXCEPT ![n] = Tail(txQueue[n])]
    BY DEF TypeOK, TakeFromTxQueue
  <1>2. s \in Sendable
    BY <1>1
  <1>3. Tail(txQueue[n]) \in Seq(Sendable) /\ Len(Tail(txQueue[n])) <= Len(txQueue[n])
    BY <1>1
  <1>4. txQueue' \in [Nodes -> Seq(Sendable)]
    BY <1>1, <1>3 DEF TypeOK
  <1>5. \A k \in Nodes : Len(txQueue'[k]) <= MaxServiceQueueSize
    BY <1>1, <1>3, BoundAssumption DEF TypeOK
  <1> QED
    BY <1>2, <1>4, <1>5

LEMMA PcStep ==
    ASSUME TypeOK, NEW n \in Nodes, NEW v \in {"ready", "tx", "dispatch", "rx"},
           pc' = [pc EXCEPT ![n] = v]
    PROVE  pc' \in [Nodes -> Places]
  BY DEF TypeOK, Places

LEMMA SendSingleFrameStep ==
    ASSUME IInv, NEW n \in Nodes, SendSingleFrame(n)
    PROVE  IInv'
  <1>1. PICK s \in Services, failed \in BOOLEAN :
            /\ TakeFromTxQueue(n, s)
            /\ Size[s] <= 7
            /\ tx' = [tx EXCEPT ![n].sv = s]
            /\ CanSend(n, IF failed THEN <<>> ELSE <<SingleFrame(n, s)>>, failed)
            /\ pc' = IF failed THEN [pc EXCEPT ![n] = "dispatch"] ELSE pc
            /\ UNCHANGED <<rx, rxQueue, canQueue, server, filter, unsent, requested, received>>
    BY DEF SendSingleFrame
  <1>2. TypeOK
    BY DEF IInv
  <1>3. /\ s \in Sendable
        /\ txQueue' \in [Nodes -> Seq(Sendable)]
        /\ \A k \in Nodes : Len(txQueue'[k]) <= MaxServiceQueueSize
    BY <1>1, <1>2, TakenIsSendable
  <1>4. SingleFrame(n, s) \in Frames
    BY <1>1, <1>3, FrameTypes
  <1>5. (IF failed THEN <<>> ELSE <<SingleFrame(n, s)>>) \in Seq(Frames)
    BY <1>4
  <1>6. wire' \in [Nodes -> Seq(Frames)] /\ faults' \in Faults
    BY <1>1, <1>2, <1>5, CanSendType
  <1>7. tx' \in [Nodes -> Transmissions] /\ TxPosition'
    <2> DEFINE t == [tx[n] EXCEPT !.sv = s]
    <2>1. tx[n] \in Transmissions /\ tx[n].status = "IDLE"
      BY <1>1, <1>2 DEF TypeOK, TakeFromTxQueue
    <2>2. t \in Transmissions /\ t.status = "IDLE"
      BY <2>1, <1>3 DEF Transmissions
    <2>3. tx' = [tx EXCEPT ![n] = t]
      BY <1>1
    <2>4. TxAligned(t)
      BY <2>2 DEF TxAligned
    <2> HIDE DEF t
    <2> QED
      BY <2>2, <2>3, <2>4, TxUpdate
  <1>8. pc' \in [Nodes -> Places]
    BY <1>1, <1>2 DEF TypeOK, Places
  <1>9. TypeOK'
    BY <1>1, <1>2, <1>3, <1>6, <1>7, <1>8 DEF TypeOK
  <1>10. RxPosition'
    BY <1>1 DEF IInv, RxPosition
  <1> QED
    BY <1>7, <1>9, <1>10 DEF IInv

LEMMA SendWithoutFlowControlStep ==
    ASSUME IInv, NEW n \in Nodes, SendWithoutFlowControl(n)
    PROVE  IInv'
  <1> DEFINE Total(s) == 1 + FramesLeft(Size[s], 6)
             Index(s, sent) == IF sent = 0 THEN 6 ELSE Least(Size[s], 6 + 7 * (sent - 1))
             Number(s, sent) == Least(sent, Total(s) - 1) % 16
  <1>1. PICK s \in Services :
            /\ TakeFromTxQueue(n, s)
            /\ Size[s] > 7
            /\ \E sent \in 0 .. Total(s) :
                 /\ CanSend(n, OmfFrames(n, s, sent), sent < Total(s))
                 /\ tx' = [tx EXCEPT ![n].sv = s, ![n].index = Index(s, sent),
                                     ![n].seq = Number(s, sent)]
                 /\ pc' = IF sent < Total(s) THEN [pc EXCEPT ![n] = "dispatch"] ELSE pc
            /\ UNCHANGED <<rx, rxQueue, canQueue, server, filter, unsent, requested, received>>
    BY DEF SendWithoutFlowControl
  <1>2. PICK sent \in 0 .. Total(s) :
            /\ CanSend(n, OmfFrames(n, s, sent), sent < Total(s))
            /\ tx' = [tx EXCEPT ![n].sv = s, ![n].index = Index(s, sent),
                                ![n].seq = Number(s, sent)]
            /\ pc' = IF sent < Total(s) THEN [pc EXCEPT ![n] = "dispatch"] ELSE pc
    BY <1>1
  <1>3. TypeOK
    BY DEF IInv
  <1>4. /\ s \in Sendable
        /\ txQueue' \in [Nodes -> Seq(Sendable)]
        /\ \A k \in Nodes : Len(txQueue'[k]) <= MaxServiceQueueSize
    BY <1>1, <1>3, TakenIsSendable
  <1>5. OmfFrames(n, s, sent) \in Seq(Frames)
    BY <1>1, <1>2, <1>4, OmfFramesType
  <1>6. wire' \in [Nodes -> Seq(Frames)] /\ faults' \in Faults
    <2>1. (sent < Total(s)) \in BOOLEAN
      OBVIOUS
    <2> HIDE DEF Total
    <2> QED
      BY <1>2, <1>3, <1>5, <2>1, CanSendType
  <1>7. tx' \in [Nodes -> Transmissions] /\ TxPosition'
    <2> DEFINE t == [tx[n] EXCEPT !.sv = s, !.index = Index(s, sent), !.seq = Number(s, sent)]
    <2>1. tx[n] \in Transmissions /\ tx[n].status = "IDLE"
      BY <1>1, <1>3 DEF TypeOK, TakeFromTxQueue
    <2>2. Index(s, sent) \in Nat /\ Number(s, sent) \in 0 .. 15
      <3>1. Size[s] \in Nat /\ Size[s] > 7 /\ sent \in Nat
        BY <1>1, <1>2, <1>4, SendableSize DEF FramesLeft
      <3>2. Total(s) - 1 \in Nat
        BY <3>1 DEF FramesLeft
      <3> QED
        BY <3>1, <3>2 DEF Least
    <2>3. tx' = [tx EXCEPT ![n] = t]
      BY <1>2
    <2> HIDE DEF Index, Number
    <2>4. t \in Transmissions /\ t.status = "IDLE"
      BY <2>1, <2>2, <1>4 DEF Transmissions
    <2>5. TxAligned(t)
      BY <2>4 DEF TxAligned
    <2> HIDE DEF t
    <2> QED
      BY <2>3, <2>4, <2>5, TxUpdate
  <1> HIDE DEF Total, Index, Number
  <1>8. pc' \in [Nodes -> Places]
    BY <1>2, <1>3 DEF TypeOK, Places
  <1>9. TypeOK'
    BY <1>1, <1>3, <1>4, <1>6, <1>7, <1>8 DEF TypeOK
  <1>10. RxPosition'
    BY <1>1 DEF IInv, RxPosition
  <1> QED
    BY <1>7, <1>9, <1>10 DEF IInv

LEMMA SendFirstFrameStep ==
    ASSUME IInv, NEW n \in Nodes, SendFirstFrame(n)
    PROVE  IInv'
  <1>1. PICK s \in Services, failed \in BOOLEAN :
            /\ TakeFromTxQueue(n, s)
            /\ Size[s] > 7
            /\ s \notin Omf
            /\ CanSend(n, IF failed THEN <<>> ELSE <<FirstFrame(n, s)>>, failed)
            /\ tx' = [tx EXCEPT ![n] = AwaitFlowControl(s, failed)]
            /\ pc' = [pc EXCEPT ![n] = "dispatch"]
            /\ UNCHANGED <<rx, rxQueue, canQueue, server, filter, unsent, requested, received>>
    BY DEF SendFirstFrame
  <1>2. TypeOK
    BY DEF IInv
  <1>3. /\ s \in Sendable
        /\ txQueue' \in [Nodes -> Seq(Sendable)]
        /\ \A k \in Nodes : Len(txQueue'[k]) <= MaxServiceQueueSize
    BY <1>1, <1>2, TakenIsSendable
  <1>4. FirstFrame(n, s) \in Frames
    BY <1>1, <1>3, FrameTypes
  <1>5. (IF failed THEN <<>> ELSE <<FirstFrame(n, s)>>) \in Seq(Frames)
    BY <1>4
  <1>6. wire' \in [Nodes -> Seq(Frames)] /\ faults' \in Faults
    BY <1>1, <1>2, <1>5, CanSendType
  <1>7. tx' \in [Nodes -> Transmissions] /\ TxPosition'
    <2>1. AwaitFlowControl(s, failed) \in Transmissions
      BY <1>3 DEF AwaitFlowControl, Transmissions, TxStatus
    <2>2. TxAligned(AwaitFlowControl(s, failed))
      BY <1>1, <1>3, SendableSize DEF AwaitFlowControl, TxAligned
    <2> QED
      BY <1>1, <2>1, <2>2, TxUpdate
  <1>8. pc' \in [Nodes -> Places]
    BY <1>1, <1>2, PcStep
  <1>9. TypeOK'
    BY <1>1, <1>2, <1>3, <1>6, <1>7, <1>8 DEF TypeOK
  <1>10. RxPosition'
    BY <1>1 DEF IInv, RxPosition
  <1> QED
    BY <1>7, <1>9, <1>10 DEF IInv

LEMMA CheckFlowControlTimeoutStep ==
    ASSUME IInv, NEW n \in Nodes, CheckFlowControlTimeout(n)
    PROVE  IInv'
  <1>1. TypeOK /\ tx[n] \in Transmissions /\ TxAligned(tx[n])
    BY DEF IInv, TypeOK, TxPosition
  <1>2. GiveUp(tx[n]) \in Transmissions
    BY <1>1 DEF GiveUp, Transmissions, TxStatus
  <1>3. TxAligned(GiveUp(tx[n]))
    BY <1>1 DEF GiveUp, TxAligned, Transmissions
  <1>4. tx' \in [Nodes -> Transmissions] /\ TxPosition'
    BY <1>2, <1>3, TxUpdate DEF CheckFlowControlTimeout
  <1>5. pc' \in [Nodes -> Places]
    BY <1>1, PcStep DEF CheckFlowControlTimeout
  <1>6. TypeOK'
    BY <1>1, <1>4, <1>5 DEF CheckFlowControlTimeout, TypeOK
  <1>7. RxPosition'
    BY DEF CheckFlowControlTimeout, IInv, RxPosition
  <1> QED
    BY <1>4, <1>6, <1>7 DEF IInv

\* Index and sequence number of an aligned transfer stay aligned when count
\* more frames go, and the sequence number wraps from 15 to 0.
LEMMA AlignedArithmetic ==
    ASSUME NEW index \in Nat, index % 7 = 6, NEW count \in Nat
    PROVE  /\ (index + 7 * count) % 7 = 6
           /\ (1 + (index + 7 * count) \div 7) % 16 =
                  (((1 + index \div 7) % 16) + count) % 16
  <1>1. (index + 7 * count) \div 7 = index \div 7 + count
    OBVIOUS
  <1>2. (index + 7 * count) % 7 = 6
    OBVIOUS
  <1>3. ASSUME NEW a \in Nat PROVE (a + count) % 16 = ((a % 16) + count) % 16
    OBVIOUS
  <1>4. index \div 7 \in Nat
    OBVIOUS
  <1>5. (1 + index \div 7 + count) % 16 = (((1 + index \div 7) % 16) + count) % 16
    BY <1>3, <1>4
  <1> QED
    BY <1>1, <1>2, <1>4, <1>5

LEMMA SendNextConsecutiveFramesStep ==
    ASSUME IInv, NEW n \in Nodes, NEW t \in Transmissions, TxAligned(t), t.status # "IDLE",
           NEW giveUp \in BOOLEAN, SendNextConsecutiveFrames(n, t, giveUp)
    PROVE  /\ wire' \in [Nodes -> Seq(Frames)] /\ faults' \in Faults
           /\ tx' \in [Nodes -> Transmissions] /\ TxPosition'
  <1> DEFINE left == FramesLeft(Size[t.sv], t.index)
             status(sent) == IF sent = left \/ giveUp THEN "IDLE"
                             ELSE "MORE_CONSECUTIVE_FRAMES_TO_SEND"
             next(sent) == [Advance(t, sent) EXCEPT !.status = status(sent)]
  <1>1. PICK sent \in 0 .. left :
            /\ CanSend(n, ConsecutiveFrames(n, t.sv, t.index, t.seq, sent), sent < left)
            /\ tx' = [tx EXCEPT ![n] = next(sent)]
    BY DEF SendNextConsecutiveFrames
  <1>2. /\ t.sv \in Sendable /\ t.sv \notin Omf
        /\ t.index \in Nat /\ t.index < Size[t.sv] /\ t.index % 7 = 6
        /\ t.seq \in 0 .. 15 /\ t.seq = (1 + t.index \div 7) % 16
        /\ t.expired \in BOOLEAN
    BY DEF TxAligned, Transmissions
  <1>3. Size[t.sv] \in Nat
    BY <1>2, SendableSize
  <1>4. left \in Nat /\ sent \in Nat /\ (sent < left) \in BOOLEAN
    BY <1>1, <1>2, <1>3 DEF FramesLeft
  <1>5. ConsecutiveFrames(n, t.sv, t.index, t.seq, sent) \in Seq(Frames)
    BY <1>1, <1>2, ConsecutiveFramesType
  <1>6. wire' \in [Nodes -> Seq(Frames)] /\ faults' \in Faults
    <2> HIDE DEF left, next
    <2>1. TypeOK
      BY DEF IInv
    <2> QED
      BY <1>1, <1>4, <1>5, <2>1, CanSendType
  <1>7. /\ next(sent).status = status(sent) /\ next(sent).sv = t.sv
        /\ next(sent).index = t.index + 7 * sent /\ next(sent).seq = (t.seq + sent) % 16
    <2> HIDE DEF status, left
    <2> QED
      BY DEF Advance, Transmissions
  <1>8. sent < left => t.index + 7 * sent < Size[t.sv]
    BY <1>2, <1>3, <1>4 DEF FramesLeft
  <1>9. /\ (t.index + 7 * sent) % 7 = 6
        /\ (t.seq + sent) % 16 = (1 + (t.index + 7 * sent) \div 7) % 16
    BY <1>2, <1>4, AlignedArithmetic
  <1>10. sent = left => status(sent) = "IDLE"
    OBVIOUS
  <1>11. status(sent) \in {"IDLE", "MORE_CONSECUTIVE_FRAMES_TO_SEND"}
    OBVIOUS
  <1> HIDE DEF status, left
  <1>12. (t.seq + sent) % 16 \in 0 .. 15 /\ t.index + 7 * sent \in Nat
    BY <1>2, <1>4
  <1>13. next(sent) \in Transmissions
    <2>1. Advance(t, sent) \in Transmissions
      BY <1>12 DEF Advance, Transmissions
    <2>2. status(sent) \in TxStatus
      BY <1>11 DEF TxStatus
    <2> HIDE DEF status
    <2> QED
      BY <2>1, <2>2 DEF Transmissions
  <1> HIDE DEF next
  <1>14. status(sent) # "IDLE" => sent < left
    BY <1>1, <1>4, <1>10
  <1>15. TxAligned(next(sent))
    BY <1>2, <1>7, <1>8, <1>9, <1>11, <1>14 DEF TxAligned
  <1>16. tx' \in [Nodes -> Transmissions] /\ TxPosition'
    BY <1>1, <1>13, <1>15, TxUpdate
  <1> QED
    BY <1>6, <1>16

LEMMA SendMoreConsecutiveFramesStep ==
    ASSUME IInv, NEW n \in Nodes, SendMoreConsecutiveFrames(n)
    PROVE  IInv'
  <1>1. TypeOK /\ tx[n] \in Transmissions /\ TxAligned(tx[n])
    BY DEF IInv, TypeOK, TxPosition
  <1>2. tx[n].status # "IDLE" /\ tx[n].expired \in BOOLEAN
    BY <1>1 DEF SendMoreConsecutiveFrames, Transmissions
  <1>3. /\ wire' \in [Nodes -> Seq(Frames)] /\ faults' \in Faults
        /\ tx' \in [Nodes -> Transmissions] /\ TxPosition'
    BY <1>1, <1>2, SendNextConsecutiveFramesStep DEF SendMoreConsecutiveFrames
  <1>4. pc' \in [Nodes -> Places]
    BY <1>1, PcStep DEF SendMoreConsecutiveFrames
  <1>5. TypeOK'
    BY <1>1, <1>3, <1>4 DEF SendMoreConsecutiveFrames, TypeOK
  <1>6. RxPosition'
    BY DEF SendMoreConsecutiveFrames, IInv, RxPosition
  <1> QED
    BY <1>3, <1>5, <1>6 DEF IInv

-----------------------------------------------------------------------------
(* Cycle, receiving.                                                        *)

LEMMA DispatchFrameStep ==
    ASSUME IInv, NEW n \in Nodes, DispatchFrame(n)
    PROVE  IInv'
  <1>1. TypeOK /\ wire[n] \in Seq(Frames) /\ wire[n] # <<>> /\ canQueue[n] \in Seq(Frames)
    BY DEF IInv, TypeOK, DispatchFrame
  <1>2. Head(wire[n]) \in Frames /\ Tail(wire[n]) \in Seq(Frames)
    BY <1>1
  <1>3. wire' \in [Nodes -> Seq(Frames)]
    BY <1>1, <1>2 DEF DispatchFrame, TypeOK
  <1>4. canQueue' \in [Nodes -> Seq(Frames)] /\ \A k \in Nodes : Len(canQueue'[k]) <= MaxCanQueue
    <2> DEFINE fits == Queues(n, Head(wire[n]))
    <2>1. CASE fits
      <3>1. canQueue' = [canQueue EXCEPT ![n] = Append(canQueue[n], Head(wire[n]))]
        BY <2>1 DEF DispatchFrame
      <3>2. Append(canQueue[n], Head(wire[n])) \in Seq(Frames)
        BY <1>1, <1>2
      <3>3. Len(Append(canQueue[n], Head(wire[n]))) <= MaxCanQueue
        BY <1>1, <1>2, <2>1, BoundAssumption DEF Queues
      <3> QED
        BY <1>1, <3>1, <3>2, <3>3 DEF TypeOK
    <2>2. CASE ~fits
      BY <1>1, <2>2 DEF DispatchFrame, TypeOK
    <2> QED
      BY <2>1, <2>2
  <1>5. faults' \in Faults
    <2>1. faults \in Faults
      BY <1>1 DEF TypeOK
    <2>2. PICK a \in BOOLEAN, b \in BOOLEAN :
              faults' = [faults EXCEPT !.first = a, !.stray = b]
      BY <2>1 DEF DispatchFrame, Faults
    <2> QED
      BY <2>1, <2>2 DEF Faults
  <1>6. TypeOK'
    BY <1>1, <1>3, <1>4, <1>5 DEF DispatchFrame, TypeOK
  <1>7. TxPosition' /\ RxPosition'
    BY DEF DispatchFrame, IInv, TxPosition, RxPosition
  <1> QED
    BY <1>6, <1>7 DEF IInv

LEMMA ReadFrameType ==
    ASSUME TypeOK, NEW n \in Nodes, NEW f, NEW pcis, ReadFrame(n, f, pcis)
    PROVE  /\ f \in Frames /\ f.pci \in pcis
           /\ canQueue' \in [Nodes -> Seq(Frames)]
           /\ \A k \in Nodes : Len(canQueue'[k]) <= MaxCanQueue
  <1>1. /\ canQueue[n] \in Seq(Frames) /\ canQueue[n] # <<>> /\ f = Head(canQueue[n])
        /\ canQueue' = [canQueue EXCEPT ![n] = Tail(canQueue[n])]
    BY DEF ReadFrame, TypeOK
  <1>2. Tail(canQueue[n]) \in Seq(Frames) /\ Len(Tail(canQueue[n])) <= Len(canQueue[n])
        /\ f \in Frames
    BY <1>1
  <1>3. \A k \in Nodes : Len(canQueue'[k]) <= MaxCanQueue
    BY <1>1, <1>2, BoundAssumption DEF TypeOK
  <1> QED
    BY <1>1, <1>2, <1>3 DEF ReadFrame, TypeOK

\* A frame with a payload adds a piece to a service.
LEMMA FramePiece ==
    ASSUME NEW f \in Frames, f.pci # "FC"
    PROVE  /\ <<f.sv, f.at>> \in Pieces
           /\ << <<f.sv, f.at>> >> \in Seq(Pieces)
  <1>1. f.sv \in Sendable /\ f.at \in Offsets
    BY DEF Frames
  <1>2. <<f.sv, f.at>> \in Pieces
    BY <1>1 DEF Pieces
  <1> QED
    BY <1>2

LEMMA SingleFrameStep ==
    ASSUME IInv, NEW n \in Nodes, HandleIncomingSingleFrame(n)
    PROVE  IInv'
  <1> DEFINE f == Head(canQueue[n])
             m == [size |-> f.size, data |-> << <<f.sv, f.at>> >>]
  <1>1. TypeOK /\ ReadFrame(n, f, {"SF", "OSF"}) /\ AddToRxQueue(n, m)
        /\ UNCHANGED <<tx, rx, wire, faults>>
    BY DEF IInv, HandleIncomingSingleFrame
  <1> HIDE DEF f
  <1>2. /\ f \in Frames /\ f.pci # "FC"
        /\ canQueue' \in [Nodes -> Seq(Frames)]
        /\ \A k \in Nodes : Len(canQueue'[k]) <= MaxCanQueue
    <2>1. /\ f \in Frames /\ f.pci \in {"SF", "OSF"}
          /\ canQueue' \in [Nodes -> Seq(Frames)]
          /\ \A k \in Nodes : Len(canQueue'[k]) <= MaxCanQueue
      BY <1>1, ReadFrameType
    <2> QED
      BY <2>1
  <1>3. m \in Messages
    <2>1. f.size \in Offsets /\ << <<f.sv, f.at>> >> \in Seq(Pieces)
      BY <1>2, FramePiece DEF Frames
    <2> QED
      BY <2>1 DEF Messages
  <1> HIDE DEF m
  <1>4. /\ rxQueue' \in [Nodes -> Seq(Messages)]
        /\ received' \in [Nodes -> Seq(Messages)]
        /\ \A k \in Nodes : Len(rxQueue'[k]) <= MaxServiceQueueSize
    BY <1>1, <1>3, AddToRxQueueType
  <1>5. TypeOK'
    BY <1>1, <1>2, <1>4 DEF ReadFrame, TypeOK
  <1>6. TxPosition' /\ RxPosition'
    BY <1>1 DEF IInv, TxPosition, RxPosition
  <1> QED
    BY <1>5, <1>6 DEF IInv

\* A reception after its first frame.
LEMMA StartReceptionType ==
    ASSUME NEW r, NEW f \in Frames, f.pci # "FC", NEW status \in RxStatus,
           status = "IDLE" \/ f.size > 7
    PROVE  /\ StartReception(r, f, status) \in Receptions
           /\ RxAligned(StartReception(r, f, status))
  <1>1. f.size \in Offsets /\ << <<f.sv, f.at>> >> \in Seq(Pieces)
    BY FramePiece DEF Frames
  <1>2. f.size \in Nat
    BY <1>1, MaxServiceSizeFact DEF Offsets
  <1>3. Len(<< <<f.sv, f.at>> >>) = 1
    OBVIOUS
  <1>4. StartReception(r, f, status) \in Receptions
    BY <1>1 DEF StartReception, Receptions
  <1>5. RxAligned(StartReception(r, f, status))
    BY <1>2, <1>3 DEF StartReception, RxAligned
  <1> QED
    BY <1>4, <1>5

LEMMA FirstFrameStep ==
    ASSUME IInv, NEW n \in Nodes, HandleIncomingFirstFrame(n)
    PROVE  IInv'
  <1> DEFINE f == Head(canQueue[n])
             status(failed) == IF failed THEN "IDLE" ELSE "WAITING_FOR_CONSECUTIVE_FRAME"
  <1>1. PICK failed \in BOOLEAN :
            /\ CanSend(n, IF failed THEN <<>> ELSE <<FlowControl(n)>>, failed)
            /\ rx' = [rx EXCEPT ![n] = StartReception(rx[n], f, status(failed))]
    BY DEF HandleIncomingFirstFrame
  <1>2. TypeOK /\ ReadFrame(n, f, {"FF"}) /\ UNCHANGED <<tx, rxQueue, received>>
    BY DEF IInv, HandleIncomingFirstFrame
  <1>3. status(failed) \in RxStatus
    BY DEF RxStatus
  <1> HIDE DEF f, status
  <1>4. /\ f \in Frames /\ f.pci \in {"FF"}
        /\ canQueue' \in [Nodes -> Seq(Frames)]
        /\ \A k \in Nodes : Len(canQueue'[k]) <= MaxCanQueue
    BY <1>2, ReadFrameType
  <1>5. f.pci # "FC" /\ f.size > 7
    BY <1>4 DEF Frames
  <1>6. rx' \in [Nodes -> Receptions] /\ RxPosition'
    <2>1. /\ StartReception(rx[n], f, status(failed)) \in Receptions
          /\ RxAligned(StartReception(rx[n], f, status(failed)))
      BY <1>3, <1>4, <1>5, StartReceptionType
    <2> QED
      BY <1>1, <2>1, RxUpdate
  <1>7. wire' \in [Nodes -> Seq(Frames)] /\ faults' \in Faults
    <2>1. FlowControl(n) \in Frames
      BY FlowControlType
    <2>2. (IF failed THEN <<>> ELSE <<FlowControl(n)>>) \in Seq(Frames)
      BY <2>1
    <2> QED
      BY <1>1, <1>2, <2>2, CanSendType
  <1>8. TypeOK'
    BY <1>2, <1>4, <1>6, <1>7 DEF ReadFrame, TypeOK
  <1>9. TxPosition'
    BY <1>2 DEF IInv, TxPosition
  <1> QED
    BY <1>6, <1>8, <1>9 DEF IInv

LEMMA FlowControlStep ==
    ASSUME IInv, NEW n \in Nodes, HandleIncomingFlowControl(n)
    PROVE  IInv'
  <1> DEFINE f == Head(canQueue[n])
             t == [tx[n] EXCEPT !.expired = FALSE]
  <1>1. TypeOK /\ ReadFrame(n, f, {"FC"}) /\ UNCHANGED <<rx, rxQueue, received>>
    BY DEF IInv, HandleIncomingFlowControl
  <1>2. \/ /\ tx[n].status = "WAITING_FOR_FLOW_CONTROL"
           /\ SendNextConsecutiveFrames(n, t, FALSE)
        \/ UNCHANGED <<tx, wire, faults>>
    BY DEF HandleIncomingFlowControl
  <1> HIDE DEF f
  <1>3. /\ canQueue' \in [Nodes -> Seq(Frames)]
        /\ \A k \in Nodes : Len(canQueue'[k]) <= MaxCanQueue
    BY <1>1, ReadFrameType
  <1>4. /\ wire' \in [Nodes -> Seq(Frames)] /\ faults' \in Faults
        /\ tx' \in [Nodes -> Transmissions] /\ TxPosition'
    <2>1. CASE UNCHANGED <<tx, wire, faults>>
      BY <2>1 DEF IInv, TypeOK, TxPosition
    <2>2. CASE /\ tx[n].status = "WAITING_FOR_FLOW_CONTROL"
               /\ SendNextConsecutiveFrames(n, t, FALSE)
      <3>1. tx[n] \in Transmissions /\ TxAligned(tx[n])
        BY DEF IInv, TypeOK, TxPosition
      <3>2. t \in Transmissions /\ t.status = tx[n].status /\ TxAligned(t)
        BY <3>1 DEF Transmissions, TxAligned
      <3> HIDE DEF t
      <3>3. t.status # "IDLE"
        BY <2>2, <3>2
      <3> QED
        BY <2>2, <3>2, <3>3, SendNextConsecutiveFramesStep
    <2> QED
      BY <1>2, <2>1, <2>2
  <1>5. TypeOK'
    BY <1>1, <1>3, <1>4 DEF ReadFrame, TypeOK
  <1>6. RxPosition'
    BY <1>1 DEF IInv, RxPosition
  <1> QED
    BY <1>4, <1>5, <1>6 DEF IInv

\* The sequence number that follows seq, of a reception with flow control.
LEMMA NextNumber ==
    ASSUME NEW seq \in 0 .. 15
    PROVE  /\ seq # 15 => seq + 1 \in 0 .. 15
           /\ \A index \in Nat :
                index % 7 = 6 /\ seq = (1 + index \div 7) % 16 =>
                    (1 + (index + 7) \div 7) % 16 = IF seq = 15 THEN 0 ELSE seq + 1
  <1>1. seq # 15 => seq + 1 \in 0 .. 15
    OBVIOUS
  <1>2. ASSUME NEW index \in Nat, index % 7 = 6, seq = (1 + index \div 7) % 16
        PROVE  (1 + (index + 7) \div 7) % 16 = IF seq = 15 THEN 0 ELSE seq + 1
    <2>1. (index + 7) \div 7 = index \div 7 + 1
      BY <1>2
    <2>2. ASSUME NEW a \in Nat, seq = (1 + a) % 16
          PROVE  (1 + (a + 1)) % 16 = IF seq = 15 THEN 0 ELSE seq + 1
      BY <2>2
    <2>3. index \div 7 \in Nat
      BY <1>2
    <2> QED
      BY <1>2, <2>1, <2>2, <2>3
  <1> QED
    BY <1>1, <1>2

\* A frame that continues a transfer: the type of what it leaves, and alignment
\* if the transfer is one with flow control or the reception becomes idle.
LEMMA ContinueTransferStep ==
    ASSUME IInv, NEW n \in Nodes, NEW f \in Frames, f.pci # "FC",
           NEW status \in RxStatus, NEW next \in 0 .. 1,
           NEW done \in 0 .. 15, NEW bad \in 0 .. 15,
           \/ status = "IDLE"
           \/ next = 0 /\ rx[n].status = "WAITING_FOR_CONSECUTIVE_FRAME",
           ContinueTransfer(n, f, status, next, done, bad)
    PROVE  /\ rx' \in [Nodes -> Receptions] /\ RxPosition'
           /\ rxQueue' \in [Nodes -> Seq(Messages)]
           /\ received' \in [Nodes -> Seq(Messages)]
           /\ \A k \in Nodes : Len(rxQueue'[k]) <= MaxServiceQueueSize
  <1> DEFINE r == rx[n]
             more == Append(r.data, <<f.sv, f.at>>)
             completes == r.index <= r.size /\ f.dlc - 1 >= r.size - r.index
             number == IF r.seq = 15 THEN next ELSE r.seq + 1
             goesOn == [status |-> status, size |-> r.size, index |-> r.index + 7,
                        seq |-> number, data |-> more]
             ends(seq) == [r EXCEPT !.status = "IDLE", !.seq = seq]
             m == [size |-> r.size, data |-> more]
  <1>1. TypeOK /\ r \in Receptions /\ RxAligned(r)
    BY DEF IInv, TypeOK, RxPosition
  <1>2. /\ r.size \in Offsets /\ r.size \in Nat /\ r.index \in Nat
        /\ r.seq \in 0 .. 15 /\ r.data \in Seq(Pieces)
    BY <1>1, MaxServiceSizeFact DEF Receptions, Offsets
  <1>3. more \in Seq(Pieces) /\ Len(more) = Len(r.data) + 1
    BY <1>2, FramePiece
  <1>4. ASSUME NEW seq \in 0 .. 15
        PROVE  ends(seq) \in Receptions /\ RxAligned(ends(seq))
    <2>1. ends(seq) \in Receptions /\ ends(seq).status = "IDLE"
      BY <1>1 DEF Receptions, RxStatus
    <2> QED
      BY <2>1 DEF RxAligned
  <1>5. CASE ExpectedNumber(r, f) /\ completes
    <2>1. AddToRxQueue(n, m) /\ rx' = [rx EXCEPT ![n] = ends(done)]
      BY <1>5 DEF ContinueTransfer
    <2>2. m \in Messages
      BY <1>2, <1>3 DEF Messages
    <2> HIDE DEF m, ends
    <2>3. rx' \in [Nodes -> Receptions] /\ RxPosition'
      BY <1>4, <2>1, RxUpdate
    <2> QED
      BY <1>1, <2>1, <2>2, <2>3, AddToRxQueueType
  <1>6. CASE ExpectedNumber(r, f) /\ ~completes /\ f.dlc = 8
    <2>1. rx' = [rx EXCEPT ![n] = goesOn] /\ UNCHANGED <<rxQueue, received>>
      BY <1>6 DEF ContinueTransfer
    <2>2. r.index < r.size => r.index + 7 < r.size
      BY <1>2, <1>6
    <2>3. number \in 0 .. 15
      <3>1. CASE r.seq = 15
        <4>1. number = next /\ next \in 0 .. 15
          BY <3>1
        <4> QED
          BY <4>1
      <3>2. CASE r.seq # 15
        <4>1. number = r.seq + 1
          BY <3>2
        <4>2. r.seq + 1 \in 0 .. 15
          BY <1>2, <3>2, NextNumber
        <4> QED
          BY <4>1, <4>2
      <3> QED
        BY <3>1, <3>2
    <2>4. goesOn \in Receptions
      <3> HIDE DEF more, number
      <3> QED
        BY <1>2, <1>3, <2>3 DEF Receptions
    <2>5. RxAligned(goesOn)
      <3>1. CASE status = "IDLE"
        BY <3>1 DEF RxAligned
      <3>2. CASE next = 0 /\ r.status = "WAITING_FOR_CONSECUTIVE_FRAME"
        <4>1. r.index % 7 = 6 /\ r.seq = (1 + r.index \div 7) % 16
              /\ Len(r.data) = 1 + r.index \div 7 /\ r.index < r.size
          BY <1>1, <3>2 DEF RxAligned
        <4>2. (r.index + 7) % 7 = 6 /\ (r.index + 7) \div 7 = r.index \div 7 + 1
          BY <1>2, <4>1
        <4>3. number = (1 + (r.index + 7) \div 7) % 16
          <5>1. CASE r.seq = 15
            BY <1>2, <3>2, <4>1, <5>1, NextNumber
          <5>2. CASE r.seq # 15
            BY <1>2, <4>1, <5>2, NextNumber
          <5> QED
            BY <5>1, <5>2
        <4>4. Len(more) = 1 + (r.index + 7) \div 7
          BY <1>2, <1>3, <4>1, <4>2
        <4> HIDE DEF more, number
        <4> QED
          BY <2>2, <4>1, <4>2, <4>3, <4>4 DEF RxAligned
      <3> QED
        BY <3>1, <3>2
    <2> HIDE DEF goesOn
    <2>6. rx' \in [Nodes -> Receptions] /\ RxPosition'
      BY <2>1, <2>4, <2>5, RxUpdate
    <2> QED
      BY <1>1, <2>1, <2>6 DEF TypeOK
  <1>7. CASE ~ExpectedNumber(r, f) \/ (~completes /\ f.dlc < 8)
    <2>1. rx' = [rx EXCEPT ![n] = ends(bad)] /\ UNCHANGED <<rxQueue, received>>
      <3>1. ~(ExpectedNumber(r, f) /\ completes) /\ ~(ExpectedNumber(r, f) /\ ~completes /\ f.dlc = 8)
        <4> HIDE DEF completes
        <4> QED
          BY <1>7, f.dlc < 8 => f.dlc # 8
      <3> QED
        BY <3>1 DEF ContinueTransfer
    <2> HIDE DEF ends
    <2>2. rx' \in [Nodes -> Receptions] /\ RxPosition'
      BY <1>4, <2>1, RxUpdate
    <2> QED
      BY <1>1, <2>1, <2>2 DEF TypeOK
  <1> QED
    BY <1>5, <1>6, <1>7 DEF ContinueTransfer

LEMMA ConsecutiveFrameStep ==
    ASSUME IInv, NEW n \in Nodes, HandleIncomingConsecutiveFrame(n)
    PROVE  IInv'
  <1> DEFINE f == Head(canQueue[n])
  <1>1. TypeOK /\ ReadFrame(n, f, {"CF"}) /\ UNCHANGED <<tx, wire, faults>>
    BY DEF IInv, HandleIncomingConsecutiveFrame
  <1>2. \/ /\ rx[n].status = "WAITING_FOR_CONSECUTIVE_FRAME"
           /\ ContinueTransfer(n, f, rx[n].status, 0, rx[n].seq, rx[n].seq)
        \/ UNCHANGED <<rx, rxQueue, received>>
    BY DEF HandleIncomingConsecutiveFrame
  <1> HIDE DEF f
  <1>3. /\ f \in Frames /\ f.pci \in {"CF"}
        /\ canQueue' \in [Nodes -> Seq(Frames)]
        /\ \A k \in Nodes : Len(canQueue'[k]) <= MaxCanQueue
    BY <1>1, ReadFrameType
  <1>4. /\ rx' \in [Nodes -> Receptions] /\ RxPosition'
        /\ rxQueue' \in [Nodes -> Seq(Messages)]
        /\ received' \in [Nodes -> Seq(Messages)]
        /\ \A k \in Nodes : Len(rxQueue'[k]) <= MaxServiceQueueSize
    <2>1. CASE UNCHANGED <<rx, rxQueue, received>>
      BY <2>1 DEF IInv, TypeOK, RxPosition
    <2>2. CASE /\ rx[n].status = "WAITING_FOR_CONSECUTIVE_FRAME"
               /\ ContinueTransfer(n, f, rx[n].status, 0, rx[n].seq, rx[n].seq)
      <3>1. rx[n].status \in RxStatus /\ rx[n].seq \in 0 .. 15
        BY <1>1 DEF TypeOK, Receptions
      <3>2. f.pci # "FC" /\ 0 \in 0 .. 1
        BY <1>3
      <3> QED
        BY <1>3, <2>2, <3>1, <3>2, ContinueTransferStep
    <2> QED
      BY <1>2, <2>1, <2>2
  <1>5. TypeOK'
    BY <1>1, <1>3, <1>4 DEF ReadFrame, TypeOK
  <1>6. TxPosition'
    BY <1>1 DEF IInv, TxPosition
  <1> QED
    BY <1>4, <1>5, <1>6 DEF IInv

LEMMA MultiFrameStep ==
    ASSUME IInv, NEW n \in Nodes, HandleIncomingOsySpecificMultiFrame(n)
    PROVE  IInv'
  <1> DEFINE f == Head(canQueue[n])
  <1>1. TypeOK /\ ReadFrame(n, f, {"OMF"}) /\ UNCHANGED <<tx, wire, faults>>
    BY DEF IInv, HandleIncomingOsySpecificMultiFrame
  <1>2. \/ ContinueTransfer(n, f, "IDLE", 1, 0, 0)
        \/ /\ \/ rx' = [rx EXCEPT ![n] = StartReception(rx[n], f, "IDLE")]
              \/ rx' = [rx EXCEPT ![n].status = "IDLE"]
           /\ UNCHANGED <<rxQueue, received>>
    BY DEF HandleIncomingOsySpecificMultiFrame
  <1> HIDE DEF f
  <1>3. /\ f \in Frames /\ f.pci \in {"OMF"}
        /\ canQueue' \in [Nodes -> Seq(Frames)]
        /\ \A k \in Nodes : Len(canQueue'[k]) <= MaxCanQueue
    BY <1>1, ReadFrameType
  <1>4. f.pci # "FC" /\ "IDLE" \in RxStatus
    BY <1>3 DEF RxStatus
  <1>5. /\ rx' \in [Nodes -> Receptions] /\ RxPosition'
        /\ rxQueue' \in [Nodes -> Seq(Messages)]
        /\ received' \in [Nodes -> Seq(Messages)]
        /\ \A k \in Nodes : Len(rxQueue'[k]) <= MaxServiceQueueSize
    <2>1. CASE ContinueTransfer(n, f, "IDLE", 1, 0, 0)
      <3>1. 1 \in 0 .. 1 /\ 0 \in 0 .. 15
        OBVIOUS
      <3> QED
        BY <1>3, <1>4, <2>1, <3>1, ContinueTransferStep
    <2>2. CASE rx' = [rx EXCEPT ![n] = StartReception(rx[n], f, "IDLE")]
               /\ UNCHANGED <<rxQueue, received>>
      <3>1. /\ StartReception(rx[n], f, "IDLE") \in Receptions
            /\ RxAligned(StartReception(rx[n], f, "IDLE"))
        BY <1>3, <1>4, StartReceptionType
      <3>2. rx' \in [Nodes -> Receptions] /\ RxPosition'
        BY <2>2, <3>1, RxUpdate
      <3> QED
        BY <1>1, <2>2, <3>2 DEF TypeOK
    <2>3. CASE rx' = [rx EXCEPT ![n].status = "IDLE"] /\ UNCHANGED <<rxQueue, received>>
      <3> DEFINE r == [rx[n] EXCEPT !.status = "IDLE"]
      <3>1. rx' = [rx EXCEPT ![n] = r]
        BY <2>3
      <3>2. r \in Receptions /\ r.status = "IDLE"
        BY <1>1, <1>4 DEF TypeOK, Receptions
      <3>3. RxAligned(r)
        BY <3>2 DEF RxAligned
      <3> HIDE DEF r
      <3>4. rx' \in [Nodes -> Receptions] /\ RxPosition'
        BY <3>1, <3>2, <3>3, RxUpdate
      <3> QED
        BY <1>1, <2>3, <3>4 DEF TypeOK
    <2> QED
      BY <1>2, <2>1, <2>2, <2>3
  <1>6. TypeOK'
    BY <1>1, <1>3, <1>5 DEF ReadFrame, TypeOK
  <1>7. TxPosition'
    BY <1>1 DEF IInv, TxPosition
  <1> QED
    BY <1>5, <1>6, <1>7 DEF IInv

\* The steps of Cycle() that only move its program counter.
LEMMA ControlStep ==
    ASSUME IInv, NEW n \in Nodes,
           CycleStart(n) \/ NothingToSend(n) \/ DispatchDone(n) \/ CycleEnd(n)
    PROVE  IInv'
  <1>1. /\ UNCHANGED <<tx, rx, txQueue, rxQueue, wire, canQueue, server, filter, unsent, requested,
                       received, faults>>
        /\ \E v \in {"ready", "tx", "dispatch", "rx"} : pc' = [pc EXCEPT ![n] = v]
    BY DEF CycleStart, NothingToSend, DispatchDone, CycleEnd
  <1>2. pc' \in [Nodes -> Places]
    BY <1>1, PcStep DEF IInv
  <1>3. TypeOK'
    BY <1>1, <1>2 DEF IInv, TypeOK
  <1> QED
    BY <1>1, <1>3 DEF IInv, TxPosition, RxPosition

LEMMA CycleStep ==
    ASSUME IInv, NEW n \in Nodes, Cycle(n)
    PROVE  IInv'
  BY ControlStep, SendSingleFrameStep, SendWithoutFlowControlStep, SendFirstFrameStep,
     CheckFlowControlTimeoutStep, SendMoreConsecutiveFramesStep, DispatchFrameStep,
     SingleFrameStep, FirstFrameStep, FlowControlStep, ConsecutiveFrameStep, MultiFrameStep
  DEF Cycle

-----------------------------------------------------------------------------
(* The environment, and the theorems.                                       *)

LEMMA LoseFrameStep ==
    ASSUME IInv, NEW n \in Nodes, LoseFrame(n)
    PROVE  IInv'
  <1>1. TypeOK /\ faults \in Faults /\ faults.loss < MaxLoss
        /\ \E a \in BOOLEAN : faults' = [faults EXCEPT !.loss = @ + 1, !.first = a]
    BY DEF IInv, TypeOK, LoseFrame, Faults
  <1>2. faults.loss + 1 \in 0 .. MaxLoss
    BY <1>1, BoundAssumption DEF Faults
  <1>3. faults' \in Faults
    BY <1>1, <1>2 DEF Faults
  <1>4. wire' \in [Nodes -> Seq(Frames)]
    <2>1. wire[n] \in Seq(Frames) /\ wire[n] # <<>>
      BY <1>1 DEF TypeOK, LoseFrame
    <2>2. Tail(wire[n]) \in Seq(Frames)
      BY <2>1
    <2> QED
      BY <1>1, <2>2 DEF TypeOK, LoseFrame
  <1>5. TypeOK'
    BY <1>1, <1>3, <1>4 DEF LoseFrame, TypeOK
  <1> QED
    BY <1>5 DEF LoseFrame, IInv, TxPosition, RxPosition

LEMMA ExpireStep ==
    ASSUME IInv, NEW n \in Nodes, Expire(n)
    PROVE  IInv'
  <1> DEFINE t == [tx[n] EXCEPT !.expired = TRUE]
  <1>1. TypeOK /\ tx[n] \in Transmissions /\ TxAligned(tx[n]) /\ tx' = [tx EXCEPT ![n] = t]
    BY DEF IInv, TypeOK, TxPosition, Expire
  <1>2. t \in Transmissions /\ TxAligned(t)
    BY <1>1 DEF Transmissions, TxAligned
  <1> HIDE DEF t
  <1>3. tx' \in [Nodes -> Transmissions] /\ TxPosition'
    BY <1>1, <1>2, TxUpdate
  <1>4. faults' \in Faults
    <2>1. CASE Quiet
      BY <1>1, <2>1 DEF Expire, TypeOK
    <2>2. CASE ~Quiet
      <3>1. faults \in Faults /\ faults.late < MaxLate
            /\ faults' = [faults EXCEPT !.late = @ + 1]
        BY <1>1, <2>2 DEF Expire, TypeOK
      <3>2. faults.late + 1 \in 0 .. MaxLate
        BY <3>1, BoundAssumption DEF Faults
      <3> QED
        BY <3>1, <3>2 DEF Faults
    <2> QED
      BY <2>1, <2>2
  <1>5. TypeOK'
    BY <1>1, <1>3, <1>4 DEF Expire, TypeOK
  <1> QED
    BY <1>3, <1>5 DEF Expire, IInv, RxPosition

LEMMA StutterStep == IInv /\ UNCHANGED vars => IInv'
  <1> SUFFICES ASSUME IInv, UNCHANGED vars PROVE IInv'
    OBVIOUS
  <1>1. TypeOK'
    BY DEF vars, IInv, TypeOK
  <1> QED
    BY <1>1 DEF vars, IInv, TxPosition, RxPosition

LEMMA NextIInv == IInv /\ [Next]_vars => IInv'
  <1> SUFFICES ASSUME IInv, [Next]_vars PROVE IInv'
    OBVIOUS
  <1>1. CASE UNCHANGED vars
    BY <1>1, StutterStep
  <1>2. ASSUME NEW n \in Nodes,
               \/ \E s \in Services : SendRequest(n, s) \/ SendEvent(n, s)
               \/ ReadResponse(n)
               \/ \E m \in Nodes : SetNodeIdentifiers(n, m)
               \/ ClearQueue(n)
               \/ SetRxFilter(n)
        PROVE  IInv'
    BY <1>2, ApplicationStep
  <1>3. ASSUME NEW n \in Nodes, Cycle(n) PROVE IInv'
    BY <1>3, CycleStep
  <1>4. ASSUME NEW n \in Nodes, LoseFrame(n) \/ Expire(n) PROVE IInv'
    BY <1>4, LoseFrameStep, ExpireStep
  <1> QED
    BY <1>1, <1>2, <1>3, <1>4 DEF Next

\* IInv holds in every reachable state: what Cycle, the application and the
\* handlers of incoming frames keep of both transfers, whatever the order.
THEOREM InductiveInvariant == Spec => []IInv
  BY InitIInv, NextIInv, PTL DEF Spec

\* The indices and sequence numbers of C_ServiceState and the lengths of the queues
\* stay in their ranges, for any services, nodes and bounds.
THEOREM TypeCorrect == Spec => []TypeOK
  <1>1. IInv => TypeOK
    BY DEF IInv
  <1> QED
    BY <1>1, InductiveInvariant, PTL

\* m_SendNextConsecutiveFrames never starts behind the end of its service, and index
\* and sequence number agree, whatever CAN_Send_Msg takes and however often the rest is
\* retried.
THEOREM TxPositionInvariant == Spec => []TxPosition
  <1>1. IInv => TxPosition
    BY DEF IInv
  <1> QED
    BY <1>1, InductiveInvariant, PTL

\* While m_HandleIncomingConsecutiveFrame waits, buffer, write index and expected
\* sequence number belong together and the index is below the announced size.
THEOREM RxPositionInvariant == Spec => []RxPosition
  <1>1. IInv => RxPosition
    BY DEF IInv
  <1> QED
    BY <1>1, InductiveInvariant, PTL

-----------------------------------------------------------------------------
(* Which services are delivered whole: those sent with flow control, where    *)
(* nobody changes its server or all services are those of one node.  Whatever  *)
(* number of frames is lost, of calls fails and of time-outs comes too early   *)
(* (any bounds), the properties hold as long as StaysApart does.               *)

Ordinary ==
    /\ Omf = {}
    /\ MaxSwitch = 0 \/ \E n \in Nodes : \A s \in Services : Source[s] = n

\* The node whose services node p receives.
Peer(p) ==
    IF MaxSwitch = 0 THEN Partner[p] ELSE CHOOSE n \in Nodes : \A s \in Services : Source[s] = n

\* What node p is still to read, from the oldest frame on.
Coming(p) == canQueue[p] \o wire[p]
Under(p) == ToSet(Coming(p))

\* The number of a frame in the openSYDE segmentation: modulo 16, so that 0 follows 15.
Counted(f) ==
    \/ f.at = 0 /\ f.sn = 0
    \/ f.at % 7 = 6 /\ f.at < Size[f.sv] /\ f.sn = (1 + (f.at - 6) \div 7) % 16

\* The frames the nodes compose.
Made(f) ==
    /\ f.pci = "OMF" => f.sv \in Omf /\ Counted(f)
    /\ f.pci # "FC" => f.src = Source[f.sv] /\ (f.sv \in Events <=> f.pci = "OSF")
    /\ f.pci \in {"SF", "FF", "OSF"} => f.size = Size[f.sv] /\ f.at = 0
    /\ f.pci = "SF" => f.size <= 7
    /\ f.pci = "FF" => f.size > 7
    /\ f.pci = "CF" =>
          /\ f.at % 7 = 6
          /\ f.at < Size[f.sv]
          /\ f.dlc = 1 + Least(7, Size[f.sv] - f.at)

\* A frame with requested bytes that node p listens to.
Part(p, f) == f.pci \in {"SF", "FF", "CF"} /\ f.src = Peer(p)

First(p, f) == f.pci = "FF" /\ f.src = Peer(p)

\* The buffer of a reception holds what was sent, without a gap.
Gapless(r) ==
    \A k \in DOMAIN r.data : r.data[k] = <<r.data[1][1], IF k = 1 THEN 0 ELSE 6 + 7 * (k - 2)>>

\* The bytes from at on are not before those the reception waits for, and behind
\* them if some are missing already.
Ahead(r, at) == r.index <= at /\ (~Gapless(r) => r.index < at)

\* Node p has begun to receive service s and is not further than at.
Receiving(p, s, at) ==
    /\ rx[p].data # <<>>
    /\ rx[p].data[1] = <<s, 0>>
    /\ rx[p].status # "IDLE" => Ahead(rx[p], at)

Waiting(m) == tx[m].status = "WAITING_FOR_FLOW_CONTROL" /\ ~tx[m].expired

\* The frames under way and the transmissions are those of services.
FormInv ==
    /\ \A p \in Nodes : \A f \in Under(p) : Made(f)
    /\ \A m \in Nodes : \A s \in ToSet(txQueue[m]) : Source[s] = m /\ s \notin Events
    /\ \A m \in Nodes : tx[m].status # "IDLE" =>
          Source[tx[m].sv] = m /\ tx[m].sv \notin Events /\ Size[tx[m].sv] > 7

\* SetNodeIdentifiers is under way.
Switching(p) == pc[p] \in {"identified", "cleared"}

\* The filter and what has passed it are those of the server, but for the time of a
\* change of the server and for a frame that has passed the filter meanwhile.
FilterInv ==
    /\ \A p \in Nodes : ~Switching(p) => filter[p] = server[p]
    /\ ~faults.stray =>
          \A p \in Nodes : pc[p] # "identified" => \A f \in ToSet(canQueue[p]) : f.src = server[p]
    /\ faults.switch = 0 => server = Partner /\ ~faults.stray /\ \A p \in Nodes : ~Switching(p)

\* A burst was interrupted by a call that failed.
InterruptInv ==
    \A m \in Nodes : tx[m].status = "MORE_CONSECUTIVE_FRAMES_TO_SEND" => faults.fail # 0

MadeInv == FormInv /\ FilterInv /\ InterruptInv

\* The service a node is receiving.
RxInv ==
    \A p \in Nodes : rx[p].status # "IDLE" =>
        LET s == rx[p].data[1][1]
        IN  /\ s \in Sendable \ Events
            /\ rx[p].data[1] = <<s, 0>>
            /\ Source[s] = Peer(p)
            /\ Size[s] > 7
            /\ rx[p].size = Size[s]

\* Consecutive frames are those of the service that their receiver has begun with.
CfInv ==
    \A p \in Nodes : \A f \in Under(p) :
        f.pci = "CF" => f.src = Peer(p) /\ Receiving(p, f.sv, f.at)

\* Nothing is sent behind a first frame, and consecutive frames keep their order.
PairInv ==
    \A p \in Nodes : \A f, g \in Under(p) :
        Follows(Coming(p), f, g) /\ Part(p, f) /\ Part(p, g) =>
            /\ f.pci # "FF"
            /\ f.pci = "CF" /\ g.pci = "CF" => f.at < g.at

\* A node that waits for flow control waits for one thing: its first frame is under
\* way, or the flow control for it is, or nothing any more.
FirstInv ==
    \A p \in Nodes : \A f \in Under(p) :
        First(p, f) =>
            /\ Waiting(f.src)
            /\ f.sv = tx[f.src].sv
            /\ \A q \in Nodes : q # p => \A g \in Under(q) : First(q, g) => g.src # f.src

AwaitedBy(m, f) ==
    /\ Peer(f.src) = m
    /\ Waiting(m)
    /\ rx[f.src].status # "IDLE"
    /\ rx[f.src].index = 6
    /\ rx[f.src].data = << <<tx[m].sv, 0>> >>
    /\ \A g \in Under(f.src) : ~Part(f.src, g)
    /\ \A q \in Nodes : \A g \in Under(q) : First(q, g) => g.src # m
    /\ \A g \in Under(m) : g.pci = "FC" => ~Follows(Coming(m), f, g)

FcInv == \A m \in Nodes : \A f \in Under(m) : f.pci = "FC" => AwaitedBy(m, f)

\* A node that has been interrupted goes on where its receiver is.
GoesOn(m, p) ==
    /\ Peer(p) = m
    /\ Receiving(p, tx[m].sv, tx[m].index)
    /\ \A f \in Under(p) : Part(p, f) => f.pci = "CF" /\ f.at < tx[m].index

MoreInv ==
    \A m \in Nodes :
        tx[m].status = "MORE_CONSECUTIVE_FRAMES_TO_SEND" => GoesOn(m, server[m])

WholeInv ==
    \A p \in Nodes : \A i \in DOMAIN received[p] :
        \E s \in Sendable : Source[s] = Peer(p) /\ received[p][i] = Whole(s)

FlowInv ==
    MadeInv /\ RxInv /\ CfInv /\ PairInv /\ FirstInv /\ FcInv /\ MoreInv /\ WholeInv

-----------------------------------------------------------------------------
(* What a step does to the frames under way.                                *)

\* A step sends the frames fs to node to, and for the rest only takes frames away.
Sends(to, fs) ==
    \A p \in Nodes :
        /\ \A f \in Under(p)' : f \in Under(p) \/ (p = to /\ f \in ToSet(fs))
        /\ \A f, g : Follows(Coming(p)', f, g) =>
              \/ Follows(Coming(p), f, g)
              \/ p = to /\ g \in ToSet(fs) /\ (f \in Under(p) \/ Follows(fs, f, g))

SendsNothing ==
    \A p \in Nodes :
        /\ \A f \in Under(p)' : f \in Under(p)
        /\ \A f, g : Follows(Coming(p)', f, g) => Follows(Coming(p), f, g)

LEMMA ComingType ==
    ASSUME TypeOK, NEW p \in Nodes
    PROVE  /\ canQueue[p] \in Seq(Frames) /\ wire[p] \in Seq(Frames) /\ Coming(p) \in Seq(Frames)
           /\ Under(p) \subseteq Frames
           /\ ToSet(canQueue[p]) \subseteq Under(p)
  <1>1. canQueue[p] \in Seq(Frames) /\ wire[p] \in Seq(Frames)
    BY DEF TypeOK
  <1>2. Coming(p) \in Seq(Frames)
    BY <1>1 DEF Coming
  <1>3. Under(p) \subseteq Frames
    <2> DEFINE c == Coming(p)
    <2>1. \A i \in DOMAIN c : c[i] \in Frames
      BY <1>2
    <2> QED
      BY <2>1 DEF Under, ToSet
  <1>4. ToSet(canQueue[p]) \subseteq Under(p)
    BY <1>1, ToSetConcat DEF Under, Coming
  <1> QED
    BY <1>1, <1>2, <1>3, <1>4

LEMMA AddedBehind ==
    ASSUME NEW a \in Seq(Frames), NEW fs \in Seq(Frames)
    PROVE  /\ \A f \in ToSet(a \o fs) : f \in ToSet(a) \/ f \in ToSet(fs)
           /\ \A f, g : Follows(a \o fs, f, g) =>
                 \/ Follows(a, f, g)
                 \/ g \in ToSet(fs) /\ (f \in ToSet(a) \/ Follows(fs, f, g))
  BY ToSetConcat, FollowsConcat

\* Frames are sent: what each node is still to read.
LEMMA SendComing ==
    ASSUME TypeOK, NEW to \in Nodes, NEW fs \in Seq(Frames),
           UNCHANGED canQueue, wire' = [wire EXCEPT ![to] = @ \o fs]
    PROVE  \A p \in Nodes : Coming(p)' = IF p = to THEN Coming(p) \o fs ELSE Coming(p)
  <1> SUFFICES ASSUME NEW p \in Nodes
               PROVE  Coming(p)' = IF p = to THEN Coming(p) \o fs ELSE Coming(p)
    OBVIOUS
  <1>1. wire'[p] = IF p = to THEN wire[p] \o fs ELSE wire[p]
    BY DEF TypeOK
  <1>2. CASE p = to
    <2>1. ASSUME NEW a \in Seq(Frames), NEW b \in Seq(Frames)
          PROVE  a \o (b \o fs) = (a \o b) \o fs
      OBVIOUS
    <2>2. canQueue[p] \o (wire[p] \o fs) = (canQueue[p] \o wire[p]) \o fs
      BY <2>1, ComingType
    <2> QED
      BY <1>1, <1>2, <2>2 DEF Coming
  <1>3. CASE p # to
    <2>1. canQueue'[p] = canQueue[p] /\ wire'[p] = wire[p]
      BY <1>1, <1>3
    <2>2. Coming(p)' = canQueue'[p] \o wire'[p] /\ Coming(p) = canQueue[p] \o wire[p]
      BY DEF Coming
    <2>3. Coming(p)' = Coming(p)
      BY <2>1, <2>2
    <2> QED
      BY <1>3, <2>3
  <1> QED
    BY <1>2, <1>3

LEMMA SendFlow ==
    ASSUME TypeOK, NEW to \in Nodes, NEW fs \in Seq(Frames),
           UNCHANGED canQueue, wire' = [wire EXCEPT ![to] = @ \o fs]
    PROVE  Sends(to, fs)
  <1>1. \A p \in Nodes : Coming(p)' = IF p = to THEN Coming(p) \o fs ELSE Coming(p)
    BY SendComing
  <1> SUFFICES ASSUME NEW p \in Nodes
               PROVE  /\ \A f \in Under(p)' : f \in Under(p) \/ (p = to /\ f \in ToSet(fs))
                      /\ \A f, g : Follows(Coming(p)', f, g) =>
                            \/ Follows(Coming(p), f, g)
                            \/ p = to /\ g \in ToSet(fs) /\ (f \in Under(p) \/ Follows(fs, f, g))
    BY DEF Sends
  <1>2. CASE p = to
    BY <1>1, <1>2, ComingType, AddedBehind DEF Under
  <1>3. CASE p # to
    <2>1. Coming(p)' = Coming(p)
      BY <1>1, <1>3
    <2> QED
      BY <2>1 DEF Under
  <1> QED
    BY <1>2, <1>3

\* What is left of it once node n has read its first frame.
Left(n, p) == IF p = n THEN Tail(Coming(n)) ELSE Coming(p)

\* A frame is read, and frames are sent: what each node is still to read.
LEMMA ReadComing ==
    ASSUME TypeOK, NEW n \in Nodes, NEW f0, NEW pcis, ReadFrame(n, f0, pcis),
           NEW to \in Nodes, NEW fs \in Seq(Frames), wire' = [wire EXCEPT ![to] = @ \o fs]
    PROVE  /\ Coming(n) \in Seq(Frames) /\ Coming(n) # <<>> /\ Head(Coming(n)) = f0
           /\ \A p \in Nodes :
                 /\ Left(n, p) \in Seq(Frames)
                 /\ Coming(p)' = IF p = to THEN Left(n, p) \o fs ELSE Left(n, p)
  <1>1. /\ canQueue[n] \in Seq(Frames) /\ canQueue[n] # <<>> /\ f0 = Head(canQueue[n])
        /\ \A p \in Nodes : canQueue'[p] = IF p = n THEN Tail(canQueue[n]) ELSE canQueue[p]
    BY DEF ReadFrame, TypeOK
  <1>2. \A p \in Nodes : wire'[p] = IF p = to THEN wire[p] \o fs ELSE wire[p]
    BY DEF TypeOK
  <1>3. /\ Coming(n) \in Seq(Frames) /\ Coming(n) # <<>> /\ Head(Coming(n)) = f0
        /\ Tail(Coming(n)) = Tail(canQueue[n]) \o wire[n]
    <2> DEFINE c == canQueue[n]
               w == wire[n]
    <2>1. c \in Seq(Frames) /\ w \in Seq(Frames) /\ c # <<>> /\ f0 = Head(c)
      BY <1>1, ComingType
    <2>2. Coming(n) = c \o w
      BY DEF Coming
    <2> HIDE DEF c, w
    <2>3. Tail(c) \o w = Tail(c \o w) /\ Head(c \o w) = Head(c) /\ c \o w # <<>>
      BY <2>1, ConcatTail
    <2> QED
      BY <2>1, <2>2, <2>3, ComingType DEF c, w
  <1> SUFFICES ASSUME NEW p \in Nodes
               PROVE  /\ Left(n, p) \in Seq(Frames)
                      /\ Coming(p)' = IF p = to THEN Left(n, p) \o fs ELSE Left(n, p)
    BY <1>3
  <1> DEFINE c == canQueue'[p]
             w == wire[p]
  <1>4. c \in Seq(Frames) /\ w \in Seq(Frames)
    <2>1. Tail(canQueue[n]) \in Seq(Frames)
      BY <1>1
    <2>2. canQueue[p] \in Seq(Frames) /\ w \in Seq(Frames)
      BY ComingType
    <2> QED
      BY <1>1, <2>1, <2>2
  <1>5. Left(n, p) = c \o w
    BY <1>1, <1>3 DEF Left, Coming
  <1>6. Coming(p)' = c \o wire'[p] /\ wire'[p] = IF p = to THEN w \o fs ELSE w
    BY <1>2 DEF Coming
  <1> HIDE DEF c, w
  <1>7. c \o (w \o fs) = (c \o w) \o fs /\ c \o w \in Seq(Frames)
    BY <1>4, Assoc
  <1> QED
    BY <1>5, <1>6, <1>7

\* A frame is read, and frames are sent.
LEMMA ReadSendFlow ==
    ASSUME TypeOK, NEW n \in Nodes, NEW f0, NEW pcis, ReadFrame(n, f0, pcis),
           NEW to \in Nodes, NEW fs \in Seq(Frames), wire' = [wire EXCEPT ![to] = @ \o fs]
    PROVE  /\ Sends(to, fs)
           /\ \A f \in Under(n)' : Follows(Coming(n), f0, f) \/ (n = to /\ f \in ToSet(fs))
  <1>1. /\ Coming(n) \in Seq(Frames) /\ Coming(n) # <<>> /\ Head(Coming(n)) = f0
        /\ \A p \in Nodes :
              /\ Left(n, p) \in Seq(Frames)
              /\ Coming(p)' = IF p = to THEN Left(n, p) \o fs ELSE Left(n, p)
    BY ReadComing
  <1>2. ASSUME NEW p \in Nodes
        PROVE  /\ \A f \in ToSet(Left(n, p)) : f \in Under(p)
               /\ \A f, g : Follows(Left(n, p), f, g) => Follows(Coming(p), f, g)
               /\ p = n => \A f \in ToSet(Left(n, p)) : Follows(Coming(p), f0, f)
    <2>1. CASE p = n
      <3>1. Left(n, p) = Tail(Coming(p))
        BY <2>1 DEF Left
      <3> QED
        BY <1>1, <2>1, <3>1, FollowsTail DEF Under
    <2>2. CASE p # n
      BY <2>2 DEF Left, Under
    <2> QED
      BY <2>1, <2>2
  <1>3. ASSUME NEW p \in Nodes
        PROVE  /\ \A f \in Under(p)' : f \in ToSet(Left(n, p)) \/ (p = to /\ f \in ToSet(fs))
               /\ \A f, g : Follows(Coming(p)', f, g) =>
                     \/ Follows(Left(n, p), f, g)
                     \/ /\ p = to /\ g \in ToSet(fs)
                        /\ f \in ToSet(Left(n, p)) \/ Follows(fs, f, g)
    BY <1>1, AddedBehind DEF Under
  <1>4. Sends(to, fs)
    BY <1>2, <1>3 DEF Sends
  <1> QED
    BY <1>2, <1>3, <1>4

LEMMA ReadFlow ==
    ASSUME TypeOK, NEW n \in Nodes, NEW f0, NEW pcis, ReadFrame(n, f0, pcis), UNCHANGED wire
    PROVE  /\ SendsNothing
           /\ \A f \in Under(n)' : Follows(Coming(n), f0, f)
  <1>1. <<>> \in Seq(Frames) /\ ToSet(<<>>) = {}
    BY DEF ToSet
  <1>2. wire[n] \o <<>> = wire[n]
    BY ComingType
  <1>3. wire' = [wire EXCEPT ![n] = @ \o <<>>]
    BY <1>2 DEF TypeOK
  <1>4. /\ Sends(n, <<>>)
        /\ \A f \in Under(n)' : Follows(Coming(n), f0, f) \/ (n = n /\ f \in ToSet(<<>>))
    BY <1>1, <1>3, ReadSendFlow
  <1> QED
    BY <1>1, <1>4 DEF Sends, SendsNothing

LEMMA ReadFirst ==
    ASSUME TypeOK, NEW n \in Nodes, NEW f0, NEW pcis, ReadFrame(n, f0, pcis)
    PROVE  f0 \in Frames /\ f0 \in Under(n) /\ f0 \in ToSet(canQueue[n]) /\ f0.pci \in pcis
  <1>1. /\ canQueue[n] \in Seq(Frames) /\ canQueue[n] # <<>> /\ f0 = Head(canQueue[n])
        /\ f0.pci \in pcis
    BY DEF ReadFrame, TypeOK
  <1>2. f0 \in ToSet(canQueue[n])
    BY <1>1, FollowsTail
  <1> QED
    BY <1>1, <1>2, ComingType

\* The dispatcher reads a frame, or a frame is lost: what each node is still to read.
LEMMA TakeComing ==
    ASSUME TypeOK, NEW n \in Nodes, wire[n] # <<>>, wire' = [wire EXCEPT ![n] = Tail(@)],
           \/ UNCHANGED canQueue
           \/ canQueue' = [canQueue EXCEPT ![n] = Append(@, Head(wire[n]))]
    PROVE  /\ \A p \in Nodes : p # n => Coming(p)' = Coming(p)
           /\ \/ Coming(n)' = Coming(n)
              \/ UNCHANGED canQueue /\ Coming(n)' = canQueue[n] \o Tail(wire[n])
  <1>1. \A p \in Nodes : p # n => Coming(p)' = Coming(p)
    BY DEF TypeOK, Coming
  <1>2. CASE UNCHANGED canQueue
    <2>1. Coming(n)' = canQueue[n] \o Tail(wire[n])
      BY <1>2 DEF TypeOK, Coming
    <2> QED
      BY <1>1, <1>2, <2>1
  <1>3. CASE canQueue' = [canQueue EXCEPT ![n] = Append(@, Head(wire[n]))]
    <2>1. Coming(n)' = Append(canQueue[n], Head(wire[n])) \o Tail(wire[n])
      BY <1>3 DEF TypeOK, Coming
    <2>2. Append(canQueue[n], Head(wire[n])) \o Tail(wire[n]) = canQueue[n] \o wire[n]
      BY ComingType, MoveHead
    <2>3. Coming(n)' = Coming(n)
      BY <2>1, <2>2 DEF Coming
    <2> QED
      BY <1>1, <2>3
  <1> QED
    BY <1>2, <1>3

LEMMA TakeFlow ==
    ASSUME TypeOK, NEW n \in Nodes, wire[n] # <<>>, wire' = [wire EXCEPT ![n] = Tail(@)],
           \/ UNCHANGED canQueue
           \/ canQueue' = [canQueue EXCEPT ![n] = Append(@, Head(wire[n]))]
    PROVE  SendsNothing
  <1> SUFFICES ASSUME NEW p \in Nodes
               PROVE  /\ \A f \in Under(p)' : f \in Under(p)
                      /\ \A f, g : Follows(Coming(p)', f, g) => Follows(Coming(p), f, g)
    BY DEF SendsNothing
  <1>1. CASE Coming(p)' = Coming(p)
    BY <1>1 DEF Under
  <1>2. CASE p = n /\ Coming(p)' = canQueue[p] \o Tail(wire[p])
    BY <1>2, ComingType, FollowsRemoved DEF Coming, Under
  <1> QED
    BY <1>1, <1>2, TakeComing

\* The queue of a node is cleared.
LEMMA ClearFlow ==
    ASSUME TypeOK, NEW n \in Nodes, UNCHANGED wire, canQueue' = [canQueue EXCEPT ![n] = <<>>]
    PROVE  SendsNothing
  <1> SUFFICES ASSUME NEW p \in Nodes
               PROVE  /\ \A f \in Under(p)' : f \in Under(p)
                      /\ \A f, g : Follows(Coming(p)', f, g) => Follows(Coming(p), f, g)
    BY DEF SendsNothing
  <1>1. CASE p # n
    BY <1>1 DEF TypeOK, Coming, Under
  <1>2. CASE p = n
    <2>1. canQueue'[p] = <<>>
      BY <1>2 DEF TypeOK
    <2>2. Coming(p)' = wire[p]
      <3>1. wire[p] \in Seq(Frames)
        BY ComingType
      <3>2. <<>> \o wire[p] = wire[p]
        BY <3>1
      <3> QED
        BY <1>2, <2>1, <3>2 DEF Coming
    <2> QED
      BY <2>2, ComingType, FollowsBehind DEF Coming, Under
  <1> QED
    BY <1>1, <1>2

-----------------------------------------------------------------------------
(* Steps that send nothing and change no state machine.                     *)

LinkInv == RxInv /\ CfInv /\ PairInv /\ FirstInv /\ FcInv /\ MoreInv

LEMMA SamePeers ==
    ASSUME NEW p, NEW f
    PROVE  Peer(p)' = Peer(p) /\ (Part(p, f)' <=> Part(p, f)) /\ (First(p, f)' <=> First(p, f))
  OBVIOUS

LEMMA FrameSource ==
    ASSUME TypeOK, NEW p \in Nodes, NEW f \in Under(p)
    PROVE  /\ f \in Frames /\ f.src \in Nodes
           /\ f.pci # "FC" => f.sv \in Sendable /\ f.sv \in Services
  BY ComingType DEF Frames, Sendable

LEMMA KeptLinks ==
    ASSUME TypeOK, LinkInv, SendsNothing, UNCHANGED <<tx, rx>>,
           \/ server' = server
           \/ \A m \in Nodes : tx[m].status # "MORE_CONSECUTIVE_FRAMES_TO_SEND"
    PROVE  LinkInv'
  <1> USE DEF SendsNothing, LinkInv
  <1>1. RxInv'
    BY DEF RxInv
  <1>2. CfInv'
    BY DEF CfInv, Receiving
  <1>3. PairInv'
    BY DEF PairInv
  <1>4. FirstInv'
    BY DEF FirstInv, Waiting
  <1>5. FcInv'
    BY FrameSource DEF FcInv, AwaitedBy, Waiting
  <1>6. MoreInv'
    <2>1. \A m \in Nodes : server[m] \in Nodes
      BY DEF TypeOK
    <2> QED
      BY <2>1 DEF MoreInv, GoesOn, Receiving
  <1> QED
    BY <1>1, <1>2, <1>3, <1>4, <1>5, <1>6

-----------------------------------------------------------------------------
(* Frames are received.                                                     *)

LEMMA FollowsIsUnder ==
    ASSUME NEW p, NEW f, NEW g, Follows(Coming(p), f, g)
    PROVE  f \in Under(p) /\ g \in Under(p)
  BY DEF Follows, Under, ToSet

\* A node that reads its queue hears its server, and of the services those of its peer.
LEMMA Heard ==
    ASSUME Ordinary, TypeOK, MadeInv, StaysApart, NEW n \in Nodes, pc[n] = "rx",
           NEW f \in ToSet(canQueue[n])
    PROVE  f.src = server[n] /\ (f.pci # "FC" => f.src = Peer(n))
  <1>1. f.src = server[n] /\ f \in Under(n) /\ Made(f)
    <2>1. ~faults.stray
      BY DEF MadeInv, FilterInv, StaysApart, Timely, Announced
    <2> QED
      BY <2>1, ComingType DEF MadeInv, FormInv, FilterInv
  <1>2. ASSUME f.pci # "FC", MaxSwitch = 0 PROVE f.src = Peer(n)
    <2>1. faults.switch = 0
      BY <1>2 DEF TypeOK, Faults
    <2> QED
      BY <1>1, <1>2, <2>1 DEF MadeInv, FilterInv, Peer
  <1>3. ASSUME f.pci # "FC", MaxSwitch # 0 PROVE f.src = Peer(n)
    <2>1. \E m \in Nodes : \A s \in Services : Source[s] = m
      BY <1>3 DEF Ordinary
    <2>2. \A s \in Services : Source[s] = Peer(n)
      BY <1>3, <2>1 DEF Peer
    <2>3. f.sv \in Services /\ f.src = Source[f.sv]
      BY <1>1, <1>3, FrameSource DEF Made
    <2> QED
      BY <2>2, <2>3
  <1> QED
    BY <1>1, <1>2, <1>3

\* What a first frame does to the reception, and what answers it.
LEMMA FirstReceived ==
    ASSUME Ordinary, IInv, MadeInv, RxInv, StaysApart, NEW n \in Nodes,
           HandleIncomingFirstFrame(n), NEW f0, f0 = Head(canQueue[n])
    PROVE  /\ RxInv'
           /\ rx' \in [Nodes -> Receptions]
           /\ \A k \in Nodes : k # n => rx'[k] = rx[k]
           /\ rx'[n].index = 6 /\ rx'[n].data = << <<f0.sv, 0>> >>
           /\ \E fs \in Seq(Frames) :
                 /\ wire' = [wire EXCEPT ![server[n]] = @ \o fs]
                 /\ \A f \in ToSet(fs) : f.pci = "FC" /\ f.src = n
  <1> DEFINE status(failed) == IF failed THEN "IDLE" ELSE "WAITING_FOR_CONSECUTIVE_FRAME"
             sent(failed) == IF failed THEN <<>> ELSE <<FlowControl(n)>>
  <1>1. PICK failed \in BOOLEAN :
            /\ CanSend(n, sent(failed), failed)
            /\ rx' = [rx EXCEPT ![n] = StartReception(rx[n], f0, status(failed))]
    BY DEF HandleIncomingFirstFrame
  <1> DEFINE fs == sent(failed)
  <1>2. TypeOK /\ ReadFrame(n, f0, {"FF"}) /\ pc[n] = "rx" /\ rx \in [Nodes -> Receptions]
    BY DEF HandleIncomingFirstFrame, IInv, ReadFrame, TypeOK
  <1>3. wire' = [wire EXCEPT ![server[n]] = @ \o fs]
    BY <1>1 DEF CanSend
  <1>4. /\ rx'[n].size = f0.size /\ rx'[n].index = 6 /\ rx'[n].data = << <<f0.sv, f0.at>> >>
        /\ \A k \in Nodes : k # n => rx'[k] = rx[k]
    BY <1>1, <1>2 DEF StartReception
  <1>5. fs \in Seq(Frames) /\ \A g \in ToSet(fs) : g.pci = "FC" /\ g.src = n
    <2>1. CASE failed
      BY <2>1 DEF ToSet
    <2>2. CASE ~failed
      <3>1. /\ fs = <<FlowControl(n)>> /\ FlowControl(n) \in Frames
            /\ FlowControl(n).pci = "FC" /\ FlowControl(n).src = n
        BY <2>2, FlowControlType DEF FlowControl
      <3> HIDE DEF fs, sent
      <3> QED
        BY <2>2, <3>1 DEF ToSet
    <2> QED
      BY <2>1, <2>2
  <1> HIDE DEF fs, sent, status
  <1>6. f0 \in Frames /\ f0 \in Under(n) /\ f0 \in ToSet(canQueue[n]) /\ f0.pci = "FF"
    BY <1>2, ReadFirst
  <1>7. f0.src = Peer(n) /\ Made(f0)
    BY <1>2, <1>6, Heard DEF MadeInv, FormInv
  <1>8. /\ f0.sv \in Sendable \ Events /\ f0.at = 0 /\ Source[f0.sv] = Peer(n)
        /\ f0.size = Size[f0.sv] /\ Size[f0.sv] > 7
    BY <1>2, <1>6, <1>7, FrameSource DEF Made
  <1>9. rx'[n].data[1] = <<f0.sv, 0>> /\ rx'[n].data = << <<f0.sv, 0>> >>
    BY <1>4, <1>8
  <1>10. RxInv'
    BY <1>4, <1>8, <1>9 DEF RxInv
  <1>11. rx' \in [Nodes -> Receptions]
    <2>1. IInv'
      BY FirstFrameStep
    <2> QED
      BY <2>1 DEF IInv, TypeOK
  <1> QED
    BY <1>3, <1>4, <1>5, <1>9, <1>10, <1>11

LEMMA FirstFrameLinks ==
    ASSUME Ordinary, IInv, MadeInv, LinkInv, Timely, NEW n \in Nodes,
           HandleIncomingFirstFrame(n)
    PROVE  LinkInv'
  <1> DEFINE f0 == Head(canQueue[n])
             m == server[n]
             status(failed) == IF failed THEN "IDLE" ELSE "WAITING_FOR_CONSECUTIVE_FRAME"
             sent(failed) == IF failed THEN <<>> ELSE <<FlowControl(n)>>
  <1>1. PICK failed \in BOOLEAN :
            /\ CanSend(n, sent(failed), failed)
            /\ rx' = [rx EXCEPT ![n] = StartReception(rx[n], f0, status(failed))]
    BY DEF HandleIncomingFirstFrame
  <1> DEFINE fs == sent(failed)
  <1>2. TypeOK /\ ReadFrame(n, f0, {"FF"}) /\ tx' = tx /\ server' = server
    BY DEF HandleIncomingFirstFrame, IInv, ReadFrame
  <1>3. wire' = [wire EXCEPT ![m] = @ \o fs] /\ m \in Nodes
    BY <1>1, <1>2 DEF CanSend, TypeOK
  <1>4. /\ rx'[n].status = status(failed)
        /\ rx'[n].size = f0.size /\ rx'[n].index = 6 /\ rx'[n].data = << <<f0.sv, f0.at>> >>
        /\ \A k \in Nodes : k # n => rx'[k] = rx[k]
    BY <1>1, <1>2 DEF TypeOK, StartReception
  <1>5. /\ fs \in Seq(Frames)
        /\ \A g \in ToSet(fs) : g.pci = "FC" /\ g.src = n /\ ~failed
        /\ \A g, h : ~Follows(fs, g, h)
    <2>1. CASE failed
      BY <2>1 DEF ToSet, Follows
    <2>2. CASE ~failed
      <3>1. /\ fs = <<FlowControl(n)>> /\ FlowControl(n) \in Frames
            /\ FlowControl(n).pci = "FC" /\ FlowControl(n).src = n
        BY <2>2, FlowControlType DEF FlowControl
      <3> HIDE DEF fs, sent
      <3> QED
        BY <2>2, <3>1 DEF ToSet, Follows
    <2> QED
      BY <2>1, <2>2
  <1>6. ~failed => status(failed) # "IDLE"
    OBVIOUS
  <1>0. f0 = Head(canQueue[n])
    OBVIOUS
  <1> HIDE DEF f0, fs, sent, status
  <1>7. /\ Sends(m, fs)
        /\ \A f \in Under(n)' : Follows(Coming(n), f0, f) \/ (n = m /\ f \in ToSet(fs))
    BY <1>2, <1>3, <1>5, ReadSendFlow
  <1>8. f0 \in Frames /\ f0 \in Under(n) /\ f0 \in ToSet(canQueue[n]) /\ f0.pci \in {"FF"}
    BY <1>2, ReadFirst
  <1>9. /\ f0.pci = "FF" /\ f0.src = m /\ Peer(n) = m /\ Made(f0)
        /\ Part(n, f0) /\ First(n, f0)
    BY <1>2, <1>8, Heard DEF MadeInv, FormInv, Part, First, ReadFrame, StaysApart
  <1>10. Waiting(m) /\ tx[m].sv = f0.sv
    BY <1>8, <1>9 DEF LinkInv, FirstInv
  <1>11. \A f \in Under(n)' : ~Part(n, f)
    BY <1>5, <1>7, <1>8, <1>9, FollowsIsUnder DEF LinkInv, PairInv, Part
  <1>12. \A q \in Nodes : \A g \in Under(q)' : First(q, g) => g \in Under(q) /\ g.src # m
    <2> SUFFICES ASSUME NEW q \in Nodes, NEW g \in Under(q)', First(q, g)
                 PROVE  g \in Under(q) /\ g.src # m
      OBVIOUS
    <2>1. g \in Under(q)
      BY <1>5, <1>7 DEF Sends, First
    <2>2. q # n
      BY <1>11 DEF First, Part
    <2> QED
      BY <1>8, <1>9, <2>1, <2>2 DEF LinkInv, FirstInv
  <1>13. \A g \in Under(m) : g.pci # "FC"
    BY <1>3, <1>8, <1>9 DEF LinkInv, FcInv, AwaitedBy
  <1>14. \A q \in Nodes : \A g \in Under(q)' : g.pci # "FC" => g \in Under(q)
    BY <1>5, <1>7 DEF Sends
  <1>15. RxInv'
    BY <1>0, FirstReceived DEF LinkInv, StaysApart
  <1>16. CfInv'
    <2> SUFFICES ASSUME NEW p \in Nodes, NEW f \in Under(p)', f.pci = "CF"
                 PROVE  f.src = Peer(p) /\ Receiving(p, f.sv, f.at)'
      BY DEF CfInv
    <2>1. f \in Under(p) /\ f.src = Peer(p) /\ Receiving(p, f.sv, f.at)
      BY <1>14 DEF LinkInv, CfInv
    <2>2. p # n
      BY <1>11, <2>1 DEF Part
    <2> QED
      BY <1>4, <2>1, <2>2 DEF Receiving
  <1>17. PairInv'
    <2> SUFFICES ASSUME NEW p \in Nodes, NEW f \in Under(p)', NEW g \in Under(p)',
                        Follows(Coming(p)', f, g), Part(p, f), Part(p, g)
                 PROVE  f.pci # "FF" /\ (f.pci = "CF" /\ g.pci = "CF" => f.at < g.at)
      BY DEF PairInv
    <2>1. f \in Under(p) /\ g \in Under(p) /\ Follows(Coming(p), f, g)
      BY <1>5, <1>7, <1>14 DEF Sends, Part
    <2> QED
      BY <2>1 DEF LinkInv, PairInv
  <1>18. FirstInv'
    BY <1>2, <1>12 DEF LinkInv, FirstInv, Waiting
  <1>19. FcInv'
    <2> SUFFICES ASSUME NEW k \in Nodes, NEW f \in Under(k)', f.pci = "FC"
                 PROVE  AwaitedBy(k, f)'
      BY DEF FcInv
    <2>1. CASE f \in Under(k)
      <3>1. AwaitedBy(k, f) /\ f.src \in Nodes /\ k # m
        BY <1>2, <1>13, <2>1, FrameSource DEF LinkInv, FcInv
      <3>2. f.src # n
        BY <1>9, <3>1 DEF AwaitedBy
      <3>3. \A g \in Under(f.src)' : Part(f.src, g) => g \in Under(f.src)
        BY <1>14, <3>1 DEF Part
      <3>4. \A g \in Under(k)' : g \in Under(k)
            /\ (Follows(Coming(k)', f, g) => Follows(Coming(k), f, g))
        BY <1>7, <3>1 DEF Sends
      <3>5. Waiting(k)' /\ rx'[f.src] = rx[f.src]
        BY <1>2, <1>4, <3>1, <3>2 DEF AwaitedBy, Waiting
      <3>6. \A q \in Nodes : \A g \in Under(q)' : First(q, g) => g.src # k
        BY <1>12, <3>1 DEF AwaitedBy
      <3> QED
        BY <1>2, <3>1, <3>3, <3>4, <3>5, <3>6 DEF AwaitedBy
    <2>2. CASE f \notin Under(k)
      <3>1. k = m /\ f \in ToSet(fs) /\ f.src = n /\ ~failed
        BY <1>5, <1>7, <2>2 DEF Sends
      <3>2. \A g : ~Follows(Coming(k)', f, g)
        BY <1>5, <1>7, <2>2, FollowsIsUnder DEF Sends
      <3>3. f0.at = 0
        BY <1>9 DEF Made
      <3> QED
        BY <1>2, <1>4, <1>6, <1>9, <1>10, <1>11, <1>12, <3>1, <3>2, <3>3 DEF AwaitedBy, Waiting
    <2> QED
      BY <2>1, <2>2
  <1>20. MoreInv'
    <2> SUFFICES ASSUME NEW k \in Nodes, NEW q \in Nodes, q = server[k],
                        tx[k].status = "MORE_CONSECUTIVE_FRAMES_TO_SEND"
                 PROVE  GoesOn(k, q)'
      BY <1>2 DEF MoreInv, TypeOK
    <2>1. GoesOn(k, q)
      BY DEF LinkInv, MoreInv
    <2>2. q # n
      BY <1>8, <1>9, <2>1 DEF GoesOn
    <2>3. \A f \in Under(q)' : Part(q, f) => f \in Under(q)
      BY <1>14 DEF Part
    <2> QED
      BY <1>2, <1>4, <2>1, <2>2, <2>3 DEF GoesOn, Receiving
  <1> QED
    BY <1>15, <1>16, <1>17, <1>18, <1>19, <1>20 DEF LinkInv

-----------------------------------------------------------------------------
(* A burst of consecutive frames.                                           *)

LEMMA BurstFrames ==
    ASSUME NEW n \in Nodes, NEW s \in Sendable, NEW index \in Nat, index % 7 = 6,
           NEW seq \in 0 .. 15, NEW count \in 0 .. FramesLeft(Size[s], index),
           NEW fs, fs = ConsecutiveFrames(n, s, index, seq, count)
    PROVE  /\ \A f \in ToSet(fs) :
                 /\ f.pci = "CF" /\ f.src = n /\ f.sv = s
                 /\ f.at \in Nat /\ f.at % 7 = 6
                 /\ index <= f.at /\ f.at < index + 7 * count /\ f.at < Size[s]
                 /\ f.dlc = 1 + Least(7, Size[s] - f.at)
           /\ \A f, g : Follows(fs, f, g) => f.at < g.at
  <1> DEFINE at(k) == index + 7 * (k - 1)
  <1>1. Size[s] \in Nat /\ count \in Nat /\ index \in Nat
    BY SendableSize DEF FramesLeft
  <1>2. /\ DOMAIN fs = 1 .. count
        /\ \A k \in 1 .. count :
              fs[k] = [pci |-> "CF", src |-> n, dlc |-> 1 + Least(7, Size[s] - at(k)),
                       sn |-> (seq + k - 1) % 16, size |-> 0, sv |-> s, at |-> at(k)]
    BY DEF ConsecutiveFrames
  <1>3. ASSUME NEW k \in 1 .. count
        PROVE  /\ at(k) \in Nat /\ at(k) % 7 = 6 /\ index <= at(k)
               /\ at(k) < index + 7 * count /\ at(k) < Size[s]
    BY <1>1, <1>3 DEF FramesLeft
  <1>4. \A j, k \in 1 .. count : j < k => at(j) < at(k)
    BY <1>1
  <1> HIDE DEF at
  <1>5. \A f \in ToSet(fs) :
            /\ f.pci = "CF" /\ f.src = n /\ f.sv = s
            /\ f.at \in Nat /\ f.at % 7 = 6
            /\ index <= f.at /\ f.at < index + 7 * count /\ f.at < Size[s]
            /\ f.dlc = 1 + Least(7, Size[s] - f.at)
    BY <1>2, <1>3 DEF ToSet
  <1>6. \A f, g : Follows(fs, f, g) => f.at < g.at
    BY <1>2, <1>4 DEF Follows
  <1> QED
    BY <1>5, <1>6

LEMMA AheadFurther ==
    ASSUME NEW r, NEW a, NEW b, r.index \in Int, a \in Int, b \in Int, a <= b, Ahead(r, a)
    PROVE  Ahead(r, b)
  BY DEF Ahead

\* The transmission t of node n goes on to end with the frames fs.
Burst(n, t, fs, end) ==
    /\ t.index <= end
    /\ wire' = [wire EXCEPT ![server[n]] = @ \o fs]
    /\ \A f \in ToSet(fs) :
          /\ f.pci = "CF" /\ f.src = n /\ f.sv = t.sv
          /\ f.at \in Nat /\ f.at % 7 = 6
          /\ t.index <= f.at /\ f.at < end /\ f.at < Size[t.sv]
          /\ f.dlc = 1 + Least(7, Size[t.sv] - f.at)
    /\ \A f, g : Follows(fs, f, g) => f.at < g.at
    /\ tx'[n].sv = t.sv /\ tx'[n].index = end
    /\ tx'[n].status \in {"IDLE", "MORE_CONSECUTIVE_FRAMES_TO_SEND"}
    /\ \A k \in Nodes : k # n => tx'[k] = tx[k]

\* What m_SendNextConsecutiveFrames sends.
LEMMA SentBurst ==
    ASSUME IInv, NEW n \in Nodes, NEW t \in Transmissions, TxAligned(t), t.status # "IDLE",
           NEW giveUp \in BOOLEAN, SendNextConsecutiveFrames(n, t, giveUp)
    PROVE  \E fs \in Seq(Frames), end \in Nat : Burst(n, t, fs, end)
  <1> DEFINE left == FramesLeft(Size[t.sv], t.index)
             next(sent) == [Advance(t, sent) EXCEPT
                               !.status = IF sent = left \/ giveUp THEN "IDLE"
                                          ELSE "MORE_CONSECUTIVE_FRAMES_TO_SEND"]
  <1>1. PICK sent \in 0 .. left :
            /\ CanSend(n, ConsecutiveFrames(n, t.sv, t.index, t.seq, sent), sent < left)
            /\ tx' = [tx EXCEPT ![n] = next(sent)]
    BY DEF SendNextConsecutiveFrames
  <1> DEFINE fs == ConsecutiveFrames(n, t.sv, t.index, t.seq, sent)
             s == t.sv
             end == t.index + 7 * sent
  <1>2. /\ s \in Sendable /\ t.index \in Nat /\ t.index % 7 = 6 /\ t.seq \in 0 .. 15
    BY DEF TxAligned, Transmissions
  <1>3. left \in Nat /\ sent \in Nat
    BY <1>1, <1>2, SendableSize DEF FramesLeft
  <1>4. /\ next(sent).sv = s /\ next(sent).index = end
        /\ next(sent).status \in {"IDLE", "MORE_CONSECUTIVE_FRAMES_TO_SEND"}
        /\ next(sent).status # "IDLE" => sent # left
    <2> HIDE DEF left
    <2> QED
      BY DEF Advance, Transmissions
  <1>5. /\ tx'[n].sv = s /\ tx'[n].index = end
        /\ tx'[n].status \in {"IDLE", "MORE_CONSECUTIVE_FRAMES_TO_SEND"}
        /\ tx'[n].status # "IDLE" => sent # left
        /\ \A k \in Nodes : k # n => tx'[k] = tx[k]
    <2> HIDE DEF next, left
    <2> QED
      BY <1>1, <1>4 DEF IInv, TypeOK
  <1>6. fs \in Seq(Frames)
    <2> HIDE DEF next
    <2> QED
      BY <1>1, <1>2, ConsecutiveFramesType
  <1>7. /\ \A f \in ToSet(fs) :
              /\ f.pci = "CF" /\ f.src = n /\ f.sv = s
              /\ f.at \in Nat /\ f.at % 7 = 6
              /\ t.index <= f.at /\ f.at < end /\ f.at < Size[s]
              /\ f.dlc = 1 + Least(7, Size[s] - f.at)
        /\ \A f, g : Follows(fs, f, g) => f.at < g.at
    <2>1. /\ sent \in 0 .. FramesLeft(Size[s], t.index)
          /\ fs = ConsecutiveFrames(n, s, t.index, t.seq, sent)
          /\ end = t.index + 7 * sent
      BY <1>1
    <2> HIDE DEF next, left, fs, s, end
    <2>2. /\ \A f \in ToSet(fs) :
                /\ f.pci = "CF" /\ f.src = n /\ f.sv = s
                /\ f.at \in Nat /\ f.at % 7 = 6
                /\ t.index <= f.at /\ f.at < t.index + 7 * sent /\ f.at < Size[s]
                /\ f.dlc = 1 + Least(7, Size[s] - f.at)
          /\ \A f, g : Follows(fs, f, g) => f.at < g.at
      BY <1>2, <2>1, BurstFrames
    <2> QED
      BY <2>1, <2>2
  <1>9. wire' = [wire EXCEPT ![server[n]] = @ \o fs]
    <2> HIDE DEF next, left
    <2> QED
      BY <1>1 DEF CanSend
  <1>10. t.index <= end /\ end \in Nat
    BY <1>2, <1>3
  <1> HIDE DEF left, next, fs, end
  <1> QED
    BY <1>5, <1>6, <1>7, <1>9, <1>10 DEF Burst

\* Node n sends a burst of frames from index on to node p, which is receiving their
\* service; nothing else is under way between the two.
LEMMA BurstLinks ==
    ASSUME IInv, LinkInv, NEW n \in Nodes, NEW p \in Nodes, p = server[n],
           NEW t \in Transmissions, TxAligned(t), t.status # "IDLE",
           NEW giveUp \in BOOLEAN, SendNextConsecutiveFrames(n, t, giveUp),
           UNCHANGED <<rx, server>>,
           \A fs \in Seq(Frames) : wire' = [wire EXCEPT ![p] = @ \o fs] =>
               Sends(p, fs) /\ \A g \in Under(n)' : g.pci # "FC" \/ g \in ToSet(fs),
           Peer(p) = n, Receiving(p, t.sv, t.index),
           \A f \in Under(p)' : f \in Under(p) /\ Part(p, f) => f.pci = "CF" /\ f.at < t.index,
           \A q \in Nodes : \A g \in Under(q) : First(q, g) => g.src # n
    PROVE  LinkInv'
  <1> DEFINE s == t.sv
  <1>1. PICK fs \in Seq(Frames), end \in Nat : Burst(n, t, fs, end)
    BY SentBurst
  <1>2. s \in Sendable /\ t.index \in Nat
    BY DEF TxAligned, Transmissions
  <1>3. /\ tx'[n].sv = s /\ tx'[n].index = end
        /\ tx'[n].status \in {"IDLE", "MORE_CONSECUTIVE_FRAMES_TO_SEND"}
        /\ \A k \in Nodes : k # n => tx'[k] = tx[k]
    BY <1>1 DEF Burst
  <1>4. /\ \A f \in ToSet(fs) :
              /\ f.pci = "CF" /\ f.src = n /\ f.sv = s /\ f.at \in Nat
              /\ t.index <= f.at /\ f.at < end
        /\ \A f, g : Follows(fs, f, g) => f.at < g.at
    BY <1>1 DEF Burst
  <1>6. Sends(p, fs) /\ \A g \in Under(n)' : g.pci # "FC" \/ g \in ToSet(fs)
    BY <1>1 DEF Burst
  <1>7. t.index <= end /\ end \in Nat
    BY <1>1 DEF Burst
  <1>8. \A at \in Nat : t.index <= at => Receiving(p, s, at)'
    <2>1. rx[p].index \in Nat
      BY DEF IInv, TypeOK, Receptions
    <2> QED
      BY <1>2, <2>1, AheadFurther DEF Receiving
  <1>9. \A q \in Nodes : \A g \in Under(q)' : g.pci # "CF" => g \in Under(q)
    BY <1>4, <1>6 DEF Sends
  <1>10. \A q \in Nodes : q # p => \A g \in Under(q)' : g \in Under(q)
    BY <1>6 DEF Sends
  <1>11. RxInv' /\ CfInv'
    <2>1. RxInv'
      BY DEF LinkInv, RxInv
    <2>2. ASSUME NEW q \in Nodes, NEW f \in Under(q)', f.pci = "CF"
          PROVE  f.src = Peer(q) /\ Receiving(q, f.sv, f.at)'
      <3>1. CASE f \in Under(q)
        BY <2>2, <3>1 DEF LinkInv, CfInv, Receiving
      <3>2. CASE f \notin Under(q)
        BY <1>4, <1>6, <1>8, <3>2 DEF Sends
      <3> QED
        BY <3>1, <3>2
    <2> QED
      BY <2>1, <2>2 DEF CfInv
  <1>12. PairInv'
    <2> SUFFICES ASSUME NEW q \in Nodes, NEW f \in Under(q)', NEW g \in Under(q)',
                        Follows(Coming(q)', f, g), Part(q, f), Part(q, g)
                 PROVE  f.pci # "FF" /\ (f.pci = "CF" /\ g.pci = "CF" => f.at < g.at)
      BY DEF PairInv
    <2>1. CASE Follows(Coming(q), f, g)
      BY <2>1, FollowsIsUnder DEF LinkInv, PairInv
    <2>2. CASE ~Follows(Coming(q), f, g)
      <3>1. q = p /\ g \in ToSet(fs) /\ (f \in Under(p) \/ Follows(fs, f, g))
        BY <1>6, <2>2 DEF Sends
      <3>2. CASE Follows(fs, f, g)
        <4>1. f \in ToSet(fs)
          BY <3>2 DEF Follows, ToSet
        <4> QED
          BY <1>4, <3>2, <4>1
      <3>3. CASE f \in Under(p)
        <4>1. f.pci = "CF" /\ f.at < t.index /\ f.at \in Nat
          BY <3>1, <3>3, FrameSource, MaxServiceSizeFact DEF IInv, Frames, Offsets
        <4> QED
          BY <1>2, <1>4, <3>1, <4>1
      <3> QED
        BY <3>1, <3>2, <3>3
    <2> QED
      BY <2>1, <2>2
  <1>13. FirstInv'
    <2> SUFFICES ASSUME NEW q \in Nodes, NEW f \in Under(q)', First(q, f)
                 PROVE  /\ Waiting(f.src)'
                        /\ f.sv = tx'[f.src].sv
                        /\ \A k \in Nodes : k # q =>
                              \A g \in Under(k)' : First(k, g) => g.src # f.src
      BY DEF FirstInv
    <2>1. f \in Under(q) /\ f.src # n /\ f.src \in Nodes
      BY <1>9, FrameSource DEF First, IInv
    <2>2. \A k \in Nodes : \A g \in Under(k)' : First(k, g) => g \in Under(k)
      BY <1>9 DEF First
    <2> QED
      BY <1>3, <2>1, <2>2 DEF LinkInv, FirstInv, Waiting
  <1>14. FcInv'
    <2> SUFFICES ASSUME NEW k \in Nodes, NEW f \in Under(k)', f.pci = "FC"
                 PROVE  AwaitedBy(k, f)'
      BY DEF FcInv
    <2>1. f \in Under(k) /\ k # n
      BY <1>4, <1>6, <1>9
    <2>2. AwaitedBy(k, f) /\ f.src \in Nodes
      BY <2>1, FrameSource DEF LinkInv, FcInv, IInv
    <2>3. \A g \in Under(f.src)' : g \in Under(f.src)
      BY <1>10, <2>1, <2>2 DEF AwaitedBy
    <2>4. \A q \in Nodes : \A g \in Under(q)' : First(q, g) => g.src # k
      BY <1>9, <2>2 DEF AwaitedBy, First
    <2>5. \A g \in Under(k)' : g.pci = "FC" => g \in Under(k) /\ ~Follows(Coming(k)', f, g)
      BY <1>4, <1>6, <1>9, <2>2 DEF AwaitedBy, Sends
    <2> QED
      BY <1>3, <2>1, <2>2, <2>3, <2>4, <2>5 DEF AwaitedBy, Waiting
  <1>15. MoreInv'
    <2> SUFFICES ASSUME NEW k \in Nodes, NEW q \in Nodes, q = server[k],
                        tx'[k].status = "MORE_CONSECUTIVE_FRAMES_TO_SEND"
                 PROVE  GoesOn(k, q)'
      BY DEF MoreInv, IInv, TypeOK
    <2>1. CASE k = n
      <3>1. q = p /\ Receiving(p, s, end)'
        BY <1>7, <1>8, <2>1
      <3>2. ASSUME NEW f \in Under(p)', Part(p, f) PROVE f.pci = "CF" /\ f.at < end
        <4>1. CASE f \in Under(p)
          <5>1. f.pci = "CF" /\ f.at < t.index /\ f.at \in Nat
            BY <3>2, <4>1, FrameSource, MaxServiceSizeFact DEF IInv, Frames, Offsets
          <5> QED
            BY <1>2, <1>7, <5>1
        <4>2. CASE f \notin Under(p)
          BY <1>4, <1>6, <4>2 DEF Sends
        <4> QED
          BY <4>1, <4>2
      <3> QED
        BY <1>3, <2>1, <3>1, <3>2 DEF GoesOn, Receiving
    <2>2. CASE k # n
      <3>1. GoesOn(k, q) /\ tx'[k] = tx[k]
        BY <1>3, <2>2 DEF LinkInv, MoreInv
      <3>2. \A f \in Under(q)' : f \in Under(q)
        BY <1>10, <2>2, <3>1 DEF GoesOn
      <3> QED
        BY <3>1, <3>2 DEF GoesOn, Receiving
    <2> QED
      BY <2>1, <2>2
  <1> QED
    BY <1>11, <1>12, <1>13, <1>14, <1>15 DEF LinkInv

LEMMA FlowControlLinks ==
    ASSUME Ordinary, IInv, MadeInv, LinkInv, Timely, NEW n \in Nodes,
           HandleIncomingFlowControl(n)
    PROVE  LinkInv'
  <1> DEFINE f0 == Head(canQueue[n])
             t == [tx[n] EXCEPT !.expired = FALSE]
             p == server[n]
  <1>1. /\ TypeOK /\ ReadFrame(n, f0, {"FC"}) /\ UNCHANGED <<rx, server>>
        /\ \/ SendNextConsecutiveFrames(n, t, FALSE)
           \/ UNCHANGED <<tx, wire>>
    BY DEF HandleIncomingFlowControl, IInv, ReadFrame
  <1>2. /\ tx[n] \in Transmissions /\ TxAligned(tx[n]) /\ p \in Nodes
        /\ rx[p] \in Receptions
    BY DEF IInv, TypeOK, TxPosition
  <1>3. t \in Transmissions /\ t.sv = tx[n].sv /\ t.index = tx[n].index /\ t.seq = tx[n].seq
        /\ t.status = tx[n].status
    BY <1>2 DEF Transmissions
  <1> HIDE DEF f0, t, p
  <1>4. f0 \in Under(n) /\ f0 \in ToSet(canQueue[n]) /\ f0.pci = "FC"
    BY <1>1, ReadFirst
  <1>5. f0.src = p
    BY <1>1, <1>4, Heard DEF p, ReadFrame, StaysApart
  <1>6. AwaitedBy(n, f0)
    BY <1>4 DEF LinkInv, FcInv
  <1>7. CASE UNCHANGED <<tx, wire>>
    BY <1>1, <1>7, ReadFlow, KeptLinks
  <1>8. CASE SendNextConsecutiveFrames(n, t, FALSE)
    <2>1. tx[n].status = "WAITING_FOR_FLOW_CONTROL" /\ t.index = 6 /\ t.status # "IDLE"
      BY <1>2, <1>3, <1>6 DEF AwaitedBy, Waiting, TxAligned
    <2>2. TxAligned(t)
      BY <1>2, <1>3 DEF TxAligned
    <2>3. Receiving(p, t.sv, t.index)
      <3>1. rx[p].data = << <<t.sv, 0>> >> /\ rx[p].index = 6
        BY <1>3, <1>5, <1>6 DEF AwaitedBy
      <3>2. DOMAIN rx[p].data = {1} /\ rx[p].data[1] = <<t.sv, 0>> /\ rx[p].data # <<>>
        BY <3>1
      <3>3. Gapless(rx[p])
        BY <3>2 DEF Gapless
      <3> QED
        BY <2>1, <3>1, <3>2, <3>3 DEF Receiving, Ahead
    <2>4. ASSUME NEW fs \in Seq(Frames), wire' = [wire EXCEPT ![p] = @ \o fs]
          PROVE  Sends(p, fs) /\ \A g \in Under(n)' : g.pci # "FC" \/ g \in ToSet(fs)
      <3>1. /\ Sends(p, fs)
            /\ \A g \in Under(n)' : Follows(Coming(n), f0, g) \/ (n = p /\ g \in ToSet(fs))
        BY <1>1, <1>2, <2>4, ReadSendFlow
      <3> QED
        BY <1>6, <3>1, FollowsIsUnder DEF AwaitedBy
    <2>5. /\ Peer(p) = n
          /\ \A g \in Under(p) : ~Part(p, g)
          /\ \A q \in Nodes : \A g \in Under(q) : First(q, g) => g.src # n
      BY <1>5, <1>6 DEF AwaitedBy
    <2> QED
      BY <1>1, <1>2, <1>3, <1>8, <2>1, <2>2, <2>3, <2>4, <2>5, BurstLinks DEF p
  <1> QED
    BY <1>1, <1>7, <1>8

LEMMA MoreFramesLinks ==
    ASSUME IInv, LinkInv, NEW n \in Nodes, SendMoreConsecutiveFrames(n)
    PROVE  LinkInv'
  <1> DEFINE p == server[n]
             t == tx[n]
             giveUp == t.expired
  <1>1. /\ TypeOK /\ UNCHANGED <<rx, server, canQueue>>
        /\ t.status = "MORE_CONSECUTIVE_FRAMES_TO_SEND"
        /\ SendNextConsecutiveFrames(n, t, giveUp)
    BY DEF SendMoreConsecutiveFrames, IInv
  <1>2. t \in Transmissions /\ TxAligned(t) /\ p \in Nodes /\ giveUp \in BOOLEAN
    BY DEF IInv, TypeOK, TxPosition, Transmissions
  <1>3. GoesOn(n, p)
    BY <1>1 DEF LinkInv, MoreInv
  <1>4. ~Waiting(n)
    BY <1>1 DEF Waiting
  <1>5. \A g \in Under(n) : g.pci # "FC"
    BY <1>4 DEF LinkInv, FcInv, AwaitedBy
  <1>6. \A q \in Nodes : \A g \in Under(q) : First(q, g) => g.src # n
    BY <1>4 DEF LinkInv, FirstInv
  <1>7. /\ Peer(p) = n /\ Receiving(p, t.sv, t.index)
        /\ \A f \in Under(p) : Part(p, f) => f.pci = "CF" /\ f.at < t.index
    BY <1>3 DEF GoesOn
  <1>8. p = server[n]
    OBVIOUS
  <1> HIDE DEF p, t, giveUp
  <1>9. ASSUME NEW fs \in Seq(Frames), wire' = [wire EXCEPT ![p] = @ \o fs]
        PROVE  Sends(p, fs) /\ \A g \in Under(n)' : g.pci # "FC" \/ g \in ToSet(fs)
    <2>1. Sends(p, fs)
      BY <1>1, <1>2, <1>9, SendFlow
    <2> QED
      BY <1>5, <2>1 DEF Sends
  <1>10. t.status # "IDLE"
    BY <1>1
  <1> QED
    BY <1>1, <1>2, <1>6, <1>7, <1>8, <1>9, <1>10, BurstLinks

-----------------------------------------------------------------------------
(* A consecutive frame is received.                                         *)

LEMMA AlignedSteps ==
    ASSUME NEW a \in Nat, a % 7 = 6
    PROVE  /\ a = 6 + 7 * (a \div 7)
           /\ \A b \in Nat : b % 7 = 6 /\ a < b => a + 7 <= b
  OBVIOUS

\* The piece that follows without a gap.
LEMMA GaplessNext ==
    ASSUME NEW r, NEW r2, NEW s, r.data \in Seq(Pieces), r.index \in Nat, r.index % 7 = 6,
           Len(r.data) = 1 + r.index \div 7, r.data[1] = <<s, 0>>, Gapless(r),
           r2.data = Append(r.data, <<s, r.index>>)
    PROVE  Gapless(r2)
  <1> DEFINE d == r.data
             e == r2.data
             len == Len(d)
             piece(k) == <<s, IF k = 1 THEN 0 ELSE 6 + 7 * (k - 2)>>
  <1>1. /\ len \in Nat /\ len >= 1 /\ DOMAIN d = 1 .. len /\ d[1] = <<s, 0>>
        /\ r.index = 6 + 7 * (len - 1)
    <2>1. r.index = 6 + 7 * (r.index \div 7) /\ r.index \div 7 \in Nat
      BY AlignedSteps
    <2>2. len = 1 + r.index \div 7
      OBVIOUS
    <2>3. len \in Nat /\ DOMAIN d = 1 .. len /\ d[1] = <<s, 0>>
      OBVIOUS
    <2> HIDE DEF len, d
    <2> QED
      BY <2>1, <2>2, <2>3
  <1>2. \A k \in 1 .. len : d[k] = piece(k)
    <2>1. d[1][1] = s
      BY <1>1
    <2>2. \A k \in DOMAIN d : d[k] = <<d[1][1], IF k = 1 THEN 0 ELSE 6 + 7 * (k - 2)>>
      BY DEF Gapless
    <2> HIDE DEF d, len
    <2> QED
      BY <1>1, <2>1, <2>2
  <1>3. /\ DOMAIN e = 1 .. len + 1
        /\ \A k \in 1 .. len : e[k] = d[k]
        /\ e[len + 1] = <<s, r.index>>
    OBVIOUS
  <1>4. ASSUME NEW k, k = len + 1 PROVE piece(k) = <<s, r.index>>
    <2> HIDE DEF d, len
    <2>1. k # 1 /\ 6 + 7 * (k - 2) = r.index
      BY <1>1, <1>4
    <2> QED
      BY <2>1
  <1> HIDE DEF d, e, len, piece
  <1>5. \A k \in 1 .. len + 1 : e[k] = piece(k)
    <2> SUFFICES ASSUME NEW k \in 1 .. len + 1 PROVE e[k] = piece(k)
      OBVIOUS
    <2>1. CASE k \in 1 .. len
      BY <1>2, <1>3, <2>1
    <2>2. CASE k \notin 1 .. len
      <3>1. k = len + 1
        BY <1>1, <2>2
      <3> QED
        BY <1>3, <1>4, <3>1
    <2> QED
      BY <2>1, <2>2
  <1>6. e[1] = <<s, 0>> /\ e[1][1] = s
    BY <1>1, <1>3
  <1>7. \A k \in DOMAIN e : e[k] = <<e[1][1], IF k = 1 THEN 0 ELSE 6 + 7 * (k - 2)>>
    BY <1>3, <1>5, <1>6 DEF piece
  <1> QED
    BY <1>7 DEF Gapless, e

LEMMA AheadNext ==
    ASSUME NEW r, NEW r2, NEW s, r.data \in Seq(Pieces), r.index \in Nat, r.index % 7 = 6,
           Len(r.data) = 1 + r.index \div 7, r.data[1] = <<s, 0>>,
           NEW a \in Nat, a % 7 = 6, Ahead(r, a),
           r2.index = r.index + 7, r2.data = Append(r.data, <<s, a>>),
           NEW b \in Nat, b % 7 = 6, a < b
    PROVE  Ahead(r2, b)
  <1>1. r.index <= a /\ a + 7 <= b /\ (r.index < a => r.index + 7 <= a)
    BY AlignedSteps DEF Ahead
  <1>2. CASE r.index < a
    <2>1. \A i \in Nat : i + 7 <= a => i + 7 < b /\ i + 7 <= b
      BY <1>1
    <2>2. r.index + 7 <= a
      BY <1>1, <1>2
    <2>3. r2.index < b /\ r2.index <= b
      BY <2>1, <2>2
    <2> QED
      BY <2>3 DEF Ahead
  <1>3. CASE r.index = a
    <2>1. Gapless(r)
      BY <1>3 DEF Ahead
    <2>2. Gapless(r2)
      BY <1>3, <2>1, GaplessNext
    <2>3. r2.index <= b
      BY <1>1, <1>3
    <2> QED
      BY <2>2, <2>3 DEF Ahead
  <1>4. r.index < a \/ r.index = a
    BY <1>1, SMTT(30)
  <1> QED
    BY <1>2, <1>3, <1>4, Zenon

\* What a consecutive frame does to the reception.
LEMMA ContinueReception ==
    ASSUME IInv, NEW n \in Nodes, HandleIncomingConsecutiveFrame(n),
           NEW f0, f0 = Head(canQueue[n])
    PROVE  /\ \A k \in Nodes : k # n => rx'[k] = rx[k]
           /\ rx'[n] \in Receptions
           /\ rx'[n].size = rx[n].size
           /\ \/ rx'[n] = rx[n]
              \/ rx'[n].status = "IDLE" /\ rx'[n].data = rx[n].data
              \/ /\ rx[n].status = "WAITING_FOR_CONSECUTIVE_FRAME"
                 /\ rx'[n].index = rx[n].index + 7
                 /\ rx'[n].data = Append(rx[n].data, <<f0.sv, f0.at>>)
  <1>1. rx \in [Nodes -> Receptions] /\ rx' \in [Nodes -> Receptions]
    <2>1. IInv'
      BY ConsecutiveFrameStep
    <2> QED
      BY <2>1 DEF IInv, TypeOK
  <1>2. CASE rx[n].status # "WAITING_FOR_CONSECUTIVE_FRAME"
    BY <1>1, <1>2 DEF HandleIncomingConsecutiveFrame
  <1>3. CASE rx[n].status = "WAITING_FOR_CONSECUTIVE_FRAME"
    <2>1. ContinueTransfer(n, f0, rx[n].status, 0, rx[n].seq, rx[n].seq)
      BY <1>3 DEF HandleIncomingConsecutiveFrame
    <2>2. rx[n] \in Receptions
      BY <1>1
    <2> QED
      BY <1>1, <1>3, <2>1, <2>2 DEF ContinueTransfer, Receptions
  <1> QED
    BY <1>2, <1>3

\* A consecutive frame of the service that is received, and what may follow it.
LEMMA ReceivingNext ==
    ASSUME IInv, MadeInv, NEW n \in Nodes, HandleIncomingConsecutiveFrame(n),
           NEW f0, f0 = Head(canQueue[n]), Receiving(n, f0.sv, f0.at)
    PROVE  /\ \A k \in Nodes : k # n => rx'[k] = rx[k]
           /\ rx'[n].size = rx[n].size /\ rx'[n].data[1] = rx[n].data[1]
           /\ rx'[n].status # "IDLE" => rx[n].status # "IDLE"
           /\ \A s : \A b \in Nat :
                 Receiving(n, s, b) /\ b % 7 = 6 /\ f0.at < b => Receiving(n, s, b)'
  <1> DEFINE r == rx[n]
             r2 == rx'[n]
  <1>1. TypeOK /\ ReadFrame(n, f0, {"CF"}) /\ r \in Receptions /\ RxAligned(r)
    BY DEF HandleIncomingConsecutiveFrame, IInv, TypeOK, RxPosition
  <1>2. /\ \A k \in Nodes : k # n => rx'[k] = rx[k]
        /\ r2 \in Receptions
        /\ r2.size = r.size
        /\ \/ r2 = r
           \/ r2.status = "IDLE" /\ r2.data = r.data
           \/ /\ r.status = "WAITING_FOR_CONSECUTIVE_FRAME"
              /\ r2.index = r.index + 7
              /\ r2.data = Append(r.data, <<f0.sv, f0.at>>)
    BY ContinueReception
  <1>3. /\ r.data # <<>> /\ r.data[1] = <<f0.sv, 0>>
        /\ r.status # "IDLE" => Ahead(r, f0.at)
    BY DEF Receiving
  <1> HIDE DEF r, r2
  <1>4. f0 \in Under(n) /\ f0 \in Frames /\ f0.pci = "CF" /\ f0.at \in Nat
    BY <1>1, ReadFirst, MaxServiceSizeFact DEF Frames, Offsets
  <1>5. f0.at % 7 = 6
    BY <1>4 DEF MadeInv, FormInv, Made
  <1>6. /\ r.data \in Seq(Pieces) /\ r.index \in Nat
        /\ r.status = "IDLE" \/ r.status = "WAITING_FOR_CONSECUTIVE_FRAME"
        /\ r2.status = "IDLE" \/ r2.status = "WAITING_FOR_CONSECUTIVE_FRAME"
    BY <1>1, <1>2 DEF Receptions, RxStatus
  <1>7. r2.data # <<>> /\ r2.data[1] = r.data[1]
    <2>1. ASSUME NEW d \in Seq(Pieces), NEW x \in Pieces, d # <<>>
          PROVE  Append(d, x) # <<>> /\ Append(d, x)[1] = d[1]
      <3>1. Len(d) \in Nat /\ Len(d) > 0
        BY <2>1
      <3>2. Len(Append(d, x)) = Len(d) + 1 /\ \A i \in 1 .. Len(d) : Append(d, x)[i] = d[i]
        BY <2>1
      <3>3. Len(Append(d, x)) > 0
        BY <3>1, <3>2
      <3> HIDE DEF r, r2
      <3> QED
        BY <3>1, <3>2, <3>3
    <2>2. <<f0.sv, f0.at>> \in Pieces
      BY <1>4, FramePiece
    <2> QED
      BY <1>2, <1>3, <1>6, <2>1, <2>2
  <1>8. r2.status # "IDLE" => r.status = "WAITING_FOR_CONSECUTIVE_FRAME"
    BY <1>2, <1>6
  <1>9. ASSUME NEW b \in Nat, b % 7 = 6, f0.at < b, r2.status # "IDLE"
         PROVE  Ahead(r2, b)
    <2>1. r.status = "WAITING_FOR_CONSECUTIVE_FRAME" /\ Ahead(r, f0.at)
      BY <1>3, <1>8, <1>9
    <2>2. r.index % 7 = 6 /\ Len(r.data) = 1 + r.index \div 7
      BY <1>1, <2>1 DEF RxAligned
    <2>3. CASE r2 = r
      BY <1>4, <1>6, <1>9, <2>1, <2>3, AheadFurther
    <2>4. CASE r2.index = r.index + 7 /\ r2.data = Append(r.data, <<f0.sv, f0.at>>)
      BY <1>4, <1>5, <1>3, <1>6, <1>9, <2>1, <2>2, <2>4, AheadNext
    <2> QED
      BY <1>2, <1>9, <2>3, <2>4
  <1>10. ASSUME NEW s, NEW b \in Nat, Receiving(n, s, b), b % 7 = 6, f0.at < b
         PROVE  Receiving(n, s, b)'
    BY <1>7, <1>9, <1>10 DEF Receiving, r, r2
  <1> QED
    BY <1>2, <1>7, <1>8, <1>10 DEF r, r2

LEMMA NextReceived ==
    ASSUME IInv, MadeInv, RxInv, NEW n \in Nodes, HandleIncomingConsecutiveFrame(n),
           NEW f0, f0 = Head(canQueue[n]), Receiving(n, f0.sv, f0.at)
    PROVE  RxInv'
  <1> SUFFICES ASSUME NEW p \in Nodes, rx'[p].status # "IDLE"
               PROVE  LET s == rx'[p].data[1][1]
                      IN  /\ s \in Sendable \ Events
                          /\ rx'[p].data[1] = <<s, 0>>
                          /\ Source[s] = Peer(p)
                          /\ Size[s] > 7
                          /\ rx'[p].size = Size[s]
    BY DEF RxInv
  <1>1. /\ rx[p].status # "IDLE" /\ rx'[p].size = rx[p].size
        /\ rx'[p].data[1] = rx[p].data[1]
    BY ReceivingNext
  <1> QED
    BY <1>1 DEF RxInv

LEMMA ConsecutiveFrameLinks ==
    ASSUME Ordinary, IInv, MadeInv, LinkInv, Timely, NEW n \in Nodes,
           HandleIncomingConsecutiveFrame(n)
    PROVE  LinkInv'
  <1> DEFINE f0 == Head(canQueue[n])
  <1>1. TypeOK /\ ReadFrame(n, f0, {"CF"}) /\ UNCHANGED <<tx, wire, server>>
    BY DEF HandleIncomingConsecutiveFrame, IInv, ReadFrame
  <1>2. f0 = Head(canQueue[n])
    OBVIOUS
  <1> HIDE DEF f0
  <1>3. /\ SendsNothing
        /\ \A f \in Under(n)' : Follows(Coming(n), f0, f)
    BY <1>1, ReadFlow
  <1>4. f0 \in Under(n) /\ f0 \in Frames /\ f0.pci = "CF" /\ f0.at \in Nat
    BY <1>1, ReadFirst, MaxServiceSizeFact DEF Frames, Offsets
  <1>5. f0.src = Peer(n) /\ Receiving(n, f0.sv, f0.at) /\ Part(n, f0)
    BY <1>4 DEF LinkInv, CfInv, Part
  <1>6. /\ \A k \in Nodes : k # n => rx'[k] = rx[k]
        /\ rx'[n].size = rx[n].size /\ rx'[n].data[1] = rx[n].data[1]
        /\ rx'[n].status # "IDLE" => rx[n].status # "IDLE"
        /\ \A s : \A b \in Nat :
              Receiving(n, s, b) /\ b % 7 = 6 /\ f0.at < b => Receiving(n, s, b)'
    BY <1>2, <1>5, ReceivingNext
  <1>11. \A m \in Nodes : \A f \in Under(m) : f.pci = "FC" => f.src # n
    BY <1>4, <1>5 DEF LinkInv, FcInv, AwaitedBy
  <1>12. \A q \in Nodes : \A f \in Under(q)' : f \in Under(q)
    BY <1>3 DEF SendsNothing
  <1>13. RxInv'
    BY <1>2, <1>5, NextReceived DEF LinkInv
  <1>14. CfInv'
    <2> SUFFICES ASSUME NEW p \in Nodes, NEW f \in Under(p)', f.pci = "CF"
                 PROVE  f.src = Peer(p) /\ Receiving(p, f.sv, f.at)'
      BY DEF CfInv
    <2>1. f \in Under(p) /\ f.src = Peer(p) /\ Receiving(p, f.sv, f.at)
      BY <1>12 DEF LinkInv, CfInv
    <2>2. CASE p # n
      BY <1>6, <2>1, <2>2 DEF Receiving
    <2>3. CASE p = n
      <3>1. f.at \in Nat /\ f.at % 7 = 6
        BY <1>1, <2>1, FrameSource, MaxServiceSizeFact
           DEF Frames, Offsets, MadeInv, FormInv, Made
      <3>2. f0.at < f.at
        <4>1. Follows(Coming(n), f0, f) /\ Part(n, f)
          BY <1>3, <2>1, <2>3 DEF Part
        <4> QED
          BY <1>4, <1>5, <2>1, <2>3, <4>1 DEF LinkInv, PairInv
      <3> QED
        BY <1>6, <2>1, <2>3, <3>1, <3>2
    <2> QED
      BY <2>2, <2>3
  <1>15. PairInv'
    BY <1>3 DEF LinkInv, PairInv, SendsNothing
  <1>16. FirstInv'
    BY <1>1, <1>12 DEF LinkInv, FirstInv, Waiting
  <1>17. FcInv'
    <2> SUFFICES ASSUME NEW k \in Nodes, NEW f \in Under(k)', f.pci = "FC"
                 PROVE  AwaitedBy(k, f)'
      BY DEF FcInv
    <2>1. f \in Under(k) /\ AwaitedBy(k, f) /\ f.src \in Nodes /\ f.src # n
      BY <1>1, <1>11, <1>12, FrameSource DEF LinkInv, FcInv
    <2>2. rx'[f.src] = rx[f.src]
      BY <1>6, <2>1
    <2>3. \A g \in Under(k)' : g \in Under(k)
          /\ (Follows(Coming(k)', f, g) => Follows(Coming(k), f, g))
      BY <1>3 DEF SendsNothing
    <2> QED
      BY <1>1, <1>12, <2>1, <2>2, <2>3 DEF AwaitedBy, Waiting
  <1>18. MoreInv'
    <2> SUFFICES ASSUME NEW k \in Nodes, NEW q \in Nodes, q = server[k],
                        tx[k].status = "MORE_CONSECUTIVE_FRAMES_TO_SEND"
                 PROVE  GoesOn(k, q)'
      BY <1>1 DEF MoreInv, TypeOK
    <2>1. GoesOn(k, q)
      BY DEF LinkInv, MoreInv
    <2>2. CASE q # n
      BY <1>1, <1>6, <1>12, <2>1, <2>2 DEF GoesOn, Receiving
    <2>3. CASE q = n
      <3>1. /\ tx[k].index \in Nat /\ tx[k].index % 7 = 6 /\ f0.at < tx[k].index
            /\ Receiving(n, tx[k].sv, tx[k].index)
        BY <1>4, <1>5, <2>1, <2>3
           DEF IInv, TypeOK, Transmissions, TxPosition, TxAligned, GoesOn
      <3>2. Receiving(q, tx[k].sv, tx[k].index)'
        <4>1. ASSUME NEW x, NEW i, x = tx[k].sv, i = tx[k].index PROVE Receiving(n, x, i)'
          BY <1>6, <3>1, <4>1
        <4> QED
          BY <1>1, <2>3, <4>1 DEF Receiving
      <3> QED
        BY <1>1, <1>12, <2>1, <3>2 DEF GoesOn
    <2> QED
      BY <2>2, <2>3
  <1> QED
    BY <1>13, <1>14, <1>15, <1>16, <1>17, <1>18 DEF LinkInv

-----------------------------------------------------------------------------
(* The other steps.                                                         *)

LEMMA UntouchedLinks ==
    ASSUME IInv, LinkInv, UNCHANGED <<tx, rx, wire, canQueue, server>>
    PROVE  LinkInv'
  <1>1. SendsNothing
    BY DEF SendsNothing, Under, Coming
  <1> QED
    BY <1>1, KeptLinks DEF IInv

LEMMA SingleFrameLinks ==
    ASSUME IInv, LinkInv, NEW n \in Nodes, HandleIncomingSingleFrame(n)
    PROVE  LinkInv'
  <1> DEFINE f0 == Head(canQueue[n])
  <1>1. TypeOK /\ ReadFrame(n, f0, {"SF", "OSF"}) /\ UNCHANGED <<tx, rx, wire, server>>
    BY DEF HandleIncomingSingleFrame, IInv, ReadFrame
  <1> HIDE DEF f0
  <1> QED
    BY <1>1, ReadFlow, KeptLinks

\* Nothing is sent or received without flow control.
LEMMA NoMultiFrames ==
    ASSUME Ordinary, IInv, MadeInv, NEW n \in Nodes
    PROVE  ~HandleIncomingOsySpecificMultiFrame(n) /\ ~SendWithoutFlowControl(n)
  <1>1. ASSUME HandleIncomingOsySpecificMultiFrame(n) PROVE FALSE
    <2> DEFINE f0 == Head(canQueue[n])
    <2>1. TypeOK /\ ReadFrame(n, f0, {"OMF"})
      BY <1>1 DEF HandleIncomingOsySpecificMultiFrame, IInv
    <2> HIDE DEF f0
    <2>2. f0 \in Under(n) /\ f0.pci \in {"OMF"}
      BY <2>1, ReadFirst
    <2> QED
      BY <2>2 DEF MadeInv, FormInv, Made, Ordinary
  <1>2. ASSUME SendWithoutFlowControl(n) PROVE FALSE
    BY <1>2 DEF SendWithoutFlowControl, Ordinary
  <1> QED
    BY <1>1, <1>2

\* A node that sends nothing else sends single frames or a first frame.
LEMMA StartLinks ==
    ASSUME IInv, LinkInv, NEW n \in Nodes, NEW p \in Nodes, NEW fs, Sends(p, fs),
           tx[n].status = "IDLE",
           \A f \in ToSet(fs) :
              /\ f.pci \in {"SF", "FF"}
              /\ f.src = n
              /\ f.pci = "FF" => Waiting(n)' /\ f.sv = tx'[n].sv,
           \A f, g : ~Follows(fs, f, g),
           tx'[n].status # "MORE_CONSECUTIVE_FRAMES_TO_SEND",
           \A k \in Nodes : k # n => tx'[k] = tx[k],
           UNCHANGED <<rx, server>>
    PROVE  LinkInv'
  <1>1. \A q \in Nodes : \A f \in Under(q)' : f \in Under(q) \/ (q = p /\ f \in ToSet(fs))
    BY DEF Sends
  <1>2. ~Waiting(n)
    BY DEF Waiting
  <1>3. \A q \in Nodes : \A f \in Under(q) : First(q, f) => f.src # n
    BY <1>2 DEF LinkInv, FirstInv
  <1>4. \A q \in Nodes : \A f \in Under(q)' : f.pci \notin {"SF", "FF"} => f \in Under(q)
    BY <1>1
  <1>5. RxInv'
    BY DEF LinkInv, RxInv
  <1>6. CfInv'
    BY <1>4 DEF LinkInv, CfInv, Receiving
  <1>7. PairInv'
    <2> SUFFICES ASSUME NEW q \in Nodes, NEW f \in Under(q)', NEW g \in Under(q)',
                        Follows(Coming(q)', f, g), Part(q, f), Part(q, g)
                 PROVE  f.pci # "FF" /\ (f.pci = "CF" /\ g.pci = "CF" => f.at < g.at)
      BY DEF PairInv
    <2>1. CASE Follows(Coming(q), f, g)
      BY <2>1, FollowsIsUnder DEF LinkInv, PairInv
    <2>2. CASE ~Follows(Coming(q), f, g)
      <3>1. g \in ToSet(fs) /\ f \in Under(q)
        BY <2>2 DEF Sends
      <3>2. g.src = n /\ g.pci # "CF" /\ f.src = n
        BY <3>1 DEF Part
      <3>3. f.pci # "FF"
        BY <1>3, <3>1, <3>2 DEF Part, First
      <3> QED
        BY <3>2, <3>3
    <2> QED
      BY <2>1, <2>2
  <1>8. FirstInv'
    <2> SUFFICES ASSUME NEW q \in Nodes, NEW f \in Under(q)', First(q, f)
                 PROVE  /\ Waiting(f.src)'
                        /\ f.sv = tx'[f.src].sv
                        /\ \A k \in Nodes : k # q =>
                              \A g \in Under(k)' : First(k, g) => g.src # f.src
      BY DEF FirstInv
    <2>1. CASE f \in Under(q)
      <3>1. /\ Waiting(f.src) /\ f.sv = tx[f.src].sv /\ f.src \in Nodes /\ f.src # n
            /\ \A k \in Nodes : k # q =>
                  \A g \in Under(k) : First(k, g) => g.src # f.src
        BY <1>3, <2>1, FrameSource DEF LinkInv, FirstInv, IInv
      <3> QED
        BY <1>1, <3>1 DEF Waiting
    <2>2. CASE f \notin Under(q)
      <3>1. q = p /\ f \in ToSet(fs) /\ f.src = n /\ f.pci = "FF"
        BY <1>1, <2>2 DEF First
      <3> QED
        BY <1>1, <1>3, <3>1
    <2> QED
      BY <2>1, <2>2
  <1>9. FcInv'
    <2> SUFFICES ASSUME NEW k \in Nodes, NEW f \in Under(k)', f.pci = "FC"
                 PROVE  AwaitedBy(k, f)'
      BY DEF FcInv
    <2>1. f \in Under(k) /\ AwaitedBy(k, f) /\ f.src \in Nodes
      BY <1>4, FrameSource DEF LinkInv, FcInv, IInv
    <2>2. k # n /\ tx'[k] = tx[k] /\ Peer(f.src) = k
      BY <1>2, <2>1 DEF AwaitedBy
    <2>3. \A g \in Under(f.src)' : ~Part(f.src, g)
      BY <1>1, <2>1, <2>2 DEF AwaitedBy, Part
    <2>4. \A q \in Nodes : \A g \in Under(q)' : First(q, g) => g.src # k
      BY <1>1, <2>1, <2>2 DEF AwaitedBy
    <2>5. \A g \in Under(k)' : g.pci = "FC" => ~Follows(Coming(k)', f, g)
      <3>1. ASSUME NEW g \in Under(k)', g.pci = "FC", Follows(Coming(k)', f, g) PROVE FALSE
        <4>1. g \notin ToSet(fs)
          BY <3>1
        <4>2. g \in Under(k) /\ Follows(Coming(k), f, g)
          BY <1>4, <3>1, <4>1 DEF Sends
        <4> QED
          BY <2>1, <3>1, <4>2 DEF AwaitedBy
      <3> QED
        BY <3>1
    <2> QED
      BY <2>1, <2>2, <2>3, <2>4, <2>5 DEF AwaitedBy, Waiting
  <1>10. MoreInv'
    <2> SUFFICES ASSUME NEW k \in Nodes, NEW q \in Nodes, q = server[k],
                        tx'[k].status = "MORE_CONSECUTIVE_FRAMES_TO_SEND"
                 PROVE  GoesOn(k, q)'
      BY DEF MoreInv, IInv, TypeOK
    <2>1. k # n /\ tx'[k] = tx[k] /\ GoesOn(k, q)
      BY DEF LinkInv, MoreInv
    <2>2. \A f \in Under(q)' : Part(q, f) => f \in Under(q)
      BY <1>1, <2>1 DEF GoesOn, Part
    <2> QED
      BY <2>1, <2>2 DEF GoesOn, Receiving
  <1> QED
    BY <1>5, <1>6, <1>7, <1>8, <1>9, <1>10 DEF LinkInv

LEMMA OneFrame ==
    ASSUME NEW f \in Frames
    PROVE  <<f>> \in Seq(Frames) /\ ToSet(<<f>>) = {f} /\ \A g, h : ~Follows(<<f>>, g, h)
  BY DEF ToSet, Follows

LEMMA NoFrame == <<>> \in Seq(Frames) /\ ToSet(<<>>) = {} /\ \A g, h : ~Follows(<<>>, g, h)
  BY DEF ToSet, Follows

\* The frames that the start of a service sends.
LEMMA SentSingleFrame ==
    ASSUME IInv, NEW n \in Nodes, SendSingleFrame(n)
    PROVE  /\ tx[n].status = "IDLE"
           /\ UNCHANGED <<rx, canQueue, server, received>>
           /\ \E s \in Sendable, fs \in Seq(Frames) :
                 /\ TakeFromTxQueue(n, s)
                 /\ Size[s] <= 7
                 /\ tx' = [tx EXCEPT ![n].sv = s]
                 /\ \A f \in ToSet(fs) : f = SingleFrame(n, s)
                 /\ \A g, h : ~Follows(fs, g, h)
                 /\ Sends(server[n], fs)
                 /\ wire' = [wire EXCEPT ![server[n]] = @ \o fs]
  <1>1. PICK s \in Services, failed \in BOOLEAN :
            /\ TakeFromTxQueue(n, s)
            /\ Size[s] <= 7
            /\ tx' = [tx EXCEPT ![n].sv = s]
            /\ CanSend(n, IF failed THEN <<>> ELSE <<SingleFrame(n, s)>>, failed)
            /\ UNCHANGED <<rx, canQueue, server, received>>
    BY DEF SendSingleFrame
  <1>2. TypeOK /\ s \in Sendable /\ server[n] \in Nodes
    BY <1>1, TakenIsSendable DEF IInv, TypeOK
  <1> DEFINE fs == IF failed THEN <<>> ELSE <<SingleFrame(n, s)>>
  <1>3. /\ fs \in Seq(Frames)
        /\ \A f \in ToSet(fs) : f = SingleFrame(n, s)
        /\ \A g, h : ~Follows(fs, g, h)
    BY <1>1, <1>2, FrameTypes, OneFrame, NoFrame
  <1>4. wire' = [wire EXCEPT ![server[n]] = @ \o fs] /\ UNCHANGED canQueue
    BY <1>1 DEF CanSend
  <1>5. tx[n].status = "IDLE"
    BY <1>1 DEF TakeFromTxQueue
  <1> HIDE DEF fs
  <1>6. Sends(server[n], fs)
    BY <1>2, <1>3, <1>4, SendFlow
  <1> QED
    BY <1>1, <1>2, <1>3, <1>4, <1>5, <1>6

LEMMA SentFirstFrame ==
    ASSUME IInv, NEW n \in Nodes, SendFirstFrame(n)
    PROVE  /\ tx[n].status = "IDLE"
           /\ UNCHANGED <<rx, canQueue, server, received>>
           /\ \E s \in Sendable, failed \in BOOLEAN, fs \in Seq(Frames) :
                 /\ TakeFromTxQueue(n, s)
                 /\ Size[s] > 7
                 /\ tx' = [tx EXCEPT ![n] = AwaitFlowControl(s, failed)]
                 /\ fs = IF failed THEN <<>> ELSE <<FirstFrame(n, s)>>
                 /\ \A f \in ToSet(fs) : ~failed /\ f = FirstFrame(n, s)
                 /\ \A g, h : ~Follows(fs, g, h)
                 /\ Sends(server[n], fs)
                 /\ wire' = [wire EXCEPT ![server[n]] = @ \o fs]
  <1>1. PICK s \in Services, failed \in BOOLEAN :
            /\ TakeFromTxQueue(n, s)
            /\ Size[s] > 7
            /\ tx' = [tx EXCEPT ![n] = AwaitFlowControl(s, failed)]
            /\ CanSend(n, IF failed THEN <<>> ELSE <<FirstFrame(n, s)>>, failed)
            /\ UNCHANGED <<rx, canQueue, server, received>>
    BY DEF SendFirstFrame
  <1>2. TypeOK /\ s \in Sendable /\ server[n] \in Nodes
    BY <1>1, TakenIsSendable DEF IInv, TypeOK
  <1> DEFINE fs == IF failed THEN <<>> ELSE <<FirstFrame(n, s)>>
  <1>3. /\ fs \in Seq(Frames)
        /\ \A f \in ToSet(fs) : ~failed /\ f = FirstFrame(n, s)
        /\ \A g, h : ~Follows(fs, g, h)
    BY <1>1, <1>2, FrameTypes, OneFrame, NoFrame
  <1>4. wire' = [wire EXCEPT ![server[n]] = @ \o fs] /\ UNCHANGED canQueue
    BY <1>1 DEF CanSend
  <1>5. tx[n].status = "IDLE"
    BY <1>1 DEF TakeFromTxQueue
  <1>7. fs = IF failed THEN <<>> ELSE <<FirstFrame(n, s)>>
    OBVIOUS
  <1> HIDE DEF fs
  <1>6. Sends(server[n], fs)
    BY <1>2, <1>3, <1>4, SendFlow
  <1> QED
    BY <1>1, <1>2, <1>3, <1>4, <1>5, <1>6, <1>7

LEMMA StartFrameLinks ==
    ASSUME IInv, LinkInv, NEW n \in Nodes, SendSingleFrame(n) \/ SendFirstFrame(n)
    PROVE  LinkInv'
  <1>1. tx \in [Nodes -> Transmissions] /\ server[n] \in Nodes
    BY DEF IInv, TypeOK
  <1>2. CASE SendSingleFrame(n)
    <2>1. /\ tx[n].status = "IDLE" /\ UNCHANGED <<rx, server>>
          /\ \E s \in Sendable, fs \in Seq(Frames) :
                 /\ tx' = [tx EXCEPT ![n].sv = s]
                 /\ \A f \in ToSet(fs) : f = SingleFrame(n, s)
                 /\ \A g, h : ~Follows(fs, g, h)
                 /\ Sends(server[n], fs)
      BY <1>2, SentSingleFrame
    <2>2. PICK s \in Sendable, fs \in Seq(Frames) :
                 /\ tx' = [tx EXCEPT ![n].sv = s]
                 /\ \A f \in ToSet(fs) : f = SingleFrame(n, s)
                 /\ \A g, h : ~Follows(fs, g, h)
                 /\ Sends(server[n], fs)
      BY <2>1
    <2>3. \A f \in ToSet(fs) : f.pci = "SF" /\ f.src = n
      BY <2>2 DEF SingleFrame
    <2>4. tx'[n].status = "IDLE" /\ \A k \in Nodes : k # n => tx'[k] = tx[k]
      BY <1>1, <2>1, <2>2 DEF Transmissions
    <2> QED
      BY <1>1, <2>1, <2>2, <2>3, <2>4, StartLinks
  <1>3. CASE SendFirstFrame(n)
    <2>1. /\ tx[n].status = "IDLE" /\ UNCHANGED <<rx, server>>
          /\ \E s \in Sendable, failed \in BOOLEAN, fs \in Seq(Frames) :
                 /\ tx' = [tx EXCEPT ![n] = AwaitFlowControl(s, failed)]
                 /\ \A f \in ToSet(fs) : ~failed /\ f = FirstFrame(n, s)
                 /\ \A g, h : ~Follows(fs, g, h)
                 /\ Sends(server[n], fs)
      BY <1>3, SentFirstFrame
    <2>2. PICK s \in Sendable, failed \in BOOLEAN, fs \in Seq(Frames) :
                 /\ tx' = [tx EXCEPT ![n] = AwaitFlowControl(s, failed)]
                 /\ \A f \in ToSet(fs) : ~failed /\ f = FirstFrame(n, s)
                 /\ \A g, h : ~Follows(fs, g, h)
                 /\ Sends(server[n], fs)
      BY <2>1
    <2>3. /\ tx'[n] = AwaitFlowControl(s, failed)
          /\ \A k \in Nodes : k # n => tx'[k] = tx[k]
      BY <1>1, <2>2
    <2>4. \A f \in ToSet(fs) :
             /\ f.pci = "FF" /\ f.src = n
             /\ Waiting(n)' /\ f.sv = tx'[n].sv
      BY <2>2, <2>3 DEF FirstFrame, AwaitFlowControl, Waiting
    <2>5. tx'[n].status # "MORE_CONSECUTIVE_FRAMES_TO_SEND"
      BY <2>3 DEF AwaitFlowControl
    <2> QED
      BY <1>1, <2>1, <2>2, <2>3, <2>4, <2>5, StartLinks
  <1> QED
    BY <1>2, <1>3

\* An event frame belongs to no transfer.
LEMMA SentEvent ==
    ASSUME IInv, NEW n \in Nodes, NEW s \in Services, SendEvent(n, s)
    PROVE  /\ UNCHANGED <<tx, rx, txQueue, canQueue, server, received>>
           /\ s \in Sendable /\ s \in Events /\ Source[s] = n
           /\ \E fs \in Seq(Frames) :
                 /\ \A f \in ToSet(fs) : f = EventFrame(n, s)
                 /\ \A g, h : ~Follows(fs, g, h)
                 /\ Sends(server[n], fs)
                 /\ wire' = [wire EXCEPT ![server[n]] = @ \o fs]
  <1>1. /\ UNCHANGED <<tx, rx, txQueue, canQueue, server, received>>
        /\ s \in Events /\ Source[s] = n /\ TypeOK /\ server[n] \in Nodes
        /\ wire' = [wire EXCEPT ![server[n]] = Append(@, EventFrame(n, s))]
    BY DEF SendEvent, IInv, TypeOK
  <1>2. s \in Sendable
    BY <1>1, ServiceAssumption, MaxServiceSizeFact DEF Sendable
  <1>3. EventFrame(n, s) \in Frames
    BY <1>1, <1>2, FrameTypes
  <1> DEFINE fs == <<EventFrame(n, s)>>
  <1>4. /\ fs \in Seq(Frames)
        /\ \A f \in ToSet(fs) : f = EventFrame(n, s)
        /\ \A g, h : ~Follows(fs, g, h)
    BY <1>3, OneFrame
  <1>5. wire' = [wire EXCEPT ![server[n]] = @ \o fs]
    <2>1. ASSUME NEW w \in Seq(Frames), NEW x \in Frames PROVE Append(w, x) = w \o <<x>>
      OBVIOUS
    <2>2. Append(wire[server[n]], EventFrame(n, s)) = wire[server[n]] \o fs
      BY <1>1, <1>3, <2>1, ComingType
    <2> QED
      BY <1>1, <2>2
  <1> HIDE DEF fs
  <1>6. Sends(server[n], fs)
    BY <1>1, <1>4, <1>5, SendFlow
  <1> QED
    BY <1>1, <1>2, <1>4, <1>5, <1>6

LEMMA EventLinks ==
    ASSUME IInv, LinkInv, NEW n \in Nodes, NEW s \in Services, SendEvent(n, s)
    PROVE  LinkInv'
  <1>1. UNCHANGED <<tx, rx, server>> /\ server[n] \in Nodes
    BY SentEvent DEF IInv, TypeOK
  <1>2. PICK fs \in Seq(Frames) :
            /\ \A f \in ToSet(fs) : f = EventFrame(n, s)
            /\ \A g, h : ~Follows(fs, g, h)
            /\ Sends(server[n], fs)
    BY SentEvent
  <1>3. \A f \in ToSet(fs) : f.pci = "OSF"
    BY <1>2 DEF EventFrame
  <1>4. \A q \in Nodes : \A f \in Under(q)' : f.pci # "OSF" => f \in Under(q)
    BY <1>2, <1>3 DEF Sends
  <1>5. \A q \in Nodes : \A f, g : Follows(Coming(q)', f, g) /\ g.pci # "OSF" =>
            Follows(Coming(q), f, g)
    BY <1>2, <1>3 DEF Sends
  <1>6. RxInv'
    BY <1>1 DEF LinkInv, RxInv
  <1>7. CfInv'
    BY <1>1, <1>4 DEF LinkInv, CfInv, Receiving
  <1>8. PairInv'
    BY <1>4, <1>5 DEF LinkInv, PairInv, Part
  <1>9. FirstInv'
    BY <1>1, <1>4 DEF LinkInv, FirstInv, Waiting, First
  <1>10. FcInv'
    <2> SUFFICES ASSUME NEW k \in Nodes, NEW f \in Under(k)', f.pci = "FC"
                 PROVE  AwaitedBy(k, f)'
      BY DEF FcInv
    <2>1. f \in Under(k) /\ AwaitedBy(k, f) /\ f.src \in Nodes
      BY <1>4, FrameSource DEF LinkInv, FcInv, IInv
    <2>2. \A g \in Under(f.src)' : ~Part(f.src, g)
      BY <1>4, <2>1 DEF AwaitedBy, Part
    <2>3. \A q \in Nodes : \A g \in Under(q)' : First(q, g) => g.src # k
      BY <1>4, <2>1 DEF AwaitedBy, First
    <2>4. \A g \in Under(k)' : g.pci = "FC" => ~Follows(Coming(k)', f, g)
      BY <1>4, <1>5, <2>1 DEF AwaitedBy
    <2> QED
      BY <1>1, <2>1, <2>2, <2>3, <2>4 DEF AwaitedBy, Waiting
  <1>11. MoreInv'
    <2> SUFFICES ASSUME NEW k \in Nodes, NEW q \in Nodes, q = server[k],
                        tx[k].status = "MORE_CONSECUTIVE_FRAMES_TO_SEND"
                 PROVE  GoesOn(k, q)'
      BY <1>1 DEF MoreInv, IInv, TypeOK
    <2>1. GoesOn(k, q)
      BY DEF LinkInv, MoreInv
    <2>2. \A f \in Under(q)' : Part(q, f) => f \in Under(q)
      BY <1>4 DEF Part
    <2> QED
      BY <1>1, <2>1, <2>2 DEF GoesOn, Receiving
  <1> QED
    BY <1>6, <1>7, <1>8, <1>9, <1>10, <1>11 DEF LinkInv

\* Whoever gives up waits for nothing that is still under way.
LEMMA TimeoutLinks ==
    ASSUME IInv, LinkInv, NEW n \in Nodes, CheckFlowControlTimeout(n)
    PROVE  LinkInv'
  <1>1. /\ tx[n].status = "WAITING_FOR_FLOW_CONTROL"
        /\ tx' = [tx EXCEPT ![n] = GiveUp(tx[n])]
        /\ UNCHANGED <<rx, wire, canQueue, server>>
        /\ tx[n] \in Transmissions /\ tx \in [Nodes -> Transmissions]
    BY DEF CheckFlowControlTimeout, IInv, TypeOK
  <1>2. CASE ~tx[n].expired
    <2>1. tx' = tx
      BY <1>1, <1>2 DEF GiveUp
    <2> QED
      BY <1>1, <2>1, UntouchedLinks
  <1>3. CASE tx[n].expired
    <2>1. /\ \A k \in Nodes : k # n => tx'[k] = tx[k]
          /\ tx'[n].status = "IDLE"
      BY <1>1, <1>3 DEF GiveUp, Transmissions
    <2>2. ~Waiting(n)
      BY <1>3 DEF Waiting
    <2>3. /\ \A q : Under(q)' = Under(q) /\ Coming(q)' = Coming(q)
          /\ \A k \in Nodes : Waiting(k) => Waiting(k)' /\ tx'[k] = tx[k]
      BY <1>1, <2>1, <2>2 DEF Under, Coming, Waiting
    <2>4. RxInv'
      BY <1>1 DEF LinkInv, RxInv
    <2>5. CfInv'
      BY <1>1, <2>3 DEF LinkInv, CfInv, Receiving
    <2>6. PairInv'
      BY <2>3 DEF LinkInv, PairInv
    <2>7. FirstInv'
      BY <2>3, FrameSource DEF LinkInv, FirstInv, IInv
    <2>8. FcInv'
      BY <1>1, <2>3 DEF LinkInv, FcInv, AwaitedBy
    <2>9. MoreInv'
      <3> SUFFICES ASSUME NEW k \in Nodes, NEW q \in Nodes, q = server[k],
                          tx'[k].status = "MORE_CONSECUTIVE_FRAMES_TO_SEND"
                   PROVE  GoesOn(k, q)'
        BY <1>1 DEF MoreInv, IInv, TypeOK
      <3>1. k # n /\ tx'[k] = tx[k] /\ GoesOn(k, q)
        BY <2>1 DEF LinkInv, MoreInv
      <3> QED
        BY <1>1, <2>3, <3>1 DEF GoesOn, Receiving
    <2> QED
      BY <2>4, <2>5, <2>6, <2>7, <2>8, <2>9 DEF LinkInv
  <1>4. tx[n].expired \in BOOLEAN
    BY <1>1 DEF Transmissions
  <1> QED
    BY <1>2, <1>3, <1>4

\* Something more has gone wrong.
LEMMA OneMore ==
    ASSUME NEW x \in Faults
    PROVE  x.fail + 1 # 0 /\ x.late + 1 # 0 /\ x.switch + 1 # 0
  BY DEF Faults

\* What a step that counts a fault leaves as it is.
LEMMA FailCounted ==
    ASSUME NEW x \in Faults, NEW y, NEW z, z = [x EXCEPT !.fail = y]
    PROVE  /\ z.fail = y /\ z.late = x.late /\ z.switch = x.switch
           /\ z.first = x.first /\ z.stray = x.stray
  BY DEF Faults

LEMMA LateCounted ==
    ASSUME NEW x \in Faults, NEW y, NEW z, z = [x EXCEPT !.late = y]
    PROVE  /\ z.fail = x.fail /\ z.late = y /\ z.switch = x.switch
           /\ z.first = x.first /\ z.stray = x.stray
  BY DEF Faults

LEMMA SwitchCounted ==
    ASSUME NEW x \in Faults, NEW y, NEW z, z = [x EXCEPT !.switch = y]
    PROVE  /\ z.fail = x.fail /\ z.late = x.late /\ z.switch = y
           /\ z.first = x.first /\ z.stray = x.stray
  BY DEF Faults

LEMMA NothingUnder ==
    ASSUME NEW q, canQueue[q] = <<>>, wire[q] = <<>>
    PROVE  \A f : f \notin Under(q)
  <1>1. Coming(q) = <<>>
    BY DEF Coming
  <1> QED
    BY <1>1, NoFrame DEF Under

\* A time-out elapses when nothing is under way.
LEMMA ExpireLinks ==
    ASSUME IInv, LinkInv, Timely', NEW n \in Nodes, Expire(n)
    PROVE  LinkInv'
  <1>1. /\ tx' = [tx EXCEPT ![n].expired = TRUE]
        /\ UNCHANGED <<rx, wire, canQueue, server>>
        /\ tx \in [Nodes -> Transmissions]
    BY DEF Expire, IInv, TypeOK
  <1>2. Quiet
    <2>1. faults \in Faults /\ faults'.late = 0
      BY DEF IInv, TypeOK, Timely
    <2>2. CASE faults' = [faults EXCEPT !.late = faults.late + 1]
      <3>1. faults'.late = faults.late + 1
        BY <2>1, <2>2, LateCounted
      <3> QED
        BY <2>1, <3>1, OneMore
    <2> QED
      BY <2>2 DEF Expire
  <1>3. \A q \in Nodes : \A f : f \notin Under(q)'
    <2>1. \A q \in Nodes : \A f : f \notin Under(q)
      BY <1>2, NothingUnder DEF Quiet
    <2> QED
      BY <1>1, <2>1 DEF Under, Coming
  <1>4. /\ \A k \in Nodes : k # n => tx'[k] = tx[k]
        /\ tx'[n].status = tx[n].status /\ tx'[n].sv = tx[n].sv /\ tx'[n].index = tx[n].index
    BY <1>1 DEF Transmissions
  <1>5. RxInv'
    BY <1>1 DEF LinkInv, RxInv
  <1>6. CfInv' /\ PairInv' /\ FirstInv' /\ FcInv'
    BY <1>3 DEF CfInv, PairInv, FirstInv, FcInv
  <1>7. MoreInv'
    <2> SUFFICES ASSUME NEW k \in Nodes, NEW q \in Nodes, q = server[k],
                        tx'[k].status = "MORE_CONSECUTIVE_FRAMES_TO_SEND"
                 PROVE  GoesOn(k, q)'
      BY <1>1 DEF MoreInv, IInv, TypeOK
    <2>1. /\ GoesOn(k, q) /\ tx'[k].sv = tx[k].sv /\ tx'[k].index = tx[k].index
      BY <1>4 DEF LinkInv, MoreInv
    <2> QED
      BY <1>1, <1>3, <2>1 DEF GoesOn, Receiving
  <1> QED
    BY <1>5, <1>6, <1>7 DEF LinkInv

LEMMA TakeLinks ==
    ASSUME IInv, LinkInv, NEW n \in Nodes, DispatchFrame(n) \/ LoseFrame(n)
    PROVE  LinkInv'
  <1>1. /\ wire[n] # <<>> /\ wire' = [wire EXCEPT ![n] = Tail(@)]
        /\ UNCHANGED <<tx, rx, server>>
        /\ \/ UNCHANGED canQueue
           \/ canQueue' = [canQueue EXCEPT ![n] = Append(@, Head(wire[n]))]
    BY DEF DispatchFrame, LoseFrame
  <1>2. SendsNothing
    BY <1>1, TakeFlow DEF IInv
  <1> QED
    BY <1>1, <1>2, KeptLinks DEF IInv

\* A node changes its server while nobody has a burst to go on with.
LEMMA SwitchLinks ==
    ASSUME IInv, MadeInv, LinkInv, Timely', NEW n \in Nodes, NEW m \in Nodes,
           SetNodeIdentifiers(n, m)
    PROVE  LinkInv'
  <1>1. /\ UNCHANGED <<tx, rx, wire, canQueue>> /\ TypeOK
        /\ faults' = [faults EXCEPT !.switch = @ + 1]
    BY DEF SetNodeIdentifiers, IInv
  <1>2. faults'.switch # 0 /\ faults'.fail = faults.fail
    BY <1>1 DEF TypeOK, Faults
  <1>3. faults.fail = 0
    BY <1>2 DEF Timely
  <1>4. \A k \in Nodes : tx[k].status # "MORE_CONSECUTIVE_FRAMES_TO_SEND"
    BY <1>3 DEF MadeInv, InterruptInv
  <1>5. SendsNothing
    BY <1>1 DEF SendsNothing, Under, Coming
  <1> QED
    BY <1>1, <1>4, <1>5, KeptLinks

LEMMA ClearLinks ==
    ASSUME IInv, LinkInv, NEW n \in Nodes, ClearQueue(n)
    PROVE  LinkInv'
  <1>1. /\ UNCHANGED <<tx, rx, wire, server>> /\ TypeOK
        /\ canQueue' = [canQueue EXCEPT ![n] = <<>>]
    BY DEF ClearQueue, IInv
  <1> QED
    BY <1>1, ClearFlow, KeptLinks

LEMMA NextLinks ==
    ASSUME Ordinary, IInv, MadeInv, LinkInv, Timely, Timely', [Next]_vars
    PROVE  LinkInv'
  <1>1. CASE UNCHANGED vars
    BY <1>1, UntouchedLinks DEF vars
  <1>2. CASE Next
    <2> PICK n \in Nodes :
            \/ \E s \in Services : SendRequest(n, s) \/ SendEvent(n, s)
            \/ ReadResponse(n)
            \/ \E m \in Nodes : SetNodeIdentifiers(n, m)
            \/ ClearQueue(n)
            \/ SetRxFilter(n)
            \/ Cycle(n)
            \/ LoseFrame(n)
            \/ Expire(n)
      BY <1>2 DEF Next
    <2>1. ASSUME NEW s \in Services, SendRequest(n, s) PROVE LinkInv'
      BY <2>1, UntouchedLinks DEF SendRequest
    <2>2. ASSUME NEW s \in Services, SendEvent(n, s) PROVE LinkInv'
      BY <2>2, EventLinks
    <2>3. CASE ReadResponse(n)
      BY <2>3, UntouchedLinks DEF ReadResponse
    <2>4. ASSUME NEW m \in Nodes, SetNodeIdentifiers(n, m) PROVE LinkInv'
      BY <2>4, SwitchLinks
    <2>5. CASE CycleStart(n) \/ NothingToSend(n) \/ DispatchDone(n) \/ CycleEnd(n)
      BY <2>5, UntouchedLinks DEF CycleStart, NothingToSend, DispatchDone, CycleEnd
    <2>6. CASE SendSingleFrame(n) \/ SendFirstFrame(n)
      BY <2>6, StartFrameLinks
    <2>7. CASE SendWithoutFlowControl(n) \/ HandleIncomingOsySpecificMultiFrame(n)
      BY <2>7, NoMultiFrames
    <2>8. CASE CheckFlowControlTimeout(n)
      BY <2>8, TimeoutLinks
    <2>9. CASE SendMoreConsecutiveFrames(n)
      BY <2>9, MoreFramesLinks
    <2>10. CASE DispatchFrame(n) \/ LoseFrame(n)
      BY <2>10, TakeLinks
    <2>11. CASE HandleIncomingSingleFrame(n)
      BY <2>11, SingleFrameLinks
    <2>12. CASE HandleIncomingFirstFrame(n)
      BY <2>12, FirstFrameLinks
    <2>13. CASE HandleIncomingFlowControl(n)
      BY <2>13, FlowControlLinks
    <2>14. CASE HandleIncomingConsecutiveFrame(n)
      BY <2>14, ConsecutiveFrameLinks
    <2>15. CASE Expire(n)
      BY <2>15, ExpireLinks
    <2>16. CASE ClearQueue(n)
      BY <2>16, ClearLinks
    <2>17. CASE SetRxFilter(n)
      BY <2>17, UntouchedLinks DEF SetRxFilter
    <2> QED
      BY <2>1, <2>2, <2>3, <2>4, <2>5, <2>6, <2>7, <2>8, <2>9, <2>10, <2>11, <2>12, <2>13,
         <2>14, <2>15, <2>16, <2>17 DEF Cycle
  <1> QED
    BY <1>1, <1>2

-----------------------------------------------------------------------------
(* The frames the nodes compose.                                            *)

LEMMA SendsMade ==
    ASSUME TypeOK, FormInv, NEW to, NEW fs, Sends(to, fs), \A f \in ToSet(fs) : Made(f)
    PROVE  \A p \in Nodes : \A f \in Under(p)' : Made(f)
  BY DEF Sends, FormInv

LEMMA SendsNothingMade ==
    ASSUME FormInv, SendsNothing
    PROVE  \A p \in Nodes : \A f \in Under(p)' : Made(f)
  BY DEF SendsNothing, FormInv

LEMMA TakenFromQueue ==
    ASSUME TypeOK, FormInv, NEW n \in Nodes, NEW s, TakeFromTxQueue(n, s)
    PROVE  /\ Source[s] = n /\ s \notin Events
           /\ \A m \in Nodes : \A r \in ToSet(txQueue'[m]) : Source[r] = m /\ r \notin Events
  <1>1. /\ txQueue[n] \in Seq(Sendable) /\ txQueue[n] # <<>> /\ s = Head(txQueue[n])
        /\ \A m \in Nodes : txQueue'[m] = IF m = n THEN Tail(txQueue[n]) ELSE txQueue[m]
    BY DEF TakeFromTxQueue, TypeOK
  <1>2. ToSet(Tail(txQueue[n])) \subseteq ToSet(txQueue[n]) /\ s \in ToSet(txQueue[n])
    BY <1>1, FollowsTail
  <1>3. \A m \in Nodes : ToSet(txQueue'[m]) \subseteq ToSet(txQueue[m])
    BY <1>1, <1>2
  <1> QED
    BY <1>2, <1>3 DEF FormInv

LEMMA MadeFrames ==
    ASSUME NEW n \in Nodes, NEW s \in Sendable, Source[s] = n
    PROVE  /\ Size[s] <= 7 /\ s \notin Events => Made(SingleFrame(n, s))
           /\ Size[s] > 7 /\ s \notin Events => Made(FirstFrame(n, s))
           /\ s \in Events => Made(EventFrame(n, s))
           /\ Made(FlowControl(n))
  BY DEF Made, SingleFrame, FirstFrame, EventFrame, FlowControl

\* A step of the application or of the control flow.
LEMMA UntouchedMade ==
    ASSUME TypeOK, FormInv, UNCHANGED <<tx, txQueue, wire, canQueue>>
    PROVE  FormInv'
  BY DEF FormInv, Under, Coming

LEMMA RequestMade ==
    ASSUME IInv, FormInv, NEW n \in Nodes, NEW s \in Services, SendRequest(n, s)
    PROVE  FormInv'
  <1>1. UNCHANGED <<tx, wire, canQueue, server>> /\ Source[s] = n /\ s \notin Events /\ TypeOK
    BY DEF SendRequest, IInv
  <1>2. CASE UNCHANGED txQueue
    BY <1>1, <1>2, UntouchedMade
  <1>3. CASE /\ Size[s] <= MaxServiceSize
             /\ txQueue' = [txQueue EXCEPT ![n] = Append(@, s)]
    <2>1. s \in Sendable
      BY <1>3 DEF Sendable
    <2>2. ToSet(Append(txQueue[n], s)) = ToSet(txQueue[n]) \cup {s}
      BY <1>1, <2>1, ToSetAppend DEF TypeOK
    <2>3. \A m \in Nodes :
              txQueue'[m] = IF m = n THEN Append(txQueue[n], s) ELSE txQueue[m]
      BY <1>1, <1>3 DEF TypeOK
    <2>4. \A m \in Nodes : \A r \in ToSet(txQueue'[m]) : Source[r] = m /\ r \notin Events
      BY <1>1, <2>2, <2>3 DEF FormInv
    <2> QED
      BY <1>1, <2>4 DEF FormInv, Under, Coming
  <1> QED
    BY <1>2, <1>3 DEF SendRequest

LEMMA StartMade ==
    ASSUME IInv, FormInv, NEW n \in Nodes, SendSingleFrame(n) \/ SendFirstFrame(n)
    PROVE  FormInv'
  <1>1. TypeOK /\ tx \in [Nodes -> Transmissions]
    BY DEF IInv, TypeOK
  <1>2. UNCHANGED <<canQueue, server>> /\ tx[n].status = "IDLE"
    BY SentSingleFrame, SentFirstFrame
  <1>4. CASE SendSingleFrame(n)
    <2>1. PICK s \in Sendable, fs \in Seq(Frames) :
                 /\ TakeFromTxQueue(n, s)
                 /\ Size[s] <= 7
                 /\ tx' = [tx EXCEPT ![n].sv = s]
                 /\ \A f \in ToSet(fs) : f = SingleFrame(n, s)
                 /\ Sends(server[n], fs)
      BY <1>4, SentSingleFrame
    <2>2. /\ Source[s] = n /\ s \notin Events
          /\ \A m \in Nodes : \A r \in ToSet(txQueue'[m]) : Source[r] = m /\ r \notin Events
      BY <1>1, <2>1, TakenFromQueue
    <2>3. \A p \in Nodes : \A f \in Under(p)' : Made(f)
      BY <1>1, <2>1, <2>2, MadeFrames, SendsMade
    <2>4. \A m \in Nodes : tx'[m].status # "IDLE" => tx'[m] = tx[m]
      BY <1>1, <1>2, <2>1 DEF Transmissions
    <2> QED
      BY <2>2, <2>3, <2>4 DEF FormInv
  <1>5. CASE SendFirstFrame(n)
    <2>1. PICK s \in Sendable, failed \in BOOLEAN, fs \in Seq(Frames) :
                 /\ TakeFromTxQueue(n, s)
                 /\ Size[s] > 7
                 /\ tx' = [tx EXCEPT ![n] = AwaitFlowControl(s, failed)]
                 /\ \A f \in ToSet(fs) : ~failed /\ f = FirstFrame(n, s)
                 /\ Sends(server[n], fs)
      BY <1>5, SentFirstFrame
    <2>2. /\ Source[s] = n /\ s \notin Events
          /\ \A m \in Nodes : \A r \in ToSet(txQueue'[m]) : Source[r] = m /\ r \notin Events
      BY <1>1, <2>1, TakenFromQueue
    <2>3. \A p \in Nodes : \A f \in Under(p)' : Made(f)
      BY <1>1, <2>1, <2>2, MadeFrames, SendsMade
    <2>4. tx'[n].sv = s /\ \A m \in Nodes : m # n => tx'[m] = tx[m]
      <3>1. tx'[n] = AwaitFlowControl(s, failed) /\ \A m \in Nodes : m # n => tx'[m] = tx[m]
        BY <1>1, <2>1
      <3> QED
        BY <3>1 DEF AwaitFlowControl
    <2> QED
      BY <2>1, <2>2, <2>3, <2>4 DEF FormInv
  <1> QED
    BY <1>4, <1>5

\* The openSYDE segmentation counts its frames.
LEMMA MultiFramesCounted ==
    ASSUME NEW n \in Nodes, NEW s \in Sendable, Size[s] > 7,
           NEW sent \in 0 .. 1 + FramesLeft(Size[s], 6), NEW fs, fs = OmfFrames(n, s, sent)
    PROVE  /\ fs \in Seq(Frames)
           /\ \A f \in ToSet(fs) : f.pci = "OMF" /\ f.src = n /\ f.sv = s /\ Counted(f)
  <1> DEFINE at(k) == IF k = 1 THEN 0 ELSE 6 + 7 * (k - 2)
  <1>1. Size[s] \in Nat /\ sent \in Nat /\ sent <= 1 + (Size[s] \div 7)
    BY SendableSize DEF FramesLeft
  <1>2. /\ DOMAIN fs = 1 .. sent
        /\ \A k \in 1 .. sent : /\ fs[k].pci = "OMF" /\ fs[k].src = n /\ fs[k].sv = s
                                /\ fs[k].sn = (k - 1) % 16 /\ fs[k].at = at(k)
    BY DEF OmfFrames
  <1>3. ASSUME NEW k \in 1 .. sent
        PROVE  \/ at(k) = 0 /\ (k - 1) % 16 = 0
               \/ /\ at(k) % 7 = 6 /\ at(k) < Size[s]
                  /\ (k - 1) % 16 = (1 + (at(k) - 6) \div 7) % 16
    <2>1. CASE k = 1
      BY <2>1
    <2>2. CASE k # 1
      <3>1. at(k) = 6 + 7 * (k - 2) /\ k - 2 \in Nat
        BY <1>1, <2>2
      <3>2. at(k) < Size[s] /\ at(k) % 7 = 6
        BY <1>1, <3>1
      <3>3. (at(k) - 6) \div 7 = k - 2
        BY <3>1
      <3>4. 1 + (at(k) - 6) \div 7 = k - 1
        BY <3>1, <3>3
      <3> QED
        BY <3>2, <3>4
    <2> QED
      BY <2>1, <2>2
  <1> HIDE DEF at
  <1>4. \A f \in ToSet(fs) : f.pci = "OMF" /\ f.src = n /\ f.sv = s /\ Counted(f)
    <2> SUFFICES ASSUME NEW k \in 1 .. sent
                 PROVE  /\ fs[k].pci = "OMF" /\ fs[k].src = n /\ fs[k].sv = s
                        /\ Counted(fs[k])
      BY <1>2 DEF ToSet
    <2> QED
      BY <1>2, <1>3 DEF Counted
  <1> QED
    BY <1>4, OmfFramesType

LEMMA MultiFramesMade ==
    ASSUME IInv, FormInv, NEW n \in Nodes, SendWithoutFlowControl(n)
    PROVE  FormInv'
  <1>1. PICK s \in Services :
            /\ TakeFromTxQueue(n, s)
            /\ Size[s] > 7
            /\ s \in Omf
            /\ \E sent \in 0 .. 1 + FramesLeft(Size[s], 6) :
                  wire' = [wire EXCEPT ![server[n]] = @ \o OmfFrames(n, s, sent)]
    BY DEF SendWithoutFlowControl, CanSend
  <1>2. PICK sent \in 0 .. 1 + FramesLeft(Size[s], 6) :
            wire' = [wire EXCEPT ![server[n]] = @ \o OmfFrames(n, s, sent)]
    BY <1>1
  <1>3. /\ TypeOK /\ server[n] \in Nodes /\ tx \in [Nodes -> Transmissions]
        /\ UNCHANGED <<canQueue, server>>
    BY DEF SendWithoutFlowControl, IInv, TypeOK
  <1>4. /\ s \in Sendable /\ Source[s] = n /\ s \notin Events
        /\ \A m \in Nodes : \A r \in ToSet(txQueue'[m]) : Source[r] = m /\ r \notin Events
    BY <1>1, <1>3, TakenIsSendable, TakenFromQueue
  <1> DEFINE fs == OmfFrames(n, s, sent)
  <1>5. /\ wire' = [wire EXCEPT ![server[n]] = @ \o fs] /\ fs \in Seq(Frames)
        /\ \A f \in ToSet(fs) : f.pci = "OMF" /\ f.src = n /\ f.sv = s /\ Counted(f)
    BY <1>1, <1>2, <1>4, MultiFramesCounted
  <1> HIDE DEF fs
  <1>6. \A f \in ToSet(fs) : Made(f)
    BY <1>1, <1>4, <1>5 DEF Made
  <1>7. \A p \in Nodes : \A f \in Under(p)' : Made(f)
    BY <1>3, <1>5, <1>6, SendFlow, SendsMade
  <1>8. \A m \in Nodes : tx'[m].status # "IDLE" => tx'[m] = tx[m]
    BY <1>3 DEF SendWithoutFlowControl, TakeFromTxQueue, Transmissions
  <1> QED
    BY <1>3, <1>4, <1>7, <1>8 DEF FormInv

LEMMA EventMade ==
    ASSUME IInv, FormInv, NEW n \in Nodes, NEW s \in Services, SendEvent(n, s)
    PROVE  FormInv'
  <1>1. /\ UNCHANGED <<tx, rx, txQueue, canQueue, server>>
        /\ s \in Sendable /\ s \in Events /\ Source[s] = n
    BY SentEvent
  <1>2. PICK fs \in Seq(Frames) :
            /\ \A f \in ToSet(fs) : f = EventFrame(n, s)
            /\ Sends(server[n], fs)
    BY SentEvent
  <1>3. \A p \in Nodes : \A f \in Under(p)' : Made(f)
    BY <1>1, <1>2, MadeFrames, SendsMade DEF IInv
  <1> QED
    BY <1>1, <1>3 DEF FormInv

\* Consecutive frames of a transmission.
LEMMA BurstMade ==
    ASSUME IInv, FormInv, NEW n \in Nodes, tx[n].status # "IDLE",
           NEW t \in Transmissions, TxAligned(t), t.status # "IDLE", t.sv = tx[n].sv,
           NEW giveUp \in BOOLEAN, SendNextConsecutiveFrames(n, t, giveUp),
           \A fs \in Seq(Frames) : wire' = [wire EXCEPT ![server[n]] = @ \o fs] =>
               Sends(server[n], fs),
           UNCHANGED txQueue
    PROVE  FormInv'
  <1>1. PICK fs \in Seq(Frames), end \in Nat : Burst(n, t, fs, end)
    BY SentBurst
  <1>2. Source[t.sv] = n /\ t.sv \notin Events /\ Size[t.sv] > 7
    BY DEF FormInv
  <1>3. \A f \in ToSet(fs) : Made(f)
    BY <1>1, <1>2 DEF Burst, Made
  <1>4. \A p \in Nodes : \A f \in Under(p)' : Made(f)
    BY <1>1, <1>3, SendsMade DEF Burst, IInv
  <1>5. \A m \in Nodes : tx'[m].status # "IDLE" =>
            Source[tx'[m].sv] = m /\ tx'[m].sv \notin Events /\ Size[tx'[m].sv] > 7
    BY <1>1, <1>2 DEF Burst, FormInv
  <1> QED
    BY <1>4, <1>5 DEF FormInv

LEMMA FlowControlMade ==
    ASSUME IInv, FormInv, NEW n \in Nodes, HandleIncomingFlowControl(n)
    PROVE  FormInv'
  <1> DEFINE f0 == Head(canQueue[n])
             t == [tx[n] EXCEPT !.expired = FALSE]
  <1>1. /\ TypeOK /\ ReadFrame(n, f0, {"FC"}) /\ tx[n] \in Transmissions /\ TxAligned(tx[n])
        /\ server[n] \in Nodes
        /\ \/ tx[n].status = "WAITING_FOR_FLOW_CONTROL" /\ SendNextConsecutiveFrames(n, t, FALSE)
           \/ UNCHANGED <<tx, wire>>
    BY DEF HandleIncomingFlowControl, IInv, TypeOK, TxPosition
  <1>2. t \in Transmissions /\ t.sv = tx[n].sv /\ t.status = tx[n].status /\ TxAligned(t)
    BY <1>1 DEF Transmissions, TxAligned
  <1> HIDE DEF f0, t
  <1>3. UNCHANGED txQueue
    BY <1>1 DEF ReadFrame
  <1>4. CASE UNCHANGED <<tx, wire>>
    <2>1. SendsNothing
      BY <1>1, <1>4, ReadFlow
    <2> QED
      BY <1>3, <1>4, <2>1, SendsNothingMade DEF FormInv
  <1>5. CASE /\ tx[n].status = "WAITING_FOR_FLOW_CONTROL"
             /\ SendNextConsecutiveFrames(n, t, FALSE)
    <2>1. \A fs \in Seq(Frames) : wire' = [wire EXCEPT ![server[n]] = @ \o fs] =>
              Sends(server[n], fs)
      BY <1>1, ReadSendFlow
    <2> QED
      BY <1>2, <1>3, <1>5, <2>1, BurstMade
  <1> QED
    BY <1>1, <1>4, <1>5

LEMMA MoreFramesMade ==
    ASSUME IInv, FormInv, NEW n \in Nodes, SendMoreConsecutiveFrames(n)
    PROVE  FormInv'
  <1>1. /\ TypeOK /\ UNCHANGED <<canQueue, server, txQueue>> /\ server[n] \in Nodes
        /\ tx[n] \in Transmissions /\ TxAligned(tx[n]) /\ tx[n].expired \in BOOLEAN
        /\ tx[n].status = "MORE_CONSECUTIVE_FRAMES_TO_SEND"
        /\ SendNextConsecutiveFrames(n, tx[n], tx[n].expired)
    BY DEF SendMoreConsecutiveFrames, IInv, TypeOK, TxPosition, Transmissions
  <1>2. \A fs \in Seq(Frames) : wire' = [wire EXCEPT ![server[n]] = @ \o fs] =>
            Sends(server[n], fs)
    BY <1>1, SendFlow
  <1>4. tx[n].status # "IDLE"
    BY <1>1
  <1> QED
    BY <1>1, <1>2, <1>4, BurstMade

LEMMA FirstFrameMade ==
    ASSUME IInv, FormInv, NEW n \in Nodes, HandleIncomingFirstFrame(n)
    PROVE  FormInv'
  <1> DEFINE f0 == Head(canQueue[n])
             sent(failed) == IF failed THEN <<>> ELSE <<FlowControl(n)>>
  <1>1. PICK failed \in BOOLEAN : CanSend(n, sent(failed), failed)
    BY DEF HandleIncomingFirstFrame
  <1> DEFINE fs == sent(failed)
  <1>2. TypeOK /\ ReadFrame(n, f0, {"FF"}) /\ tx' = tx /\ server[n] \in Nodes
    BY DEF HandleIncomingFirstFrame, IInv, TypeOK
  <1>3. wire' = [wire EXCEPT ![server[n]] = @ \o fs]
    BY <1>1 DEF CanSend
  <1>4. fs \in Seq(Frames) /\ \A f \in ToSet(fs) : Made(f)
    <2>1. Made(FlowControl(n)) /\ FlowControl(n) \in Frames
      BY FlowControlType DEF Made, FlowControl
    <2> QED
      BY <2>1, OneFrame, NoFrame
  <1> HIDE DEF f0, fs, sent
  <1>5. Sends(server[n], fs)
    BY <1>2, <1>3, <1>4, ReadSendFlow
  <1>6. \A p \in Nodes : \A f \in Under(p)' : Made(f)
    BY <1>2, <1>4, <1>5, SendsMade
  <1> QED
    BY <1>2, <1>6 DEF FormInv, ReadFrame

\* A frame that is read and answered by nothing.
LEMMA ReadMade ==
    ASSUME IInv, FormInv, NEW n \in Nodes,
           \/ HandleIncomingSingleFrame(n)
           \/ HandleIncomingConsecutiveFrame(n)
           \/ HandleIncomingOsySpecificMultiFrame(n)
    PROVE  FormInv'
  <1> DEFINE f0 == Head(canQueue[n])
  <1>1. PICK pcis : ReadFrame(n, f0, pcis)
    BY DEF HandleIncomingSingleFrame, HandleIncomingConsecutiveFrame,
       HandleIncomingOsySpecificMultiFrame
  <1>2. UNCHANGED <<tx, wire>> /\ TypeOK
    BY DEF HandleIncomingSingleFrame, HandleIncomingConsecutiveFrame,
       HandleIncomingOsySpecificMultiFrame, IInv
  <1> HIDE DEF f0
  <1>3. SendsNothing
    BY <1>1, <1>2, ReadFlow
  <1> QED
    BY <1>1, <1>2, <1>3, SendsNothingMade DEF FormInv, ReadFrame

LEMMA TimeoutMade ==
    ASSUME IInv, FormInv, NEW n \in Nodes, CheckFlowControlTimeout(n) \/ Expire(n)
    PROVE  FormInv'
  <1>1. /\ UNCHANGED <<wire, canQueue, server, txQueue>>
        /\ tx \in [Nodes -> Transmissions]
    BY DEF CheckFlowControlTimeout, Expire, IInv, TypeOK
  <1>2. \A m \in Nodes : tx'[m].sv = tx[m].sv /\ (tx'[m].status # "IDLE" => tx[m].status # "IDLE")
    BY <1>1 DEF CheckFlowControlTimeout, Expire, GiveUp, Transmissions
  <1> QED
    BY <1>1, <1>2 DEF FormInv, Under, Coming

LEMMA TakeMade ==
    ASSUME IInv, FormInv, NEW n \in Nodes, DispatchFrame(n) \/ LoseFrame(n)
    PROVE  FormInv'
  <1>1. /\ wire[n] # <<>> /\ wire' = [wire EXCEPT ![n] = Tail(@)]
        /\ UNCHANGED <<tx, txQueue>> /\ TypeOK
        /\ \/ UNCHANGED canQueue
           \/ canQueue' = [canQueue EXCEPT ![n] = Append(@, Head(wire[n]))]
    BY DEF DispatchFrame, LoseFrame, IInv
  <1>2. SendsNothing
    BY <1>1, TakeFlow
  <1> QED
    BY <1>1, <1>2, SendsNothingMade DEF FormInv

LEMMA ClearMade ==
    ASSUME IInv, FormInv, NEW n \in Nodes, ClearQueue(n)
    PROVE  FormInv'
  <1>1. /\ UNCHANGED <<tx, wire, txQueue>> /\ TypeOK
        /\ canQueue' = [canQueue EXCEPT ![n] = <<>>]
    BY DEF ClearQueue, IInv
  <1>2. SendsNothing
    BY <1>1, ClearFlow
  <1> QED
    BY <1>1, <1>2, SendsNothingMade DEF FormInv

LEMMA NextForm ==
    ASSUME IInv, FormInv, [Next]_vars
    PROVE  FormInv'
  <1>1. CASE UNCHANGED vars
    BY <1>1, UntouchedMade DEF vars, IInv
  <1>2. CASE Next
    <2> PICK n \in Nodes :
            \/ \E s \in Services : SendRequest(n, s) \/ SendEvent(n, s)
            \/ ReadResponse(n)
            \/ \E m \in Nodes : SetNodeIdentifiers(n, m)
            \/ ClearQueue(n)
            \/ SetRxFilter(n)
            \/ Cycle(n)
            \/ LoseFrame(n)
            \/ Expire(n)
      BY <1>2 DEF Next
    <2>1. ASSUME NEW s \in Services, SendRequest(n, s) PROVE FormInv'
      BY <2>1, RequestMade
    <2>2. ASSUME NEW s \in Services, SendEvent(n, s) PROVE FormInv'
      BY <2>2, EventMade
    <2>3. CASE ReadResponse(n)
      BY <2>3, UntouchedMade DEF ReadResponse, IInv
    <2>4. ASSUME NEW m \in Nodes, SetNodeIdentifiers(n, m) PROVE FormInv'
      BY <2>4, UntouchedMade DEF SetNodeIdentifiers, IInv
    <2>5. CASE CycleStart(n) \/ NothingToSend(n) \/ DispatchDone(n) \/ CycleEnd(n)
      BY <2>5, UntouchedMade DEF CycleStart, NothingToSend, DispatchDone, CycleEnd, IInv
    <2>6. CASE SendSingleFrame(n) \/ SendFirstFrame(n)
      BY <2>6, StartMade
    <2>7. CASE SendWithoutFlowControl(n)
      BY <2>7, MultiFramesMade
    <2>8. CASE CheckFlowControlTimeout(n) \/ Expire(n)
      BY <2>8, TimeoutMade
    <2>9. CASE SendMoreConsecutiveFrames(n)
      BY <2>9, MoreFramesMade
    <2>10. CASE DispatchFrame(n) \/ LoseFrame(n)
      BY <2>10, TakeMade
    <2>11. CASE \/ HandleIncomingSingleFrame(n)
                \/ HandleIncomingConsecutiveFrame(n)
                \/ HandleIncomingOsySpecificMultiFrame(n)
      BY <2>11, ReadMade
    <2>12. CASE HandleIncomingFirstFrame(n)
      BY <2>12, FirstFrameMade
    <2>13. CASE HandleIncomingFlowControl(n)
      BY <2>13, FlowControlMade
    <2>14. CASE ClearQueue(n)
      BY <2>14, ClearMade
    <2>15. CASE SetRxFilter(n)
      BY <2>15, UntouchedMade DEF SetRxFilter, IInv
    <2> QED
      BY <2>1, <2>2, <2>3, <2>4, <2>5, <2>6, <2>7, <2>8, <2>9, <2>10, <2>11, <2>12, <2>13,
         <2>14, <2>15 DEF Cycle
  <1> QED
    BY <1>1, <1>2


-----------------------------------------------------------------------------
(* The filter of the queues, the faults, and interrupted bursts.             *)

\* At most one call has failed in this step.
OneFailure == faults' \in {faults, [faults EXCEPT !.fail = @ + 1]}

\* A step that is none of SetNodeIdentifiers, of the dispatcher, or of the environment.
Steady(n) ==
    /\ OneFailure
    /\ UNCHANGED <<server, filter>>
    /\ ~Switching(n)
    /\ \A p \in Nodes : p # n => pc'[p] = pc[p]
    /\ pc'[n] \notin {"identified", "cleared"}
    /\ \A p \in Nodes : ToSet(canQueue'[p]) \subseteq ToSet(canQueue[p])

LEMMA PcChange ==
    ASSUME TypeOK, NEW n \in Nodes, NEW x, pc' = [pc EXCEPT ![n] = x]
    PROVE  pc'[n] = x /\ \A p \in Nodes : p # n => pc'[p] = pc[p]
  BY DEF TypeOK

LEMMA SteadyTransmission ==
    ASSUME TypeOK, NEW n \in Nodes,
           \/ CycleStart(n) \/ NothingToSend(n) \/ SendSingleFrame(n)
           \/ SendWithoutFlowControl(n) \/ SendFirstFrame(n)
           \/ CheckFlowControlTimeout(n) \/ SendMoreConsecutiveFrames(n)
           \/ DispatchDone(n) \/ CycleEnd(n)
    PROVE  Steady(n)
  <1>1. UNCHANGED <<canQueue, server, filter>> /\ pc[n] \in {"ready", "tx", "dispatch", "rx"}
    BY DEF CycleStart, NothingToSend, SendSingleFrame, SendWithoutFlowControl, SendFirstFrame,
       CheckFlowControlTimeout, SendMoreConsecutiveFrames, DispatchDone, CycleEnd,
       TakeFromTxQueue
  <1>2. OneFailure
    BY DEF CycleStart, NothingToSend, SendSingleFrame, SendWithoutFlowControl, SendFirstFrame,
       CheckFlowControlTimeout, SendMoreConsecutiveFrames, DispatchDone, CycleEnd,
       SendNextConsecutiveFrames, CanSend, OneFailure
  <1>3. pc' = pc \/ \E x \in {"ready", "tx", "dispatch", "rx"} : pc' = [pc EXCEPT ![n] = x]
    BY DEF CycleStart, NothingToSend, SendSingleFrame, SendWithoutFlowControl, SendFirstFrame,
       CheckFlowControlTimeout, SendMoreConsecutiveFrames, DispatchDone, CycleEnd
  <1>4. pc'[n] \in {"ready", "tx", "dispatch", "rx"} /\ \A p \in Nodes : p # n => pc'[p] = pc[p]
    BY <1>1, <1>3, PcChange
  <1> QED
    BY <1>1, <1>2, <1>4 DEF Steady, Switching

LEMMA SteadyReception ==
    ASSUME TypeOK, NEW n \in Nodes,
           \/ HandleIncomingSingleFrame(n) \/ HandleIncomingFirstFrame(n)
           \/ HandleIncomingFlowControl(n) \/ HandleIncomingConsecutiveFrame(n)
           \/ HandleIncomingOsySpecificMultiFrame(n)
    PROVE  Steady(n)
  <1> DEFINE f0 == Head(canQueue[n])
  <1>1. PICK pcis : ReadFrame(n, f0, pcis)
    BY DEF HandleIncomingSingleFrame, HandleIncomingFirstFrame, HandleIncomingFlowControl,
       HandleIncomingConsecutiveFrame, HandleIncomingOsySpecificMultiFrame
  <1>2. OneFailure
    BY DEF HandleIncomingSingleFrame, HandleIncomingFirstFrame, HandleIncomingFlowControl,
       HandleIncomingConsecutiveFrame, HandleIncomingOsySpecificMultiFrame,
       SendNextConsecutiveFrames, CanSend, OneFailure
  <1> HIDE DEF f0
  <1>3. /\ canQueue[n] \in Seq(Frames) /\ canQueue[n] # <<>> /\ pc[n] = "rx"
        /\ UNCHANGED <<pc, server, filter>>
        /\ \A p \in Nodes : canQueue'[p] = IF p = n THEN Tail(canQueue[n]) ELSE canQueue[p]
    BY <1>1 DEF ReadFrame, TypeOK
  <1>4. ToSet(Tail(canQueue[n])) \subseteq ToSet(canQueue[n])
    BY <1>3, FollowsTail
  <1> QED
    BY <1>2, <1>3, <1>4 DEF Steady, Switching

LEMMA SteadyFilter ==
    ASSUME TypeOK, FilterInv, NEW n \in Nodes, Steady(n)
    PROVE  FilterInv'
  <1>1. faults'.switch = faults.switch /\ faults'.stray = faults.stray
    BY DEF Steady, OneFailure, TypeOK, Faults
  <1>2. \A p \in Nodes : /\ Switching(p)' <=> Switching(p)
                         /\ pc'[p] # "identified" <=> pc[p] # "identified"
    BY DEF Steady, Switching
  <1> QED
    BY <1>1, <1>2 DEF Steady, FilterInv

\* The queue takes the frames that pass the filter.
LEMMA DispatchFilter ==
    ASSUME TypeOK, FilterInv, NEW n \in Nodes, DispatchFrame(n)
    PROVE  FilterInv'
  <1> DEFINE f == Head(wire[n])
  <1>1. /\ UNCHANGED <<pc, server, filter>>
        /\ \/ UNCHANGED canQueue /\ faults'.stray = faults.stray
           \/ /\ f.src = filter[n] /\ canQueue' = [canQueue EXCEPT ![n] = Append(@, f)]
              /\ faults'.stray = (faults.stray \/ pc[n] = "cleared")
        /\ faults'.switch = faults.switch
    BY DEF DispatchFrame, Queues, PassesRxFilter, TypeOK, Faults
  <1>2. canQueue[n] \in Seq(Frames) /\ f \in Frames
    BY ComingType DEF DispatchFrame
  <1> HIDE DEF f
  <1>3. CASE UNCHANGED canQueue /\ faults'.stray = faults.stray
    BY <1>1, <1>3 DEF FilterInv, Switching
  <1>4. CASE /\ f.src = filter[n] /\ canQueue' = [canQueue EXCEPT ![n] = Append(@, f)]
             /\ faults'.stray = (faults.stray \/ pc[n] = "cleared")
    <2>1. ToSet(Append(canQueue[n], f)) = ToSet(canQueue[n]) \cup {f}
      BY <1>2, ToSetAppend
    <2>2. \A p \in Nodes :
              canQueue'[p] = IF p = n THEN Append(canQueue[n], f) ELSE canQueue[p]
      BY <1>4 DEF TypeOK
    <2>3. ASSUME ~faults'.stray PROVE ~faults.stray /\ pc[n] # "cleared"
      BY <1>4, <2>3 DEF TypeOK, Faults
    <2>4. ASSUME ~faults'.stray, NEW p \in Nodes, pc[p] # "identified",
                 NEW g \in ToSet(canQueue'[p])
          PROVE  g.src = server[p]
      <3>1. CASE g \in ToSet(canQueue[p])
        BY <2>3, <2>4, <3>1 DEF FilterInv
      <3>2. CASE g \notin ToSet(canQueue[p])
        <4>1. p = n /\ g = f
          BY <2>1, <2>2, <2>4, <3>2
        <4>2. ~Switching(n)
          BY <2>3, <2>4, <4>1 DEF Switching
        <4> QED
          BY <1>4, <4>1, <4>2 DEF FilterInv
      <3> QED
        BY <3>1, <3>2
    <2>5. faults.switch = 0 => pc[n] # "cleared"
      BY DEF FilterInv, Switching
    <2>6. faults'.switch = 0 => ~faults'.stray
      BY <1>1, <1>4, <2>5 DEF FilterInv
    <2> QED
      BY <1>1, <2>4, <2>6 DEF FilterInv, Switching
  <1> QED
    BY <1>1, <1>3, <1>4

\* The three steps of SetNodeIdentifiers.
LEMMA SwitchFilter ==
    ASSUME TypeOK, FilterInv, NEW n \in Nodes,
           \/ \E m \in Nodes : SetNodeIdentifiers(n, m)
           \/ ClearQueue(n)
           \/ SetRxFilter(n)
    PROVE  FilterInv'
  <1>1. ASSUME NEW m \in Nodes, SetNodeIdentifiers(n, m) PROVE FilterInv'
    <2>1. /\ UNCHANGED <<filter, canQueue>>
          /\ pc'[n] = "identified" /\ \A p \in Nodes : p # n => pc'[p] = pc[p]
          /\ \A p \in Nodes : p # n => server'[p] = server[p]
          /\ faults'.stray = faults.stray /\ faults'.switch # 0
      BY <1>1, PcChange DEF SetNodeIdentifiers, TypeOK, Faults
    <2> QED
      BY <2>1 DEF FilterInv, Switching
  <1>2. CASE ClearQueue(n)
    <2>1. /\ UNCHANGED <<filter, server, faults>> /\ pc[n] = "identified"
          /\ pc'[n] = "cleared" /\ \A p \in Nodes : p # n => pc'[p] = pc[p]
          /\ canQueue'[n] = <<>> /\ \A p \in Nodes : p # n => canQueue'[p] = canQueue[p]
      BY <1>2, PcChange DEF ClearQueue, TypeOK
    <2>2. Switching(n)
      BY <2>1 DEF Switching
    <2>3. \A f : f \notin ToSet(canQueue'[n])
      BY <2>1, NoFrame
    <2>4. faults'.switch # 0
      BY <2>1, <2>2 DEF FilterInv
    <2> QED
      BY <2>1, <2>3, <2>4 DEF FilterInv, Switching
  <1>3. CASE SetRxFilter(n)
    <2>1. /\ UNCHANGED <<canQueue, server, faults>> /\ pc[n] = "cleared"
          /\ pc'[n] = "ready" /\ \A p \in Nodes : p # n => pc'[p] = pc[p]
          /\ filter'[n] = server[n] /\ \A p \in Nodes : p # n => filter'[p] = filter[p]
      BY <1>3, PcChange DEF SetRxFilter, TypeOK
    <2>2. Switching(n)
      BY <2>1 DEF Switching
    <2>3. faults'.switch # 0
      BY <2>1, <2>2 DEF FilterInv
    <2> QED
      BY <2>1, <2>3 DEF FilterInv, Switching
  <1> QED
    BY <1>1, <1>2, <1>3

LEMMA OtherFilter ==
    ASSUME TypeOK, FilterInv, UNCHANGED <<pc, canQueue, server, filter>>,
           faults'.stray = faults.stray, faults'.switch = faults.switch
    PROVE  FilterInv'
  BY DEF FilterInv, Switching

\* Faults only come, and those of one kind at a time.
FaultsGrow ==
    /\ faults'.fail = 0 => faults.fail = 0
    /\ faults'.late = 0 => faults.late = 0
    /\ faults'.switch = 0 => faults.switch = 0
    /\ faults'.stray = FALSE => faults.stray = FALSE
    /\ faults'.first = FALSE => faults.first = FALSE

LEMMA OneFailureGrows ==
    ASSUME TypeOK, OneFailure
    PROVE  FaultsGrow
  <1>1. faults \in Faults
    BY DEF TypeOK
  <1>2. CASE faults' = faults
    BY <1>2 DEF FaultsGrow
  <1>3. CASE faults' = [faults EXCEPT !.fail = faults.fail + 1]
    <2>1. /\ faults'.fail = faults.fail + 1 /\ faults'.late = faults.late
          /\ faults'.switch = faults.switch
          /\ faults'.first = faults.first /\ faults'.stray = faults.stray
      BY <1>1, <1>3, FailCounted
    <2>2. faults'.fail # 0
      BY <1>1, <2>1, OneMore
    <2> QED
      BY <2>1, <2>2 DEF FaultsGrow
  <1> QED
    BY <1>2, <1>3 DEF OneFailure

LEMMA NextFilter ==
    ASSUME TypeOK, FilterInv, [Next]_vars
    PROVE  FilterInv' /\ FaultsGrow
  <1>1. CASE UNCHANGED vars
    BY <1>1, OtherFilter, OneFailureGrows DEF vars, OneFailure
  <1>2. CASE Next
    <2> PICK n \in Nodes :
            \/ \E s \in Services : SendRequest(n, s) \/ SendEvent(n, s)
            \/ ReadResponse(n)
            \/ \E m \in Nodes : SetNodeIdentifiers(n, m)
            \/ ClearQueue(n)
            \/ SetRxFilter(n)
            \/ Cycle(n)
            \/ LoseFrame(n)
            \/ Expire(n)
      BY <1>2 DEF Next
    <2>1. CASE (\E s \in Services : SendRequest(n, s) \/ SendEvent(n, s)) \/ ReadResponse(n)
      <3>1. UNCHANGED <<pc, canQueue, server, filter, faults>>
        BY <2>1 DEF SendRequest, SendEvent, ReadResponse
      <3> QED
        BY <3>1, OtherFilter, OneFailureGrows DEF OneFailure
    <2>2. CASE \/ \E m \in Nodes : SetNodeIdentifiers(n, m)
               \/ ClearQueue(n)
               \/ SetRxFilter(n)
      <3>1. faults' = faults \/ faults' = [faults EXCEPT !.switch = faults.switch + 1]
        BY <2>2 DEF SetNodeIdentifiers, ClearQueue, SetRxFilter
      <3>2. FaultsGrow
        <4>1. CASE faults' = faults
          BY <4>1 DEF FaultsGrow
        <4>2. CASE faults' = [faults EXCEPT !.switch = faults.switch + 1]
          <5>1. faults \in Faults
            BY DEF TypeOK
          <5>2. /\ faults'.fail = faults.fail /\ faults'.late = faults.late
                /\ faults'.switch = faults.switch + 1
                /\ faults'.first = faults.first /\ faults'.stray = faults.stray
            BY <4>2, <5>1, SwitchCounted
          <5>3. faults'.switch # 0
            BY <5>1, <5>2, OneMore
          <5> QED
            BY <5>2, <5>3 DEF FaultsGrow
        <4> QED
          BY <3>1, <4>1, <4>2
      <3> QED
        BY <2>2, <3>2, SwitchFilter
    <2>3. CASE \/ CycleStart(n) \/ NothingToSend(n) \/ SendSingleFrame(n)
               \/ SendWithoutFlowControl(n) \/ SendFirstFrame(n)
               \/ CheckFlowControlTimeout(n) \/ SendMoreConsecutiveFrames(n)
               \/ DispatchDone(n) \/ CycleEnd(n)
      BY <2>3, SteadyTransmission, SteadyFilter, OneFailureGrows DEF Steady
    <2>4. CASE \/ HandleIncomingSingleFrame(n) \/ HandleIncomingFirstFrame(n)
               \/ HandleIncomingFlowControl(n) \/ HandleIncomingConsecutiveFrame(n)
               \/ HandleIncomingOsySpecificMultiFrame(n)
      BY <2>4, SteadyReception, SteadyFilter, OneFailureGrows DEF Steady
    <2>5. CASE DispatchFrame(n)
      <3>1. FaultsGrow
        BY <2>5 DEF DispatchFrame, FaultsGrow, TypeOK, Faults
      <3> QED
        BY <2>5, <3>1, DispatchFilter
    <2>6. CASE LoseFrame(n) \/ Expire(n)
      <3>1. UNCHANGED <<pc, canQueue, server, filter>> /\ faults \in Faults
        BY <2>6 DEF LoseFrame, Expire, TypeOK
      <3>2. CASE LoseFrame(n)
        <4> DEFINE b == faults.first \/ Head(wire[n]).pci = "FF"
                   l == faults.loss + 1
        <4>1. faults' = [faults EXCEPT !.loss = l, !.first = b] /\ (faults.first => b)
          BY <3>2 DEF LoseFrame
        <4> HIDE DEF b, l
        <4>2. /\ faults'.fail = faults.fail /\ faults'.late = faults.late
              /\ faults'.switch = faults.switch /\ faults'.stray = faults.stray
              /\ faults'.first = b
          BY <3>1, <4>1 DEF Faults
        <4>3. faults.first \in BOOLEAN
          BY <3>1 DEF Faults
        <4>4. faults'.first = FALSE => faults.first = FALSE
          BY <4>1, <4>2, <4>3
        <4>5. FaultsGrow
          BY <4>2, <4>4 DEF FaultsGrow
        <4> QED
          BY <3>1, <4>2, <4>5, OtherFilter
      <3>3. CASE Expire(n) /\ faults' = faults
        <4>1. FaultsGrow
          BY <3>3 DEF FaultsGrow
        <4> QED
          BY <3>1, <3>3, <4>1, OtherFilter
      <3>4. CASE faults' = [faults EXCEPT !.late = faults.late + 1]
        <4>1. /\ faults'.fail = faults.fail /\ faults'.late = faults.late + 1
              /\ faults'.switch = faults.switch
              /\ faults'.first = faults.first /\ faults'.stray = faults.stray
          BY <3>1, <3>4, LateCounted
        <4>2. faults'.late # 0
          BY <3>1, <4>1, OneMore
        <4>3. FaultsGrow
          BY <4>1, <4>2 DEF FaultsGrow
        <4> QED
          BY <3>1, <4>1, <4>3, OtherFilter
      <3> QED
        BY <2>6, <3>2, <3>3, <3>4 DEF Expire
    <2> QED
      BY <2>1, <2>2, <2>3, <2>4, <2>5, <2>6 DEF Cycle
  <1> QED
    BY <1>1, <1>2

\* Only a call that fails leaves more frames to send.
LEMMA NextInterrupt ==
    ASSUME IInv, FilterInv, InterruptInv, [Next]_vars
    PROVE  InterruptInv'
  <1>1. FaultsGrow /\ TypeOK
    BY NextFilter DEF IInv
  <1>2. ASSUME NEW n \in Nodes, NEW t \in Transmissions, NEW giveUp,
               TxAligned(t), t.status # "IDLE", SendNextConsecutiveFrames(n, t, giveUp),
               tx'[n].status = "MORE_CONSECUTIVE_FRAMES_TO_SEND"
        PROVE  faults'.fail # 0
    <2> DEFINE left == FramesLeft(Size[t.sv], t.index)
               next(sent) == [Advance(t, sent) EXCEPT
                                 !.status = IF sent = left \/ giveUp THEN "IDLE"
                                            ELSE "MORE_CONSECUTIVE_FRAMES_TO_SEND"]
    <2>1. PICK sent \in 0 .. left :
              /\ CanSend(n, ConsecutiveFrames(n, t.sv, t.index, t.seq, sent), sent < left)
              /\ tx' = [tx EXCEPT ![n] = next(sent)]
      BY <1>2 DEF SendNextConsecutiveFrames
    <2>2. sent = left => next(sent).status = "IDLE"
      <3> HIDE DEF left
      <3> QED
        BY DEF Advance, Transmissions
    <2>3. left \in Int
      <3>1. t.sv \in Sendable /\ t.index \in Nat
        BY <1>2 DEF TxAligned, Transmissions
      <3> QED
        BY <3>1, SendableSize DEF FramesLeft
    <2> HIDE DEF left, next
    <2>4. tx'[n] = next(sent)
      BY <1>1, <2>1 DEF TypeOK
    <2>5. sent # left
      BY <1>2, <2>2, <2>4
    <2>6. sent < left
      BY <2>1, <2>3, <2>5
    <2>7. faults \in Faults /\ faults' = [faults EXCEPT !.fail = faults.fail + 1]
      BY <1>1, <2>1, <2>6 DEF CanSend, TypeOK
    <2>8. faults'.fail = faults.fail + 1
      BY <2>7, FailCounted
    <2> QED
      BY <2>7, <2>8, OneMore
  <1> SUFFICES ASSUME NEW m \in Nodes, tx'[m].status = "MORE_CONSECUTIVE_FRAMES_TO_SEND",
                      tx[m].status # "MORE_CONSECUTIVE_FRAMES_TO_SEND"
               PROVE  faults'.fail # 0
    BY <1>1 DEF InterruptInv, FaultsGrow
  <1>3. tx # tx' /\ tx \in [Nodes -> Transmissions]
    BY <1>1 DEF TypeOK
  <1>4. PICK n \in Nodes :
            \/ SendSingleFrame(n) \/ SendWithoutFlowControl(n) \/ SendFirstFrame(n)
            \/ CheckFlowControlTimeout(n) \/ SendMoreConsecutiveFrames(n)
            \/ HandleIncomingFlowControl(n) \/ Expire(n)
    BY <1>3 DEF vars, Next, Cycle, SendRequest, SendEvent, ReadResponse, SetNodeIdentifiers,
       ClearQueue, SetRxFilter, LoseFrame, CycleStart, NothingToSend, DispatchFrame,
       DispatchDone, CycleEnd, HandleIncomingSingleFrame, HandleIncomingFirstFrame,
       HandleIncomingConsecutiveFrame, HandleIncomingOsySpecificMultiFrame
  <1>5. CASE SendSingleFrame(n) \/ SendWithoutFlowControl(n)
    <2>1. CASE SendSingleFrame(n)
      <3>1. PICK s : tx' = [tx EXCEPT ![n].sv = s]
        BY <2>1 DEF SendSingleFrame
      <3> QED
        BY <1>3, <3>1 DEF Transmissions
    <2>2. CASE SendWithoutFlowControl(n)
      <3> DEFINE Total(s) == 1 + FramesLeft(Size[s], 6)
                 Index(s, sent) == IF sent = 0 THEN 6 ELSE Least(Size[s], 6 + 7 * (sent - 1))
                 Number(s, sent) == Least(sent, Total(s) - 1) % 16
      <3>1. PICK s \in Services :
                \E sent \in 0 .. Total(s) :
                    tx' = [tx EXCEPT ![n].sv = s, ![n].index = Index(s, sent),
                                     ![n].seq = Number(s, sent)]
        BY <2>2 DEF SendWithoutFlowControl
      <3>2. PICK sent \in 0 .. Total(s) :
                tx' = [tx EXCEPT ![n].sv = s, ![n].index = Index(s, sent),
                                 ![n].seq = Number(s, sent)]
        BY <3>1
      <3> HIDE DEF Index, Number
      <3> QED
        BY <1>3, <3>2 DEF Transmissions
    <2> QED
      BY <1>5, <2>1, <2>2
  <1>6. CASE SendFirstFrame(n)
    <2>1. PICK s, failed : tx' = [tx EXCEPT ![n] = AwaitFlowControl(s, failed)]
      BY <1>6 DEF SendFirstFrame
    <2>2. AwaitFlowControl(s, failed).status # "MORE_CONSECUTIVE_FRAMES_TO_SEND"
      BY DEF AwaitFlowControl
    <2> QED
      BY <1>3, <2>1, <2>2
  <1>7. CASE CheckFlowControlTimeout(n) \/ Expire(n)
    BY <1>3, <1>7 DEF CheckFlowControlTimeout, Expire, GiveUp, Transmissions
  <1>8. CASE SendMoreConsecutiveFrames(n)
    <2>1. /\ SendNextConsecutiveFrames(n, tx[n], tx[n].expired) /\ tx[n] \in Transmissions
          /\ TxAligned(tx[n]) /\ tx[n].status # "IDLE"
      BY <1>3, <1>8 DEF SendMoreConsecutiveFrames, IInv, TxPosition
    <2>2. CASE m = n
      BY <1>2, <2>1, <2>2
    <2>3. CASE m # n
      <3>1. PICK x : tx' = [tx EXCEPT ![n] = x]
        BY <2>1 DEF SendNextConsecutiveFrames
      <3> QED
        BY <1>3, <2>3, <3>1
    <2> QED
      BY <2>2, <2>3
  <1>9. CASE HandleIncomingFlowControl(n)
    <2> DEFINE t == [tx[n] EXCEPT !.expired = FALSE]
    <2>1. /\ t \in Transmissions /\ t.status = tx[n].status /\ t.sv = tx[n].sv
          /\ t.index = tx[n].index /\ t.seq = tx[n].seq
      BY <1>3 DEF Transmissions
    <2>2. SendNextConsecutiveFrames(n, t, FALSE) /\ t.status # "IDLE"
      BY <1>3, <1>9, <2>1 DEF HandleIncomingFlowControl
    <2>5. TxAligned(t)
      BY <2>1 DEF IInv, TxPosition, TxAligned
    <2> HIDE DEF t
    <2>3. CASE m = n
      BY <1>2, <2>1, <2>2, <2>3, <2>5
    <2>4. CASE m # n
      <3>1. PICK x : tx' = [tx EXCEPT ![n] = x]
        BY <2>2 DEF SendNextConsecutiveFrames
      <3> QED
        BY <1>3, <2>4, <3>1
    <2> QED
      BY <2>3, <2>4
  <1> QED
    BY <1>4, <1>5, <1>6, <1>7, <1>8, <1>9

LEMMA NextMade ==
    ASSUME IInv, MadeInv, [Next]_vars
    PROVE  MadeInv'
  BY NextForm, NextFilter, NextInterrupt DEF MadeInv, IInv

LEMMA StillTimely ==
    ASSUME IInv, MadeInv, [Next]_vars
    PROVE  /\ Timely' => Timely
           /\ Announced' => Announced
  <1>1. FaultsGrow /\ faults \in Faults
    BY NextFilter DEF MadeInv, IInv, TypeOK
  <1> QED
    BY <1>1 DEF FaultsGrow, Timely, Announced, Faults

-----------------------------------------------------------------------------
(* What is delivered.                                                       *)

LEMMA Delivered ==
    ASSUME TypeOK, WholeInv, NEW n \in Nodes, NEW s \in Sendable, Source[s] = Peer(n),
           NEW m \in Messages, m = Whole(s), AddToRxQueue(n, m)
    PROVE  WholeInv'
  <1> SUFFICES ASSUME NEW p \in Nodes, NEW i \in DOMAIN received'[p]
               PROVE  \E r \in Sendable : Source[r] = Peer(p) /\ received'[p][i] = Whole(r)
    BY DEF WholeInv
  <1>1. CASE received' = received
    BY <1>1 DEF WholeInv
  <1>2. CASE received' = [received EXCEPT ![n] = Append(@, m)]
    <2>1. received[n] \in Seq(Messages)
      BY DEF TypeOK
    <2>2. received'[p] = IF p = n THEN Append(received[n], m) ELSE received[p]
      BY <1>2 DEF TypeOK
    <2>3. CASE p # n
      BY <2>2, <2>3 DEF WholeInv
    <2>4. CASE p = n
      <3>1. received'[p] = Append(received[n], m)
        BY <2>2, <2>4
      <3>2. \/ i \in DOMAIN received[n] /\ received'[p][i] = received[n][i]
            \/ received'[p][i] = m
        BY <2>1, <3>1
      <3> QED
        BY <2>4, <3>2 DEF WholeInv
    <2> QED
      BY <2>3, <2>4
  <1> QED
    BY <1>1, <1>2 DEF AddToRxQueue

\* Frame f0 completes its service for node n.
Gives(n, f0) ==
    /\ f0.sv \in Sendable /\ Source[f0.sv] = Peer(n)
    /\ f0.pci = "CF" => Size[f0.sv] - f0.at <= 7
    /\ Whole(f0.sv) \in Messages
    /\ AddToRxQueue(n, Whole(f0.sv))

LEMMA SingleGives ==
    ASSUME Ordinary, IInv, MadeInv, StaysApart, NEW n \in Nodes, HandleIncomingSingleFrame(n),
           NEW f0, f0 = Head(canQueue[n])
    PROVE  Gives(n, f0)
  <1> DEFINE m == [size |-> f0.size, data |-> << <<f0.sv, f0.at>> >>]
  <1>1. TypeOK /\ ReadFrame(n, f0, {"SF", "OSF"}) /\ AddToRxQueue(n, m)
    BY DEF HandleIncomingSingleFrame, IInv
  <1>2. f0 \in Under(n) /\ f0 \in Frames /\ f0 \in ToSet(canQueue[n]) /\ f0.pci \in {"SF", "OSF"}
    BY <1>1, ReadFirst
  <1>3. f0.src = Peer(n) /\ Made(f0) /\ f0.sv \in Sendable
    BY <1>1, <1>2, Heard, FrameSource DEF MadeInv, FormInv, ReadFrame
  <1>4. m = Whole(f0.sv) /\ Source[f0.sv] = Peer(n)
    BY <1>2, <1>3 DEF Made, Whole
  <1>5. m \in Messages
    BY <1>2, FramePiece DEF Messages, Frames
  <1> HIDE DEF m
  <1> QED
    BY <1>1, <1>2, <1>3, <1>4, <1>5 DEF Gives

LEMMA CompleteIsWhole ==
    ASSUME NEW r, NEW s \in Sendable, s \notin Events, Size[s] > 7,
           r.data \in Seq(Pieces), r.index \in Nat, r.index % 7 = 6,
           Len(r.data) = 1 + r.index \div 7, r.data[1] = <<s, 0>>, Gapless(r),
           r.index < Size[s], Size[s] - r.index <= 7,
           <<s, r.index>> \in Pieces
    PROVE  [size |-> Size[s], data |-> Append(r.data, <<s, r.index>>)] = Whole(s)
  <1> DEFINE r2 == [data |-> Append(r.data, <<s, r.index>>)]
             d == Append(r.data, <<s, r.index>>)
             piece(k) == <<s, IF k = 1 THEN 0 ELSE 6 + 7 * (k - 2)>>
             len == 2 + r.index \div 7
  <1>1. Gapless(r2) /\ r2.data = d
    BY GaplessNext
  <1>2. /\ DOMAIN d = 1 .. len /\ d[1] = <<s, 0>> /\ len \in Nat
        /\ d = [k \in 1 .. len |-> d[k]]
    <2> DEFINE c == r.data
               x == <<s, r.index>>
    <2>1. c \in Seq(Pieces) /\ x \in Pieces /\ Len(c) + 1 = len /\ Len(c) > 0 /\ c[1] = <<s, 0>>
          /\ d = Append(c, x) /\ Len(c) \in Nat
      <3>1. r.index \div 7 \in Nat
        OBVIOUS
      <3> QED
        BY <3>1
    <2>2. ASSUME NEW b \in Seq(Pieces), NEW y \in Pieces
          PROVE  /\ DOMAIN Append(b, y) = 1 .. Len(b) + 1
                 /\ \A k \in 1 .. Len(b) : Append(b, y)[k] = b[k]
                 /\ Append(b, y) = [k \in 1 .. Len(b) + 1 |-> Append(b, y)[k]]
      <3>1. Append(b, y) \in Seq(Pieces) /\ DOMAIN Append(b, y) = 1 .. Len(b) + 1
        OBVIOUS
      <3>2. \A k \in 1 .. Len(b) : Append(b, y)[k] = b[k]
        OBVIOUS
      <3>3. Append(b, y) = [k \in 1 .. Len(b) + 1 |-> Append(b, y)[k]]
        <4>1. ASSUME NEW q \in Seq(Pieces) PROVE q \in [1 .. Len(q) -> Pieces]
          OBVIOUS
        <4>2. Append(b, y) \in [1 .. Len(b) + 1 -> Pieces]
          <5>1. Len(Append(b, y)) = Len(b) + 1
            OBVIOUS
          <5> QED
            BY <3>1, <4>1, <5>1
        <4> QED
          BY <4>2
      <3> QED
        BY <3>1, <3>2, <3>3
    <2> HIDE DEF c, x, d, len
    <2>3. /\ DOMAIN Append(c, x) = 1 .. Len(c) + 1
          /\ \A k \in 1 .. Len(c) : Append(c, x)[k] = c[k]
          /\ Append(c, x) = [k \in 1 .. Len(c) + 1 |-> Append(c, x)[k]]
      BY <2>1, <2>2
    <2>4. 1 \in 1 .. Len(c) /\ len \in Nat
      BY <2>1
    <2> QED
      BY <2>1, <2>3, <2>4
  <1>3. d[1][1] = s
    BY <1>2
  <1> HIDE DEF d
  <1>4. \A k \in 1 .. len : d[k] = piece(k)
    BY <1>1, <1>2, <1>3 DEF Gapless
  <1>5. d = [k \in 1 .. len |-> piece(k)]
    <2> HIDE DEF piece, len
    <2> QED
      BY <1>2, <1>4
  <1>6. 1 + FramesLeft(Size[s], 6) = len
    <2>1. Size[s] \in Nat
      BY SendableSize
    <2>2. ASSUME NEW a \in Nat, NEW b \in Nat, a % 7 = 6, a < b, b - a <= 7
          PROVE  (b - 6 + 6) \div 7 = 1 + a \div 7
      BY <2>2
    <2>3. (Size[s] - 6 + 6) \div 7 = 1 + r.index \div 7
      BY <2>1, <2>2
    <2>4. r.index \div 7 \in Nat
      OBVIOUS
    <2> QED
      BY <2>3, <2>4 DEF FramesLeft
  <1>7. Whole(s) = [size |-> Size[s], data |-> [k \in 1 .. 1 + FramesLeft(Size[s], 6) |-> piece(k)]]
    <2>1. ~(s \in Events \/ Size[s] <= 7)
      BY SendableSize
    <2> QED
      BY <2>1, Zenon DEF Whole
  <1>8. Whole(s) = [size |-> Size[s], data |-> d]
    <2> HIDE DEF piece, len
    <2> QED
      BY <1>5, <1>6, <1>7
  <1> QED
    BY <1>8 DEF d

LEMMA TransferGives ==
    ASSUME IInv, MadeInv, RxInv, NEW n \in Nodes, HandleIncomingConsecutiveFrame(n),
           NEW f0, f0 = Head(canQueue[n]), Receiving(n, f0.sv, f0.at)
    PROVE  Gives(n, f0) \/ UNCHANGED received
  <1> DEFINE r == rx[n]
             m == [size |-> r.size, data |-> Append(r.data, <<f0.sv, f0.at>>)]
  <1>1. /\ TypeOK /\ ReadFrame(n, f0, {"CF"}) /\ r \in Receptions /\ RxAligned(r)
        /\ \/ UNCHANGED received
           \/ /\ r.status = "WAITING_FOR_CONSECUTIVE_FRAME"
              /\ f0.dlc - 1 >= r.size - r.index
              /\ AddToRxQueue(n, m)
    BY DEF HandleIncomingConsecutiveFrame, ContinueTransfer, IInv, TypeOK, RxPosition
  <1> HIDE DEF r
  <1>2. f0 \in Under(n) /\ f0 \in Frames /\ f0.pci = "CF"
    BY <1>1, ReadFirst
  <1>3. CASE UNCHANGED received
    BY <1>3
  <1>4. CASE /\ r.status = "WAITING_FOR_CONSECUTIVE_FRAME"
             /\ f0.dlc - 1 >= r.size - r.index
             /\ AddToRxQueue(n, m)
    <2>1. Receiving(n, f0.sv, f0.at) /\ Made(f0)
      BY <1>2 DEF MadeInv, FormInv
    <2>2. r.data[1] = <<f0.sv, 0>> /\ Ahead(r, f0.at) /\ r.data[1][1] = f0.sv
      BY <1>4, <2>1 DEF Receiving, r
    <2>3. /\ f0.sv \in Sendable /\ f0.sv \notin Events /\ Source[f0.sv] = Peer(n)
          /\ Size[f0.sv] > 7 /\ r.size = Size[f0.sv]
      BY <1>4, <2>2 DEF RxInv, r
    <2>4. /\ r.data \in Seq(Pieces) /\ r.index \in Nat /\ r.size \in Offsets
          /\ r.index % 7 = 6 /\ Len(r.data) = 1 + r.index \div 7 /\ r.index < r.size
      BY <1>1, <1>4 DEF Receptions, RxAligned
    <2>5. /\ f0.at \in Nat /\ f0.at < Size[f0.sv] /\ Size[f0.sv] \in Nat
          /\ f0.dlc = 1 + Least(7, Size[f0.sv] - f0.at)
      BY <1>2, <2>1, <2>3, SendableSize, MaxServiceSizeFact DEF Frames, Offsets, Made
    <2>6. f0.at = r.index /\ Size[f0.sv] - r.index <= 7 /\ r.index <= f0.at
      <3>1. r.index <= f0.at
        BY <2>2 DEF Ahead
      <3>2. Least(7, Size[f0.sv] - f0.at) >= Size[f0.sv] - r.index
        BY <1>4, <2>3, <2>5, SMTT(30) DEF Least
      <3> QED
        BY <2>4, <2>5, <3>1, <3>2 DEF Least
    <2>7. Gapless(r)
      BY <2>2, <2>4, <2>6 DEF Ahead
    <2>8. <<f0.sv, f0.at>> \in Pieces
      BY <1>2, FramePiece
    <2>9. m = Whole(f0.sv)
      BY <2>2, <2>3, <2>4, <2>6, <2>7, <2>8, CompleteIsWhole
    <2>10. m \in Messages
      <3>1. Append(r.data, <<f0.sv, f0.at>>) \in Seq(Pieces)
        BY <2>4, <2>8
      <3> QED
        BY <2>4, <3>1 DEF Messages
    <2> HIDE DEF m
    <2> QED
      BY <1>4, <2>3, <2>6, <2>9, <2>10 DEF Gives
  <1> QED
    BY <1>1, <1>3, <1>4

LEMMA GivesWhole ==
    ASSUME TypeOK, WholeInv, NEW n \in Nodes, NEW f0, Gives(n, f0)
    PROVE  WholeInv'
  BY Delivered DEF Gives

\* Nothing but the last frame of a service hands one over.
LEMMA OnlyReceived ==
    ASSUME Ordinary, IInv, MadeInv, [Next]_vars, received' # received
    PROVE  \E n \in Nodes : HandleIncomingSingleFrame(n) \/ HandleIncomingConsecutiveFrame(n)
  <1>1. Next
    BY DEF vars
  <1>2. PICK n \in Nodes :
            \/ \E s \in Services : SendRequest(n, s) \/ SendEvent(n, s)
            \/ ReadResponse(n)
            \/ \E m \in Nodes : SetNodeIdentifiers(n, m)
            \/ ClearQueue(n)
            \/ SetRxFilter(n)
            \/ Cycle(n)
            \/ LoseFrame(n)
            \/ Expire(n)
    BY <1>1 DEF Next
  <1>3. /\ \A s \in Services : ~SendRequest(n, s) /\ ~SendEvent(n, s)
        /\ ~ReadResponse(n)
        /\ \A m \in Nodes : ~SetNodeIdentifiers(n, m)
        /\ ~ClearQueue(n) /\ ~SetRxFilter(n) /\ ~LoseFrame(n) /\ ~Expire(n)
    BY DEF SendRequest, SendEvent, ReadResponse, SetNodeIdentifiers, ClearQueue, SetRxFilter,
       LoseFrame, Expire
  <1>4. /\ ~CycleStart(n) /\ ~NothingToSend(n) /\ ~SendSingleFrame(n)
        /\ ~SendFirstFrame(n) /\ ~CheckFlowControlTimeout(n) /\ ~SendMoreConsecutiveFrames(n)
    BY DEF CycleStart, NothingToSend, SendSingleFrame, SendFirstFrame,
       CheckFlowControlTimeout, SendMoreConsecutiveFrames
  <1>5. /\ ~DispatchFrame(n) /\ ~DispatchDone(n) /\ ~CycleEnd(n)
        /\ ~HandleIncomingFirstFrame(n) /\ ~HandleIncomingFlowControl(n)
    BY DEF DispatchFrame, DispatchDone, CycleEnd, HandleIncomingFirstFrame,
       HandleIncomingFlowControl
  <1> QED
    BY <1>2, <1>3, <1>4, <1>5, NoMultiFrames DEF Cycle

LEMMA NextWhole ==
    ASSUME Ordinary, IInv, MadeInv, RxInv, WholeInv, StaysApart, [Next]_vars,
           \A n \in Nodes : HandleIncomingConsecutiveFrame(n) =>
               Receiving(n, Head(canQueue[n]).sv, Head(canQueue[n]).at)
    PROVE  WholeInv'
  <1>1. CASE UNCHANGED received
    BY <1>1 DEF WholeInv
  <1>2. CASE received' # received
    <2>1. PICK n \in Nodes : HandleIncomingSingleFrame(n) \/ HandleIncomingConsecutiveFrame(n)
      BY <1>2, OnlyReceived
    <2> QED
      BY <1>2, <2>1, SingleGives, TransferGives, GivesWhole DEF IInv
  <1> QED
    BY <1>1, <1>2

\* The frame that node n handles is of the service that it receives.
LEMMA HeadReceived ==
    ASSUME TypeOK, CfInv, NEW n \in Nodes, HandleIncomingConsecutiveFrame(n)
    PROVE  Receiving(n, Head(canQueue[n]).sv, Head(canQueue[n]).at)
  <1> DEFINE f0 == Head(canQueue[n])
  <1>1. ReadFrame(n, f0, {"CF"})
    BY DEF HandleIncomingConsecutiveFrame
  <1> HIDE DEF f0
  <1>2. f0 \in Under(n) /\ f0.pci = "CF"
    BY <1>1, ReadFirst
  <1> QED
    BY <1>2 DEF CfInv, f0

-----------------------------------------------------------------------------

LEMMA InitMade == Init => MadeInv
  <1> SUFFICES ASSUME Init PROVE MadeInv
    OBVIOUS
  <1>1. \A q \in Nodes : \A f : f \notin Under(q)
    BY NothingUnder DEF Init
  <1>2. \A q \in Nodes : canQueue[q] = <<>> /\ txQueue[q] = <<>> /\ tx[q].status = "IDLE"
    BY DEF Init
  <1> QED
    BY <1>1, <1>2, NoFrame DEF MadeInv, FormInv, FilterInv, InterruptInv, Switching, Init,
       NoFaults

LEMMA MadeInvariant == Spec => []MadeInv
  <1>1. IInv /\ MadeInv /\ [Next]_vars => MadeInv'
    BY NextMade
  <1> QED
    BY <1>1, InitMade, InductiveInvariant, PTL DEF Spec

LEMMA InitFlow == Init => FlowInv
  <1> SUFFICES ASSUME Init PROVE FlowInv
    OBVIOUS
  <1>1. \A q \in Nodes : \A f : f \notin Under(q)
    BY NothingUnder DEF Init
  <1>2. \A q \in Nodes : tx[q].status = "IDLE" /\ rx[q].status = "IDLE" /\ received[q] = <<>>
    BY DEF Init
  <1>3. RxInv /\ CfInv /\ PairInv /\ FirstInv /\ FcInv /\ MoreInv
    BY <1>1, <1>2 DEF RxInv, CfInv, PairInv, FirstInv, FcInv, MoreInv
  <1>4. WholeInv
    BY <1>2 DEF WholeInv
  <1> QED
    BY <1>3, <1>4, InitMade DEF FlowInv

LEMMA NextFlow ==
    ASSUME Ordinary, IInv, MadeInv, Timely => FlowInv, [Next]_vars, Timely'
    PROVE  FlowInv'
  <1>1. Timely /\ FlowInv /\ LinkInv /\ RxInv /\ CfInv /\ WholeInv
    BY StillTimely DEF FlowInv, LinkInv
  <1>2. MadeInv' /\ LinkInv'
    BY <1>1, NextMade, NextLinks
  <1>3. WholeInv'
    BY <1>1, NextWhole, HeadReceived DEF StaysApart, IInv
  <1> QED
    BY <1>2, <1>3 DEF FlowInv, LinkInv

\* The inductive invariant of the transfers where no time-out comes too early: which
\* frames are under way together, and how they fit the state machines at both ends.
THEOREM FlowInvariant ==
    ASSUME Ordinary
    PROVE  Spec => [](Timely => FlowInv)
  <1> DEFINE Flow == Timely => FlowInv
  <1>1. IInv /\ MadeInv /\ Flow /\ [Next]_vars => Flow'
    BY NextFlow
  <1>2. Init => Flow
    BY InitFlow
  <1>3. Spec => []Flow
    <2> HIDE DEF Flow
    <2> QED
      BY <1>1, <1>2, InductiveInvariant, MadeInvariant, PTL DEF Spec
  <1> QED
    BY <1>3

-----------------------------------------------------------------------------
(* Lines: what a node that is announced every service is to read, as a whole,  *)
(* where time-outs come early and flow controls late.                          *)

\* Frames of a service that node p listens to if nobody changes its server.
FirstOf(p, f) == f.pci = "FF" /\ f.src = Partner[p]
NextOf(p, f) == f.pci = "CF" /\ f.src = Partner[p]

\* Between positions i and j of c no service begins.
Uninterrupted(p, c, i, j) == \A k \in i + 1 .. j - 1 : ~FirstOf(p, c[k])

Receives(r, s, at) ==
    r.data # <<>> /\ r.data[1] = <<s, 0>> /\ (r.status # "IDLE" => Ahead(r, at))

\* The bytes of service s from at on may come at position i of c: behind their first
\* frame, or where the reception r has begun with s, and behind what precedes them.
Fits(p, r, c, i, s, at) ==
    /\ \A k \in 1 .. i - 1 : NextOf(p, c[k]) /\ Uninterrupted(p, c, k, i) => c[k].at < at
    /\ \/ \E j \in 1 .. i - 1 :
             FirstOf(p, c[j]) /\ c[j].sv = s /\ Uninterrupted(p, c, j, i)
       \/ Uninterrupted(p, c, 0, i) /\ Receives(r, s, at)

\* Consecutive frames of c, and those that transmission t has still to send behind them.
Line(p, r, c, t) ==
    /\ \A i \in DOMAIN c : NextOf(p, c[i]) => Fits(p, r, c, i, c[i].sv, c[i].at)
    /\ t.status # "IDLE" => Fits(p, r, c, Len(c) + 1, t.sv, t.index)

LEMMA FitsSame ==
    ASSUME NEW p, NEW r, NEW c, NEW d, NEW i \in Nat, \A k \in 1 .. i - 1 : d[k] = c[k],
           NEW s, NEW at, Fits(p, r, c, i, s, at)
    PROVE  Fits(p, r, d, i, s, at)
  <1>1. \A k \in 0 .. i - 1 : Uninterrupted(p, d, k, i) <=> Uninterrupted(p, c, k, i)
    BY DEF Uninterrupted
  <1>2. Uninterrupted(p, c, 0, i) => Uninterrupted(p, d, 0, i)
    BY DEF Uninterrupted
  <1>3. \A k \in 1 .. i - 1 : k \in 0 .. i - 1
    OBVIOUS
  <1> QED
    BY <1>1, <1>2, <1>3 DEF Fits

\* An element that does not begin a service is taken out of c.
LEMMA FitsRemoved ==
    ASSUME NEW p, NEW r, NEW c, NEW d, NEW q \in Nat \ {0}, ~FirstOf(p, c[q]), NEW i \in Nat,
           \A k \in 1 .. i - 1 : d[k] = c[IF k < q THEN k ELSE k + 1],
           NEW s, NEW at, Fits(p, r, c, IF i < q THEN i ELSE i + 1, s, at)
    PROVE  Fits(p, r, d, i, s, at)
  <1> DEFINE up(k) == IF k < q THEN k ELSE k + 1
  <1>1. /\ Fits(p, r, c, up(i), s, at) /\ up(i) \in Nat
        /\ \A k \in 1 .. i - 1 : d[k] = c[up(k)] /\ up(k) \in 1 .. up(i) - 1
    OBVIOUS
  <1>2. ASSUME NEW k \in Nat, NEW l \in up(k) + 1 .. up(i) - 1, l # q
        PROVE  \E m \in k + 1 .. i - 1 : l = up(m)
    <2>1. CASE l < q
      BY <1>2, <2>1
    <2>2. CASE l > q
      <3>1. l - 1 \in k + 1 .. i - 1 /\ up(l - 1) = l
        BY <1>2, <2>2
      <3> QED
        BY <3>1
    <2> QED
      BY <1>2, <2>1, <2>2
  <1>3. ASSUME NEW k \in 1 .. i - 1, Uninterrupted(p, d, k, i)
        PROVE  Uninterrupted(p, c, up(k), up(i))
    <2> SUFFICES ASSUME NEW l \in up(k) + 1 .. up(i) - 1, l # q PROVE ~FirstOf(p, c[l])
      BY DEF Uninterrupted
    <2>1. PICK m \in k + 1 .. i - 1 : l = up(m)
      BY <1>2
    <2>2. m \in 1 .. i - 1 /\ d[m] = c[l]
      BY <1>1, <2>1
    <2> QED
      BY <1>3, <2>1, <2>2 DEF Uninterrupted
  <1>4. ASSUME NEW k \in 1 .. i - 1, Uninterrupted(p, c, up(k), up(i))
        PROVE  Uninterrupted(p, d, k, i)
    <2> SUFFICES ASSUME NEW l \in k + 1 .. i - 1 PROVE ~FirstOf(p, d[l])
      BY DEF Uninterrupted
    <2>1. up(l) \in up(k) + 1 .. up(i) - 1 /\ d[l] = c[up(l)]
      BY <1>1
    <2> QED
      BY <1>4, <2>1 DEF Uninterrupted
  <1>5. ASSUME Uninterrupted(p, c, 0, up(i)) PROVE Uninterrupted(p, d, 0, i)
    <2> SUFFICES ASSUME NEW l \in 1 .. i - 1 PROVE ~FirstOf(p, d[l])
      BY DEF Uninterrupted
    <2>1. up(l) \in 0 + 1 .. up(i) - 1 /\ d[l] = c[up(l)]
      BY <1>1
    <2> QED
      BY <1>5, <2>1 DEF Uninterrupted
  <1>6. ASSUME NEW j \in 1 .. up(i) - 1, FirstOf(p, c[j])
        PROVE  \E m \in 1 .. i - 1 : j = up(m)
    <2>1. j # q
      BY <1>6
    <2>2. CASE j < q
      BY <2>2
    <2>3. CASE j > q
      <3>1. j - 1 \in Nat /\ j - 1 >= q /\ ~(j - 1 < q) /\ j - 1 + 1 = j
        BY <2>3
      <3>2. up(j - 1) = j
        BY <3>1
      <3>3. j - 1 \in 1 .. i - 1
        BY <2>3
      <3> QED
        BY <3>2, <3>3
    <2> QED
      BY <2>1, <2>2, <2>3
  <1> HIDE DEF up
  <1>7. \A k \in 1 .. i - 1 : NextOf(p, d[k]) /\ Uninterrupted(p, d, k, i) => d[k].at < at
    BY <1>1, <1>3 DEF Fits
  <1>8. CASE \E j \in 1 .. up(i) - 1 :
                 FirstOf(p, c[j]) /\ c[j].sv = s /\ Uninterrupted(p, c, j, up(i))
    BY <1>1, <1>4, <1>6, <1>7, <1>8 DEF Fits
  <1>9. CASE Uninterrupted(p, c, 0, up(i)) /\ Receives(r, s, at)
    BY <1>5, <1>7, <1>9 DEF Fits
  <1> QED
    BY <1>1, <1>8, <1>9 DEF Fits

\* The first element of c is read, which makes r2 of the reception r.
LEMMA FitsRead ==
    ASSUME NEW p, NEW r, NEW r2, NEW c, NEW d, NEW i \in Nat \ {0},
           \A k \in 1 .. i - 1 : d[k] = c[k + 1],
           NEW s, NEW at, Fits(p, r, c, i + 1, s, at),
           FirstOf(p, c[1]) /\ c[1].sv = s => Receives(r2, s, at),
           /\ ~FirstOf(p, c[1])
           /\ Receives(r, s, at)
           /\ NextOf(p, c[1]) => c[1].at < at
           => Receives(r2, s, at)
    PROVE  Fits(p, r2, d, i, s, at)
  <1>1. ASSUME NEW k \in 0 .. i - 1
        PROVE  Uninterrupted(p, d, k, i) <=> Uninterrupted(p, c, k + 1, i + 1)
    <2>1. \A l \in k + 1 .. i - 1 : l \in 1 .. i - 1 /\ l + 1 \in (k + 1) + 1 .. (i + 1) - 1
      OBVIOUS
    <2>2. \A l \in (k + 1) + 1 .. (i + 1) - 1 : l - 1 \in k + 1 .. i - 1 /\ d[l - 1] = c[l]
      <3> SUFFICES ASSUME NEW l \in (k + 1) + 1 .. (i + 1) - 1
                   PROVE  l - 1 \in k + 1 .. i - 1 /\ d[l - 1] = c[l]
        OBVIOUS
      <3>1. l - 1 \in k + 1 .. i - 1 /\ l - 1 \in 1 .. i - 1 /\ (l - 1) + 1 = l
        OBVIOUS
      <3>2. d[l - 1] = c[(l - 1) + 1]
        BY <3>1
      <3> QED
        BY <3>1, <3>2
    <2> QED
      BY <2>1, <2>2 DEF Uninterrupted
  <1>2. \A k \in 1 .. i - 1 : NextOf(p, d[k]) /\ Uninterrupted(p, d, k, i) => d[k].at < at
    <2> SUFFICES ASSUME NEW k \in 1 .. i - 1, NextOf(p, d[k]), Uninterrupted(p, d, k, i)
                 PROVE  d[k].at < at
      OBVIOUS
    <2>1. k + 1 \in 1 .. (i + 1) - 1 /\ k \in 0 .. i - 1 /\ d[k] = c[k + 1]
      OBVIOUS
    <2> QED
      BY <1>1, <2>1 DEF Fits
  <1>3. CASE \E j \in 1 .. (i + 1) - 1 :
                 FirstOf(p, c[j]) /\ c[j].sv = s /\ Uninterrupted(p, c, j, i + 1)
    <2> PICK j \in 1 .. (i + 1) - 1 :
                 FirstOf(p, c[j]) /\ c[j].sv = s /\ Uninterrupted(p, c, j, i + 1)
      BY <1>3
    <2>1. CASE j = 1
      <3>1. Uninterrupted(p, d, 0, i) /\ Receives(r2, s, at)
        BY <1>1, <2>1
      <3> QED
        BY <1>2, <3>1 DEF Fits
    <2>2. CASE j # 1
      <3>1. j - 1 \in 1 .. i - 1 /\ j - 1 \in 0 .. i - 1 /\ (j - 1) + 1 = j
        BY <2>2
      <3>2. d[j - 1] = c[j] /\ Uninterrupted(p, d, j - 1, i)
        BY <1>1, <3>1
      <3> QED
        BY <1>2, <3>1, <3>2 DEF Fits
    <2> QED
      BY <2>1, <2>2
  <1>4. CASE Uninterrupted(p, c, 0, i + 1) /\ Receives(r, s, at)
    <2>1. ~FirstOf(p, c[1]) /\ Uninterrupted(p, c, 1, i + 1)
      BY <1>4 DEF Uninterrupted
    <2>2. 1 \in 1 .. (i + 1) - 1
      OBVIOUS
    <2>3. NextOf(p, c[1]) => c[1].at < at
      BY <2>1, <2>2 DEF Fits
    <2>4. Uninterrupted(p, d, 0, i)
      BY <1>1, <2>1
    <2> QED
      BY <1>2, <1>4, <2>1, <2>3, <2>4 DEF Fits
  <1> QED
    BY <1>3, <1>4 DEF Fits

\* Frames fs come behind c, none of which begins a service.
LEMMA FitsBeyond ==
    ASSUME NEW p, NEW r, NEW c \in Seq(Frames), NEW fs \in Seq(Frames), NEW s,
           \A l \in DOMAIN fs : ~FirstOf(p, fs[l]),
           NEW a \in Nat, NEW b \in Nat, a <= b, r.index \in Nat,
           Fits(p, r, c, Len(c) + 1, s, a),
           NEW k \in 0 .. Len(fs), \A l \in 1 .. k : NextOf(p, fs[l]) => fs[l].at < b
    PROVE  Fits(p, r, c \o fs, Len(c) + 1 + k, s, b)
  <1> DEFINE d == c \o fs
             len == Len(c)
             i == len + 1 + k
  <1>1. /\ len \in Nat /\ Len(fs) \in Nat /\ i \in Nat /\ DOMAIN fs = 1 .. Len(fs)
        /\ \A m \in 1 .. len : d[m] = c[m] /\ c[m].at \in Nat
        /\ \A m \in 1 .. Len(fs) : d[len + m] = fs[m]
    <2>1. \A m \in 1 .. len : c[m] \in Frames
      OBVIOUS
    <2>2. \A f \in Frames : f.at \in Nat
      BY MaxServiceSizeFact DEF Frames, Offsets
    <2>3. /\ \A m \in 1 .. len : d[m] = c[m]
          /\ \A m \in 1 .. Len(fs) : d[len + m] = fs[m]
      OBVIOUS
    <2> QED
      BY <2>1, <2>2, <2>3
  <1>0. i = len + 1 + k /\ k \in Nat /\ k <= Len(fs) /\ 0 \in 0 .. len
    BY <1>1
  <1> HIDE DEF d, len, i
  <1>2. ASSUME NEW m \in len + 1 .. i - 1 PROVE m - len \in 1 .. k /\ d[m] = fs[m - len]
    <2>1. m - len \in 1 .. k /\ m - len \in 1 .. Len(fs) /\ len + (m - len) = m
      BY <1>0, <1>1
    <2>2. d[len + (m - len)] = fs[m - len]
      BY <1>1, <2>1
    <2> QED
      BY <2>1, <2>2
  <1>3. ASSUME NEW j \in 0 .. len
        PROVE  Uninterrupted(p, c, j, len + 1) <=> Uninterrupted(p, d, j, i)
    <2>1. ASSUME NEW m \in len + 1 .. i - 1 PROVE ~FirstOf(p, d[m])
      <3>1. m - len \in 1 .. Len(fs)
        BY <1>0, <1>1, <1>2
      <3> QED
        BY <1>1, <1>2, <3>1
    <2>2. \A m \in j + 1 .. i - 1 : m \in 1 .. len \/ m \in len + 1 .. i - 1
      BY <1>0, <1>1
    <2>3. \A m \in j + 1 .. (len + 1) - 1 : m \in j + 1 .. i - 1 /\ d[m] = c[m]
      BY <1>0, <1>1
    <2>4. \A m \in j + 1 .. i - 1 : m \in 1 .. len => m \in j + 1 .. (len + 1) - 1
      BY <1>0, <1>1
    <2> QED
      <3>1. ASSUME Uninterrupted(p, c, j, len + 1) PROVE Uninterrupted(p, d, j, i)
        <4> SUFFICES ASSUME NEW m \in j + 1 .. i - 1 PROVE ~FirstOf(p, d[m])
          BY DEF Uninterrupted
        <4>1. CASE m \in 1 .. len
          <5>1. m \in j + 1 .. (len + 1) - 1
            BY <2>4, <4>1
          <5>2. ~FirstOf(p, c[m])
            BY <3>1, <5>1 DEF Uninterrupted
          <5> QED
            BY <2>3, <5>1, <5>2
        <4>2. CASE m \in len + 1 .. i - 1
          BY <2>1, <4>2
        <4> QED
          BY <2>2, <4>1, <4>2
      <3>2. ASSUME Uninterrupted(p, d, j, i) PROVE Uninterrupted(p, c, j, len + 1)
        <4>1. ASSUME NEW m \in j + 1 .. (len + 1) - 1 PROVE ~FirstOf(p, c[m])
          <5>1. m \in j + 1 .. i - 1 /\ d[m] = c[m]
            BY <2>3
          <5> QED
            BY <3>2, <5>1 DEF Uninterrupted
        <4> QED
          BY <4>1, Zenon DEF Uninterrupted
      <3> QED
        BY <3>1, <3>2
  <1>4. \A m \in 1 .. i - 1 : NextOf(p, d[m]) /\ Uninterrupted(p, d, m, i) => d[m].at < b
    <2> SUFFICES ASSUME NEW m \in 1 .. i - 1, NextOf(p, d[m]), Uninterrupted(p, d, m, i)
                 PROVE  d[m].at < b
      OBVIOUS
    <2>1. CASE m <= len
      <3>1. m \in 1 .. (len + 1) - 1 /\ m \in 0 .. len /\ m \in 1 .. len
        BY <1>1, <2>1
      <3>2. NextOf(p, c[m]) /\ Uninterrupted(p, c, m, len + 1) /\ d[m] = c[m] /\ c[m].at \in Nat
        BY <1>1, <1>3, <3>1
      <3>3. c[m].at < a
        BY <3>1, <3>2 DEF Fits, len
      <3> QED
        BY <3>2, <3>3
    <2>2. CASE m > len
      <3>1. m \in len + 1 .. i - 1
        BY <1>1, <2>2
      <3> QED
        BY <1>2, <3>1
    <2> QED
      BY <1>1, <2>1, <2>2
  <1>5. ASSUME \E j \in 1 .. (len + 1) - 1 :
                   FirstOf(p, c[j]) /\ c[j].sv = s /\ Uninterrupted(p, c, j, len + 1)
        PROVE  Fits(p, r, d, i, s, b)
    <2> PICK j \in 1 .. (len + 1) - 1 :
                 FirstOf(p, c[j]) /\ c[j].sv = s /\ Uninterrupted(p, c, j, len + 1)
      BY <1>5
    <2>1. j \in 0 .. len /\ j \in 1 .. len /\ j \in 1 .. i - 1
      BY <1>0, <1>1
    <2>2. d[j] = c[j] /\ Uninterrupted(p, d, j, i)
      BY <1>1, <1>3, <2>1
    <2> QED
      BY <1>4, <2>1, <2>2 DEF Fits
  <1>6. ASSUME Uninterrupted(p, c, 0, len + 1), Receives(r, s, a)
        PROVE  Fits(p, r, d, i, s, b)
    <2>1. Uninterrupted(p, d, 0, i)
      BY <1>0, <1>3, <1>6
    <2>2. Receives(r, s, b)
      <3>1. Ahead(r, a) => Ahead(r, b)
        BY AheadFurther
      <3> QED
        BY <1>6, <3>1 DEF Receives
    <2> QED
      BY <1>4, <2>1, <2>2 DEF Fits
  <1>7. Fits(p, r, d, i, s, b)
    BY <1>5, <1>6 DEF Fits, len
  <1> QED
    BY <1>7 DEF d, len, i

\* A frame that does not begin a service disappears.
LEMMA LineRemoved ==
    ASSUME NEW p, NEW r, NEW a \in Seq(Frames), NEW b \in Seq(Frames), b # <<>>,
           ~FirstOf(p, Head(b)), NEW t, Line(p, r, a \o b, t)
    PROVE  Line(p, r, a \o Tail(b), t)
  <1> DEFINE c == a \o b
             d == a \o Tail(b)
             q == Len(a) + 1
             up(k) == IF k < q THEN k ELSE k + 1
  <1>1. /\ q \in Nat \ {0} /\ Len(d) \in Nat /\ Len(c) = Len(d) + 1 /\ q <= Len(d) + 1
        /\ DOMAIN d = 1 .. Len(d) /\ DOMAIN c = 1 .. Len(c) /\ c[q] = Head(b)
    OBVIOUS
  <1>2. \A k \in DOMAIN d : d[k] = c[up(k)] /\ up(k) \in DOMAIN c
    <2> SUFFICES ASSUME NEW k \in DOMAIN d PROVE d[k] = c[up(k)] /\ up(k) \in DOMAIN c
      OBVIOUS
    <2>1. /\ k <= Len(a) => k \in DOMAIN c /\ d[k] = c[k]
          /\ k > Len(a) => k + 1 \in DOMAIN c /\ d[k] = c[k + 1]
      BY RemoveElement
    <2>2. CASE k <= Len(a)
      <3>1. up(k) = k
        BY <2>2
      <3> QED
        BY <2>1, <2>2, <3>1
    <2>3. CASE k > Len(a)
      <3>1. up(k) = k + 1
        BY <2>3
      <3> QED
        BY <2>1, <2>3, <3>1
    <2> QED
      BY <1>1, <2>2, <2>3
  <1>3. Line(p, r, c, t)
    OBVIOUS
  <1> HIDE DEF c, d, q
  <1>4. ASSUME NEW i \in 1 .. Len(d) + 1, NEW s, NEW at, Fits(p, r, c, up(i), s, at)
        PROVE  Fits(p, r, d, i, s, at)
    <2>1. \A k \in 1 .. i - 1 : d[k] = c[IF k < q THEN k ELSE k + 1]
      BY <1>1, <1>2
    <2>2. ~FirstOf(p, c[q]) /\ i \in Nat
      BY <1>1
    <2> QED
      BY <1>1, <1>4, <2>1, <2>2, FitsRemoved
  <1>5. ASSUME NEW i \in DOMAIN d, NextOf(p, d[i]) PROVE Fits(p, r, d, i, d[i].sv, d[i].at)
    <2>1. d[i] = c[up(i)] /\ up(i) \in DOMAIN c
      BY <1>2
    <2>2. Fits(p, r, c, up(i), c[up(i)].sv, c[up(i)].at)
      BY <1>3, <1>5, <2>1 DEF Line
    <2>3. i \in 1 .. Len(d) + 1
      BY <1>1
    <2> HIDE DEF up
    <2> QED
      BY <1>4, <2>1, <2>2, <2>3
  <1>6. t.status # "IDLE" => Fits(p, r, d, Len(d) + 1, t.sv, t.index)
    <2>1. up(Len(d) + 1) = Len(c) + 1 /\ Len(d) + 1 \in 1 .. Len(d) + 1
      BY <1>1
    <2> HIDE DEF up
    <2> QED
      BY <1>3, <1>4, <2>1 DEF Line
  <1>7. Line(p, r, d, t)
    BY <1>5, <1>6 DEF Line
  <1> QED
    BY <1>7 DEF d

Offset(at) == at \in Nat /\ at % 7 = 6

\* Where the offsets of consecutive frames are multiples of seven behind the first six.
OnGrid(p, c, t) ==
    /\ \A i \in DOMAIN c : NextOf(p, c[i]) => Offset(c[i].at)
    /\ t.status # "IDLE" => Offset(t.index)

\* The first frame is read.
LEMMA LineTail ==
    ASSUME NEW p, NEW r, NEW r2, NEW c \in Seq(Frames), c # <<>>, NEW t,
           Line(p, r, c, t), OnGrid(p, c, t),
           ASSUME NEW s, NEW at, Offset(at),
                  \/ FirstOf(p, Head(c)) /\ Head(c).sv = s
                  \/ /\ ~FirstOf(p, Head(c)) /\ Receives(r, s, at)
                     /\ NextOf(p, Head(c)) => Head(c).at < at
           PROVE  Receives(r2, s, at)
    PROVE  Line(p, r2, Tail(c), t)
  <1> DEFINE d == Tail(c)
  <1>1. /\ Len(d) \in Nat /\ Len(c) = Len(d) + 1 /\ c[1] = Head(c)
        /\ DOMAIN d = 1 .. Len(d) /\ DOMAIN c = 1 .. Len(c)
        /\ \A k \in 1 .. Len(d) : d[k] = c[k + 1] /\ k + 1 \in DOMAIN c
    OBVIOUS
  <1> HIDE DEF d
  <1>2. ASSUME NEW i \in 1 .. Len(d) + 1, NEW s, NEW at, Offset(at), Fits(p, r, c, i + 1, s, at)
        PROVE  Fits(p, r2, d, i, s, at)
    <2>1. \A k \in 1 .. i - 1 : d[k] = c[k + 1]
      BY <1>1
    <2>2. FirstOf(p, c[1]) /\ c[1].sv = s => Receives(r2, s, at)
      BY <1>1, <1>2
    <2>3. /\ ~FirstOf(p, c[1])
          /\ Receives(r, s, at)
          /\ NextOf(p, c[1]) => c[1].at < at
          => Receives(r2, s, at)
      BY <1>1, <1>2
    <2>4. i \in Nat \ {0}
      BY <1>1
    <2> QED
      BY <1>2, <2>1, <2>2, <2>3, <2>4, FitsRead
  <1>3. ASSUME NEW i \in DOMAIN d, NextOf(p, d[i]) PROVE Fits(p, r2, d, i, d[i].sv, d[i].at)
    <2>1. d[i] = c[i + 1] /\ i + 1 \in DOMAIN c /\ i \in 1 .. Len(d) + 1
      BY <1>1
    <2>2. Fits(p, r, c, i + 1, d[i].sv, d[i].at) /\ Offset(d[i].at)
      BY <1>3, <2>1 DEF Line, OnGrid
    <2> QED
      BY <1>2, <2>1, <2>2
  <1>4. ASSUME t.status # "IDLE" PROVE Fits(p, r2, d, Len(d) + 1, t.sv, t.index)
    <2>1. Fits(p, r, c, (Len(d) + 1) + 1, t.sv, t.index) /\ Offset(t.index)
      BY <1>1, <1>4 DEF Line, OnGrid
    <2>2. Len(d) + 1 \in 1 .. Len(d) + 1
      BY <1>1
    <2> QED
      BY <1>2, <2>1, <2>2
  <1>5. Line(p, r2, d, t)
    BY <1>3, <1>4 DEF Line
  <1> QED
    BY <1>5 DEF d

\* The frame to be read continues the service that the receiver has begun with.
LEMMA LineHead ==
    ASSUME NEW p, NEW r, NEW c \in Seq(Frames), c # <<>>, NEW t, Line(p, r, c, t),
           NextOf(p, Head(c))
    PROVE  Receives(r, Head(c).sv, Head(c).at)
  <1>1. 1 \in DOMAIN c /\ c[1] = Head(c)
    OBVIOUS
  <1>2. Fits(p, r, c, 1, Head(c).sv, Head(c).at)
    BY <1>1 DEF Line
  <1>3. \A j \in 1 .. 1 - 1 : FALSE
    OBVIOUS
  <1> QED
    BY <1>2, <1>3 DEF Fits

\* The transmission t goes on and sends fs, which makes t2 of it.
LEMMA LineMore ==
    ASSUME NEW p, NEW r, r.index \in Nat, NEW c \in Seq(Frames), NEW fs \in Seq(Frames),
           NEW t, NEW t2, Line(p, r, c, t),
           t2.status # "IDLE" => t.status # "IDLE" /\ t2.sv = t.sv,
           t.status # "IDLE" => t.index \in Nat /\ t2.index \in Nat /\ t.index <= t2.index,
           \A l \in DOMAIN fs :
              /\ ~FirstOf(p, fs[l])
              /\ NextOf(p, fs[l]) =>
                    /\ t.status # "IDLE" /\ fs[l].sv = t.sv
                    /\ t.index <= fs[l].at /\ fs[l].at < t2.index
                    /\ \A k \in 1 .. l - 1 : fs[k].at < fs[l].at
    PROVE  Line(p, r, c \o fs, t2)
  <1> DEFINE d == c \o fs
             len == Len(c)
  <1>1. /\ len \in Nat /\ Len(fs) \in Nat /\ Len(d) = len + Len(fs)
        /\ DOMAIN c = 1 .. len /\ DOMAIN d = 1 .. Len(d) /\ DOMAIN fs = 1 .. Len(fs)
        /\ \A k \in 1 .. len : d[k] = c[k]
        /\ \A k \in 1 .. Len(fs) : d[len + k] = fs[k]
    OBVIOUS
  <1>2. \A k \in DOMAIN fs : fs[k].at \in Nat
    <2>1. \A k \in DOMAIN fs : fs[k] \in Frames
      OBVIOUS
    <2>2. \A f \in Frames : f.at \in Nat
      BY MaxServiceSizeFact DEF Frames, Offsets
    <2> QED
      BY <2>1, <2>2
  <1>3. ASSUME t.status # "IDLE", NEW k \in 0 .. Len(fs), NEW b \in Nat, t.index <= b,
               \A l \in 1 .. k : NextOf(p, fs[l]) => fs[l].at < b
        PROVE  Fits(p, r, d, len + 1 + k, t.sv, b)
    <2>1. Fits(p, r, c, len + 1, t.sv, t.index) /\ t.index \in Nat
      BY <1>3 DEF Line
    <2> QED
      BY <1>3, <2>1, FitsBeyond
  <1> HIDE DEF d, len
  <1>4. ASSUME NEW i \in DOMAIN d, NextOf(p, d[i]) PROVE Fits(p, r, d, i, d[i].sv, d[i].at)
    <2>1. CASE i <= len
      <3>1. i \in DOMAIN c /\ d[i] = c[i] /\ i \in Nat /\ \A k \in 1 .. i - 1 : d[k] = c[k]
        BY <1>1, <2>1
      <3>2. Fits(p, r, c, i, d[i].sv, d[i].at)
        BY <1>4, <3>1 DEF Line
      <3> QED
        BY <3>1, <3>2, FitsSame
    <2>2. CASE i > len
      <3>1. PICK l \in 1 .. Len(fs) : i = len + l
        <4>1. i - len \in 1 .. Len(fs) /\ i = len + (i - len)
          BY <1>1, <2>2
        <4> QED
          BY <4>1
      <3>2. d[i] = fs[l] /\ l \in DOMAIN fs /\ fs[l].at \in Nat
        BY <1>1, <1>2, <3>1
      <3>3. /\ t.status # "IDLE" /\ fs[l].sv = t.sv /\ t.index <= fs[l].at
            /\ \A k \in 1 .. l - 1 : fs[k].at < fs[l].at
        BY <1>4, <3>2
      <3>4. l - 1 \in 0 .. Len(fs) /\ len + 1 + (l - 1) = i
        BY <1>1, <3>1
      <3>5. Fits(p, r, d, len + 1 + (l - 1), t.sv, fs[l].at)
        BY <1>3, <3>2, <3>3, <3>4
      <3> QED
        BY <3>2, <3>3, <3>4, <3>5
    <2> QED
      BY <1>1, <2>1, <2>2
  <1>5. ASSUME t2.status # "IDLE" PROVE Fits(p, r, d, Len(d) + 1, t2.sv, t2.index)
    <2>1. t.status # "IDLE" /\ t2.sv = t.sv /\ t2.index \in Nat /\ t.index <= t2.index
      BY <1>5
    <2>2. Len(fs) \in 0 .. Len(fs) /\ len + 1 + Len(fs) = Len(d) + 1
      BY <1>1
    <2>3. \A l \in 1 .. Len(fs) : NextOf(p, fs[l]) => fs[l].at < t2.index
      BY <1>1
    <2>4. Fits(p, r, d, len + 1 + Len(fs), t.sv, t2.index)
      BY <1>3, <2>1, <2>2, <2>3
    <2> QED
      BY <2>1, <2>2, <2>4
  <1>6. Line(p, r, d, t2)
    BY <1>4, <1>5 DEF Line
  <1> QED
    BY <1>6 DEF d

\* A first frame is sent behind c, which begins the transmission t2.
LEMMA LineStart ==
    ASSUME NEW p, NEW r, NEW c \in Seq(Frames), NEW f \in Frames, FirstOf(p, f), NEW t, NEW t2,
           Line(p, r, c, t), t2.sv = f.sv
    PROVE  Line(p, r, c \o <<f>>, t2)
  <1> DEFINE d == c \o <<f>>
             len == Len(c)
  <1>1. /\ len \in Nat /\ Len(d) = len + 1
        /\ DOMAIN c = 1 .. len /\ DOMAIN d = 1 .. Len(d)
        /\ \A k \in 1 .. len : d[k] = c[k]
        /\ d[len + 1] = f
    OBVIOUS
  <1> HIDE DEF d, len
  <1>2. ~NextOf(p, f)
    BY DEF FirstOf, NextOf
  <1>3. ASSUME NEW i \in DOMAIN d, NextOf(p, d[i]) PROVE Fits(p, r, d, i, d[i].sv, d[i].at)
    <2>1. i # len + 1
      BY <1>1, <1>2, <1>3
    <2>2. i \in DOMAIN c /\ d[i] = c[i] /\ i \in Nat /\ \A k \in 1 .. i - 1 : d[k] = c[k]
      BY <1>1, <2>1
    <2>3. Fits(p, r, c, i, d[i].sv, d[i].at)
      BY <1>3, <2>2 DEF Line
    <2> QED
      BY <2>2, <2>3, FitsSame
  <1>4. Fits(p, r, d, Len(d) + 1, t2.sv, t2.index)
    <2> DEFINE i == Len(d) + 1
    <2>1. i = len + 2
      BY <1>1
    <2> HIDE DEF i
    <2>2. ASSUME NEW k \in 1 .. i - 1, NextOf(p, d[k]) PROVE ~Uninterrupted(p, d, k, i)
      <3>1. k # len + 1
        BY <1>1, <1>2, <2>2
      <3>2. len + 1 \in k + 1 .. i - 1 /\ FirstOf(p, d[len + 1])
        BY <1>1, <2>1, <3>1
      <3> QED
        BY <3>2 DEF Uninterrupted
    <2>3. Uninterrupted(p, d, len + 1, i)
      <3>1. \A k \in (len + 1) + 1 .. i - 1 : FALSE
        BY <1>1, <2>1
      <3> QED
        BY <3>1 DEF Uninterrupted
    <2>4. len + 1 \in 1 .. i - 1 /\ FirstOf(p, d[len + 1]) /\ d[len + 1].sv = t2.sv
      BY <1>1, <2>1
    <2>5. Fits(p, r, d, i, t2.sv, t2.index)
      BY <2>2, <2>3, <2>4 DEF Fits
    <2> QED
      BY <2>5 DEF i
  <1>5. Line(p, r, d, t2)
    BY <1>3, <1>4 DEF Line
  <1> QED
    BY <1>5 DEF d

-----------------------------------------------------------------------------
(* Lines of the nodes that nobody changes the server of.                    *)

\* Nodes p and Partner[p] are configured for each other.
Mutual(p) == Partner[Partner[p]] = p

LineInv == \A p \in Nodes : Mutual(p) => Line(p, rx[p], Coming(p), tx[Partner[p]])

\* Only a node that is answered sends consecutive frames.
AnswerInv ==
    /\ \A p \in Nodes : \A f \in Under(p) :
          /\ f.pci \in {"CF", "FC"} => Partner[f.src] = p
          /\ f.pci = "CF" => f.src = Partner[p]
    /\ \A m \in Nodes : tx[m].status = "MORE_CONSECUTIVE_FRAMES_TO_SEND" => Mutual(m)

SafeInv == RxInv /\ AnswerInv /\ LineInv /\ WholeInv

\* The frames fs continue what node n sends, or nothing.
SendsOn(n, fs) ==
    /\ tx'[n].status # "IDLE" => tx[n].status # "IDLE" /\ tx'[n].sv = tx[n].sv
    /\ tx[n].status # "IDLE" => tx'[n].index \in Nat /\ tx[n].index <= tx'[n].index
    /\ \A l \in DOMAIN fs :
          /\ fs[l].pci # "FF"
          /\ fs[l].pci = "CF" =>
                /\ tx[n].status # "IDLE" /\ fs[l].sv = tx[n].sv
                /\ tx[n].index <= fs[l].at /\ fs[l].at < tx'[n].index
                /\ \A k \in 1 .. l - 1 : fs[k].at < fs[l].at

\* Node n begins with the service of the first frame fs.
Begins(n, fs) == \E f \in Frames : fs = <<f>> /\ f.pci = "FF" /\ tx'[n].sv = f.sv

\* The frames fs are sent to the server of n, behind B, where the receptions are R.
LEMMA LinesSent ==
    ASSUME TypeOK, NEW n \in Nodes, NEW B \in [Nodes -> Seq(Frames)],
           NEW R \in [Nodes -> Receptions], rx' = R, NEW fs \in Seq(Frames),
           \A p \in Nodes : Mutual(p) => Line(p, R[p], B[p], tx[Partner[p]]),
           \A p \in Nodes : Coming(p)' = IF p = Partner[n] THEN B[p] \o fs ELSE B[p],
           \A l \in DOMAIN fs : fs[l].src = n,
           \A k \in Nodes : k # n => tx'[k] = tx[k],
           SendsOn(n, fs) \/ Begins(n, fs)
    PROVE  LineInv'
  <1> SUFFICES ASSUME NEW p \in Nodes, Mutual(p)
               PROVE  Line(p, rx'[p], Coming(p)', tx'[Partner[p]])
    BY DEF LineInv, Mutual
  <1> DEFINE m == Partner[p]
             c == B[p]
             r == R[p]
             t == tx[m]
             t2 == tx'[m]
             d == Coming(p)'
  <1>1. /\ m \in Nodes /\ Partner[m] = p /\ c \in Seq(Frames) /\ r.index \in Nat
        /\ t.index \in Nat /\ Line(p, r, c, t) /\ rx'[p] = r
    BY NodeAssumption DEF Mutual, TypeOK, Receptions, Transmissions
  <1>2. d = IF p = Partner[n] THEN c \o fs ELSE c
    OBVIOUS
  <1>3. m # n => t2 = t
    BY <1>1
  <1> HIDE DEF m, c, r, t, t2, d
  <1>4. Line(p, r, d, t2)
    <2>1. CASE m # n /\ p = Partner[n]
      <3>1. \A l \in DOMAIN fs : ~FirstOf(p, fs[l]) /\ ~NextOf(p, fs[l])
        BY <2>1 DEF FirstOf, NextOf, m
      <3>2. /\ t.status # "IDLE" => t.status # "IDLE" /\ t.sv = t.sv
            /\ t.status # "IDLE" => t.index \in Nat /\ t.index \in Nat /\ t.index <= t.index
        BY <1>1
      <3>3. Line(p, r, c \o fs, t)
        BY <1>1, <3>1, <3>2, LineMore
      <3> QED
        BY <1>2, <1>3, <2>1, <3>3
    <2>2. CASE m # n /\ p # Partner[n]
      BY <1>1, <1>2, <1>3, <2>2
    <2>3. CASE m = n
      <3>1. d = c \o fs /\ t = tx[n] /\ t2 = tx'[n]
        BY <1>1, <1>2, <2>3 DEF t, t2
      <3>2. ASSUME SendsOn(n, fs) PROVE Line(p, r, d, t2)
        <4>1. /\ t2.status # "IDLE" => t.status # "IDLE" /\ t2.sv = t.sv
              /\ t.status # "IDLE" => t.index \in Nat /\ t2.index \in Nat /\ t.index <= t2.index
          BY <1>1, <3>1, <3>2 DEF SendsOn
        <4>2. \A l \in DOMAIN fs :
                  /\ ~FirstOf(p, fs[l])
                  /\ NextOf(p, fs[l]) =>
                        /\ t.status # "IDLE" /\ fs[l].sv = t.sv
                        /\ t.index <= fs[l].at /\ fs[l].at < t2.index
                        /\ \A k \in 1 .. l - 1 : fs[k].at < fs[l].at
          BY <3>1, <3>2 DEF SendsOn, FirstOf, NextOf
        <4> QED
          BY <1>1, <3>1, <4>1, <4>2, LineMore
      <3>3. ASSUME Begins(n, fs) PROVE Line(p, r, d, t2)
        <4>1. PICK f \in Frames : fs = <<f>> /\ f.pci = "FF" /\ tx'[n].sv = f.sv
          BY <3>3 DEF Begins
        <4>2. 1 \in DOMAIN fs /\ fs[1] = f
          BY <4>1
        <4>3. FirstOf(p, f) /\ t2.sv = f.sv
          BY <2>3, <3>1, <4>1, <4>2 DEF FirstOf, m
        <4> QED
          BY <1>1, <3>1, <4>1, <4>3, LineStart
      <3> QED
        BY <3>2, <3>3
    <2> QED
      BY <2>1, <2>2, <2>3
  <1> QED
    BY <1>1, <1>4 DEF d, t2, m

LEMMA AnswersSent ==
    ASSUME TypeOK, AnswerInv, NEW n \in Nodes, NEW fs \in Seq(Frames), Sends(Partner[n], fs),
           \A f \in ToSet(fs) : f.src = n /\ (f.pci = "CF" => Mutual(n)),
           \A k \in Nodes : k # n => tx'[k] = tx[k],
           tx'[n].status = "MORE_CONSECUTIVE_FRAMES_TO_SEND" => Mutual(n)
    PROVE  AnswerInv'
  <1>1. ASSUME NEW p \in Nodes, NEW f \in Under(p)'
        PROVE  /\ f.pci \in {"CF", "FC"} => Partner[f.src] = p
               /\ f.pci = "CF" => f.src = Partner[p]
    <2>1. f \in Under(p) \/ (p = Partner[n] /\ f \in ToSet(fs))
      BY <1>1 DEF Sends
    <2>2. CASE f \in Under(p)
      BY <2>2 DEF AnswerInv
    <2>3. CASE p = Partner[n] /\ f \in ToSet(fs)
      BY <2>3 DEF Mutual
    <2> QED
      BY <2>1, <2>2, <2>3
  <1>2. \A m \in Nodes : tx'[m].status = "MORE_CONSECUTIVE_FRAMES_TO_SEND" => Mutual(m)
    BY DEF AnswerInv
  <1> QED
    BY <1>1, <1>2 DEF AnswerInv, Mutual

\* Nobody has changed its server.
LEMMA StillPartner ==
    ASSUME MadeInv, Announced
    PROVE  server = Partner
  BY DEF MadeInv, FilterInv, Announced

\* Frames are sent, and nothing is read.
LEMMA SentSafe ==
    ASSUME IInv, MadeInv, Announced, AnswerInv, LineInv, NEW n \in Nodes, NEW fs \in Seq(Frames),
           UNCHANGED <<rx, canQueue>>, wire' = [wire EXCEPT ![server[n]] = @ \o fs],
           \A f \in ToSet(fs) : f.src = n /\ (f.pci = "CF" => Mutual(n)),
           \A k \in Nodes : k # n => tx'[k] = tx[k],
           tx'[n].status = "MORE_CONSECUTIVE_FRAMES_TO_SEND" => Mutual(n),
           SendsOn(n, fs) \/ Begins(n, fs)
    PROVE  AnswerInv' /\ LineInv'
  <1> DEFINE B == [p \in Nodes |-> Coming(p)]
  <1>1. TypeOK /\ server = Partner /\ Partner[n] \in Nodes /\ rx \in [Nodes -> Receptions]
    BY StillPartner, NodeAssumption DEF IInv, TypeOK
  <1>2. \A p \in Nodes : Coming(p)' = IF p = Partner[n] THEN Coming(p) \o fs ELSE Coming(p)
    BY <1>1, SendComing
  <1>3. B \in [Nodes -> Seq(Frames)] /\ \A p \in Nodes : B[p] = Coming(p)
    BY <1>1, ComingType
  <1> HIDE DEF B
  <1>4. \A l \in DOMAIN fs : fs[l].src = n
    BY DEF ToSet
  <1>5. \A p \in Nodes : Mutual(p) => Line(p, rx[p], B[p], tx[Partner[p]])
    BY <1>3 DEF LineInv
  <1>6. \A p \in Nodes : Coming(p)' = IF p = Partner[n] THEN B[p] \o fs ELSE B[p]
    BY <1>2, <1>3
  <1>7. LineInv'
    BY <1>1, <1>3, <1>4, <1>5, <1>6, LinesSent
  <1>8. Sends(Partner[n], fs)
    BY <1>1, SendFlow
  <1>9. AnswerInv'
    BY <1>1, <1>8, AnswersSent
  <1> QED
    BY <1>7, <1>9

\* The offsets of the frames under way and of the transmissions.
LEMMA LinesOnGrid ==
    ASSUME IInv, MadeInv, NEW p \in Nodes, NEW m \in Nodes
    PROVE  OnGrid(p, Coming(p), tx[m])
  <1>1. ASSUME NEW i \in DOMAIN Coming(p), NextOf(p, Coming(p)[i])
        PROVE  Offset(Coming(p)[i].at)
    <2> DEFINE f == Coming(p)[i]
    <2>1. f \in Under(p) /\ f.pci = "CF"
      BY <1>1 DEF Under, ToSet, NextOf
    <2> HIDE DEF f
    <2>2. f \in Frames /\ Made(f)
      BY <2>1, FrameSource DEF IInv, MadeInv, FormInv
    <2>3. Offset(f.at)
      BY <2>1, <2>2, MaxServiceSizeFact DEF Frames, Offsets, Made, Offset
    <2> QED
      BY <2>3 DEF f
  <1>2. tx[m].status # "IDLE" => Offset(tx[m].index)
    BY DEF IInv, TypeOK, TxPosition, TxAligned, Transmissions, Offset
  <1> QED
    BY <1>1, <1>2 DEF OnGrid

LEMMA ReadToPartner ==
    ASSUME TypeOK, server = Partner, NEW n \in Nodes, NEW f0, NEW pcis, ReadFrame(n, f0, pcis),
           NEW fs \in Seq(Frames), wire' = [wire EXCEPT ![server[n]] = @ \o fs]
    PROVE  /\ Sends(Partner[n], fs)
           /\ Coming(n) \in Seq(Frames) /\ Coming(n) # <<>> /\ Head(Coming(n)) = f0
           /\ \A p \in Nodes :
                 /\ Left(n, p) \in Seq(Frames)
                 /\ Coming(p)' = IF p = Partner[n] THEN Left(n, p) \o fs ELSE Left(n, p)
  <1> DEFINE to == Partner[n]
  <1>1. to \in Nodes /\ wire' = [wire EXCEPT ![to] = @ \o fs]
    BY NodeAssumption
  <1> HIDE DEF to
  <1>2. Sends(to, fs)
    BY <1>1, ReadSendFlow
  <1>3. /\ Coming(n) \in Seq(Frames) /\ Coming(n) # <<>> /\ Head(Coming(n)) = f0
        /\ \A p \in Nodes :
              /\ Left(n, p) \in Seq(Frames)
              /\ Coming(p)' = IF p = to THEN Left(n, p) \o fs ELSE Left(n, p)
    BY <1>1, ReadComing
  <1> QED
    BY <1>2, <1>3 DEF to

\* Node n reads its first frame, which makes R of its reception, and frames are sent.
LEMMA ReadSafe ==
    ASSUME IInv, MadeInv, Announced, AnswerInv, LineInv, NEW n \in Nodes, NEW f0, NEW pcis,
           ReadFrame(n, f0, pcis),
           rx' \in [Nodes -> Receptions], \A k \in Nodes : k # n => rx'[k] = rx[k],
           ASSUME NEW s, NEW at, Offset(at),
                  \/ FirstOf(n, f0) /\ f0.sv = s
                  \/ /\ ~FirstOf(n, f0) /\ Receives(rx[n], s, at)
                     /\ NextOf(n, f0) => f0.at < at
           PROVE  Receives(rx'[n], s, at),
           NEW fs \in Seq(Frames), wire' = [wire EXCEPT ![server[n]] = @ \o fs],
           \A f \in ToSet(fs) : f.src = n /\ (f.pci = "CF" => Mutual(n)),
           \A k \in Nodes : k # n => tx'[k] = tx[k],
           tx'[n].status = "MORE_CONSECUTIVE_FRAMES_TO_SEND" => Mutual(n),
           SendsOn(n, fs)
    PROVE  AnswerInv' /\ LineInv'
  <1> DEFINE B == [p \in Nodes |-> Left(n, p)]
             R == rx'
  <1>1. TypeOK /\ server = Partner /\ Partner[n] \in Nodes
    BY StillPartner, NodeAssumption DEF IInv, TypeOK
  <1>2. /\ Coming(n) \in Seq(Frames) /\ Coming(n) # <<>> /\ Head(Coming(n)) = f0
        /\ \A p \in Nodes :
              /\ Left(n, p) \in Seq(Frames)
              /\ Coming(p)' = IF p = Partner[n] THEN Left(n, p) \o fs ELSE Left(n, p)
    BY <1>1, ReadToPartner
  <1>3. B \in [Nodes -> Seq(Frames)] /\ \A p \in Nodes : B[p] = Left(n, p)
    BY <1>2
  <1> HIDE DEF B
  <1>4. R \in [Nodes -> Receptions] /\ R = rx'
    OBVIOUS
  <1>5. ASSUME NEW p \in Nodes, Mutual(p) PROVE Line(p, rx'[p], B[p], tx[Partner[p]])
    <2>1. Line(p, rx[p], Coming(p), tx[Partner[p]])
      BY <1>5 DEF LineInv
    <2>2. CASE p # n
      BY <1>3, <2>1, <2>2 DEF Left
    <2>3. CASE p = n
      <3>1. OnGrid(n, Coming(n), tx[Partner[n]])
        BY <1>1, LinesOnGrid
      <3> DEFINE c == Coming(n)
                 t == tx[Partner[n]]
                 r == rx[n]
                 r2 == rx'[n]
      <3>2. /\ c \in Seq(Frames) /\ c # <<>> /\ Head(c) = f0
            /\ Line(n, r, c, t) /\ OnGrid(n, c, t) /\ B[n] = Tail(c)
        BY <1>2, <1>3, <2>1, <2>3, <3>1 DEF Left
      <3>3. ASSUME NEW s, NEW at, Offset(at),
                  \/ FirstOf(n, f0) /\ f0.sv = s
                  \/ /\ ~FirstOf(n, f0) /\ Receives(r, s, at)
                     /\ NextOf(n, f0) => f0.at < at
            PROVE Receives(r2, s, at)
        BY <3>3
      <3>4. Line(n, r2, B[n], t)
        <4> HIDE DEF c, t, r, r2
        <4> QED
          BY <3>2, <3>3, LineTail
      <3> QED
        BY <2>3, <3>4
    <2> QED
      BY <2>2, <2>3
  <1>6. \A l \in DOMAIN fs : fs[l].src = n
    BY DEF ToSet
  <1>7. \A p \in Nodes : Coming(p)' = IF p = Partner[n] THEN B[p] \o fs ELSE B[p]
    BY <1>2, <1>3
  <1>8. \A p \in Nodes : Mutual(p) => Line(p, R[p], B[p], tx[Partner[p]])
    BY <1>5
  <1> HIDE DEF R
  <1>9. LineInv'
    BY <1>1, <1>3, <1>4, <1>6, <1>7, <1>8, LinesSent
  <1>10. Sends(Partner[n], fs)
    BY <1>1, ReadToPartner
  <1>11. AnswerInv'
    BY <1>1, <1>10, AnswersSent
  <1> QED
    BY <1>9, <1>11

LEMMA NothingSent ==
    ASSUME TypeOK, UNCHANGED wire, NEW to \in Nodes
    PROVE  wire' = [wire EXCEPT ![to] = @ \o <<>>]
  <1>1. wire[to] \o <<>> = wire[to]
    BY ComingType
  <1> QED
    BY <1>1 DEF TypeOK

LEMMA UntouchedSafe ==
    ASSUME AnswerInv, LineInv, UNCHANGED <<tx, rx, wire, canQueue>>
    PROVE  AnswerInv' /\ LineInv'
  <1>1. \A p \in Nodes : Coming(p)' = Coming(p) /\ Under(p)' = Under(p)
    BY DEF Coming, Under
  <1>2. AnswerInv'
    BY <1>1 DEF AnswerInv, Mutual
  <1>3. LineInv'
    BY <1>1 DEF LineInv, Mutual
  <1> QED
    BY <1>2, <1>3

\* No first frame is lost or dumped.
LEMMA TakeSafe ==
    ASSUME TypeOK, AnswerInv, LineInv, Announced', NEW n \in Nodes,
           DispatchFrame(n) \/ LoseFrame(n)
    PROVE  AnswerInv' /\ LineInv'
  <1>1. /\ wire[n] # <<>> /\ wire' = [wire EXCEPT ![n] = Tail(@)] /\ UNCHANGED <<tx, rx>>
        /\ \/ UNCHANGED canQueue /\ Head(wire[n]).pci # "FF"
           \/ canQueue' = [canQueue EXCEPT ![n] = Append(@, Head(wire[n]))]
    <2>1. CASE DispatchFrame(n)
      <3>1. (Head(wire[n]).pci = "FF" /\ ~Queues(n, Head(wire[n]))) => faults'.first
        BY <2>1 DEF DispatchFrame, TypeOK, Faults
      <3>2. ~faults'.first
        BY DEF Announced
      <3> QED
        BY <2>1, <3>1, <3>2 DEF DispatchFrame
    <2>2. CASE LoseFrame(n)
      <3> DEFINE l == faults.loss + 1
      <3>1. faults' = [faults EXCEPT !.loss = l,
                                     !.first = @ \/ Head(wire[n]).pci = "FF"]
        BY <2>2 DEF LoseFrame
      <3> HIDE DEF l
      <3>2. Head(wire[n]).pci = "FF" => faults'.first
        BY <3>1 DEF TypeOK, Faults
      <3>3. ~faults'.first
        BY DEF Announced
      <3> QED
        BY <2>2, <3>2, <3>3 DEF LoseFrame
    <2> QED
      BY <2>1, <2>2
  <1>2. SendsNothing
    BY <1>1, TakeFlow
  <1>3. AnswerInv'
    BY <1>1, <1>2 DEF AnswerInv, SendsNothing, Mutual
  <1>4. \A p \in Nodes : p # n => Coming(p)' = Coming(p)
    BY <1>1, TakeComing
  <1>5. \/ Coming(n)' = Coming(n)
        \/ Head(wire[n]).pci # "FF" /\ Coming(n)' = canQueue[n] \o Tail(wire[n])
    <2>1. CASE UNCHANGED canQueue /\ Head(wire[n]).pci # "FF"
      BY <1>1, <2>1, TakeComing
    <2>2. CASE canQueue' = [canQueue EXCEPT ![n] = Append(@, Head(wire[n]))]
      <3>1. canQueue' # canQueue
        <4>1. Head(wire[n]) \in Frames /\ canQueue[n] \in Seq(Frames)
          BY <1>1, ComingType, ToSetHead
        <4>2. Append(canQueue[n], Head(wire[n])) # canQueue[n]
          BY <4>1, AppendedIsLonger
        <4> QED
          BY <2>2, <4>2 DEF TypeOK
      <3> QED
        BY <1>1, <2>2, <3>1, TakeComing
    <2> QED
      BY <1>1, <2>1, <2>2
  <1>6. ASSUME NEW p \in Nodes, Mutual(p) PROVE Line(p, rx'[p], Coming(p)', tx'[Partner[p]])
    <2>1. Line(p, rx[p], Coming(p), tx[Partner[p]])
      BY <1>6 DEF LineInv
    <2>2. CASE Coming(p)' = Coming(p)
      BY <1>1, <2>1, <2>2
    <2>3. CASE p = n /\ Head(wire[n]).pci # "FF" /\ Coming(n)' = canQueue[n] \o Tail(wire[n])
      <3> DEFINE a == canQueue[n]
                 b == wire[n]
      <3>1. a \in Seq(Frames) /\ b \in Seq(Frames) /\ b # <<>> /\ ~FirstOf(n, Head(b))
        BY <1>1, <2>3, ComingType DEF FirstOf
      <3>2. Line(n, rx[n], a \o b, tx[Partner[n]])
        BY <2>1, <2>3 DEF Coming
      <3> HIDE DEF a, b
      <3>3. Line(n, rx[n], a \o Tail(b), tx[Partner[n]])
        BY <3>1, <3>2, LineRemoved
      <3> QED
        BY <1>1, <2>3, <3>3 DEF a, b
    <2> QED
      BY <1>4, <1>5, <2>2, <2>3
  <1>7. LineInv'
    BY <1>6 DEF LineInv, Mutual
  <1> QED
    BY <1>3, <1>7

LEMMA StartSafe ==
    ASSUME IInv, MadeInv, Announced, AnswerInv, LineInv, NEW n \in Nodes,
           SendSingleFrame(n) \/ SendFirstFrame(n)
    PROVE  AnswerInv' /\ LineInv'
  <1>1. tx \in [Nodes -> Transmissions]
    BY DEF IInv, TypeOK
  <1>2. CASE SendSingleFrame(n)
    <2>1. tx[n].status = "IDLE" /\ UNCHANGED <<rx, canQueue>>
      BY <1>2, SentSingleFrame
    <2>2. PICK s \in Sendable, fs \in Seq(Frames) :
                 /\ tx' = [tx EXCEPT ![n].sv = s]
                 /\ \A f \in ToSet(fs) : f = SingleFrame(n, s)
                 /\ wire' = [wire EXCEPT ![server[n]] = @ \o fs]
      <3>1. \E s \in Sendable, fs \in Seq(Frames) :
               /\ TakeFromTxQueue(n, s)
               /\ Size[s] <= 7
               /\ tx' = [tx EXCEPT ![n].sv = s]
               /\ \A f \in ToSet(fs) : f = SingleFrame(n, s)
               /\ \A g, h : ~Follows(fs, g, h)
               /\ Sends(server[n], fs)
               /\ wire' = [wire EXCEPT ![server[n]] = @ \o fs]
        BY <1>2, SentSingleFrame
      <3> QED
        BY <3>1
    <2>3. \A f \in ToSet(fs) : f.pci = "SF" /\ f.src = n
      BY <2>2 DEF SingleFrame
    <2>4. tx'[n].status = "IDLE" /\ \A k \in Nodes : k # n => tx'[k] = tx[k]
      BY <1>1, <2>1, <2>2 DEF Transmissions
    <2>5. SendsOn(n, fs)
      BY <2>1, <2>3, <2>4 DEF SendsOn, ToSet
    <2> QED
      BY <2>1, <2>2, <2>3, <2>4, <2>5, SentSafe
  <1>3. CASE SendFirstFrame(n)
    <2>1. tx[n].status = "IDLE" /\ UNCHANGED <<rx, canQueue>>
      BY <1>3, SentFirstFrame
    <2>2. PICK s \in Sendable, failed \in BOOLEAN, fs \in Seq(Frames) :
                 /\ Size[s] > 7
                 /\ tx' = [tx EXCEPT ![n] = AwaitFlowControl(s, failed)]
                 /\ fs = IF failed THEN <<>> ELSE <<FirstFrame(n, s)>>
                 /\ \A f \in ToSet(fs) : f = FirstFrame(n, s)
                 /\ wire' = [wire EXCEPT ![server[n]] = @ \o fs]
      <3>1. \E s \in Sendable, failed \in BOOLEAN, fs \in Seq(Frames) :
               /\ TakeFromTxQueue(n, s)
               /\ Size[s] > 7
               /\ tx' = [tx EXCEPT ![n] = AwaitFlowControl(s, failed)]
               /\ fs = IF failed THEN <<>> ELSE <<FirstFrame(n, s)>>
               /\ \A f \in ToSet(fs) : ~failed /\ f = FirstFrame(n, s)
               /\ \A g, h : ~Follows(fs, g, h)
               /\ Sends(server[n], fs)
               /\ wire' = [wire EXCEPT ![server[n]] = @ \o fs]
        BY <1>3, SentFirstFrame
      <3> QED
        BY <3>1
    <2>3. /\ tx'[n] = AwaitFlowControl(s, failed)
          /\ \A k \in Nodes : k # n => tx'[k] = tx[k]
      BY <1>1, <2>2
    <2>4. \A f \in ToSet(fs) : f.pci = "FF" /\ f.src = n
      <3>1. FirstFrame(n, s).pci = "FF" /\ FirstFrame(n, s).src = n
        BY DEF FirstFrame
      <3> QED
        BY <2>2, <3>1
    <2>5. tx'[n].status # "MORE_CONSECUTIVE_FRAMES_TO_SEND"
      BY <2>3 DEF AwaitFlowControl
    <2>6. SendsOn(n, fs) \/ Begins(n, fs)
      <3>1. CASE failed
        <4>1. fs = <<>> /\ tx'[n].status = "IDLE"
          BY <2>2, <2>3, <3>1 DEF AwaitFlowControl
        <4>2. \A l \in DOMAIN fs : FALSE
          BY <4>1
        <4> QED
          BY <2>1, <4>1, <4>2 DEF SendsOn
      <3>2. CASE ~failed
        <4>1. fs = <<FirstFrame(n, s)>> /\ tx'[n].sv = s
          BY <2>2, <2>3, <3>2 DEF AwaitFlowControl
        <4>2. FirstFrame(n, s).pci = "FF" /\ FirstFrame(n, s).sv = s
          BY DEF FirstFrame
        <4>3. FirstFrame(n, s) \in Frames
          BY <2>2, FrameTypes
        <4> QED
          BY <4>1, <4>2, <4>3 DEF Begins
      <3> QED
        BY <3>1, <3>2
    <2> QED
      BY <2>1, <2>2, <2>3, <2>4, <2>5, <2>6, SentSafe
  <1> QED
    BY <1>2, <1>3

LEMMA EventSafe ==
    ASSUME IInv, MadeInv, Announced, AnswerInv, LineInv, NEW n \in Nodes,
           NEW s \in Services, SendEvent(n, s)
    PROVE  AnswerInv' /\ LineInv'
  <1>1. UNCHANGED <<tx, rx, canQueue>> /\ tx \in [Nodes -> Transmissions]
    BY SentEvent DEF IInv, TypeOK
  <1>2. PICK fs \in Seq(Frames) :
            /\ \A f \in ToSet(fs) : f = EventFrame(n, s)
            /\ \A g, h : ~Follows(fs, g, h)
            /\ Sends(server[n], fs)
            /\ wire' = [wire EXCEPT ![server[n]] = @ \o fs]
    BY SentEvent
  <1>3. \A f \in ToSet(fs) : f.pci = "OSF" /\ f.src = n
    BY <1>2 DEF EventFrame
  <1>4. \A l \in DOMAIN fs : fs[l].pci = "OSF"
    BY <1>3 DEF ToSet
  <1>5. tx[n].index \in Nat /\ tx'[n] = tx[n]
    BY <1>1 DEF Transmissions
  <1>6. SendsOn(n, fs)
    BY <1>4, <1>5 DEF SendsOn
  <1>7. tx'[n].status = "MORE_CONSECUTIVE_FRAMES_TO_SEND" => Mutual(n)
    BY <1>1 DEF AnswerInv
  <1> QED
    BY <1>1, <1>2, <1>3, <1>6, <1>7, SentSafe

LEMMA TimeoutSafe ==
    ASSUME IInv, MadeInv, Announced, AnswerInv, LineInv, NEW n \in Nodes,
           CheckFlowControlTimeout(n) \/ Expire(n)
    PROVE  AnswerInv' /\ LineInv'
  <1>1. /\ UNCHANGED <<rx, wire, canQueue>> /\ TypeOK /\ server[n] \in Nodes
        /\ tx \in [Nodes -> Transmissions]
    BY DEF CheckFlowControlTimeout, Expire, IInv, TypeOK
  <1>2. /\ tx'[n].sv = tx[n].sv /\ tx'[n].index = tx[n].index
        /\ tx'[n].status \in {"IDLE", tx[n].status}
        /\ \A k \in Nodes : k # n => tx'[k] = tx[k]
    BY <1>1 DEF CheckFlowControlTimeout, Expire, GiveUp, Transmissions
  <1>3. SendsOn(n, <<>>)
    BY <1>1, <1>2 DEF SendsOn, Transmissions
  <1>4. tx'[n].status = "MORE_CONSECUTIVE_FRAMES_TO_SEND" => Mutual(n)
    BY <1>2 DEF AnswerInv
  <1>5. wire' = [wire EXCEPT ![server[n]] = @ \o <<>>]
    BY <1>1, NothingSent
  <1> QED
    BY <1>1, <1>2, <1>3, <1>4, <1>5, NoFrame, SentSafe

\* A burst continues the transmission.
LEMMA BurstSends ==
    ASSUME IInv, NEW n \in Nodes, tx[n].status # "IDLE", NEW t, t.sv = tx[n].sv,
           t.index = tx[n].index, NEW fs \in Seq(Frames), NEW end \in Nat, Burst(n, t, fs, end)
    PROVE  /\ SendsOn(n, fs)
           /\ wire' = [wire EXCEPT ![server[n]] = @ \o fs]
           /\ \A f \in ToSet(fs) : f.src = n
           /\ \A k \in Nodes : k # n => tx'[k] = tx[k]
  <1>1. ASSUME NEW l \in DOMAIN fs
        PROVE  /\ fs[l].pci = "CF" /\ fs[l].sv = tx[n].sv
               /\ tx[n].index <= fs[l].at /\ fs[l].at < tx'[n].index
               /\ \A k \in 1 .. l - 1 : fs[k].at < fs[l].at
    <2>1. fs[l] \in ToSet(fs)
      BY DEF ToSet
    <2>2. ASSUME NEW k \in 1 .. l - 1 PROVE fs[k].at < fs[l].at
      <3>1. k \in DOMAIN fs /\ k < l
        OBVIOUS
      <3>2. Follows(fs, fs[k], fs[l])
        BY <3>1 DEF Follows
      <3> QED
        BY <3>2 DEF Burst
    <2> QED
      BY <2>1, <2>2 DEF Burst
  <1>2. tx'[n].sv = tx[n].sv /\ tx'[n].index \in Nat /\ tx[n].index <= tx'[n].index
    BY DEF Burst
  <1>3. SendsOn(n, fs)
    BY <1>1, <1>2 DEF SendsOn
  <1> QED
    BY <1>3 DEF Burst

LEMMA MoreFramesSafe ==
    ASSUME IInv, MadeInv, Announced, AnswerInv, LineInv, NEW n \in Nodes,
           SendMoreConsecutiveFrames(n)
    PROVE  AnswerInv' /\ LineInv'
  <1> DEFINE t == tx[n]
             giveUp == t.expired
  <1>1. /\ UNCHANGED <<rx, canQueue>> /\ t.status = "MORE_CONSECUTIVE_FRAMES_TO_SEND"
        /\ SendNextConsecutiveFrames(n, t, giveUp)
        /\ t \in Transmissions /\ TxAligned(t) /\ giveUp \in BOOLEAN
    BY DEF SendMoreConsecutiveFrames, IInv, TypeOK, TxPosition, Transmissions
  <1>2. t.status # "IDLE" /\ t = tx[n]
    BY <1>1
  <1> HIDE DEF t, giveUp
  <1>3. PICK fs \in Seq(Frames), end \in Nat : Burst(n, t, fs, end)
    BY <1>1, <1>2, SentBurst
  <1>4. Mutual(n)
    BY <1>1, <1>2 DEF AnswerInv
  <1>5. /\ SendsOn(n, fs)
        /\ wire' = [wire EXCEPT ![server[n]] = @ \o fs]
        /\ \A f \in ToSet(fs) : f.src = n
        /\ \A k \in Nodes : k # n => tx'[k] = tx[k]
    BY <1>2, <1>3, BurstSends
  <1> QED
    BY <1>1, <1>4, <1>5, SentSafe

LEMMA SingleFrameSafe ==
    ASSUME IInv, MadeInv, Announced, AnswerInv, LineInv, NEW n \in Nodes,
           HandleIncomingSingleFrame(n)
    PROVE  AnswerInv' /\ LineInv'
  <1> DEFINE f0 == Head(canQueue[n])
  <1>1. /\ ReadFrame(n, f0, {"SF", "OSF"}) /\ UNCHANGED <<tx, rx, wire>>
        /\ TypeOK /\ server[n] \in Nodes
        /\ tx \in [Nodes -> Transmissions] /\ rx \in [Nodes -> Receptions]
    BY DEF HandleIncomingSingleFrame, IInv, TypeOK
  <1> HIDE DEF f0
  <1>2. f0.pci \in {"SF", "OSF"}
    BY <1>1, ReadFirst
  <1>3. SendsOn(n, <<>>)
    BY <1>1 DEF SendsOn, Transmissions
  <1>4. tx'[n].status = "MORE_CONSECUTIVE_FRAMES_TO_SEND" => Mutual(n)
    BY <1>1 DEF AnswerInv
  <1>5. wire' = [wire EXCEPT ![server[n]] = @ \o <<>>]
    BY <1>1, NothingSent
  <1>6. ~FirstOf(n, f0)
    BY <1>2 DEF FirstOf
  <1> QED
    BY <1>1, <1>3, <1>4, <1>5, <1>6, NoFrame, ReadSafe

LEMMA FirstFrameSafe ==
    ASSUME Ordinary, IInv, MadeInv, Announced, RxInv, AnswerInv, LineInv, NEW n \in Nodes,
           HandleIncomingFirstFrame(n)
    PROVE  RxInv' /\ AnswerInv' /\ LineInv'
  <1> DEFINE f0 == Head(canQueue[n])
  <1>1. /\ ReadFrame(n, f0, {"FF"}) /\ UNCHANGED tx /\ f0 = Head(canQueue[n])
        /\ tx \in [Nodes -> Transmissions]
    BY DEF HandleIncomingFirstFrame, IInv, TypeOK
  <1> HIDE DEF f0
  <1>2. StaysApart
    BY DEF StaysApart
  <1>3. /\ RxInv'
        /\ rx' \in [Nodes -> Receptions]
        /\ \A k \in Nodes : k # n => rx'[k] = rx[k]
        /\ rx'[n].index = 6 /\ rx'[n].data = << <<f0.sv, 0>> >>
        /\ \E fs \in Seq(Frames) :
              /\ wire' = [wire EXCEPT ![server[n]] = @ \o fs]
              /\ \A f \in ToSet(fs) : f.pci = "FC" /\ f.src = n
    BY <1>1, <1>2, FirstReceived
  <1>4. PICK fs \in Seq(Frames) :
              /\ wire' = [wire EXCEPT ![server[n]] = @ \o fs]
              /\ \A f \in ToSet(fs) : f.pci = "FC" /\ f.src = n
    BY <1>3
  <1>5. f0.pci = "FF" /\ f0.src = Partner[n]
    <2>1. f0.pci = "FF" /\ f0 \in ToSet(canQueue[n]) /\ pc[n] = "rx" /\ TypeOK
      BY <1>1, ReadFirst DEF IInv, ReadFrame
    <2> QED
      BY <1>2, <2>1, Heard, StillPartner
  <1>6. ASSUME NEW at, Offset(at) PROVE Receives(rx'[n], f0.sv, at)
    <2>1. rx'[n].data # <<>> /\ DOMAIN rx'[n].data = {1} /\ rx'[n].data[1] = <<f0.sv, 0>>
      BY <1>3
    <2>2. Gapless(rx'[n])
      BY <2>1 DEF Gapless
    <2>3. 6 <= at
      BY <1>6 DEF Offset
    <2> QED
      BY <1>3, <2>1, <2>2, <2>3 DEF Receives, Ahead
  <1>7. SendsOn(n, fs)
    BY <1>1, <1>4 DEF SendsOn, Transmissions, ToSet
  <1>8. tx'[n].status = "MORE_CONSECUTIVE_FRAMES_TO_SEND" => Mutual(n)
    BY <1>1 DEF AnswerInv
  <1>9. FirstOf(n, f0)
    BY <1>5 DEF FirstOf
  <1>10. ASSUME NEW s, NEW at, Offset(at),
                \/ FirstOf(n, f0) /\ f0.sv = s
                \/ /\ ~FirstOf(n, f0) /\ Receives(rx[n], s, at)
                   /\ NextOf(n, f0) => f0.at < at
         PROVE  Receives(rx'[n], s, at)
    BY <1>6, <1>9, <1>10
  <1>11. \A f \in ToSet(fs) : f.src = n /\ (f.pci = "CF" => Mutual(n))
    BY <1>4
  <1>12. \A k \in Nodes : k # n => tx'[k] = tx[k]
    BY <1>1
  <1>13. AnswerInv' /\ LineInv'
    BY <1>1, <1>3, <1>4, <1>7, <1>8, <1>10, <1>11, <1>12, ReadSafe
  <1> QED
    BY <1>3, <1>13

LEMMA FlowControlSafe ==
    ASSUME Ordinary, IInv, MadeInv, Announced, AnswerInv, LineInv, NEW n \in Nodes,
           HandleIncomingFlowControl(n)
    PROVE  AnswerInv' /\ LineInv'
  <1> DEFINE f0 == Head(canQueue[n])
             t == [tx[n] EXCEPT !.expired = FALSE]
  <1>1. /\ ReadFrame(n, f0, {"FC"}) /\ UNCHANGED rx
        /\ \/ tx[n].status = "WAITING_FOR_FLOW_CONTROL" /\ SendNextConsecutiveFrames(n, t, FALSE)
           \/ UNCHANGED <<tx, wire>>
    BY DEF HandleIncomingFlowControl
  <1>2. /\ TypeOK /\ tx[n] \in Transmissions /\ TxAligned(tx[n]) /\ server[n] \in Nodes
        /\ rx \in [Nodes -> Receptions]
    BY DEF IInv, TypeOK, TxPosition
  <1>3. t \in Transmissions /\ t.sv = tx[n].sv /\ t.index = tx[n].index /\ t.seq = tx[n].seq
        /\ t.status = tx[n].status
    BY <1>2 DEF Transmissions
  <1> HIDE DEF f0, t
  <1>4. f0 \in Under(n) /\ f0 \in ToSet(canQueue[n]) /\ f0.pci = "FC"
    BY <1>1, <1>2, ReadFirst
  <1>5. Mutual(n)
    <2>1. f0.src = Partner[n]
      BY <1>1, <1>2, <1>4, Heard, StillPartner DEF ReadFrame, StaysApart
    <2>2. Partner[f0.src] = n
      BY <1>4 DEF AnswerInv
    <2> QED
      BY <2>1, <2>2 DEF Mutual
  <1>6. ~FirstOf(n, f0) /\ ~NextOf(n, f0)
    BY <1>4 DEF FirstOf, NextOf
  <1>7. CASE UNCHANGED <<tx, wire>>
    <2>1. SendsOn(n, <<>>)
      BY <1>2, <1>7 DEF SendsOn, Transmissions
    <2>2. wire' = [wire EXCEPT ![server[n]] = @ \o <<>>]
      BY <1>2, <1>7, NothingSent
    <2> QED
      BY <1>1, <1>2, <1>5, <1>6, <1>7, <2>1, <2>2, NoFrame, ReadSafe
  <1>8. CASE /\ tx[n].status = "WAITING_FOR_FLOW_CONTROL"
             /\ SendNextConsecutiveFrames(n, t, FALSE)
    <2>1. t.status # "IDLE" /\ TxAligned(t)
      BY <1>2, <1>3, <1>8 DEF TxAligned
    <2>2. PICK fs \in Seq(Frames), end \in Nat : Burst(n, t, fs, end)
      BY <1>3, <1>8, <2>1, SentBurst
    <2>3. /\ SendsOn(n, fs)
          /\ wire' = [wire EXCEPT ![server[n]] = @ \o fs]
          /\ \A f \in ToSet(fs) : f.src = n
          /\ \A k \in Nodes : k # n => tx'[k] = tx[k]
      BY <1>3, <2>1, <2>2, BurstSends
    <2> QED
      BY <1>1, <1>2, <1>5, <1>6, <2>3, ReadSafe
  <1> QED
    BY <1>1, <1>7, <1>8

\* The frame that node n handles is of the service that it receives.
LEMMA HeadOfLine ==
    ASSUME IInv, AnswerInv, LineInv, NEW n \in Nodes, HandleIncomingConsecutiveFrame(n),
           NEW f0, f0 = Head(canQueue[n])
    PROVE  Receiving(n, f0.sv, f0.at)
  <1>1. /\ ReadFrame(n, f0, {"CF"}) /\ UNCHANGED wire /\ TypeOK /\ server[n] \in Nodes
    BY DEF HandleIncomingConsecutiveFrame, IInv, TypeOK
  <1>2. Coming(n) \in Seq(Frames) /\ Coming(n) # <<>> /\ Head(Coming(n)) = f0
    <2>1. wire' = [wire EXCEPT ![server[n]] = @ \o <<>>]
      BY <1>1, NothingSent
    <2> QED
      BY <1>1, <2>1, NoFrame, ReadComing
  <1>3. f0 \in Under(n) /\ f0.pci = "CF"
    BY <1>1, ReadFirst
  <1>4. Mutual(n) /\ NextOf(n, f0)
    BY <1>3 DEF AnswerInv, Mutual, NextOf
  <1>5. Line(n, rx[n], Coming(n), tx[Partner[n]])
    BY <1>4 DEF LineInv
  <1>6. Receives(rx[n], f0.sv, f0.at)
    BY <1>2, <1>4, <1>5, LineHead
  <1> QED
    BY <1>6 DEF Receives, Receiving

LEMMA ConsecutiveFrameSafe ==
    ASSUME IInv, MadeInv, Announced, RxInv, AnswerInv, LineInv, NEW n \in Nodes,
           HandleIncomingConsecutiveFrame(n)
    PROVE  RxInv' /\ AnswerInv' /\ LineInv'
  <1> DEFINE f0 == Head(canQueue[n])
  <1>1. /\ ReadFrame(n, f0, {"CF"}) /\ UNCHANGED <<tx, wire>> /\ f0 = Head(canQueue[n])
        /\ TypeOK /\ server[n] \in Nodes /\ tx \in [Nodes -> Transmissions]
    BY DEF HandleIncomingConsecutiveFrame, IInv, TypeOK
  <1> HIDE DEF f0
  <1>2. f0.pci = "CF" /\ f0 \in Under(n)
    BY <1>1, ReadFirst
  <1>3. Receiving(n, f0.sv, f0.at)
    BY <1>1, HeadOfLine
  <1>4. RxInv'
    BY <1>1, <1>3, NextReceived
  <1>5. /\ \A k \in Nodes : k # n => rx'[k] = rx[k]
        /\ \A s : \A b \in Nat :
              Receiving(n, s, b) /\ b % 7 = 6 /\ f0.at < b => Receiving(n, s, b)'
    BY <1>1, <1>3, ReceivingNext
  <1>6. rx' \in [Nodes -> Receptions]
    <2>1. IInv'
      BY ConsecutiveFrameStep
    <2> QED
      BY <2>1 DEF IInv, TypeOK
  <1>7. ~FirstOf(n, f0) /\ NextOf(n, f0)
    BY <1>2 DEF AnswerInv, FirstOf, NextOf
  <1>8. ASSUME NEW s, NEW at, Offset(at), Receives(rx[n], s, at), f0.at < at
        PROVE  Receives(rx'[n], s, at)
    BY <1>5, <1>8 DEF Receives, Receiving, Offset
  <1>9. SendsOn(n, <<>>)
    BY <1>1 DEF SendsOn, Transmissions
  <1>10. tx'[n].status = "MORE_CONSECUTIVE_FRAMES_TO_SEND" => Mutual(n)
    BY <1>1 DEF AnswerInv
  <1>11. wire' = [wire EXCEPT ![server[n]] = @ \o <<>>]
    BY <1>1, NothingSent
  <1>12. AnswerInv' /\ LineInv'
    BY <1>1, <1>5, <1>6, <1>7, <1>8, <1>9, <1>10, <1>11, NoFrame, ReadSafe
  <1> QED
    BY <1>4, <1>12

\* A server is changed, or was.
LEMMA NoSwitch ==
    ASSUME IInv, MadeInv, Announced, Announced', NEW n \in Nodes,
           \/ \E m \in Nodes : SetNodeIdentifiers(n, m)
           \/ ClearQueue(n)
           \/ SetRxFilter(n)
    PROVE  FALSE
  <1>1. CASE \E m \in Nodes : SetNodeIdentifiers(n, m)
    <2>1. faults' = [faults EXCEPT !.switch = @ + 1] /\ faults \in Faults
      BY <1>1 DEF SetNodeIdentifiers, IInv, TypeOK
    <2>2. faults'.switch # 0
      BY <2>1 DEF Faults
    <2> QED
      BY <2>2 DEF Announced
  <1>2. CASE ClearQueue(n) \/ SetRxFilter(n)
    <2>1. Switching(n)
      BY <1>2 DEF ClearQueue, SetRxFilter, Switching
    <2> QED
      BY <2>1 DEF MadeInv, FilterInv, Announced
  <1> QED
    BY <1>1, <1>2

LEMMA NextSafe ==
    ASSUME Ordinary, IInv, MadeInv, Announced => SafeInv, [Next]_vars, Announced'
    PROVE  SafeInv'
  <1>1. Announced /\ SafeInv /\ RxInv /\ AnswerInv /\ LineInv /\ WholeInv
    BY StillTimely DEF SafeInv
  <1>2. RxInv' /\ AnswerInv' /\ LineInv'
    <2>1. CASE UNCHANGED vars
      BY <1>1, <2>1, UntouchedSafe DEF vars, RxInv
    <2>2. CASE Next
      <3> PICK n \in Nodes :
              \/ \E s \in Services : SendRequest(n, s) \/ SendEvent(n, s)
              \/ ReadResponse(n)
              \/ \E m \in Nodes : SetNodeIdentifiers(n, m)
              \/ ClearQueue(n)
              \/ SetRxFilter(n)
              \/ Cycle(n)
              \/ LoseFrame(n)
              \/ Expire(n)
        BY <2>2 DEF Next
      <3>1. CASE HandleIncomingFirstFrame(n)
        BY <1>1, <3>1, FirstFrameSafe
      <3>2. CASE HandleIncomingConsecutiveFrame(n)
        BY <1>1, <3>2, ConsecutiveFrameSafe
      <3>3. CASE HandleIncomingFlowControl(n)
        <4>1. RxInv'
          BY <1>1, <3>3 DEF HandleIncomingFlowControl, RxInv
        <4> QED
          BY <1>1, <3>3, <4>1, FlowControlSafe
      <3>4. CASE HandleIncomingSingleFrame(n)
        <4>1. RxInv'
          BY <1>1, <3>4 DEF HandleIncomingSingleFrame, RxInv
        <4> QED
          BY <1>1, <3>4, <4>1, SingleFrameSafe
      <3>5. CASE SendSingleFrame(n) \/ SendFirstFrame(n)
        <4>1. RxInv'
          BY <1>1, <3>5 DEF SendSingleFrame, SendFirstFrame, RxInv
        <4> QED
          BY <1>1, <3>5, <4>1, StartSafe
      <3>6. CASE SendMoreConsecutiveFrames(n)
        <4>1. RxInv'
          BY <1>1, <3>6 DEF SendMoreConsecutiveFrames, RxInv
        <4> QED
          BY <1>1, <3>6, <4>1, MoreFramesSafe
      <3>7. CASE CheckFlowControlTimeout(n) \/ Expire(n)
        <4>1. RxInv'
          BY <1>1, <3>7 DEF CheckFlowControlTimeout, Expire, RxInv
        <4> QED
          BY <1>1, <3>7, <4>1, TimeoutSafe
      <3>8. CASE DispatchFrame(n) \/ LoseFrame(n)
        <4>1. RxInv'
          BY <1>1, <3>8 DEF DispatchFrame, LoseFrame, RxInv
        <4> QED
          BY <1>1, <3>8, <4>1, TakeSafe DEF IInv
      <3>9. ASSUME NEW s \in Services, SendEvent(n, s) PROVE RxInv' /\ AnswerInv' /\ LineInv'
        <4>1. RxInv'
          BY <1>1, <3>9 DEF SendEvent, RxInv
        <4> QED
          BY <1>1, <3>9, <4>1, EventSafe
      <3>10. CASE \/ \E s \in Services : SendRequest(n, s)
                  \/ ReadResponse(n)
                  \/ CycleStart(n) \/ NothingToSend(n) \/ DispatchDone(n) \/ CycleEnd(n)
        <4>1. UNCHANGED <<tx, rx, wire, canQueue>>
          BY <3>10 DEF SendRequest, ReadResponse, CycleStart, NothingToSend, DispatchDone,
             CycleEnd
        <4>2. RxInv'
          BY <1>1, <4>1 DEF RxInv
        <4> QED
          BY <1>1, <4>1, <4>2, UntouchedSafe
      <3>11. CASE SendWithoutFlowControl(n) \/ HandleIncomingOsySpecificMultiFrame(n)
        BY <3>11, NoMultiFrames
      <3>12. CASE (\E m \in Nodes : SetNodeIdentifiers(n, m)) \/ ClearQueue(n) \/ SetRxFilter(n)
        BY <1>1, <3>12, NoSwitch
      <3> QED
        BY <3>1, <3>2, <3>3, <3>4, <3>5, <3>6, <3>7, <3>8, <3>9, <3>10, <3>11, <3>12, Zenon
           DEF Cycle
    <2> QED
      BY <2>1, <2>2
  <1>3. \A n \in Nodes : HandleIncomingConsecutiveFrame(n) =>
            Receiving(n, Head(canQueue[n]).sv, Head(canQueue[n]).at)
    BY <1>1, HeadOfLine
  <1>4. WholeInv'
    BY <1>1, <1>3, NextWhole DEF StaysApart
  <1> QED
    BY <1>2, <1>4 DEF SafeInv

LEMMA InitSafe == Init => SafeInv
  <1> SUFFICES ASSUME Init PROVE SafeInv
    OBVIOUS
  <1>1. RxInv /\ WholeInv
    BY InitFlow DEF FlowInv
  <1>2. AnswerInv
    BY NothingUnder DEF Init, AnswerInv
  <1>3. ASSUME NEW p \in Nodes, Mutual(p) PROVE Line(p, rx[p], Coming(p), tx[Partner[p]])
    <2>1. Partner[p] \in Nodes /\ tx[Partner[p]].status = "IDLE"
      BY NodeAssumption DEF Init
    <2>2. \A i \in DOMAIN Coming(p) : Coming(p)[i] \in Under(p)
      BY DEF Under, ToSet
    <2>3. \A f : f \notin Under(p)
      BY NothingUnder DEF Init
    <2> QED
      BY <2>1, <2>2, <2>3 DEF Line
  <1>4. LineInv
    BY <1>3 DEF LineInv
  <1> QED
    BY <1>1, <1>2, <1>4 DEF SafeInv

\* The inductive invariant of the transfers where nobody changes its server and every
\* first frame gets through, with time-outs as early as they like: a late flow control
\* may release the frames of another service than the one it answers, but the frames
\* stand behind their own first frame, which has closed every other reception.
THEOREM AnnouncedInvariant ==
    ASSUME Ordinary
    PROVE  Spec => [](Announced => SafeInv)
  <1> DEFINE Safe == Announced => SafeInv
  <1>1. IInv /\ MadeInv /\ Safe /\ [Next]_vars => Safe'
    BY NextSafe
  <1>2. Init => Safe
    BY InitSafe
  <1>3. Spec => []Safe
    <2> HIDE DEF Safe
    <2> QED
      BY <1>1, <1>2, InductiveInvariant, MadeInvariant, PTL DEF Spec
  <1> QED
    BY <1>3

LEMMA WholeIsService ==
    ASSUME WholeInv
    PROVE  \A n \in Nodes : \A i \in DOMAIN received[n] :
               \E s \in Services : received[n][i] = Whole(s)
  BY DEF WholeInv, Sendable

\* What the application reads is a service of the other side, whole and unmixed, for
\* every number of nodes, services, lost frames, failing calls, late time-outs and
\* changes of the server, as long as services stay apart: m_HandleIncomingFirstFrame
\* and m_HandleIncomingConsecutiveFrame never join parts of two services.
THEOREM DeliveredWhole ==
    ASSUME Ordinary
    PROVE  Spec => []WholeServices
  <1>1. (Timely => FlowInv) /\ (Announced => SafeInv) => WholeServices
    BY WholeIsService DEF FlowInv, SafeInv, StaysApart, WholeServices
  <1> DEFINE Flow == Timely => FlowInv
             Safe == Announced => SafeInv
  <1>2. Flow /\ Safe => WholeServices
    BY <1>1
  <1>3. Spec => []Flow
    BY FlowInvariant
  <1>4. Spec => []Safe
    BY AnnouncedInvariant
  <1> HIDE DEF Flow, Safe
  <1> QED
    BY <1>2, <1>3, <1>4, PTL

LEMMA TimelyBehind ==
    ASSUME CfInv
    PROVE  BehindOwnFirstFrame
  <1>1. ASSUME NEW n \in Nodes, NEW i \in DOMAIN Coming(n), Coming(n)[i].pci = "CF"
        PROVE  rx[n].data # <<>> /\ rx[n].data[1][1] = Coming(n)[i].sv
    <2>1. Coming(n)[i] \in Under(n)
      BY DEF Under, ToSet
    <2>2. Receiving(n, Coming(n)[i].sv, Coming(n)[i].at)
      BY <1>1, <2>1 DEF CfInv
    <2> QED
      BY <2>2 DEF Receiving
  <1> QED
    BY <1>1 DEF BehindOwnFirstFrame, Coming

LEMMA AnnouncedBehind ==
    ASSUME AnswerInv, LineInv
    PROVE  BehindOwnFirstFrame
  <1>1. ASSUME NEW n \in Nodes, NEW i \in DOMAIN Coming(n), Coming(n)[i].pci = "CF"
        PROVE  \/ rx[n].data # <<>> /\ rx[n].data[1][1] = Coming(n)[i].sv
               \/ \E j \in 1 .. i - 1 :
                     Coming(n)[j].pci = "FF" /\ Coming(n)[j].sv = Coming(n)[i].sv
    <2>1. Coming(n)[i] \in Under(n)
      BY DEF Under, ToSet
    <2>2. NextOf(n, Coming(n)[i]) /\ Mutual(n)
      BY <1>1, <2>1 DEF AnswerInv, NextOf, Mutual
    <2>3. Line(n, rx[n], Coming(n), tx[Partner[n]])
      BY <2>2 DEF LineInv
    <2>4. Fits(n, rx[n], Coming(n), i, Coming(n)[i].sv, Coming(n)[i].at)
      BY <2>2, <2>3 DEF Line
    <2> QED
      BY <2>4 DEF Fits, FirstOf, Receives
  <1> QED
    BY <1>1 DEF BehindOwnFirstFrame, Coming

\* Consecutive frames stand behind their own first frame or find its reception, for
\* every value of the constants: the waiting state of the sender and the order of the
\* line see to it even where a flow control comes that is not meant for them
\* (m_HandleIncomingFlowControl does not know which service it answers).
THEOREM BehindOwn ==
    ASSUME Ordinary
    PROVE  Spec => []BehindOwnFirstFrame
  <1>1. ~StaysApart => BehindOwnFirstFrame
    BY DEF BehindOwnFirstFrame
  <1>2. (Timely => FlowInv) /\ (Announced => SafeInv) => BehindOwnFirstFrame
    BY <1>1, TimelyBehind, AnnouncedBehind DEF FlowInv, SafeInv, StaysApart
  <1> DEFINE Flow == Timely => FlowInv
             Safe == Announced => SafeInv
  <1>3. Flow /\ Safe => BehindOwnFirstFrame
    BY <1>2
  <1>4. Spec => []Flow
    BY FlowInvariant
  <1>5. Spec => []Safe
    BY AnnouncedInvariant
  <1> HIDE DEF Flow, Safe
  <1> QED
    BY <1>3, <1>4, <1>5, PTL

-----------------------------------------------------------------------------
(* The order of the services.                                               *)

\* Node n was asked to send s before t.
Earlier(n, s, t) == Follows(requested[n], s, t)

\* Nobody changes its server, and no time-out overtakes its answer.
Calm == Omf = {} /\ MaxLate = 0 /\ MaxSwitch = 0

LEMMA CalmIsTimely ==
    ASSUME Calm, TypeOK
    PROVE  Ordinary /\ Timely /\ StaysApart
  BY DEF Calm, Ordinary, Timely, StaysApart, TypeOK, Faults

LEMMA CalmFlow ==
    ASSUME Calm
    PROVE  Spec => []FlowInv
  <1> DEFINE Flow == Timely => FlowInv
  <1>1. Spec => []Flow
    BY FlowInvariant DEF Calm, Ordinary
  <1>2. IInv /\ Flow => FlowInv
    BY CalmIsTimely DEF IInv
  <1> HIDE DEF Flow
  <1> QED
    BY <1>1, <1>2, InductiveInvariant, PTL

SameKind(s, t) == s \in Events <=> t \in Events

\* The services the application of p has been given.
Given(p) == {s \in Services : \E i \in DOMAIN received[p] : received[p][i] = Whole(s)}

Active(n) == tx[n].status # "IDLE"

\* Node n has begun with service s, and with no later one before it.
Begun(n, s) ==
    /\ s \in ToSet(requested[n])
    /\ s \notin Events =>
          /\ \A t \in ToSet(txQueue[n]) : Earlier(n, s, t)
          /\ Active(n) => s = tx[n].sv \/ Earlier(n, s, tx[n].sv)

\* A frame with bytes of a service that node p listens to.
Payload(p, f) == f.pci # "FC" /\ f.src = Peer(p)

\* No service is accepted twice.
AcceptedInv ==
    \A n \in Nodes :
        /\ \A i \in DOMAIN requested[n] :
              requested[n][i] \notin unsent /\ Source[requested[n][i]] = n
        /\ \A i, j \in DOMAIN requested[n] : requested[n][i] = requested[n][j] => i = j

\* The Tx queue keeps the order of the requests.
QueueInv ==
    \A n \in Nodes :
        /\ ToSet(txQueue[n]) \subseteq ToSet(requested[n])
        /\ \A s, t \in Services : Follows(txQueue[n], s, t) => Earlier(n, s, t)
        /\ Active(n) => Begun(n, tx[n].sv)

SentInv ==
    \A p \in Nodes : \A f \in Under(p) : f.pci # "FC" => Begun(f.src, f.sv)

\* The last bytes of a service have not been sent while its transmission is open.
PartialInv ==
    \A p \in Nodes : \A f \in Under(p) :
        f.pci = "CF" /\ Active(f.src) /\ f.sv = tx[f.src].sv => f.at < tx[f.src].index

GivenInv ==
    \A p \in Nodes : \A s \in Given(p) :
        Begun(Source[s], s) /\ (Active(Source[s]) => s # tx[Source[s]].sv)

\* The frames under way to a node are in the order of their services.
FrameOrderInv ==
    \A p \in Nodes : \A f, g \in Under(p) :
        Follows(Coming(p), f, g) /\ Payload(p, f) /\ Payload(p, g) /\ SameKind(f.sv, g.sv) =>
            \/ f.sv = g.sv /\ f.pci = "CF" /\ g.pci = "CF"
            \/ Earlier(Peer(p), f.sv, g.sv)

\* What a node is given is before what is under way to it.
GivenOrderInv ==
    \A p \in Nodes : \A s \in Given(p) : \A f \in Under(p) :
        Payload(p, f) /\ SameKind(s, f.sv) => Earlier(Peer(p), s, f.sv)

OrderInv ==
    /\ AcceptedInv /\ QueueInv /\ SentInv /\ PartialInv /\ GivenInv
    /\ FrameOrderInv /\ GivenOrderInv

LEMMA NotEarlierThanItself ==
    ASSUME AcceptedInv, TypeOK, NEW n \in Nodes, NEW s
    PROVE  ~Earlier(n, s, s)
  <1>1. DOMAIN requested[n] \subseteq Nat
    <2>1. requested[n] \in Seq(Sendable)
      BY DEF TypeOK
    <2> QED
      BY <2>1
  <1> QED
    BY <1>1 DEF AcceptedInv, Earlier, Follows

\* A service is told by its first piece.
LEMMA WholeFirst ==
    ASSUME NEW s \in Services
    PROVE  Whole(s).data[1] = <<s, 0>> /\ Whole(s).data[1][1] = s
  <1>1. CASE s \in Events \/ Size[s] <= 7
    <2>1. Whole(s).data = << <<s, 0>> >>
      BY <1>1 DEF Whole
    <2> QED
      BY <2>1
  <1>2. CASE ~(s \in Events \/ Size[s] <= 7)
    <2> DEFINE len == 1 + FramesLeft(Size[s], 6)
    <2>1. Whole(s).data = [i \in 1 .. len |-> <<s, IF i = 1 THEN 0 ELSE 6 + 7 * (i - 2)>>]
      BY <1>2, Zenon DEF Whole
    <2>2. Size[s] \in Nat
      BY ServiceAssumption
    <2>3. 1 \in 1 .. len
      BY <2>2, <1>2 DEF FramesLeft
    <2> HIDE DEF len
    <2> QED
      BY <2>1, <2>3
  <1> QED
    BY <1>1, <1>2

LEMMA WholeIsOne ==
    ASSUME NEW s \in Services, NEW r \in Services, Whole(s) = Whole(r)
    PROVE  s = r
  <1>1. s = Whole(s).data[1][1] /\ r = Whole(r).data[1][1]
    BY WholeFirst
  <1> QED
    BY <1>1

LEMMA GivenSource ==
    ASSUME WholeInv, NEW p \in Nodes, NEW s \in Given(p)
    PROVE  s \in Services /\ s \in Sendable /\ Source[s] = Peer(p) /\ Peer(p) \in Nodes
  <1>1. s \in Services
    BY DEF Given
  <1>2. PICK i \in DOMAIN received[p] : received[p][i] = Whole(s)
    BY DEF Given
  <1>3. PICK r \in Sendable : Source[r] = Peer(p) /\ received[p][i] = Whole(r)
    BY DEF WholeInv
  <1>4. r = s
    BY <1>1, <1>2, <1>3, WholeIsOne DEF Sendable
  <1> QED
    BY <1>1, <1>3, <1>4, ServiceAssumption

-----------------------------------------------------------------------------
(* Steps that send and hand over no service.                                *)

\* What of OrderInv does not depend on the services given.
LinesInv == AcceptedInv /\ QueueInv /\ SentInv /\ PartialInv /\ FrameOrderInv

\* Frames of services are only taken away, transmissions only end.
TakesAway ==
    /\ \A n \in Nodes : Active(n)' =>
          Active(n) /\ tx'[n].sv = tx[n].sv /\ tx'[n].index = tx[n].index
    /\ \A p \in Nodes : \A f \in Under(p)' : f.pci # "FC" => f \in Under(p)
    /\ \A p \in Nodes : \A f, g : Follows(Coming(p)', f, g) /\ f.pci # "FC" /\ g.pci # "FC" =>
          Follows(Coming(p), f, g)

LEMMA KeptBegun ==
    ASSUME TakesAway, UNCHANGED <<txQueue, requested>>, NEW n \in Nodes, NEW s, Begun(n, s)
    PROVE  Begun(n, s)'
  BY DEF TakesAway, Begun, Earlier

LEMMA KeptLines ==
    ASSUME TypeOK, LinesInv, TakesAway, UNCHANGED <<txQueue, unsent, requested>>
    PROVE  LinesInv'
  <1>1. AcceptedInv'
    BY DEF LinesInv, AcceptedInv
  <1>2. QueueInv'
    BY KeptBegun DEF LinesInv, QueueInv, TakesAway, Earlier
  <1>3. SentInv'
    BY KeptBegun, FrameSource DEF LinesInv, SentInv, TakesAway
  <1>4. PartialInv'
    <2> SUFFICES ASSUME NEW p \in Nodes, NEW f \in Under(p)', f.pci = "CF", Active(f.src)',
                        f.sv = tx'[f.src].sv
                 PROVE  f.at < tx'[f.src].index
      BY DEF PartialInv
    <2>1. f \in Under(p) /\ f.src \in Nodes
      BY FrameSource DEF TakesAway
    <2> QED
      BY <2>1 DEF LinesInv, PartialInv, TakesAway
  <1>5. FrameOrderInv'
    BY DEF LinesInv, FrameOrderInv, TakesAway, Payload, Earlier
  <1> QED
    BY <1>1, <1>2, <1>3, <1>4, <1>5 DEF LinesInv

LEMMA KeptGiven ==
    ASSUME TypeOK, OrderInv, TakesAway, UNCHANGED <<txQueue, requested, received>>
    PROVE  GivenInv' /\ GivenOrderInv'
  <1>1. \A p : Given(p)' = Given(p)
    BY DEF Given
  <1>2. GivenInv'
    <2> SUFFICES ASSUME NEW p \in Nodes, NEW s \in Given(p)
                 PROVE  Begun(Source[s], s)' /\ (Active(Source[s])' => s # tx'[Source[s]].sv)
      BY <1>1 DEF GivenInv
    <2>1. Source[s] \in Nodes
      BY ServiceAssumption DEF Given
    <2> QED
      BY <2>1, KeptBegun DEF OrderInv, GivenInv, TakesAway
  <1>3. GivenOrderInv'
    BY <1>1 DEF OrderInv, GivenOrderInv, TakesAway, Payload, Earlier
  <1> QED
    BY <1>2, <1>3

LEMMA KeptOrder ==
    ASSUME TypeOK, OrderInv, TakesAway, UNCHANGED <<txQueue, unsent, requested, received>>
    PROVE  OrderInv'
  <1>1. LinesInv
    BY DEF OrderInv, LinesInv
  <1>2. LinesInv' /\ GivenInv' /\ GivenOrderInv'
    BY <1>1, KeptLines, KeptGiven
  <1> QED
    BY <1>2 DEF OrderInv, LinesInv

LEMMA TakesOnlyAway ==
    ASSUME SendsNothing, UNCHANGED tx
    PROVE  TakesAway
  BY DEF SendsNothing, TakesAway, Active

-----------------------------------------------------------------------------
(* A service is delivered.                                                  *)

\* Node n is given service s with the frame f0, the last one of the service.
LEMMA GiveOrder ==
    ASSUME IInv, MadeInv, PairInv, OrderInv, SendsNothing,
           UNCHANGED <<tx, txQueue, unsent, requested>>,
           NEW n \in Nodes, NEW f0 \in Under(n), f0.pci \in {"SF", "OSF", "CF"},
           Payload(n, f0), \A f \in Under(n)' : Follows(Coming(n), f0, f),
           f0.pci = "CF" => Size[f0.sv] - f0.at <= 7,
           \A p \in Nodes : \A s \in Given(p)' : s \in Given(p) \/ (p = n /\ s = f0.sv)
    PROVE  OrderInv'
  <1> DEFINE s0 == f0.sv
             m == f0.src
  <1>1. /\ TypeOK /\ Made(f0) /\ f0 \in Frames /\ s0 \in Sendable /\ m \in Nodes
        /\ f0.at \in Nat /\ Size[s0] \in Nat
    BY FrameSource, SendableSize, MaxServiceSizeFact DEF IInv, MadeInv, FormInv, Frames, Offsets
  <1>2. Peer(n) = m /\ Source[s0] = m /\ (s0 \in Events <=> f0.pci = "OSF")
    BY <1>1 DEF Payload, Made
  <1>3. LinesInv'
    BY <1>1, TakesOnlyAway, KeptLines DEF OrderInv, LinesInv
  <1>4. \A k \in Nodes : \A s : Begun(k, s) => Begun(k, s)'
    BY TakesOnlyAway, KeptBegun
  <1>5. Begun(m, s0)
    BY DEF OrderInv, SentInv
  <1>6. Active(m) => s0 # tx[m].sv
    <2> SUFFICES ASSUME Active(m), s0 = tx[m].sv PROVE FALSE
      OBVIOUS
    <2>1. s0 \notin Events /\ Size[s0] > 7
      BY <1>1 DEF MadeInv, FormInv, Active
    <2>2. f0.pci = "CF"
      BY <1>1, <1>2, <2>1 DEF Made
    <2>3. f0.at < tx[m].index /\ f0.at % 7 = 6
      BY <1>1, <2>2 DEF OrderInv, PartialInv, Made
    <2>4. tx[m].index \in Nat /\ tx[m].index % 7 = 6 /\ tx[m].index < Size[s0]
      BY <1>1 DEF IInv, TypeOK, Transmissions, TxPosition, TxAligned, Active
    <2>5. f0.at + 7 <= tx[m].index
      BY <1>1, <2>3, <2>4, AlignedSteps
    <2> QED
      BY <1>1, <2>2, <2>4, <2>5
  <1>7. GivenInv'
    <2> SUFFICES ASSUME NEW p \in Nodes, NEW s \in Given(p)'
                 PROVE  Begun(Source[s], s)' /\ (Active(Source[s])' => s # tx'[Source[s]].sv)
      BY DEF GivenInv
    <2>1. CASE s \in Given(p)
      <3>1. Source[s] \in Nodes
        BY <2>1, ServiceAssumption DEF Given
      <3>2. Begun(Source[s], s) /\ (Active(Source[s]) => s # tx[Source[s]].sv)
        BY <2>1 DEF OrderInv, GivenInv
      <3> QED
        BY <1>4, <3>1, <3>2 DEF Active
    <2>2. CASE s = s0
      BY <1>1, <1>2, <1>4, <1>5, <1>6, <2>2 DEF Active
    <2> QED
      BY <2>1, <2>2
  <1>8. GivenOrderInv'
    <2> SUFFICES ASSUME NEW p \in Nodes, NEW s \in Given(p)', NEW f \in Under(p)',
                        Payload(p, f), SameKind(s, f.sv)
                 PROVE  Earlier(Peer(p), s, f.sv)
      BY DEF GivenOrderInv, Payload, Earlier
    <2>1. f \in Under(p)
      BY DEF SendsNothing
    <2>2. CASE s \in Given(p)
      BY <2>1, <2>2 DEF OrderInv, GivenOrderInv
    <2>3. CASE p = n /\ s = s0
      <3>1. Follows(Coming(n), f0, f)
        BY <2>3
      <3>2. \/ s0 = f.sv /\ f0.pci = "CF" /\ f.pci = "CF"
            \/ Earlier(Peer(n), s0, f.sv)
        BY <2>1, <2>3, <3>1 DEF OrderInv, FrameOrderInv
      <3>3. ASSUME s0 = f.sv, f0.pci = "CF", f.pci = "CF" PROVE FALSE
        <4>1. f0.at < f.at
          BY <2>1, <2>3, <3>1, <3>3 DEF PairInv, Part, Payload
        <4>2. Made(f) /\ f.at \in Nat
          BY <1>1, <2>1, FrameSource, MaxServiceSizeFact DEF MadeInv, FormInv, Frames, Offsets
        <4>3. f0.at % 7 = 6 /\ f.at % 7 = 6 /\ f.at < Size[s0]
          BY <1>1, <3>3, <4>2 DEF Made
        <4>4. f0.at + 7 <= f.at
          BY <1>1, <4>1, <4>2, <4>3, AlignedSteps
        <4> QED
          BY <1>1, <3>3, <4>2, <4>3, <4>4
      <3> QED
        BY <2>3, <3>2, <3>3
    <2> QED
      BY <2>2, <2>3
  <1> QED
    BY <1>3, <1>7, <1>8 DEF OrderInv, LinesInv

\* What m_AddToRxQueue gives.
LEMMA AddGiven ==
    ASSUME TypeOK, NEW n \in Nodes, NEW s \in Services, NEW m \in Messages, m = Whole(s),
           AddToRxQueue(n, m)
    PROVE  \A p \in Nodes : \A r \in Given(p)' : r \in Given(p) \/ (p = n /\ r = s)
  <1> SUFFICES ASSUME NEW p \in Nodes, NEW r \in Given(p)'
               PROVE  r \in Given(p) \/ (p = n /\ r = s)
    OBVIOUS
  <1>1. PICK i \in DOMAIN received'[p] : received'[p][i] = Whole(r)
    BY DEF Given
  <1>2. r \in Services
    BY DEF Given
  <1>3. CASE received' = received
    BY <1>1, <1>2, <1>3 DEF Given
  <1>4. CASE received' = [received EXCEPT ![n] = Append(@, m)]
    <2>1. received[n] \in Seq(Messages)
      BY DEF TypeOK
    <2>2. received'[p] = IF p = n THEN Append(received[n], m) ELSE received[p]
      BY <1>4 DEF TypeOK
    <2>3. CASE p # n
      BY <1>1, <1>2, <2>2, <2>3 DEF Given
    <2>4. CASE p = n
      <3>1. received'[p] = Append(received[n], m)
        BY <2>2, <2>4
      <3>2. \/ i \in DOMAIN received[n] /\ received'[p][i] = received[n][i]
            \/ received'[p][i] = m
        BY <1>1, <2>1, <3>1
      <3>3. ASSUME received'[p][i] = m PROVE r = s
        BY <1>1, <1>2, <3>3, WholeIsOne
      <3> QED
        BY <1>1, <1>2, <2>4, <3>2, <3>3 DEF Given
    <2> QED
      BY <2>3, <2>4
  <1> QED
    BY <1>3, <1>4 DEF AddToRxQueue

LEMMA ReceiveOrder ==
    ASSUME Calm, IInv, FlowInv, OrderInv, NEW n \in Nodes,
           HandleIncomingSingleFrame(n) \/ HandleIncomingConsecutiveFrame(n)
    PROVE  OrderInv'
  <1> DEFINE f0 == Head(canQueue[n])
  <1>1. /\ MadeInv /\ RxInv /\ CfInv /\ PairInv /\ TypeOK
        /\ Ordinary /\ StaysApart
    BY CalmIsTimely DEF FlowInv, IInv
  <1>2. \E pcis \in SUBSET {"SF", "OSF", "CF"} : ReadFrame(n, f0, pcis)
    BY DEF HandleIncomingSingleFrame, HandleIncomingConsecutiveFrame
  <1>3. Gives(n, f0) \/ UNCHANGED received
    BY <1>1, SingleGives, TransferGives, HeadReceived
  <1>4. UNCHANGED <<tx, wire, txQueue, unsent, requested>>
    BY DEF HandleIncomingSingleFrame, HandleIncomingConsecutiveFrame, ReadFrame
  <1> HIDE DEF f0
  <1>5. PICK pcis \in SUBSET {"SF", "OSF", "CF"} : ReadFrame(n, f0, pcis)
    BY <1>2
  <1>6. /\ f0 \in Under(n) /\ f0 \in ToSet(canQueue[n]) /\ f0.pci \in {"SF", "OSF", "CF"}
    BY <1>1, <1>5, ReadFirst
  <1>7. Payload(n, f0)
    BY <1>1, <1>5, <1>6, Heard DEF Payload, ReadFrame
  <1>8. SendsNothing /\ \A f \in Under(n)' : Follows(Coming(n), f0, f)
    BY <1>1, <1>4, <1>5, ReadFlow
  <1>9. CASE UNCHANGED received
    BY <1>1, <1>4, <1>8, <1>9, TakesOnlyAway, KeptOrder
  <1>10. CASE Gives(n, f0)
    <2>1. f0.sv \in Services /\ Whole(f0.sv) \in Messages /\ AddToRxQueue(n, Whole(f0.sv))
      BY <1>10 DEF Gives, Sendable
    <2>2. \A p \in Nodes : \A r \in Given(p)' : r \in Given(p) \/ (p = n /\ r = f0.sv)
      BY <1>1, <2>1, AddGiven
    <2> QED
      BY <1>1, <1>4, <1>6, <1>7, <1>8, <1>10, <2>2, GiveOrder DEF Gives
  <1> QED
    BY <1>3, <1>9, <1>10

-----------------------------------------------------------------------------
(* A service is accepted.                                                   *)

\* Node n accepts service s.
Accepts(n, s) ==
    /\ s \in unsent /\ s \in Sendable /\ Source[s] = n
    /\ unsent' = unsent \ {s}
    /\ requested' = [requested EXCEPT ![n] = Append(@, s)]

LEMMA AcceptedRequests ==
    ASSUME TypeOK, AcceptedInv, NEW n \in Nodes, NEW s, Accepts(n, s)
    PROVE  /\ AcceptedInv'
           /\ \A k \in Nodes : ToSet(requested'[k]) =
                 IF k = n THEN ToSet(requested[k]) \cup {s} ELSE ToSet(requested[k])
           /\ \A k \in Nodes : \A x, y : Earlier(k, x, y) => Earlier(k, x, y)'
           /\ \A x \in ToSet(requested[n]) : Earlier(n, x, s)'
  <1>1. /\ requested[n] \in Seq(Sendable) /\ s \in Sendable
        /\ \A k \in Nodes : requested'[k] = IF k = n THEN Append(requested[n], s) ELSE requested[k]
    BY DEF Accepts, TypeOK
  <1>2. \A k \in Nodes : ToSet(requested'[k]) =
            IF k = n THEN ToSet(requested[k]) \cup {s} ELSE ToSet(requested[k])
    <2>1. ToSet(Append(requested[n], s)) = ToSet(requested[n]) \cup {s}
      BY <1>1, ToSetAppend
    <2> QED
      BY <1>1, <2>1
  <1>3. \A k \in Nodes : \A x, y : Earlier(k, x, y) => Earlier(k, x, y)'
    BY <1>1, FollowsAppend DEF Earlier
  <1>4. \A x \in ToSet(requested[n]) : Earlier(n, x, s)'
    BY <1>1, FollowsAppend DEF Earlier
  <1>5. AcceptedInv'
    <2> SUFFICES ASSUME NEW k \in Nodes
                 PROVE  /\ \A i \in DOMAIN requested'[k] :
                              requested'[k][i] \notin unsent' /\ Source[requested'[k][i]] = k
                        /\ \A i, j \in DOMAIN requested'[k] :
                              requested'[k][i] = requested'[k][j] => i = j
      BY DEF AcceptedInv
    <2>1. unsent' = unsent \ {s} /\ s \in unsent /\ Source[s] = n
      BY DEF Accepts
    <2>2. CASE k # n
      BY <1>1, <2>1, <2>2 DEF AcceptedInv
    <2>3. CASE k = n
      <3> DEFINE a == requested[n]
                 b == requested'[n]
      <3>1. /\ Len(a) \in Nat /\ DOMAIN a = 1 .. Len(a) /\ DOMAIN b = 1 .. Len(a) + 1
            /\ b[Len(a) + 1] = s
            /\ \A i \in 1 .. Len(a) : b[i] = a[i]
        <4>1. ASSUME NEW q \in Seq(Sendable), NEW z \in Sendable
              PROVE  /\ Len(q) \in Nat /\ DOMAIN q = 1 .. Len(q)
                     /\ DOMAIN Append(q, z) = 1 .. Len(q) + 1
                     /\ Append(q, z)[Len(q) + 1] = z
                     /\ \A i \in 1 .. Len(q) : Append(q, z)[i] = q[i]
          OBVIOUS
        <4>2. a \in Seq(Sendable) /\ s \in Sendable /\ b = Append(a, s)
          BY <1>1
        <4> HIDE DEF a, b
        <4> QED
          BY <4>1, <4>2
      <3>2. /\ \A i \in DOMAIN a : a[i] \notin unsent /\ Source[a[i]] = n
            /\ \A i, j \in DOMAIN a : a[i] = a[j] => i = j
        BY DEF AcceptedInv
      <3> HIDE DEF a, b
      <3>3. \A i \in DOMAIN b : b[i] \notin unsent' /\ Source[b[i]] = n
        <4> SUFFICES ASSUME NEW i \in DOMAIN b PROVE b[i] \notin unsent' /\ Source[b[i]] = n
          OBVIOUS
        <4>1. CASE i \in 1 .. Len(a)
          BY <2>1, <3>1, <3>2, <4>1
        <4>2. CASE i = Len(a) + 1
          BY <2>1, <3>1, <4>2
        <4> QED
          BY <3>1, <4>1, <4>2
      <3>4. \A i, j \in DOMAIN b : b[i] = b[j] => i = j
        <4>1. \A i \in 1 .. Len(a) : b[i] # s
          BY <2>1, <3>1, <3>2
        <4> QED
          BY <3>1, <3>2, <4>1
      <3> QED
        BY <2>3, <3>3, <3>4 DEF b
    <2> QED
      BY <2>2, <2>3
  <1> QED
    BY <1>2, <1>3, <1>4, <1>5

\* A service is put behind the others.
LEMMA RequestOrder ==
    ASSUME IInv, OrderInv, NEW n \in Nodes, NEW s \in Services, SendRequest(n, s)
    PROVE  OrderInv'
  <1>1. /\ TypeOK /\ UNCHANGED <<tx, wire, canQueue, received>>
        /\ s \in unsent /\ Source[s] = n /\ unsent' = unsent \ {s}
    BY DEF SendRequest, IInv
  <1>2. /\ \A p : Under(p)' = Under(p) /\ Coming(p)' = Coming(p) /\ Given(p)' = Given(p)
        /\ \A k : Active(k)' <=> Active(k)
    BY <1>1 DEF Under, Coming, Given, Active
  <1>3. CASE UNCHANGED <<txQueue, requested>>
    <2>1. \A k \in Nodes : \A x : Begun(k, x) => Begun(k, x)'
      BY <1>1, <1>2, <1>3 DEF Begun, Earlier
    <2>2. AcceptedInv'
      BY <1>1, <1>3 DEF OrderInv, AcceptedInv
    <2>3. QueueInv' /\ PartialInv' /\ FrameOrderInv' /\ GivenOrderInv'
      BY <1>1, <1>2, <1>3, <2>1
         DEF OrderInv, QueueInv, PartialInv, FrameOrderInv, GivenOrderInv, Earlier, Payload
    <2>4. SentInv' /\ GivenInv'
      <3>1. \A p \in Nodes : \A r \in Given(p) : Source[r] \in Nodes
        BY ServiceAssumption DEF Given
      <3> QED
        BY <1>1, <1>2, <2>1, <3>1, FrameSource DEF OrderInv, SentInv, GivenInv
    <2> QED
      BY <2>2, <2>3, <2>4 DEF OrderInv
  <1>4. CASE /\ Size[s] <= MaxServiceSize
             /\ txQueue' = [txQueue EXCEPT ![n] = Append(@, s)]
             /\ requested' = [requested EXCEPT ![n] = Append(@, s)]
    <2>1. s \in Sendable /\ Accepts(n, s)
      BY <1>1, <1>4 DEF Accepts, Sendable
    <2>2. /\ AcceptedInv'
          /\ \A k \in Nodes : ToSet(requested'[k]) =
                IF k = n THEN ToSet(requested[k]) \cup {s} ELSE ToSet(requested[k])
          /\ \A k \in Nodes : \A x, y : Earlier(k, x, y) => Earlier(k, x, y)'
          /\ \A x \in ToSet(requested[n]) : Earlier(n, x, s)'
      BY <1>1, <2>1, AcceptedRequests DEF OrderInv
    <2>3. /\ txQueue[n] \in Seq(Sendable)
          /\ \A k \in Nodes : txQueue'[k] = IF k = n THEN Append(txQueue[n], s) ELSE txQueue[k]
      BY <1>1, <1>4 DEF TypeOK
    <2>4. \A k \in Nodes : ToSet(txQueue'[k]) =
              IF k = n THEN ToSet(txQueue[k]) \cup {s} ELSE ToSet(txQueue[k])
      <3>1. ToSet(Append(txQueue[n], s)) = ToSet(txQueue[n]) \cup {s}
        BY <2>1, <2>3, ToSetAppend
      <3> QED
        BY <2>3, <3>1
    <2>5. ASSUME NEW k \in Nodes, NEW x, Begun(k, x) PROVE Begun(k, x)'
      <3>1. x \in ToSet(requested[k]) /\ x \in ToSet(requested'[k])
        BY <2>2, <2>5 DEF Begun
      <3>2. ASSUME x \notin Events, NEW t \in ToSet(txQueue'[k]) PROVE Earlier(k, x, t)'
        BY <2>2, <2>4, <2>5, <3>1, <3>2 DEF Begun
      <3>3. ASSUME x \notin Events, Active(k)'
            PROVE  (x = tx[k].sv \/ Earlier(k, x, tx[k].sv))'
        <4>1. PICK v : v = tx[k].sv
          OBVIOUS
        <4>2. x = v \/ Earlier(k, x, v)
          BY <1>2, <2>5, <3>3, <4>1 DEF Begun
        <4>3. x = v \/ Earlier(k, x, v)'
          BY <2>2, <4>2
        <4>4. v = tx'[k].sv
          BY <1>1, <4>1
        <4> QED
          BY <4>3, <4>4 DEF Earlier
      <3> QED
        BY <3>1, <3>2, <3>3 DEF Begun
    <2>6. QueueInv'
      <3> SUFFICES ASSUME NEW k \in Nodes
                   PROVE  /\ ToSet(txQueue'[k]) \subseteq ToSet(requested'[k])
                          /\ \A x, y \in Services : Follows(txQueue'[k], x, y) => Earlier(k, x, y)'
                          /\ Active(k)' => Begun(k, tx[k].sv)'
        BY <1>1 DEF QueueInv, Earlier, Begun
      <3>1. ToSet(txQueue[k]) \subseteq ToSet(requested[k])
        BY DEF OrderInv, QueueInv
      <3>2. ASSUME NEW x \in Services, NEW y \in Services, Follows(txQueue'[k], x, y)
            PROVE  Earlier(k, x, y)'
        <4>1. Follows(txQueue[k], x, y) \/ (k = n /\ y = s /\ x \in ToSet(txQueue[n]))
          BY <2>1, <2>3, <3>2, FollowsAppend
        <4> QED
          BY <2>2, <3>1, <4>1 DEF OrderInv, QueueInv
      <3>3. Active(k)' => Begun(k, tx[k].sv)'
        <4>1. PICK v : v = tx[k].sv
          OBVIOUS
        <4>2. Active(k)' => Begun(k, v)'
          BY <1>2, <2>5, <4>1 DEF OrderInv, QueueInv
        <4> QED
          BY <1>1, <4>1, <4>2 DEF Begun, Earlier
      <3> QED
        BY <2>2, <2>4, <3>1, <3>2, <3>3
    <2>7. PartialInv'
      BY <1>1, <1>2 DEF OrderInv, PartialInv
    <2>8. SentInv' /\ GivenInv'
      <3>1. \A p \in Nodes : \A r \in Given(p) : Source[r] \in Nodes
        BY ServiceAssumption DEF Given
      <3> QED
        BY <1>1, <1>2, <2>5, <3>1, FrameSource DEF OrderInv, SentInv, GivenInv
    <2>9. FrameOrderInv' /\ GivenOrderInv'
      <3>1. ASSUME NEW p \in Nodes, NEW f \in Under(p), Payload(p, f) PROVE Peer(p) \in Nodes
        BY <1>1, <3>1, FrameSource DEF Payload
      <3> QED
        BY <1>2, <2>2, <3>1 DEF OrderInv, FrameOrderInv, GivenOrderInv, Payload
    <2> QED
      BY <2>2, <2>6, <2>7, <2>8, <2>9 DEF OrderInv
  <1> QED
    BY <1>3, <1>4 DEF SendRequest

\* An event is sent at once.
LEMMA EventOrder ==
    ASSUME IInv, MadeInv, WholeInv, OrderInv, NEW n \in Nodes, NEW s \in Services,
           SendEvent(n, s)
    PROVE  OrderInv'
  <1>1. /\ UNCHANGED <<tx, rx, txQueue, canQueue, server, received>>
        /\ s \in Sendable /\ s \in Events /\ Source[s] = n /\ TypeOK
    BY SentEvent DEF IInv
  <1>2. PICK fs \in Seq(Frames) :
            /\ \A f \in ToSet(fs) : f = EventFrame(n, s)
            /\ \A g, h : ~Follows(fs, g, h)
            /\ Sends(server[n], fs)
    BY SentEvent
  <1>3. Accepts(n, s)
    BY <1>1 DEF SendEvent, Accepts
  <1>4. /\ AcceptedInv'
        /\ \A k \in Nodes : ToSet(requested'[k]) =
              IF k = n THEN ToSet(requested[k]) \cup {s} ELSE ToSet(requested[k])
        /\ \A k \in Nodes : \A x, y : Earlier(k, x, y) => Earlier(k, x, y)'
        /\ \A x \in ToSet(requested[n]) : Earlier(n, x, s)'
    BY <1>1, <1>3, AcceptedRequests DEF OrderInv
  <1>5. /\ \A f \in ToSet(fs) : f.pci = "OSF" /\ f.src = n /\ f.sv = s
        /\ \A p \in Nodes : \A f \in Under(p)' :
              f \in Under(p) \/ (f.pci = "OSF" /\ f.src = n /\ f.sv = s)
        /\ \A p \in Nodes : \A f, g : Follows(Coming(p)', f, g) =>
              \/ Follows(Coming(p), f, g)
              \/ f \in Under(p) /\ g \in ToSet(fs)
    BY <1>2 DEF EventFrame, Sends
  <1>6. ASSUME NEW k \in Nodes, NEW x, Begun(k, x) PROVE Begun(k, x)'
    <2>1. x \in ToSet(requested'[k])
      BY <1>4, <1>6 DEF Begun
    <2>2. ASSUME x \notin Events, NEW t \in ToSet(txQueue'[k]) PROVE Earlier(k, x, t)'
      BY <1>1, <1>4, <1>6, <2>2 DEF Begun
    <2>3. ASSUME x \notin Events, Active(k)'
          PROVE  (x = tx[k].sv \/ Earlier(k, x, tx[k].sv))'
      <3>1. PICK v : v = tx[k].sv
        OBVIOUS
      <3>2. x = v \/ Earlier(k, x, v)
        BY <1>1, <1>6, <2>3, <3>1 DEF Begun, Active
      <3>3. x = v \/ Earlier(k, x, v)'
        BY <1>4, <3>2
      <3>4. v = tx'[k].sv
        BY <1>1, <3>1
      <3> QED
        BY <3>3, <3>4 DEF Earlier
    <2> QED
      BY <2>1, <2>2, <2>3 DEF Begun
  <1>7. Begun(n, s)'
    BY <1>1, <1>3, <1>4 DEF Begun
  <1>8. QueueInv'
    <2> SUFFICES ASSUME NEW k \in Nodes
                 PROVE  /\ ToSet(txQueue[k]) \subseteq ToSet(requested'[k])
                        /\ \A x, y \in Services : Follows(txQueue[k], x, y) => Earlier(k, x, y)'
                        /\ Active(k)' => Begun(k, tx[k].sv)'
      BY <1>1 DEF QueueInv, Earlier, Begun
    <2>1. Active(k)' => Begun(k, tx[k].sv)'
      <3>1. PICK v : v = tx[k].sv
        OBVIOUS
      <3>2. Active(k)' => Begun(k, v)'
        BY <1>1, <1>6, <3>1 DEF OrderInv, QueueInv, Active
      <3> QED
        BY <1>1, <3>1, <3>2 DEF Begun, Earlier
    <2> QED
      BY <1>4, <2>1 DEF OrderInv, QueueInv
  <1>9. SentInv'
    BY <1>1, <1>5, <1>6, <1>7, FrameSource DEF OrderInv, SentInv
  <1>10. PartialInv'
    BY <1>1, <1>5 DEF OrderInv, PartialInv, Active
  <1>11. \A p \in Nodes : Given(p)' = Given(p)
    BY <1>1 DEF Given
  <1>12. GivenInv'
    <2>1. \A p \in Nodes : \A r \in Given(p) : Source[r] \in Nodes
      BY ServiceAssumption DEF Given
    <2> QED
      BY <1>1, <1>6, <1>11, <2>1 DEF OrderInv, GivenInv, Active
  <1>13. \A p \in Nodes : \A f \in Under(p) : Payload(p, f) => Peer(p) \in Nodes
    BY <1>1, FrameSource DEF Payload
  <1>14. FrameOrderInv'
    <2> SUFFICES ASSUME NEW p \in Nodes, NEW f \in Under(p)', NEW g \in Under(p)',
                        Follows(Coming(p)', f, g), Payload(p, f), Payload(p, g),
                        SameKind(f.sv, g.sv)
                 PROVE  \/ f.sv = g.sv /\ f.pci = "CF" /\ g.pci = "CF"
                        \/ Earlier(Peer(p), f.sv, g.sv)'
      BY DEF FrameOrderInv, Payload, Earlier
    <2>1. CASE Follows(Coming(p), f, g)
      <3>1. f \in Under(p) /\ g \in Under(p)
        BY <2>1, FollowsIsUnder
      <3> QED
        BY <1>4, <1>13, <2>1, <3>1 DEF OrderInv, FrameOrderInv
    <2>2. CASE f \in Under(p) /\ g \in ToSet(fs)
      <3>1. g.sv = s /\ Peer(p) = n /\ f.src = n
        BY <1>5, <2>2 DEF Payload
      <3>2. f.sv \in ToSet(requested[n])
        BY <2>2, <3>1 DEF OrderInv, SentInv, Begun, Payload
      <3> QED
        BY <1>4, <3>1, <3>2
    <2> QED
      BY <1>5, <2>1, <2>2
  <1>15. GivenOrderInv'
    <2> SUFFICES ASSUME NEW p \in Nodes, NEW r \in Given(p), NEW f \in Under(p)',
                        Payload(p, f), SameKind(r, f.sv)
                 PROVE  Earlier(Peer(p), r, f.sv)'
      BY <1>11 DEF GivenOrderInv, Payload, Earlier
    <2>1. CASE f \in Under(p)
      BY <1>4, <1>13, <2>1 DEF OrderInv, GivenOrderInv
    <2>2. CASE f \notin Under(p)
      <3>1. f.src = n /\ f.sv = s /\ Peer(p) = n
        BY <1>5, <2>2 DEF Payload
      <3>2. Source[r] = n
        BY <3>1, GivenSource
      <3>3. r \in ToSet(requested[n])
        BY <3>2 DEF OrderInv, GivenInv, Begun
      <3> QED
        BY <1>4, <3>1, <3>3
    <2> QED
      BY <2>1, <2>2
  <1> QED
    BY <1>4, <1>8, <1>9, <1>10, <1>12, <1>14, <1>15 DEF OrderInv

-----------------------------------------------------------------------------
(* A service is sent.                                                       *)

\* Service s is taken from the queue; frames of it go to node p.
LEMMA StartOrder ==
    ASSUME IInv, MadeInv, WholeInv, OrderInv, NEW n \in Nodes, NEW p \in Nodes,
           NEW s \in Sendable, TakeFromTxQueue(n, s), NEW fs, Sends(p, fs),
           \A f \in ToSet(fs) : f.pci \in {"SF", "FF"} /\ f.src = n /\ f.sv = s,
           \A f, g : ~Follows(fs, f, g),
           Active(n)' => tx'[n].sv = s,
           \A k \in Nodes : k # n => tx'[k] = tx[k],
           UNCHANGED <<requested, unsent, received>>
    PROVE  OrderInv'
  <1>1. /\ TypeOK /\ ~Active(n)
        /\ txQueue[n] \in Seq(Sendable) /\ txQueue[n] # <<>> /\ s = Head(txQueue[n])
        /\ \A k \in Nodes : txQueue'[k] = IF k = n THEN Tail(txQueue[n]) ELSE txQueue[k]
    BY DEF TakeFromTxQueue, IInv, TypeOK, Active
  <1>2. /\ s \in ToSet(txQueue[n]) /\ ToSet(Tail(txQueue[n])) \subseteq ToSet(txQueue[n])
        /\ \A t \in ToSet(Tail(txQueue[n])) : Follows(txQueue[n], s, t)
        /\ \A x, y : Follows(Tail(txQueue[n]), x, y) => Follows(txQueue[n], x, y)
    BY <1>1, FollowsTail
  <1>3. \A k \in Nodes : /\ ToSet(txQueue'[k]) \subseteq ToSet(txQueue[k])
                         /\ \A x, y : Follows(txQueue'[k], x, y) => Follows(txQueue[k], x, y)
    BY <1>1, <1>2
  <1>4. s \in Services /\ s \notin Events /\ Source[s] = n /\ s \in ToSet(requested[n])
    BY <1>1, <1>2, TakenFromQueue DEF Sendable, OrderInv, QueueInv, MadeInv
  <1>5. \A t \in ToSet(txQueue'[n]) : Earlier(n, s, t)
    <2>1. \A t \in ToSet(Tail(txQueue[n])) : t \in Services
      <3>1. \A t \in ToSet(txQueue[n]) : t \in Services
        BY <1>1 DEF ToSet, Sendable
      <3> QED
        BY <1>2, <3>1
    <2> QED
      BY <1>1, <1>2, <1>4, <2>1 DEF OrderInv, QueueInv
  <1>6. \A k \in Nodes : \A x, y : Earlier(k, x, y)' <=> Earlier(k, x, y)
    BY DEF Earlier
  <1>7. \A k \in Nodes : Active(k)' => IF k = n THEN tx'[k].sv = s
                                       ELSE Active(k) /\ tx'[k] = tx[k]
    BY DEF Active
  <1>8. \A x : Begun(n, x) /\ x \notin Events => Earlier(n, x, s)
    BY <1>2 DEF Begun
  <1>9. ASSUME NEW k \in Nodes, NEW x, Begun(k, x) PROVE Begun(k, x)'
    BY <1>3, <1>6, <1>7, <1>8, <1>9 DEF Begun, Earlier
  <1>10. Begun(n, s)'
    BY <1>4, <1>5, <1>7 DEF Begun, Earlier
  <1>11. \A q \in Nodes : \A f \in Under(q)' :
             f \in Under(q) \/ (q = p /\ f \in ToSet(fs))
    BY DEF Sends
  <1>12. AcceptedInv'
    BY DEF OrderInv, AcceptedInv
  <1>13. QueueInv'
    <2> SUFFICES ASSUME NEW k \in Nodes
                 PROVE  /\ ToSet(txQueue'[k]) \subseteq ToSet(requested[k])
                        /\ \A x, y \in Services : Follows(txQueue'[k], x, y) => Earlier(k, x, y)
                        /\ Active(k)' => Begun(k, tx[k].sv)'
      BY DEF QueueInv, Earlier, Begun
    <2>1. Active(k)' => Begun(k, tx[k].sv)'
      <3>1. CASE k = n
        BY <1>7, <1>10, <3>1 DEF Begun, Earlier
      <3>2. CASE k # n
        <4>1. PICK v : v = tx[k].sv
          OBVIOUS
        <4>2. Active(k)' => Begun(k, v)' /\ v = tx'[k].sv
          BY <1>7, <1>9, <3>2, <4>1 DEF OrderInv, QueueInv
        <4> QED
          BY <4>2 DEF Begun, Earlier
      <3> QED
        BY <3>1, <3>2
    <2> QED
      BY <1>3, <2>1 DEF OrderInv, QueueInv
  <1>14. SentInv'
    BY <1>1, <1>9, <1>10, <1>11, FrameSource DEF OrderInv, SentInv
  <1>15. PartialInv'
    <2> SUFFICES ASSUME NEW q \in Nodes, NEW f \in Under(q)', f.pci = "CF", Active(f.src)',
                        f.sv = tx'[f.src].sv
                 PROVE  f.at < tx'[f.src].index
      BY DEF PartialInv
    <2>1. f \in Under(q) /\ f.src \in Nodes
      BY <1>1, <1>11, FrameSource
    <2>2. f.src # n
      <3>1. f.sv \notin Events /\ Begun(f.src, f.sv)
        BY <2>1 DEF MadeInv, FormInv, Made, OrderInv, SentInv
      <3>2. ~Earlier(n, s, s)
        BY <1>1, NotEarlierThanItself DEF OrderInv
      <3> QED
        BY <1>7, <1>8, <2>1, <3>1, <3>2
    <2> QED
      BY <1>7, <2>1, <2>2 DEF OrderInv, PartialInv
  <1>16. \A q \in Nodes : Given(q)' = Given(q)
    BY DEF Given
  <1>17. GivenInv'
    <2> SUFFICES ASSUME NEW q \in Nodes, NEW r \in Given(q)
                 PROVE  Begun(Source[r], r)' /\ (Active(Source[r])' => r # tx'[Source[r]].sv)
      BY <1>16 DEF GivenInv
    <2>1. Source[r] \in Nodes
      BY ServiceAssumption DEF Given
    <2>2. Begun(Source[r], r) /\ (Active(Source[r]) => r # tx[Source[r]].sv)
      BY DEF OrderInv, GivenInv
    <2>3. Source[r] = n => r # s
      <3>1. ~Earlier(n, s, s)
        BY <1>1, NotEarlierThanItself DEF OrderInv
      <3> QED
        BY <1>4, <1>8, <2>2, <3>1
    <2> QED
      BY <1>7, <1>9, <2>1, <2>2, <2>3
  <1>18. FrameOrderInv'
    <2> SUFFICES ASSUME NEW q \in Nodes, NEW f \in Under(q)', NEW g \in Under(q)',
                        Follows(Coming(q)', f, g), Payload(q, f), Payload(q, g),
                        SameKind(f.sv, g.sv)
                 PROVE  \/ f.sv = g.sv /\ f.pci = "CF" /\ g.pci = "CF"
                        \/ Earlier(Peer(q), f.sv, g.sv)
      BY DEF FrameOrderInv, Payload, Earlier
    <2>1. CASE Follows(Coming(q), f, g)
      BY <2>1, FollowsIsUnder DEF OrderInv, FrameOrderInv
    <2>2. CASE f \in Under(q) /\ g \in ToSet(fs)
      <3>1. g.sv = s /\ f.src = n /\ Peer(q) = n /\ f.pci # "FC"
        BY <2>2 DEF Payload
      <3>2. f.sv \notin Events /\ Begun(n, f.sv)
        BY <1>4, <2>2, <3>1 DEF SameKind, OrderInv, SentInv
      <3> QED
        BY <1>8, <3>1, <3>2
    <2> QED
      BY <2>1, <2>2 DEF Sends
  <1>19. GivenOrderInv'
    <2> SUFFICES ASSUME NEW q \in Nodes, NEW r \in Given(q), NEW f \in Under(q)',
                        Payload(q, f), SameKind(r, f.sv)
                 PROVE  Earlier(Peer(q), r, f.sv)
      BY <1>16 DEF GivenOrderInv, Payload, Earlier
    <2>1. CASE f \in Under(q)
      BY <2>1 DEF OrderInv, GivenOrderInv
    <2>2. CASE f \notin Under(q)
      <3>1. f.src = n /\ f.sv = s /\ Peer(q) = n
        BY <1>11, <2>2 DEF Payload
      <3>2. Source[r] = n /\ r \notin Events
        BY <1>4, <3>1, GivenSource DEF SameKind
      <3> QED
        BY <1>8, <3>1, <3>2 DEF OrderInv, GivenInv
    <2> QED
      BY <2>1, <2>2
  <1> QED
    BY <1>12, <1>13, <1>14, <1>15, <1>17, <1>18, <1>19 DEF OrderInv

LEMMA StartFrameOrder ==
    ASSUME IInv, MadeInv, WholeInv, OrderInv, NEW n \in Nodes,
           SendSingleFrame(n) \/ SendFirstFrame(n)
    PROVE  OrderInv'
  <1>1. tx \in [Nodes -> Transmissions] /\ server[n] \in Nodes
    BY DEF IInv, TypeOK
  <1>2. UNCHANGED <<requested, unsent, received>>
    BY DEF SendSingleFrame, SendFirstFrame
  <1>3. CASE SendSingleFrame(n)
    <2>1. /\ tx[n].status = "IDLE"
          /\ \E s \in Sendable, fs \in Seq(Frames) :
                 /\ TakeFromTxQueue(n, s)
                 /\ tx' = [tx EXCEPT ![n].sv = s]
                 /\ \A f \in ToSet(fs) : f = SingleFrame(n, s)
                 /\ \A g, h : ~Follows(fs, g, h)
                 /\ Sends(server[n], fs)
      BY <1>3, SentSingleFrame
    <2>2. PICK s \in Sendable, fs \in Seq(Frames) :
                 /\ TakeFromTxQueue(n, s)
                 /\ tx' = [tx EXCEPT ![n].sv = s]
                 /\ \A f \in ToSet(fs) : f = SingleFrame(n, s)
                 /\ \A g, h : ~Follows(fs, g, h)
                 /\ Sends(server[n], fs)
      BY <2>1
    <2>3. \A f \in ToSet(fs) : f.pci \in {"SF", "FF"} /\ f.src = n /\ f.sv = s
      BY <2>2 DEF SingleFrame
    <2>4. ~Active(n)' /\ \A k \in Nodes : k # n => tx'[k] = tx[k]
      BY <1>1, <2>1, <2>2 DEF Transmissions, Active
    <2> QED
      BY <1>1, <1>2, <2>2, <2>3, <2>4, StartOrder
  <1>4. CASE SendFirstFrame(n)
    <2>1. \E s \in Sendable, failed \in BOOLEAN, fs \in Seq(Frames) :
                 /\ TakeFromTxQueue(n, s)
                 /\ tx' = [tx EXCEPT ![n] = AwaitFlowControl(s, failed)]
                 /\ \A f \in ToSet(fs) : ~failed /\ f = FirstFrame(n, s)
                 /\ \A g, h : ~Follows(fs, g, h)
                 /\ Sends(server[n], fs)
      BY <1>4, SentFirstFrame
    <2>2. PICK s \in Sendable, failed \in BOOLEAN, fs \in Seq(Frames) :
                 /\ TakeFromTxQueue(n, s)
                 /\ tx' = [tx EXCEPT ![n] = AwaitFlowControl(s, failed)]
                 /\ \A f \in ToSet(fs) : ~failed /\ f = FirstFrame(n, s)
                 /\ \A g, h : ~Follows(fs, g, h)
                 /\ Sends(server[n], fs)
      BY <2>1
    <2>3. \A f \in ToSet(fs) : f.pci \in {"SF", "FF"} /\ f.src = n /\ f.sv = s
      BY <2>2 DEF FirstFrame
    <2>4. tx'[n].sv = s /\ \A k \in Nodes : k # n => tx'[k] = tx[k]
      BY <1>1, <2>2 DEF AwaitFlowControl
    <2> QED
      BY <1>1, <1>2, <2>2, <2>3, <2>4, StartOrder
  <1> QED
    BY <1>3, <1>4

\* Node n goes on with its transmission; frames of it go to node p.
LEMMA BurstOrder ==
    ASSUME Calm, IInv, MadeInv, WholeInv, OrderInv, NEW n \in Nodes, NEW p \in Nodes,
           Active(n), NEW t \in Transmissions, t.sv = tx[n].sv, t.index = tx[n].index,
           NEW fs, NEW end \in Nat, Burst(n, t, fs, end), Sends(p, fs), Peer(p) = n,
           \A f \in Under(p) : Part(p, f) => f.pci = "CF" /\ f.sv = t.sv,
           UNCHANGED <<txQueue, unsent, requested, received>>
    PROVE  OrderInv'
  <1> DEFINE s == t.sv
  <1>1. /\ TypeOK /\ s \in Sendable /\ Source[s] = n /\ s \notin Events /\ t.index \in Nat
        /\ t.index <= end
        /\ \A f \in ToSet(fs) : /\ f.pci = "CF" /\ f.src = n /\ f.sv = s
                                /\ f.at \in Nat /\ t.index <= f.at /\ f.at < end
        /\ tx'[n].sv = s /\ tx'[n].index = end
        /\ \A k \in Nodes : k # n => tx'[k] = tx[k]
    BY DEF IInv, MadeInv, FormInv, Active, Burst, Transmissions, TxPosition, TxAligned
  <1>2. s = tx[n].sv /\ Begun(n, s)
    BY DEF OrderInv, QueueInv
  <1> HIDE DEF s
  <1>3. \A k \in Nodes : Active(k)' => Active(k) /\ tx'[k].sv = tx[k].sv
    BY <1>1, <1>2 DEF Active
  <1>4. \A k \in Nodes : \A x, y : Earlier(k, x, y)' <=> Earlier(k, x, y)
    BY DEF Earlier
  <1>5. ASSUME NEW k \in Nodes, NEW x, Begun(k, x) PROVE Begun(k, x)'
    BY <1>3, <1>5 DEF Begun, Earlier
  <1>6. \A q \in Nodes : \A f \in Under(q)' :
             f \in Under(q) \/ (q = p /\ f \in ToSet(fs))
    BY DEF Sends
  <1>7. AcceptedInv'
    BY DEF OrderInv, AcceptedInv
  <1>8. QueueInv'
    <2> SUFFICES ASSUME NEW k \in Nodes, Active(k)'
                 PROVE  Begun(k, tx[k].sv)'
      BY DEF OrderInv, QueueInv, Earlier
    <2>1. PICK v : v = tx[k].sv
      OBVIOUS
    <2>2. Begun(k, v)' /\ v = tx'[k].sv
      BY <1>3, <1>5, <2>1 DEF OrderInv, QueueInv
    <2> QED
      BY <2>2 DEF Begun, Earlier
  <1>9. SentInv'
    BY <1>1, <1>2, <1>5, <1>6, FrameSource DEF OrderInv, SentInv
  <1>10. PartialInv'
    <2> SUFFICES ASSUME NEW q \in Nodes, NEW f \in Under(q)', f.pci = "CF", Active(f.src)',
                        f.sv = tx'[f.src].sv
                 PROVE  f.at < tx'[f.src].index
      BY DEF PartialInv
    <2>1. CASE f \in Under(q)
      <3>1. f.src \in Nodes /\ f.at \in Nat
        BY <1>1, <2>1, FrameSource, MaxServiceSizeFact DEF Frames, Offsets
      <3>2. Active(f.src) /\ f.at < tx[f.src].index
        BY <1>3, <2>1, <3>1 DEF OrderInv, PartialInv
      <3>3. CASE f.src = n
        BY <1>1, <3>1, <3>2, <3>3
      <3>4. CASE f.src # n
        BY <1>1, <3>1, <3>2, <3>4
      <3> QED
        BY <3>3, <3>4
    <2>2. CASE f \in ToSet(fs)
      BY <1>1, <2>2
    <2> QED
      BY <1>6, <2>1, <2>2
  <1>11. \A q \in Nodes : Given(q)' = Given(q)
    BY DEF Given
  <1>12. GivenInv'
    <2>1. \A q \in Nodes : \A r \in Given(q) : Source[r] \in Nodes
      BY ServiceAssumption DEF Given
    <2> QED
      BY <1>3, <1>5, <1>11, <2>1 DEF OrderInv, GivenInv
  <1>13. FrameOrderInv'
    <2> SUFFICES ASSUME NEW q \in Nodes, NEW f \in Under(q)', NEW g \in Under(q)',
                        Follows(Coming(q)', f, g), Payload(q, f), Payload(q, g),
                        SameKind(f.sv, g.sv)
                 PROVE  \/ f.sv = g.sv /\ f.pci = "CF" /\ g.pci = "CF"
                        \/ Earlier(Peer(q), f.sv, g.sv)
      BY DEF FrameOrderInv, Payload, Earlier
    <2>1. CASE Follows(Coming(q), f, g)
      BY <2>1, FollowsIsUnder DEF OrderInv, FrameOrderInv
    <2>2. CASE q = p /\ f \in Under(p) /\ g \in ToSet(fs)
      <3>1. f.sv \notin Events /\ f.pci # "FC" /\ f.src = Peer(p) /\ Made(f)
        BY <1>1, <2>2 DEF SameKind, Payload, MadeInv, FormInv
      <3>2. Part(p, f)
        BY <1>1, <2>2, <3>1, FrameSource DEF Calm, Made, Part, Frames, PciTypes
      <3> QED
        BY <1>1, <2>2, <3>2 DEF s
    <2>3. CASE f \in ToSet(fs) /\ g \in ToSet(fs)
      BY <1>1, <2>3
    <2> QED
      <3>1. Follows(fs, f, g) => f \in ToSet(fs)
        BY DEF Follows, ToSet
      <3> QED
        BY <2>1, <2>2, <2>3, <3>1 DEF Sends
  <1>14. GivenOrderInv'
    <2> SUFFICES ASSUME NEW q \in Nodes, NEW r \in Given(q), NEW f \in Under(q)',
                        Payload(q, f), SameKind(r, f.sv)
                 PROVE  Earlier(Peer(q), r, f.sv)
      BY <1>11 DEF GivenOrderInv, Payload, Earlier
    <2>1. CASE f \in Under(q)
      BY <2>1 DEF OrderInv, GivenOrderInv
    <2>2. CASE q = p /\ f \in ToSet(fs)
      <3>1. Source[r] = n /\ r \notin Events
        BY <1>1, <2>2, GivenSource DEF SameKind
      <3>2. Begun(n, r) /\ r # s
        BY <1>2, <3>1 DEF OrderInv, GivenInv
      <3> QED
        BY <1>1, <1>2, <2>2, <3>1, <3>2 DEF Begun
    <2> QED
      BY <1>6, <2>1, <2>2
  <1> QED
    BY <1>7, <1>8, <1>9, <1>10, <1>12, <1>13, <1>14 DEF OrderInv

LEMMA FlowControlOrder ==
    ASSUME Calm, IInv, FlowInv, OrderInv, NEW n \in Nodes, HandleIncomingFlowControl(n)
    PROVE  OrderInv'
  <1> DEFINE f0 == Head(canQueue[n])
             t == [tx[n] EXCEPT !.expired = FALSE]
             p == server[n]
  <1>1. /\ TypeOK /\ ReadFrame(n, f0, {"FC"}) /\ UNCHANGED received
        /\ UNCHANGED <<txQueue, unsent, requested>>
        /\ MadeInv /\ WholeInv /\ Ordinary /\ StaysApart
        /\ \/ SendNextConsecutiveFrames(n, t, FALSE)
           \/ UNCHANGED <<tx, wire>>
    BY CalmIsTimely DEF HandleIncomingFlowControl, IInv, ReadFrame, FlowInv
  <1>2. tx[n] \in Transmissions /\ TxAligned(tx[n]) /\ p \in Nodes
    BY DEF IInv, TypeOK, TxPosition
  <1>3. t \in Transmissions /\ t.sv = tx[n].sv /\ t.index = tx[n].index /\ t.seq = tx[n].seq
        /\ t.status = tx[n].status
    BY <1>2 DEF Transmissions
  <1> HIDE DEF f0, t, p
  <1>4. f0 \in Under(n) /\ f0 \in ToSet(canQueue[n]) /\ f0.pci = "FC"
    BY <1>1, ReadFirst
  <1>5. f0.src = p
    BY <1>1, <1>4, Heard DEF p, ReadFrame
  <1>6. AwaitedBy(n, f0)
    BY <1>4 DEF FlowInv, FcInv
  <1>7. CASE UNCHANGED <<tx, wire>>
    BY <1>1, <1>7, ReadFlow, TakesOnlyAway, KeptOrder
  <1>8. CASE SendNextConsecutiveFrames(n, t, FALSE)
    <2>1. Active(n) /\ t.status # "IDLE" /\ TxAligned(t)
      BY <1>2, <1>3, <1>6 DEF AwaitedBy, Waiting, TxAligned, Active
    <2>2. PICK fs \in Seq(Frames), end \in Nat : Burst(n, t, fs, end)
      BY <1>3, <1>8, <2>1, SentBurst
    <2>3. Sends(p, fs)
      BY <1>1, <1>2, <2>2, ReadSendFlow DEF Burst, p
    <2>4. Peer(p) = n /\ \A g \in Under(p) : ~Part(p, g)
      BY <1>5, <1>6 DEF AwaitedBy
    <2> QED
      BY <1>1, <1>2, <1>3, <2>1, <2>2, <2>3, <2>4, BurstOrder
  <1> QED
    BY <1>1, <1>7, <1>8

LEMMA MoreFramesOrder ==
    ASSUME Calm, IInv, FlowInv, OrderInv, NEW n \in Nodes, SendMoreConsecutiveFrames(n)
    PROVE  OrderInv'
  <1> DEFINE p == server[n]
             t == tx[n]
  <1>1. /\ TypeOK /\ UNCHANGED <<canQueue, txQueue, unsent, requested, received>>
        /\ MadeInv /\ WholeInv
        /\ t.status = "MORE_CONSECUTIVE_FRAMES_TO_SEND"
        /\ SendNextConsecutiveFrames(n, t, t.expired)
    BY DEF SendMoreConsecutiveFrames, IInv, FlowInv
  <1>2. t \in Transmissions /\ TxAligned(t) /\ p \in Nodes /\ t.expired \in BOOLEAN
    BY DEF IInv, TypeOK, TxPosition, Transmissions
  <1>3. GoesOn(n, p)
    BY <1>1 DEF FlowInv, MoreInv
  <1>4. t.status # "IDLE" /\ t = tx[n] /\ Active(n)
    BY <1>1 DEF Active
  <1>5. p = server[n]
    OBVIOUS
  <1> HIDE DEF p, t
  <1>6. PICK fs \in Seq(Frames), end \in Nat : Burst(n, t, fs, end)
    BY <1>1, <1>2, <1>4, SentBurst
  <1>7. Sends(p, fs)
    BY <1>1, <1>2, <1>5, <1>6, SendFlow DEF Burst
  <1>8. \A f \in Under(p) : Part(p, f) => f.pci = "CF" /\ f.sv = t.sv
    <2> SUFFICES ASSUME NEW f \in Under(p), Part(p, f) PROVE f.pci = "CF" /\ f.sv = t.sv
      OBVIOUS
    <2>1. f.pci = "CF" /\ rx[p].data[1] = <<t.sv, 0>>
      BY <1>3, <1>4 DEF GoesOn, Receiving
    <2>2. rx[p].data[1] = <<f.sv, 0>>
      BY <1>2, <2>1 DEF FlowInv, CfInv, Receiving
    <2> QED
      BY <2>1, <2>2
  <1>9. Peer(p) = n
    BY <1>3 DEF GoesOn
  <1> QED
    BY <1>1, <1>2, <1>4, <1>6, <1>7, <1>8, <1>9, BurstOrder

-----------------------------------------------------------------------------
(* The other steps.                                                         *)

\* A first frame is answered by nothing but a flow control.
LEMMA FirstFrameOrder ==
    ASSUME IInv, OrderInv, NEW n \in Nodes, HandleIncomingFirstFrame(n)
    PROVE  OrderInv'
  <1> DEFINE f0 == Head(canQueue[n])
             sent(failed) == IF failed THEN <<>> ELSE <<FlowControl(n)>>
  <1>1. PICK failed \in BOOLEAN : CanSend(n, sent(failed), failed)
    BY DEF HandleIncomingFirstFrame
  <1> DEFINE fs == sent(failed)
  <1>2. /\ TypeOK /\ ReadFrame(n, f0, {"FF"}) /\ tx' = tx /\ server[n] \in Nodes
        /\ UNCHANGED <<txQueue, unsent, requested, received>>
    BY DEF HandleIncomingFirstFrame, IInv, TypeOK, ReadFrame
  <1>3. wire' = [wire EXCEPT ![server[n]] = @ \o fs]
    BY <1>1 DEF CanSend
  <1>4. fs \in Seq(Frames) /\ \A f \in ToSet(fs) : f.pci = "FC"
    <2>1. FlowControl(n).pci = "FC" /\ FlowControl(n) \in Frames
      BY FlowControlType DEF FlowControl
    <2> QED
      BY <2>1, OneFrame, NoFrame
  <1> HIDE DEF f0, fs, sent
  <1>5. Sends(server[n], fs)
    BY <1>2, <1>3, <1>4, ReadSendFlow
  <1>6. TakesAway
    BY <1>2, <1>4, <1>5 DEF Sends, TakesAway, Active
  <1> QED
    BY <1>2, <1>6, KeptOrder

LEMMA TimeoutOrder ==
    ASSUME IInv, OrderInv, NEW n \in Nodes, CheckFlowControlTimeout(n) \/ Expire(n)
    PROVE  OrderInv'
  <1>1. /\ UNCHANGED <<wire, canQueue, txQueue, unsent, requested, received>>
        /\ tx \in [Nodes -> Transmissions] /\ TypeOK
    BY DEF CheckFlowControlTimeout, Expire, IInv, TypeOK
  <1>2. \A m \in Nodes : /\ tx'[m].sv = tx[m].sv /\ tx'[m].index = tx[m].index
                         /\ tx'[m].status # "IDLE" => tx[m].status # "IDLE"
    BY <1>1 DEF CheckFlowControlTimeout, Expire, GiveUp, Transmissions
  <1>3. TakesAway
    BY <1>1, <1>2 DEF TakesAway, Active, Under, Coming
  <1> QED
    BY <1>1, <1>3, KeptOrder

LEMMA TakeOrder ==
    ASSUME IInv, OrderInv, NEW n \in Nodes, DispatchFrame(n) \/ LoseFrame(n)
    PROVE  OrderInv'
  <1>1. /\ wire[n] # <<>> /\ wire' = [wire EXCEPT ![n] = Tail(@)]
        /\ UNCHANGED <<tx, txQueue, unsent, requested, received>> /\ TypeOK
        /\ \/ UNCHANGED canQueue
           \/ canQueue' = [canQueue EXCEPT ![n] = Append(@, Head(wire[n]))]
    BY DEF DispatchFrame, LoseFrame, IInv
  <1>2. SendsNothing
    BY <1>1, TakeFlow
  <1> QED
    BY <1>1, <1>2, TakesOnlyAway, KeptOrder

LEMMA ClearOrder ==
    ASSUME IInv, OrderInv, NEW n \in Nodes, ClearQueue(n)
    PROVE  OrderInv'
  <1>1. /\ UNCHANGED <<tx, wire, txQueue, unsent, requested, received>> /\ TypeOK
        /\ canQueue' = [canQueue EXCEPT ![n] = <<>>]
    BY DEF ClearQueue, IInv
  <1> QED
    BY <1>1, ClearFlow, TakesOnlyAway, KeptOrder

LEMMA UntouchedOrder ==
    ASSUME IInv, OrderInv,
           UNCHANGED <<tx, wire, canQueue, txQueue, unsent, requested, received>>
    PROVE  OrderInv'
  <1>1. SendsNothing /\ TypeOK
    BY DEF SendsNothing, Under, Coming, IInv
  <1> QED
    BY <1>1, TakesOnlyAway, KeptOrder

LEMMA NextOrder ==
    ASSUME Calm, IInv, FlowInv, OrderInv, [Next]_vars
    PROVE  OrderInv'
  <1>1. MadeInv /\ WholeInv /\ Ordinary
    BY CalmIsTimely DEF FlowInv, IInv
  <1>2. CASE UNCHANGED vars
    BY <1>2, UntouchedOrder DEF vars
  <1>3. CASE Next
    <2> PICK n \in Nodes :
            \/ \E s \in Services : SendRequest(n, s) \/ SendEvent(n, s)
            \/ ReadResponse(n)
            \/ \E m \in Nodes : SetNodeIdentifiers(n, m)
            \/ ClearQueue(n)
            \/ SetRxFilter(n)
            \/ Cycle(n)
            \/ LoseFrame(n)
            \/ Expire(n)
      BY <1>3 DEF Next
    <2>1. ASSUME NEW s \in Services, SendRequest(n, s) PROVE OrderInv'
      BY <2>1, RequestOrder
    <2>2. ASSUME NEW s \in Services, SendEvent(n, s) PROVE OrderInv'
      BY <1>1, <2>2, EventOrder
    <2>3. CASE ReadResponse(n)
      BY <2>3, UntouchedOrder DEF ReadResponse
    <2>4. ASSUME NEW m \in Nodes, SetNodeIdentifiers(n, m) PROVE OrderInv'
      BY <2>4, UntouchedOrder DEF SetNodeIdentifiers
    <2>5. CASE CycleStart(n) \/ NothingToSend(n) \/ DispatchDone(n) \/ CycleEnd(n)
      BY <2>5, UntouchedOrder DEF CycleStart, NothingToSend, DispatchDone, CycleEnd
    <2>6. CASE SendSingleFrame(n) \/ SendFirstFrame(n)
      BY <1>1, <2>6, StartFrameOrder
    <2>7. CASE SendWithoutFlowControl(n) \/ HandleIncomingOsySpecificMultiFrame(n)
      BY <1>1, <2>7, NoMultiFrames
    <2>8. CASE CheckFlowControlTimeout(n) \/ Expire(n)
      BY <2>8, TimeoutOrder
    <2>9. CASE SendMoreConsecutiveFrames(n)
      BY <2>9, MoreFramesOrder
    <2>10. CASE DispatchFrame(n) \/ LoseFrame(n)
      BY <2>10, TakeOrder
    <2>11. CASE HandleIncomingSingleFrame(n) \/ HandleIncomingConsecutiveFrame(n)
      BY <2>11, ReceiveOrder
    <2>12. CASE HandleIncomingFirstFrame(n)
      BY <2>12, FirstFrameOrder
    <2>13. CASE HandleIncomingFlowControl(n)
      BY <2>13, FlowControlOrder
    <2>14. CASE ClearQueue(n)
      BY <2>14, ClearOrder
    <2>15. CASE SetRxFilter(n)
      BY <2>15, UntouchedOrder DEF SetRxFilter
    <2> QED
      BY <2>1, <2>2, <2>3, <2>4, <2>5, <2>6, <2>7, <2>8, <2>9, <2>10, <2>11, <2>12, <2>13,
         <2>14, <2>15
         DEF Cycle
  <1> QED
    BY <1>2, <1>3

LEMMA InitOrder == Init => OrderInv
  <1> SUFFICES ASSUME Init PROVE OrderInv
    OBVIOUS
  <1>1. \A q \in Nodes : \A f : f \notin Under(q)
    BY NothingUnder DEF Init
  <1>2. \A q \in Nodes : /\ txQueue[q] = <<>> /\ requested[q] = <<>> /\ received[q] = <<>>
                         /\ ~Active(q)
    BY DEF Init, Active
  <1>3. \A q \in Nodes : Given(q) = {}
    BY <1>2 DEF Given
  <1>4. AcceptedInv
    BY <1>2 DEF AcceptedInv
  <1>5. QueueInv
    BY <1>2 DEF QueueInv, ToSet, Follows
  <1> QED
    BY <1>1, <1>3, <1>4, <1>5
       DEF OrderInv, SentInv, PartialInv, GivenInv, FrameOrderInv, GivenOrderInv

\* Services keep their order: in the queue, in the frames under way, and with the
\* application that is given them.
THEOREM OrderInvariant ==
    ASSUME Calm
    PROVE  Spec => []OrderInv
  <1>1. IInv /\ FlowInv /\ OrderInv /\ [Next]_vars => OrderInv'
    BY NextOrder
  <1> QED
    BY <1>1, InitOrder, InductiveInvariant, CalmFlow, PTL DEF Spec

-----------------------------------------------------------------------------
(* The driver implements the channel.                                       *)

\* What the applications have been given, as the channel sees it.
GotOf(q) == [i \in DOMAIN q |-> ServiceOf(q[i])]
Got == [n \in Nodes |-> GotOf(received[n])]

LEMMA ServiceOfWhole ==
    /\ \A m : ServiceOf(m) \in Services \cup {NoService}
    /\ \A m : ServiceOf(m) \in Services => m = Whole(ServiceOf(m))
    /\ \A s \in Services : ServiceOf(Whole(s)) = s
  <1>1. \A m : \/ ServiceOf(m) \in Services /\ m = Whole(ServiceOf(m))
               \/ ServiceOf(m) = NoService /\ \A s \in Services : m # Whole(s)
    BY DEF ServiceOf
  <1>2. ASSUME NEW s \in Services PROVE ServiceOf(Whole(s)) = s
    <2>1. PICK m : m = Whole(s)
      OBVIOUS
    <2>2. ServiceOf(m) \in Services /\ m = Whole(ServiceOf(m))
      BY <1>1, <2>1
    <2> QED
      BY <2>1, <2>2, WholeIsOne
  <1> QED
    BY <1>1, <1>2, ServiceAssumption

LEMMA GotAppend ==
    ASSUME NEW q \in Seq(Messages), NEW m \in Messages
    PROVE  /\ GotOf(q) \in Seq(Services \cup {NoService})
           /\ GotOf(Append(q, m)) = Append(GotOf(q), ServiceOf(m))
  <1> DEFINE T == Services \cup {NoService}
             a == GotOf(Append(q, m))
             b == Append(GotOf(q), ServiceOf(m))
  <1>1. ASSUME NEW r \in Seq(Messages)
        PROVE  /\ GotOf(r) \in Seq(T) /\ Len(GotOf(r)) = Len(r)
               /\ \A i \in 1 .. Len(r) : GotOf(r)[i] = ServiceOf(r[i])
    <2>1. GotOf(r) = [i \in 1 .. Len(r) |-> ServiceOf(r[i])] /\ Len(r) \in Nat
      BY DEF GotOf
    <2> QED
      BY <2>1, ServiceOfWhole
  <1>2. /\ Append(q, m) \in Seq(Messages) /\ Len(Append(q, m)) = Len(q) + 1 /\ Len(q) \in Nat
        /\ \A i \in 1 .. Len(q) : Append(q, m)[i] = q[i]
        /\ Append(q, m)[Len(q) + 1] = m
    OBVIOUS
  <1>3. /\ a \in Seq(T) /\ Len(a) = Len(q) + 1
        /\ \A i \in 1 .. Len(q) : a[i] = ServiceOf(q[i])
        /\ a[Len(q) + 1] = ServiceOf(m)
    <2>1. PICK r \in Seq(Messages) : r = Append(q, m)
      BY <1>2
    <2>2. /\ Len(r) = Len(q) + 1 /\ r[Len(q) + 1] = m
          /\ \A i \in 1 .. Len(q) : r[i] = q[i]
      BY <1>2, <2>1
    <2>3. a = GotOf(r)
      BY <2>1
    <2> HIDE DEF a, T
    <2>4. /\ a \in Seq(T) /\ Len(a) = Len(r)
          /\ \A i \in 1 .. Len(r) : a[i] = ServiceOf(r[i])
      BY <1>1, <2>3
    <2> QED
      BY <1>2, <2>2, <2>4
  <1>4. /\ b \in Seq(T) /\ Len(b) = Len(q) + 1
        /\ \A i \in 1 .. Len(q) : b[i] = ServiceOf(q[i])
        /\ b[Len(q) + 1] = ServiceOf(m)
    <2>1. ASSUME NEW c \in Seq(T), NEW x \in T
          PROVE  /\ Append(c, x) \in Seq(T) /\ Len(Append(c, x)) = Len(c) + 1
                 /\ \A i \in 1 .. Len(c) : Append(c, x)[i] = c[i]
                 /\ Append(c, x)[Len(c) + 1] = x
      OBVIOUS
    <2> QED
      BY <1>1, <2>1, ServiceOfWhole
  <1> HIDE DEF a, b, T
  <1>5. a = b
    <2>1. \A i \in 1 .. Len(a) : a[i] = b[i]
      BY <1>2, <1>3, <1>4
    <2> QED
      BY <1>3, <1>4, <2>1, SeqEqual
  <1> QED
    BY <1>1, <1>5 DEF a, b, T

LEMMA GotGiven ==
    ASSUME NEW p \in Nodes, NEW s \in Services, s \in Channel!Elements(Got[p])
    PROVE  s \in Given(p)
  <1>1. PICK i \in DOMAIN received[p] : s = ServiceOf(received[p][i])
    BY DEF Channel!Elements, Got, GotOf
  <1> QED
    BY <1>1, ServiceOfWhole DEF Given

\* A service that is accepted is handed to the channel.
LEMMA HandStep ==
    ASSUME IInv, OrderInv, NEW n \in Nodes, NEW s, Accepts(n, s), UNCHANGED received
    PROVE  Channel!Next
  <1>1. /\ requested[n] \in Seq(Sendable) /\ s \in Sendable /\ s \in Services
        /\ requested' = [requested EXCEPT ![n] = Append(@, s)]
        /\ requested'[n] = Append(requested[n], s)
    BY DEF IInv, TypeOK, Accepts, Sendable
  <1>2. requested'[n] # requested[n]
    BY <1>1, AppendedIsLonger
  <1>3. \A m \in Nodes : s \notin Channel!Elements(requested[m])
    BY DEF OrderInv, AcceptedInv, Accepts, Channel!Elements
  <1>4. Channel!Hand(n, s)
    BY <1>1, <1>3 DEF Channel!Hand
  <1> QED
    BY <1>1, <1>2, <1>4 DEF Channel!Next

\* A service that is delivered is given by the channel.
LEMMA GiveStep ==
    ASSUME IInv, OrderInv, NEW p \in Nodes, NEW f0 \in Under(p), Payload(p, f0), Gives(p, f0),
           received' # received, UNCHANGED requested
    PROVE  Channel!Next
  <1> DEFINE s == f0.sv
             n == Peer(p)
             m == Whole(s)
  <1>1. /\ n \in Nodes /\ s \in Sendable /\ s \in Services /\ m \in Messages
        /\ received[p] \in Seq(Messages)
        /\ received' = [received EXCEPT ![p] = Append(@, m)]
        /\ requested[n] \in Seq(Sendable)
    BY FrameSource DEF IInv, TypeOK, Payload, Gives, AddToRxQueue, Sendable
  <1>2. Begun(n, s)
    BY DEF OrderInv, SentInv, Payload
  <1>3. PICK i \in DOMAIN requested[n] : requested[n][i] = s
    BY <1>2 DEF Begun, ToSet
  <1> HIDE DEF s, n, m
  <1>4. ASSUME NEW j \in i .. Len(requested[n]), SameKind(requested[n][j], s)
        PROVE  requested[n][j] \notin Channel!Elements(Got[p])
    <2> SUFFICES ASSUME requested[n][j] \in Channel!Elements(Got[p]) PROVE FALSE
      OBVIOUS
    <2>1. j \in DOMAIN requested[n] /\ requested[n][j] \in Services
      BY <1>1, <1>3, <1>4 DEF Sendable
    <2>2. requested[n][j] \in Given(p)
      BY <2>1, GotGiven
    <2>3. Earlier(n, requested[n][j], s)
      BY <1>4, <2>2 DEF OrderInv, GivenOrderInv, s, n
    <2>4. PICK a \in DOMAIN requested[n], b \in DOMAIN requested[n] :
              a < b /\ requested[n][a] = requested[n][j] /\ requested[n][b] = s
      BY <2>3 DEF Earlier, Follows
    <2>5. a = j /\ b = i
      BY <1>1, <1>3, <2>1, <2>4 DEF OrderInv, AcceptedInv
    <2> QED
      BY <1>1, <1>3, <1>4, <2>4, <2>5
  <1>5. /\ Got' = [Got EXCEPT ![p] = Append(@, requested[n][i])]
        /\ Got' # Got
    <2>1. /\ Got[p] \in Seq(Services \cup {NoService})
          /\ GotOf(Append(received[p], m)) = Append(Got[p], s)
      <3>1. ServiceOf(m) = s
        BY <1>1, ServiceOfWhole DEF m
      <3> QED
        BY <1>1, <3>1, GotAppend DEF Got
    <2>2. \A k \in Nodes : received'[k] = IF k = p THEN Append(received[p], m) ELSE received[k]
      BY <1>1 DEF IInv, TypeOK
    <2>3. \A k \in Nodes : Got'[k] = IF k = p THEN Append(Got[p], s) ELSE Got[k]
      BY <2>1, <2>2 DEF Got
    <2>4. Got' = [Got EXCEPT ![p] = Append(@, s)]
      BY <2>3 DEF Got
    <2>5. Append(Got[p], s) # Got[p]
      BY <1>1, <2>1, AppendedIsLonger
    <2> QED
      BY <1>3, <2>3, <2>4, <2>5
  <1>6. Channel!Give(n, p, i)
    <2> DEFINE kind == [x \in Services |-> x \in Events]
    <2>1. \A j \in i .. Len(requested[n]) :
              kind[requested[n][j]] = kind[requested[n][i]] =>
                  requested[n][j] \notin Channel!Elements(Got[p])
      <3>1. \A j \in i .. Len(requested[n]) : requested[n][j] \in Services
        BY <1>1, <1>3 DEF Sendable
      <3>2. \A x, y \in Services : kind[x] = kind[y] => SameKind(x, y)
        BY DEF SameKind
      <3> HIDE DEF kind
      <3> QED
        BY <1>1, <1>3, <1>4, <3>1, <3>2
    <2> QED
      BY <1>5, <2>1 DEF Channel!Give, Got, GotOf
  <1> QED
    BY <1>1, <1>3, <1>5, <1>6 DEF Channel!Next, Got, GotOf

\* Nothing but a request or an event is accepted.
LEMMA OnlyAccepted ==
    ASSUME Ordinary, IInv, MadeInv, [Next]_vars, requested' # requested
    PROVE  \E n \in Nodes, s \in Services : Accepts(n, s) /\ UNCHANGED received
  <1>1. Next
    BY DEF vars
  <1>2. PICK n \in Nodes :
            \/ \E s \in Services : SendRequest(n, s) \/ SendEvent(n, s)
            \/ ReadResponse(n)
            \/ \E m \in Nodes : SetNodeIdentifiers(n, m)
            \/ ClearQueue(n)
            \/ SetRxFilter(n)
            \/ Cycle(n)
            \/ LoseFrame(n)
            \/ Expire(n)
    BY <1>1 DEF Next
  <1>3. /\ ~ReadResponse(n) /\ ~LoseFrame(n) /\ ~Expire(n)
        /\ ~ClearQueue(n) /\ ~SetRxFilter(n)
        /\ \A m \in Nodes : ~SetNodeIdentifiers(n, m)
    BY DEF ReadResponse, SetNodeIdentifiers, ClearQueue, SetRxFilter, LoseFrame, Expire
  <1>4. /\ ~CycleStart(n) /\ ~NothingToSend(n) /\ ~SendSingleFrame(n)
        /\ ~SendFirstFrame(n) /\ ~CheckFlowControlTimeout(n) /\ ~SendMoreConsecutiveFrames(n)
    BY DEF CycleStart, NothingToSend, SendSingleFrame, SendFirstFrame,
       CheckFlowControlTimeout, SendMoreConsecutiveFrames
  <1>5. /\ ~DispatchFrame(n) /\ ~DispatchDone(n) /\ ~CycleEnd(n)
        /\ ~HandleIncomingFirstFrame(n) /\ ~HandleIncomingFlowControl(n)
        /\ ~HandleIncomingSingleFrame(n) /\ ~HandleIncomingConsecutiveFrame(n)
    BY DEF DispatchFrame, DispatchDone, CycleEnd, HandleIncomingFirstFrame, ReadFrame,
       HandleIncomingFlowControl, HandleIncomingSingleFrame, HandleIncomingConsecutiveFrame
  <1>6. PICK s \in Services : SendRequest(n, s) \/ SendEvent(n, s)
    BY <1>2, <1>3, <1>4, <1>5, NoMultiFrames DEF Cycle
  <1>7. CASE SendRequest(n, s)
    BY <1>7 DEF SendRequest, Accepts, Sendable
  <1>8. CASE SendEvent(n, s)
    BY <1>8, SentEvent DEF SendEvent, Accepts
  <1> QED
    BY <1>6, <1>7, <1>8

LEMMA InitChannel ==
    ASSUME Init
    PROVE  Channel!Init
  <1>1. requested = [n \in Nodes |-> <<>>] /\ \A n \in Nodes : received[n] = <<>>
    BY DEF Init
  <1>2. GotOf(<<>>) = <<>>
    BY DEF GotOf
  <1>3. Got = [n \in Nodes |-> <<>>]
    BY <1>1, <1>2 DEF Got
  <1> QED
    BY <1>1, <1>3 DEF Channel!Init, Got, GotOf

LEMMA NextChannel ==
    ASSUME Calm, IInv, FlowInv, OrderInv, [Next]_vars
    PROVE  [Channel!Next]_<<requested, Got>>
  <1>1. MadeInv /\ RxInv /\ CfInv /\ TypeOK /\ Ordinary /\ StaysApart
    BY CalmIsTimely DEF FlowInv, IInv
  <1>2. CASE requested' # requested
    <2>1. PICK n \in Nodes, s \in Services : Accepts(n, s) /\ UNCHANGED received
      BY <1>1, <1>2, OnlyAccepted
    <2> QED
      BY <2>1, HandStep
  <1>3. CASE received' # received /\ UNCHANGED requested
    <2>1. PICK n \in Nodes : HandleIncomingSingleFrame(n) \/ HandleIncomingConsecutiveFrame(n)
      BY <1>1, <1>3, OnlyReceived
    <2> DEFINE f0 == Head(canQueue[n])
    <2>2. Gives(n, f0) /\ \E pcis \in SUBSET {"SF", "OSF", "CF"} : ReadFrame(n, f0, pcis)
      BY <1>1, <1>3, <2>1, SingleGives, TransferGives, HeadReceived
         DEF HandleIncomingSingleFrame, HandleIncomingConsecutiveFrame
    <2> HIDE DEF f0
    <2>3. f0 \in Under(n) /\ f0 \in ToSet(canQueue[n]) /\ f0.pci \in {"SF", "OSF", "CF"}
      BY <1>1, <2>2, ReadFirst
    <2>4. Payload(n, f0)
      BY <1>1, <2>2, <2>3, Heard DEF Payload, ReadFrame
    <2> QED
      BY <1>3, <2>2, <2>3, <2>4, GiveStep
  <1>4. CASE UNCHANGED <<requested, received>>
    BY <1>4 DEF Got
  <1> QED
    BY <1>2, <1>3, <1>4

\* The driver implements the channel: every service the application of a node reads is
\* one the other side was asked to send, not read before, and not overtaken by a later
\* one of its kind.
THEOREM ChannelImplemented ==
    ASSUME Calm
    PROVE  Spec => ImplementsChannel
  <1>1. Init => Channel!Init
    BY InitChannel
  <1>2. IInv /\ FlowInv /\ OrderInv /\ [Next]_vars => [Channel!Next]_<<requested, Got>>
    BY NextChannel
  <1>3. Spec => [][Channel!Next]_<<requested, Got>>
    BY <1>2, InductiveInvariant, CalmFlow, OrderInvariant, PTL DEF Spec
  <1> QED
    BY <1>1, <1>3, PTL DEF Spec, ImplementsChannel, Channel!Spec, Got, GotOf

-----------------------------------------------------------------------------
(* What the two expected violations of the runs need.                       *)

\* The multi frames of services of up to 111 bytes are numbered as the class states it;
\* a longer one has more than 16 frames.
THEOREM ShortMultiFramesNumbered ==
    ASSUME \A s \in Omf : Size[s] <= 111
    PROVE  Spec => []OmfNumbering
  <1>1. IInv /\ MadeInv => OmfNumbering
    <2> SUFFICES ASSUME IInv, MadeInv, NEW n \in Nodes, NEW i \in DOMAIN wire[n],
                        NEW f, f = wire[n][i], f.pci = "OMF"
                 PROVE  f.sn = IF f.at = 0 THEN 0 ELSE 1 + (((f.at - 6) \div 7) % 15)
      BY DEF OmfNumbering
    <2>1. f \in Under(n)
      <3>1. canQueue[n] \in Seq(Frames) /\ wire[n] \in Seq(Frames)
        BY DEF IInv, TypeOK
      <3>2. f \in ToSet(wire[n])
        BY DEF ToSet
      <3> QED
        BY <3>1, <3>2, ToSetConcat DEF Under, Coming
    <2>2. f.sv \in Omf /\ Counted(f) /\ f.at \in Nat
      BY <2>1, FrameSource, MaxServiceSizeFact DEF MadeInv, FormInv, Made, IInv, Frames, Offsets
    <2>3. Size[f.sv] \in Nat /\ Size[f.sv] <= 111
      BY <2>2, ServiceAssumption
    <2>4. CASE f.at = 0 /\ f.sn = 0
      BY <2>4
    <2>5. CASE /\ f.at % 7 = 6 /\ f.at < Size[f.sv]
               /\ f.sn = (1 + (f.at - 6) \div 7) % 16
      <3>1. PICK a \in Nat : a = f.at
        BY <2>2
      <3>2. a % 7 = 6 /\ a < 111
        BY <2>3, <2>5, <3>1
      <3>3. a = 6 + 7 * (a \div 7) /\ a \div 7 \in Nat
        BY <3>2, AlignedSteps
      <3>4. PICK q \in Nat : q = a \div 7
        BY <3>3
      <3>5. a = 6 + 7 * q /\ q \in 0 .. 14 /\ (a - 6) \div 7 = q
        BY <3>2, <3>3, <3>4
      <3>6. q % 15 = q /\ (1 + q) % 16 = 1 + q
        BY <3>5
      <3> QED
        BY <2>5, <3>1, <3>5, <3>6
    <2> QED
      BY <2>2, <2>4, <2>5 DEF Counted
  <1> QED
    BY <1>1, InductiveInvariant, MadeInvariant, PTL

\* All bytes were sent by the server that node p talks to.
OfPartner(p, data) == \A k \in DOMAIN data : Source[data[k][1]] = Partner[p]

BuffersInv ==
    \A p \in Nodes :
        /\ OfPartner(p, rx[p].data)
        /\ \A i \in DOMAIN received[p] : OfPartner(p, received[p][i].data)

LEMMA PieceOfPartner ==
    ASSUME NEW p \in Nodes, NEW sv, NEW at, Source[sv] = Partner[p]
    PROVE  OfPartner(p, << <<sv, at>> >>)
  <1>1. \A k \in DOMAIN << <<sv, at>> >> : << <<sv, at>> >>[k] = <<sv, at>>
    OBVIOUS
  <1> QED
    BY <1>1 DEF OfPartner

LEMMA OnePiece ==
    ASSUME NEW p \in Nodes, NEW data \in Seq(Pieces), OfPartner(p, data),
           NEW x \in Pieces, Source[x[1]] = Partner[p]
    PROVE  OfPartner(p, Append(data, x))
  <1>1. \A k \in DOMAIN Append(data, x) :
            \/ k \in DOMAIN data /\ Append(data, x)[k] = data[k]
            \/ Append(data, x)[k] = x
    OBVIOUS
  <1> QED
    BY <1>1 DEF OfPartner

LEMMA AddOfPartner ==
    ASSUME TypeOK, BuffersInv, NEW n \in Nodes, NEW m \in Messages, OfPartner(n, m.data),
           AddToRxQueue(n, m)
    PROVE  \A p \in Nodes : \A i \in DOMAIN received'[p] : OfPartner(p, received'[p][i].data)
  <1> SUFFICES ASSUME NEW p \in Nodes, NEW i \in DOMAIN received'[p]
               PROVE  OfPartner(p, received'[p][i].data)
    OBVIOUS
  <1>1. CASE received' = received
    BY <1>1 DEF BuffersInv
  <1>2. CASE received' = [received EXCEPT ![n] = Append(@, m)]
    <2>1. received[n] \in Seq(Messages)
      BY DEF TypeOK
    <2>2. received'[p] = IF p = n THEN Append(received[n], m) ELSE received[p]
      BY <1>2 DEF TypeOK
    <2>3. CASE p # n
      BY <2>2, <2>3 DEF BuffersInv
    <2>4. CASE p = n
      <3>1. \/ i \in DOMAIN received[n] /\ received'[p][i] = received[n][i]
            \/ received'[p][i] = m
        BY <2>1, <2>2, <2>4
      <3> QED
        BY <2>4, <3>1 DEF BuffersInv
    <2> QED
      BY <2>3, <2>4
  <1> QED
    BY <1>1, <1>2 DEF AddToRxQueue

\* A frame that node n reads, unless it is a flow control, has bytes of its server.
LEMMA ReadOfPartner ==
    ASSUME MaxSwitch = 0, IInv, MadeInv, NEW n \in Nodes, NEW f0, NEW pcis,
           ReadFrame(n, f0, pcis), "FC" \notin pcis
    PROVE  f0 \in Frames /\ <<f0.sv, f0.at>> \in Pieces /\ Source[f0.sv] = Partner[n]
  <1>1. f0 \in Frames /\ f0 \in Under(n) /\ f0 \in ToSet(canQueue[n]) /\ f0.pci # "FC"
    BY ReadFirst DEF IInv
  <1>2. Made(f0)
    BY <1>1 DEF MadeInv, FormInv
  <1>3. faults.switch = 0
    BY DEF IInv, TypeOK, Faults
  <1>4. server = Partner /\ f0.src = server[n]
    BY <1>1, <1>3 DEF MadeInv, FilterInv, Switching
  <1>5. f0.src = Partner[n] /\ f0.src = Source[f0.sv]
    BY <1>1, <1>2, <1>4 DEF Made
  <1> QED
    BY <1>1, <1>5, FramePiece

LEMMA ContinueOfPartner ==
    ASSUME IInv, BuffersInv, NEW n \in Nodes, NEW f \in Frames, <<f.sv, f.at>> \in Pieces,
           Source[f.sv] = Partner[n], NEW status \in RxStatus, NEW next \in 0 .. 1, NEW done, NEW bad,
           ContinueTransfer(n, f, status, next, done, bad)
    PROVE  BuffersInv'
  <1> DEFINE r == rx[n]
             more == Append(r.data, <<f.sv, f.at>>)
  <1>1. /\ TypeOK /\ r \in Receptions /\ rx \in [Nodes -> Receptions]
        /\ r.data \in Seq(Pieces) /\ r.size \in Offsets /\ OfPartner(n, r.data)
    BY DEF IInv, TypeOK, Receptions, BuffersInv
  <1>2. more \in Seq(Pieces) /\ OfPartner(n, more)
    <2>1. PICK x : x = <<f.sv, f.at>>
      OBVIOUS
    <2>2. x \in Pieces /\ Source[x[1]] = Partner[n]
      BY <2>1
    <2>3. PICK data \in Seq(Pieces) : data = r.data
      BY <1>1
    <2>4. OfPartner(n, data)
      BY <1>1, <2>3
    <2>5. Append(data, x) \in Seq(Pieces)
      BY <2>2, <2>3
    <2>6. OfPartner(n, Append(data, x))
      BY <2>2, <2>4, OnePiece
    <2> QED
      BY <2>1, <2>3, <2>5, <2>6
  <1>3. /\ \A p \in Nodes : p # n => rx'[p] = rx[p]
        /\ rx'[n].data = r.data \/ rx'[n].data = more
    BY <1>1 DEF ContinueTransfer, Receptions
  <1>4. \/ UNCHANGED received
        \/ \E m \in Messages : m.data = more /\ AddToRxQueue(n, m)
    <2>1. [size |-> r.size, data |-> more] \in Messages
      BY <1>1, <1>2 DEF Messages
    <2>2. \/ UNCHANGED received
          \/ AddToRxQueue(n, [size |-> r.size, data |-> more])
      BY DEF ContinueTransfer
    <2> QED
      BY <2>1, <2>2
  <1> HIDE DEF r, more
  <1>5. \A p \in Nodes : \A i \in DOMAIN received'[p] : OfPartner(p, received'[p][i].data)
    BY <1>1, <1>2, <1>4, AddOfPartner DEF BuffersInv
  <1> QED
    BY <1>1, <1>2, <1>3, <1>5 DEF BuffersInv

\* The actions that change a reception or give a service.
LEMMA OnlyReceptions ==
    ASSUME [Next]_vars, ~UNCHANGED <<rx, received>>
    PROVE  \E n \in Nodes :
               \/ HandleIncomingSingleFrame(n)
               \/ HandleIncomingFirstFrame(n)
               \/ HandleIncomingConsecutiveFrame(n)
               \/ HandleIncomingOsySpecificMultiFrame(n)
  <1>1. Next
    BY DEF vars
  <1>2. PICK n \in Nodes :
            \/ \E s \in Services : SendRequest(n, s) \/ SendEvent(n, s)
            \/ ReadResponse(n)
            \/ \E m \in Nodes : SetNodeIdentifiers(n, m)
            \/ ClearQueue(n)
            \/ SetRxFilter(n)
            \/ Cycle(n)
            \/ LoseFrame(n)
            \/ Expire(n)
    BY <1>1 DEF Next
  <1>3. Cycle(n)
    BY <1>2 DEF SendRequest, SendEvent, ReadResponse, SetNodeIdentifiers, ClearQueue,
       SetRxFilter, LoseFrame, Expire
  <1>4. /\ ~CycleStart(n) /\ ~NothingToSend(n) /\ ~DispatchFrame(n) /\ ~DispatchDone(n)
        /\ ~CycleEnd(n) /\ ~CheckFlowControlTimeout(n)
    BY DEF CycleStart, NothingToSend, DispatchFrame, DispatchDone, CycleEnd,
           CheckFlowControlTimeout
  <1>5. ~SendSingleFrame(n) /\ ~SendFirstFrame(n)
    BY DEF SendSingleFrame, SendFirstFrame
  <1>6. ~SendWithoutFlowControl(n) /\ ~SendMoreConsecutiveFrames(n)
    BY DEF SendWithoutFlowControl, SendMoreConsecutiveFrames
  <1>7. ~HandleIncomingFlowControl(n)
    BY DEF HandleIncomingFlowControl
  <1> QED
    BY <1>3, <1>4, <1>5, <1>6, <1>7 DEF Cycle

LEMMA InitBuffers == Init => BuffersInv
  <1> SUFFICES ASSUME Init PROVE BuffersInv
    OBVIOUS
  <1>1. \A p \in Nodes : rx[p].data = <<>> /\ received[p] = <<>>
    BY DEF Init
  <1> QED
    BY <1>1 DEF BuffersInv, OfPartner

LEMMA SingleFrameBuffers ==
    ASSUME MaxSwitch = 0, IInv, MadeInv, BuffersInv, NEW n \in Nodes,
           HandleIncomingSingleFrame(n)
    PROVE  BuffersInv'
  <1> DEFINE f == Head(canQueue[n])
             m == [size |-> f.size, data |-> << <<f.sv, f.at>> >>]
  <1>1. ReadFrame(n, f, {"SF", "OSF"}) /\ AddToRxQueue(n, m) /\ UNCHANGED rx
    BY DEF HandleIncomingSingleFrame
  <1> HIDE DEF f
  <1>2. f \in Frames /\ <<f.sv, f.at>> \in Pieces /\ Source[f.sv] = Partner[n] /\ f.pci # "FC"
    BY <1>1, ReadOfPartner, ReadFirst DEF IInv
  <1>3. f.size \in Offsets /\ m.data = << <<f.sv, f.at>> >>
    BY <1>2 DEF Frames
  <1>4. OfPartner(n, m.data)
    BY <1>2, <1>3, PieceOfPartner
  <1>5. m \in Messages
    BY <1>2, <1>3, FramePiece DEF Messages
  <1> HIDE DEF m
  <1>6. \A p \in Nodes : \A i \in DOMAIN received'[p] : OfPartner(p, received'[p][i].data)
    BY <1>1, <1>4, <1>5, AddOfPartner DEF IInv
  <1> QED
    BY <1>1, <1>6 DEF BuffersInv

\* Only the reception of node n changes, and begins anew with frame f or keeps its data.
LEMMA StartBuffers ==
    ASSUME IInv, BuffersInv, NEW n \in Nodes, NEW f \in Frames, <<f.sv, f.at>> \in Pieces,
           Source[f.sv] = Partner[n], NEW r,
           r.data = rx[n].data \/ r.data = << <<f.sv, f.at>> >>,
           rx' = [rx EXCEPT ![n] = r], UNCHANGED received
    PROVE  BuffersInv'
  <1>1. rx'[n] = r /\ \A p \in Nodes : p # n => rx'[p] = rx[p]
    BY DEF IInv, TypeOK
  <1>2. OfPartner(n, r.data)
    BY PieceOfPartner DEF BuffersInv
  <1>3. \A p \in Nodes : OfPartner(p, rx'[p].data)
    BY <1>1, <1>2 DEF BuffersInv
  <1> QED
    BY <1>3 DEF BuffersInv

LEMMA FirstFrameBuffers ==
    ASSUME MaxSwitch = 0, IInv, MadeInv, BuffersInv, NEW n \in Nodes,
           HandleIncomingFirstFrame(n)
    PROVE  BuffersInv'
  <1> DEFINE f == Head(canQueue[n])
  <1>1. PICK status \in RxStatus :
            /\ ReadFrame(n, f, {"FF"})
            /\ rx' = [rx EXCEPT ![n] = StartReception(rx[n], f, status)]
            /\ UNCHANGED received
    BY DEF HandleIncomingFirstFrame, RxStatus
  <1> HIDE DEF f
  <1>2. f \in Frames /\ <<f.sv, f.at>> \in Pieces /\ Source[f.sv] = Partner[n]
    BY <1>1, ReadOfPartner
  <1>3. StartReception(rx[n], f, status).data = << <<f.sv, f.at>> >>
    BY DEF StartReception
  <1> QED
    BY <1>1, <1>2, <1>3, StartBuffers

LEMMA ConsecutiveFrameBuffers ==
    ASSUME MaxSwitch = 0, IInv, MadeInv, BuffersInv, NEW n \in Nodes,
           HandleIncomingConsecutiveFrame(n)
    PROVE  BuffersInv'
  <1> DEFINE f == Head(canQueue[n])
  <1>1. /\ ReadFrame(n, f, {"CF"})
        /\ \/ ContinueTransfer(n, f, rx[n].status, 0, rx[n].seq, rx[n].seq)
           \/ UNCHANGED <<rx, received>>
    BY DEF HandleIncomingConsecutiveFrame
  <1> HIDE DEF f
  <1>2. f \in Frames /\ <<f.sv, f.at>> \in Pieces /\ Source[f.sv] = Partner[n]
    BY <1>1, ReadOfPartner
  <1>3. rx[n].status \in RxStatus
    BY DEF IInv, TypeOK, Receptions
  <1>4. CASE UNCHANGED <<rx, received>>
    BY <1>4 DEF BuffersInv
  <1>5. CASE ContinueTransfer(n, f, rx[n].status, 0, rx[n].seq, rx[n].seq)
    BY <1>2, <1>3, <1>5, ContinueOfPartner
  <1> QED
    BY <1>1, <1>4, <1>5

LEMMA MultiFrameBuffers ==
    ASSUME MaxSwitch = 0, IInv, MadeInv, BuffersInv, NEW n \in Nodes,
           HandleIncomingOsySpecificMultiFrame(n)
    PROVE  BuffersInv'
  <1> DEFINE f == Head(canQueue[n])
  <1>1. /\ ReadFrame(n, f, {"OMF"})
        /\ \/ ContinueTransfer(n, f, "IDLE", 1, 0, 0)
           \/ /\ UNCHANGED received
              /\ \/ rx' = [rx EXCEPT ![n] = StartReception(rx[n], f, "IDLE")]
                 \/ rx' = [rx EXCEPT ![n].status = "IDLE"]
    BY DEF HandleIncomingOsySpecificMultiFrame
  <1> HIDE DEF f
  <1>2. f \in Frames /\ <<f.sv, f.at>> \in Pieces /\ Source[f.sv] = Partner[n]
    BY <1>1, ReadOfPartner
  <1>3. CASE ContinueTransfer(n, f, "IDLE", 1, 0, 0)
    <2>1. "IDLE" \in RxStatus
      BY DEF RxStatus
    <2> QED
      BY <1>2, <1>3, <2>1, ContinueOfPartner
  <1>4. CASE rx' = [rx EXCEPT ![n] = StartReception(rx[n], f, "IDLE")] /\ UNCHANGED received
    <2>1. StartReception(rx[n], f, "IDLE").data = << <<f.sv, f.at>> >>
      BY DEF StartReception
    <2> QED
      BY <1>2, <1>4, <2>1, StartBuffers
  <1>5. CASE rx' = [rx EXCEPT ![n].status = "IDLE"] /\ UNCHANGED received
    <2> DEFINE r == [rx[n] EXCEPT !.status = "IDLE"]
    <2>1. r.data = rx[n].data
      BY DEF IInv, TypeOK, Receptions
    <2>2. rx' = [rx EXCEPT ![n] = r]
      BY <1>5
    <2> HIDE DEF r
    <2> QED
      BY <1>2, <1>5, <2>1, <2>2, StartBuffers
  <1> QED
    BY <1>1, <1>3, <1>4, <1>5

LEMMA NextBuffers ==
    ASSUME MaxSwitch = 0, IInv, MadeInv, BuffersInv, [Next]_vars
    PROVE  BuffersInv'
  <1>1. CASE UNCHANGED <<rx, received>>
    BY <1>1 DEF BuffersInv
  <1>2. CASE ~UNCHANGED <<rx, received>>
    <2>1. PICK n \in Nodes :
              \/ HandleIncomingSingleFrame(n)
              \/ HandleIncomingFirstFrame(n)
              \/ HandleIncomingConsecutiveFrame(n)
              \/ HandleIncomingOsySpecificMultiFrame(n)
      BY <1>2, OnlyReceptions
    <2> QED
      BY <2>1, SingleFrameBuffers, FirstFrameBuffers, ConsecutiveFrameBuffers,
         MultiFrameBuffers
  <1> QED
    BY <1>1, <1>2

\* Without a change of the server, bytes of two servers are never put into one service,
\* whatever is lost, dumped or given up: the violation that the run tp_two_servers finds
\* needs SetNodeIdentifiers.
THEOREM OneServerOneSender ==
    ASSUME MaxSwitch = 0
    PROVE  Spec => []OneSender
  <1>1. IInv /\ MadeInv /\ BuffersInv /\ [Next]_vars => BuffersInv'
    BY NextBuffers
  <1>2. TypeOK /\ BuffersInv => OneSender
    <2> SUFFICES ASSUME TypeOK, BuffersInv, NEW n \in Nodes, NEW i \in DOMAIN received[n],
                        NEW j \in DOMAIN received[n][i].data
                 PROVE  Source[received[n][i].data[j][1]] = Sender(received[n][i])
      BY DEF OneSender
    <2>1. received[n][i].data \in Seq(Pieces) /\ OfPartner(n, received[n][i].data)
      <3>1. received[n] \in Seq(Messages)
        BY DEF TypeOK
      <3>2. received[n][i] \in Messages
        BY <3>1
      <3> QED
        BY <3>2 DEF Messages, BuffersInv
    <2>2. 1 \in DOMAIN received[n][i].data
      BY <2>1
    <2> QED
      BY <2>1, <2>2 DEF OfPartner, Sender
  <1> QED
    BY <1>1, <1>2, InitBuffers, InductiveInvariant, MadeInvariant, PTL DEF Spec, IInv
=============================================================================
