# openSYDE: a TLA+ model of its communication and parametrization

openSYDE configures, updates and diagnoses networks of embedded controllers. Its
core library (`src/opensyde_tool/libs/opensyde_core`, below *core*) talks to the
controllers over CAN or Ethernet; a graphical tool and a handful of command line
programs use it. This directory holds TLA+ modules of the parts of the core and of
the graphical tool in which several threads, nodes, messages or events meet, the TLC
configurations that check them on small instances, and proofs that the TLA+ proof
system checks.

All paths below are relative to `src/`; files without a directory are in
`core/protocol_drivers`, or, in section 6, in
`opensyde_tool/src/system_views/dashboards/items/param`. `PROJECT.json` maps each definition to the lines it
translates and lists runs, mutants, findings, hazards and theorems.

## 1. The system

### 1.1 Inventory

| Component | State it keeps | Operations | Interacts with |
|---|---|---|---|
| **CAN driver** `can_dispatcher/target_*/C_Can.cpp` | socket or DLL handle | send one message (may fail), read one | bus; called by the dispatcher |
| **CAN dispatcher** `can_dispatcher/dispatcher` | clients with handle, filter, bounded Rx queue; a critical section | register, remove, set filter, dispatch incoming, read from and clear a queue | every CAN protocol of a process shares one; callers are several threads |
| **Transport on CAN** `C_OscProtocolDriverOsyTpCan` over `...TpBase` | one Tx and one Rx state machine (status, service, index, sequence number, start time), two bounded queues of services with their locks, node identifiers | `SendRequest`, `ReadResponse`, `Cycle`, `SetNodeIdentifiers`, broadcasts | dispatcher below, protocol driver above |
| **Transport on IP** `C_OscProtocolDriverOsyTpIp`, `ip_dispatcher` | socket, receive buffer, queues as above; the dispatcher keeps broadcast answers per client | connect, re-connect, `Cycle`, broadcasts | as above |
| **Protocol driver** `C_OscProtocolDriverOsy` | reception lock, maximum polling time, event callbacks | one method per UDS service: send, poll for the answer; `Cycle` for asynchronous responses | application threads and the cyclic thread share one driver |
| **Router dispatcher** `C_OscCanDispatcherOsyRouter` | queue and filter of tunnelled messages | a dispatcher whose bus is a routing node | protocol driver below, a CAN protocol above |
| **Diagnostic protocols** `C_OscDiagProtocolOsy`, `...Kfx` | received events by element | read, write, cyclic and change-driven events | data dealer |
| **Flash protocols** `C_OscFlashProtocolStwFlashloader`, `C_OscHexFile`, `C_OscProtocolSerialNumber` | session with a flashloader; a parsed file | wake up, erase, write, finish | CAN dispatcher |
| **Communication drivers** `communication/` | a driver, a transport and an identifier per node, routes | start and stop routing, sessions, security access | all of the above |
| **Routing** `routing/` | list of routes | search for routes in a system definition | pure |
| **System update** `system_update/`, `basic_update/`, `device_config/` | progress per node (`C_OscSuSequencesNodeStates`) | activate flashloader, update nodes in order, reset | communication drivers |
| **Data dealer and NVM lists** `core/data_dealer` | per node: the lists changed by the last write, a copy of the node's values as read back; the values and their flags (changed, valid) in the shared node | read a list and check its CRC, safe write: write changed values, read back, write CRCs | called by the poll thread; diagnostic protocols below |
| **Parameter sets, service update packages, project data, filers** `core/data_dealer/paramset`, `core/system_update_package`, `core/system_package_handling`, `core/project`, `core/exports`, `core/imports`, `core/halc`, ... | data in memory | load, save, calculate hashes | files |
| **Utilities** `core/scl`, `core/logging`, `core/aes`, `core/md5`, `core/miniz`, `core/security`, `core/kefex_diaglib` | little | strings, logs, hashes, ciphers, compression | files |
| **Diagnosis threads of the graphical tool** `opensyde_tool/src/system_views/communication` | the cyclic thread (`C_SyvComDriverDiag`); the poll thread (`C_SyvComPollingThreadDiag`) with the one service it executes, its result, and the flag to accept the next request | start a service, ask for its result, finished signal | data dealers below; all widgets of a dashboard share the one thread |
| **Parametrization** `C_SyvDaItPaWidgetNew`, `C_SyvDaItPaTreeModel`, `C_SyvDaItPaWriteWidget`, `dashboards/C_SyvDaDashboardsWidget` | values and CRC status shown per list; lists still to be read; step, node and pending request of the write dialog; missed reads of the dashboard | read lists, write lists (write, read back, confirm, seal, notify), cancel | poll thread by requests, its finished signal and a timer |
| **Rest of the graphical tool** `opensyde_tool/src` | views, windows, undo commands | - | core |
| **Command line programs** `opensyde_cmd_line_flash_tool`, `opensyde_syde_*` | arguments | update, generate code | own copies of the core |
| **Libraries** `libraries` | - | third-party code | - |

### 1.2 What is hard, and what correctness means

* **Transport on CAN.** A service is a few bytes or some thousands, a frame has
  eight. `CAN_Send_Msg` may take part of a burst of frames, time-outs race late
  flow controls, a first frame may replace a reception that is under way, two
  segmentations share one buffer, and `SetNodeIdentifiers` changes the server in
  the middle of all that. *Correct* means: what the application reads is a service
  the other side sent, whole, once, and in its order; no transmission hangs; a
  loss is noticed.
* **Protocol driver.** An answer is found by service identifier only. Application
  threads send their request before they take the lock under which answers are
  collected; the cyclic thread takes it whenever it is free. *Correct* means: each
  poller gets its own answer, events are handed on once and in order, polling ends.
* **CAN dispatcher.** Clients come and go by handle while an array of clients and
  an array of pointers into it are rebuilt; messages must reach each queue in the
  order of the bus.
* **IP transport.** Broken connections and re-connects in the middle of a service,
  and broadcast answers for different clients on one socket.
* **Parametrization.** Writing safety-relevant values takes four steps with the user
  in between: write, read back, confirm, seal with a CRC. Each is a service of the one
  poll thread, which other widgets use too; it may fail in the middle, be cancelled
  while it goes on, and its result is fetched by a timer that does not know whose it is.
  *Correct* means: a list is sealed only with what the user has confirmed; what is
  reported as finished is sealed; the status shown is true; nobody waits for ever.
* **System update.** Long legal sequences, power loss and restart between two steps.
* **Routing.** A search over arbitrary topologies.

The hazards in `PROJECT.json` are these, each at the line where it bites.

## 2. Plan

| # | Module | Content | Composes / implements | Status |
|---|---|---|---|---|
| 1 | `ServiceChannel` | abstract: a channel that may lose services but never mixes, doubles or overtakes | - | done |
| 2 | `OsyTpCan`, `MCOsyTpCan` | transport on CAN, one instance of the class per node | implements `ServiceChannel` | done, without broadcasts |
| 3 | `OsyTpCanProofs` | invariants of 2; that 2 implements 1 | - | done; services stay whole, the refinement, and what they rest on, under the conditions of section 8.1 |
| 4 | `OsyPolling`, `MCOsyPolling`, `OsyPollingProofs` | polling for answers and the reporting of events, by application threads and the cyclic thread | takes 2 for the ordered channel that `ServiceChannel` says it is | done, with three methods for some sixty; all invariants proved |
| 5 | `CanDispatcher`, `MCCanDispatcher`, `CanDispatcherProofs`, `CanDispatcherBusProofs` | clients, handles, queues and the threads that dispatch | below 2, whose `canQueue` is one of its queues | done; handles and the order of messages proved |
| 6 | `ListSeals` | abstract: a list is sealed only with contents the user has approved | - | done |
| 7 | `NvmDealer`, `NvmParametrization`, `MCNvmParametrization` | servers, data dealers and the poll thread; the widget, the write dialog and missed reads | the second composes the first with the user interface; implements `ListSeals` | done for the lists of a parametrization widget |
| 8 | `NvmParametrizationProofs`, `NvmSealsProofs`, `NvmIntactProofs` | types; that 7 implements 6; that finished lists are intact | - | done |
| - | `SequenceFacts` | lemmas on concatenation, removal and the elements of sequences | used by the proofs of 2, 4 and 5 | done |
| 9 | `OsyTickTimeout` | comparison of 32 bit tick counts, wrap and underflow | - | planned |
| 10 | `OsyTpIp`, `IpDispatcher` | re-connection, partial reads, broadcast answers per client | `ServiceChannel` | planned |
| 11 | `OsyBroadcast` | node ID by serial number, collection of answers | over 2 | planned |
| 12 | `SystemUpdate` | update states of nodes, order, restart | over 4 | planned |
| 13 | `Routing` | route search against a reference definition | - | planned |

Abstract specification worth stating next: a remote call (request, then exactly
one of answer, refusal, time-out) for 4.

All safety properties that a passing run checks are theorems, some under hypotheses
(section 8). Worth proving next: the refinement of `ServiceChannel`
with late time-outs, or with services without flow control where no frame is lost, which
the hypothesis `Calm` of section 8.1 excludes and `tp_live` only checks.

Still to be modelled in 4: the remaining patterns of the service methods (answers
of variable length, the security sequence, tunnelled CAN messages).

## 3. Transport on CAN: `OsyTpCan`

### 3.1 State and actions

| Variable | Code |
|---|---|
| `tx[n]`, `rx[n]` | `mc_TxService`, `mc_RxService` (class `C_ServiceState`); `expired` stands for the start time: the time of the current state is over |
| `txQueue[n]`, `rxQueue[n]` | `mc_TxQueue`, `mc_RxQueue` of the base class, each behind its own lock; every access is one locked section, hence one action |
| `canQueue[n]`, `wire[n]` | the node's queue in the CAN dispatcher, and the frames from the other nodes that it has not read: the bus keeps the order of frames to a node |
| `server[n]` | `mc_ServerId` |
| `filter[n]` | the Rx filter of the node's queue in the dispatcher, as the one node whose frames pass it |
| `pc[n]` | where `Cycle` is: ready, sending, dispatching, reading; or `SetNodeIdentifiers`: identified, cleared |
| `unsent`, `requested`, `received` | workload and history |
| `faults` | history: how much of each bound of the run is used; `first`: a first frame was lost or did not get into a queue; `stray`: a frame of a former server was queued after the queue had been cleared |

`Cycle` of one node is a sequence of actions: one for the state of the Tx state
machine (`NothingToSend`, `SendSingleFrame`, `SendWithoutFlowControl`,
`SendFirstFrame`, `CheckFlowControlTimeout`, `SendMoreConsecutiveFrames`), one per
frame the dispatcher reads (`DispatchFrame`, `DispatchDone`), one per frame taken
from the queue (`HandleIncoming...`), `CycleEnd`. Other threads (`SendRequest`,
`ReadResponse`), the other nodes, the bus (`LoseFrame`) and the clock (`Expire`)
run between any two of them. `SetNodeIdentifiers` is three actions: it changes the
server (`SetNodeIdentifiers`, line 1040), has the dispatcher clear the queue
(`ClearQueue`, line 1044, under the lock of the dispatcher) and sets the filter
(`SetRxFilter`, line 1047, without it). As any client of a dispatcher dispatches for all of them
(`DispatchFrame` of a node is enabled wherever that node is), frames of the former server can still be
queued between the last two, and are not cleared again. `DispatchIncoming` reads a message and
places it in one locked section, so that the change of the filter is before or after it; a message that meets a
filter half written (code and mask) is left out. A burst of `CAN_Send_Msg` calls is one action with the number of
frames that were taken as its choice: nobody else writes the node's frames, and
the receiver reads one frame at a time.

Abstractions: a payload is the list of pieces `<<service, offset>>` that were
copied, enough to tell whole services from mixtures; an announced size is modelled
as a number, in the openSYDE segmentation in the one byte it has (an announced size below
6 makes the unsigned difference of size and index wrap, so that the transfer never completes:
`completes` in `ContinueTransfer`; what is then copied behind the buffer is left out); identifiers,
minimum separation time and log texts are left out. The server is code that is not
in the repository; it is taken to be another instance of the class, except for
event frames (`SendEvent`), which only servers send.

### 3.2 Runs

All runs have a finite workload, after which the system idles: deadlock is
therefore not checked. Service sizes are chosen by the number of frames they
take: 5 bytes (a single frame), 13 (first frame and one consecutive frame), 15 and 20
(two), 118 and 125 (16 and 17 frames after the first: the sequence number wraps).

| Run | Instance | Checks and shows |
|---|---|---|
| `tp_wrap` | the ECU sends one service of 17 consecutive frames and an event in its middle; service queues of one entry; two failing sends | `TypeOK`, `TxPosition`, `RxPosition`, `ImplementsChannel`: both ends count alike over the wrap, wherever a burst is cut, and single frames do not disturb a reception |
| `tp_lossy` | two ECUs, two services of the tester with flow control, two lost frames, a dispatcher queue of two frames, one failing send, one time-out that overtakes its flow control, two changes of the tester's server | both while `StaysApart`, see below. `WholeServices`: parts are dumped, and where the rest of a service goes to the wrong node, no node makes a service of it; `BehindOwnFirstFrame`: consecutive frames are behind the first frame of their own service, or that was the last one their receiver has read, whichever flow control has released them |
| `tp_live` | fair; three services of the tester: a single frame and one in each segmentation, two failing sends, one time-out that overtakes its flow control | `ImplementsChannel`: retries neither double nor skip bytes and no service overtakes another. `TransmissionEnds`: the Tx state machine never hangs. `RequestsArrive`: as long as no fault happens, every accepted service is read at the other side |
| `tp_omf_numbers`, `tp_two_servers` | expected violations | findings 1 and 2 of section 7 |

Why the bounds are enough: a transfer only interacts with the one before and the
one after it (the Rx state machine keeps one buffer, the Tx state machine one
service), so two services of a kind contain every pair of that kind, and a reception that a third
one meets is that of the second; two losses are the fewest that can hide from a sequence number counted
modulo 16 only together with a further service; a burst that is cut twice
contains a retry of a retry; two changes of the server are there and back, within one
service. `MaxLate` bounds time-outs that fire although
frames are under way (in the code after 1 s); time-outs in a quiet system are not
bounded.

**Where services stay apart.** The code does put services together of parts where certain mishaps
meet, and no document or comment says that it does not, so that these are hazards of `PROJECT.json` and
no findings. `StaysApart` is what they leave:

* `Timely`: no time-out has overtaken its answer (`faults.late = 0`), and if the server was
  changed, then no send has failed and no frame of the former server was queued between
  `ClearQueue` and `SetRxFilter`; or
* `Announced`: the server was not changed, and every first frame has got into the queue of its
  receiver, whatever else is lost, fails or is late.

Each part is needed: without it `tp_lossy` finds both properties violated.

* A late flow control for a service that was given up releases the frames of the next one. If the first
  frame of that one is lost, or the server was changed, they meet a reception of another service that
  waits for number 1.
* With a failing send, the rest of a burst is sent after a change of the server to the new one,
  and completes a reception that was left open there.
* A flow control of the former server that is queued between `ClearQueue` and `SetRxFilter` does
  the same without a failing send.

`tp_lossy` has `StaysApart` as its CONSTRAINT: the counts in `faults` only grow, so that no state
behind one in which it is false makes it true again (`StillTimely` of section 8.1), and the
properties say nothing there.

Fairness (`FairSpec`): a thread keeps calling `Cycle` of each driver
(`opensyde_tool/src/system_views/communication/C_SyvComDriverDiag.cpp` every few
milliseconds, and every poller in its loop), time passes, and the poller reads
what is in the queue. A call of `SetNodeIdentifiers` comes to its end (`ClearQueue`, `SetRxFilter`): it
waits for nothing but the lock of the dispatcher. Nothing is assumed of the bus: fairness of `Cycle` does not choose between a send
that succeeds and one that fails, and failures are bounded only by `MaxFail`. A driver that never takes a frame again is
therefore not in the run; what would end such a transmission, the time-out for the
consecutive frames, is.

## 4. Protocol driver: `OsyPolling`

### 4.1 State and actions

Every service method of `C_OscProtocolDriverOsy` has the same form: it builds a
request, hands it to the transport (`SendRequest`), and calls
`m_PollForSpecificServiceResponse`, which takes `mc_LockReception`, runs transport
cycles and reads responses until the answer, an error, or the time-out. A cyclic
thread calls `Cycle`, which tries to take the same lock and reads what has arrived
without a request.

| Variable | Code |
|---|---|
| `pc[t]`, `current[t]` | where a thread is: request sent, lock held and transport due, reading; and for which call |
| `timeOver[t]` | `u32_StartTime + mu32_TimeoutPollingMs` has passed |
| `lock` | `mc_LockReception` |
| `txQueue`, `rxQueue` | the transport's queues of services |
| `toServer`, `fromServer`, `active` | what is under way, and the elements the server sends events of (external) |
| `result`, `answer`, `answered`, `snatched`, `emitted`, `reported` | return values and histories |

| Action | Code |
|---|---|
| `SendRequest` | the service method up to the lock |
| `Acquire`, `PollTransport`, `ReadResponse` with `Evaluate`, `NothingRead`, `TimeOut` | the loop of `m_PollForSpecificServiceResponse`; one response is read per step |
| `TryAcquire`, `CycleTransport`, `CycleRead`, `CycleEnd` | `Cycle` of the cyclic thread |
| `ServerAnswers`, `ServerNeedsTime`, `ServerIsSilent`, `ServerSendsEvent` | the server: answers, responsePending, silence, events (external) |
| `Expire` | the clock |

Three methods stand for the others: `OsyReadDataPoolData` ("read"),
`OsyReadDataPoolDataCyclic` ("register") and `OsyStopDataPoolEvents` ("stop"). They
are the ones that differ in what matters here: the last two share their service ID
with the events, so that only the length (register, stop) and the identifier
(register) tell answers and events apart; "read" has a service ID of its own. The
transport is an ordered channel in each direction, which is what section 3 checks;
the limit of its Rx queue is left to `OsyTpCan`. A response has the attributes the
code looks at: first byte 0x7F or not, service ID, length, identifier.

### 4.2 Runs

The workload is finite; deadlock is not checked.

| Run | Instance | Checks and shows |
|---|---|---|
| `op_events` | one application thread with two registrations and a stop, the cyclic thread, two events of either kind, one responsePending, one failing send, one early time-out | `TypeOK`; `DataEventsReported`: data events are reported once and in order whichever thread reads them; `ErrorEventsReportedOrTaken`: an error event is missing from that only if a call has taken it for its negative response; `OwnAnswer`, `AnswerForElement`, `TimeoutOnlyIfSilent`: what a call returns |
| `op_ends` | fair; two application threads and the cyclic thread; a silent server, three early time-outs | `PollEnds`: every call returns |
| `op_snatched`, `op_error_event` | expected violations | findings 3 and 4 of section 7 |

`OwnAnswer` and `TimeoutOnlyIfSilent` hold while `Undisturbed`: no answer came
after its time-out and no error event was taken for an answer. The first is needed
because nothing clears the queue after a time-out: the next call of the same
service meets the old answer, and its own is left for the call after it. The
identifier is compared, so that the value of another element is never returned
(`AnswerForElement` holds without the condition); an older value of the same element may
be, and no document excludes it. The second is finding 4.

Bounds: what one call leaves behind is met by the next, so that three calls of one
thread contain a call with a predecessor and a successor; two events can come
before, between and after answers, in both orders of kinds. One thread polls in
`op_events`, as in the graphical tool: with two, each dumps the answers to the other,
which the documentation says (`C_OscProtocolDriverOsy.cpp:373`), and which would hide the rest.

Fairness: the thread that holds the lock goes on (its loop does not block) and time
passes, hence weak fairness of `Poll`, `Cycle` and `Expire`. A waiting thread gets
the lock if it is free again and again (strong fairness of `Acquire`): the cyclic
thread sleeps between cycles, and pollers leave at their time-outs. Nothing is
assumed of the server.

The properties on events are stated with sets of events and the order of their
numbers instead of with filtered sequences: of sequences whose elements are numbered
in ascending order that is the same, and a prover can handle it.

## 5. CAN dispatcher: `CanDispatcher`

### 5.1 State and actions

| Variable | Code |
|---|---|
| `bus` | messages in the CAN driver |
| `installed` | `mc_InstalledClients`: user, filter, queue and handle of each client |
| `byHandle` | `mc_ClientsByHandle`: for each handle a pointer (here: a position in `installed`), or `NULL` (0) |
| `handle[u]` | the handle the protocol instance `u` holds |
| `lock` | `mc_CriticalSection` |
| `at[t]`, `message[t]`, `index[t]` | where a thread is in `DispatchIncoming`, the message it has read, and the client it comes to next |
| `read`, `got`, `lost`, `since` | histories |

`DispatchIncoming` is a sequence of actions: start, read a message and take the
lock (`ReadMessage`), place it in the queue of one client (`PlaceMessage`, once per
client), release the lock, and so on until there is no message (`NoMoreMessages`). Between any two of them other threads run:
they dispatch too and have to wait for the lock, they read from or clear their
queue (`ReadFromQueue`, `ClearQueue`: locked), or change their filter
(`SetRXFilter`: not locked in the code, so that the model changes filters while a
message is being placed). `RegisterClient` and `RemoveClient` are not locked either
and rebuild both arrays, possibly at another address: they are modelled only while no
thread is in the dispatcher (`Unused`), as the applications call them; what
overlapping calls would do is undefined, and listed as a hazard.
`CAN_Read_Msg` with a handle is `DispatchIncoming` followed by `ReadFromQueue`.
The overload without a handle, which nothing calls, and the functions that only
report counts and states are left out. Filters are sets of identifiers, changed in
one step: a message that is tested while the fields of a filter are being copied was
read before the change was complete, and `ClientsSeeTheBus` only speaks of those
read afterwards (`since`).

### 5.2 Run

`cd_clients` has two threads, two protocol instances, two filters (one identifier,
all identifiers), queues of one message, three messages, three registrations, one
change of a filter and one clearing. It checks `TypeOK`, `HandlesStable` (a handle
leads to its holder's client) and `ClientsSeeTheBus` (each client sees the bus
through its filter: in order, once, without gaps except what its own full queue has
refused). Deadlock is checked: the threads can always start to dispatch, and a
thread that holds the lock releases it.

Three messages and queues of one give a message that is lost between two that are
not; three registrations give a handle to a second client after the first one is
gone, while another client stays registered; two threads are enough for a message
to overtake another, were the lock not there. Threads and users are symmetric:
no definition distinguishes them, and no property is about liveness.

## 6. Parametrization: `NvmDealer`, `NvmParametrization`

### 6.1 State and actions

`NvmDealer` has what runs below the user interface: the servers with their non volatile
memory, one data dealer per node (`C_OscDataDealerNvmSafe`), and the poll thread that
executes one of their services at a time. `NvmParametrization` has the user interface,
one thread that handles one event after the other.

| Variable | Code |
|---|---|
| `nvm`, `crc` | server: contents of the elements, and the contents the stored CRC of a list was computed from (external; a list is `Intact` if both agree, which is what `NvmCalcCrc` finds out) |
| `value`, `changed`, `valid` | `c_NvmValue`, `q_NvmValueChanged`, `q_NvmValueIsValid` of the node that all share |
| `changedLists`, `copy`, `copyValid`, `readOut` | `mc_ChangedLists`, `mc_NodeCopy`, and the thread's pointer to the copy read last |
| `job`, `accept`, `result`, `finished` | the service that runs, `mq_AcceptNextRequest`, `ms32_Result`, and the signal in the event queue |
| `queued`, `readStatus`, `ecu`, `crcStatus` | values received for the widget, and what its model shows |
| `reading`, `awaited`, `unread`, `toWrite` | the widget's read of several lists, and the write to begin after it |
| `missed` | `mc_MissedReadNvmOperations` of the dashboard |
| `step`, `timer`, `pending`, `todoNodes`, `prepared`, `invalid`, `readNodes`, `actual`, `notices`, `nested` | the write dialog |
| `confirmed`, `disturbed`, `clicks` | histories and the workload |

A service is a sequence of actions of the thread, one per request to the server:
`WriteBegin`, `WriteElement`, `WriteEnd` for `NvmSafeWriteChangedValues`, and likewise for
`NvmSafeReadValues` and `NvmSafeWriteCrcs`. Each request may fail, with or without
having taken effect at the server: a lost answer cannot be told from a lost request. Between any two of them the user
interface handles events: clicks (`HandleTreeReadAction`, `HandleWriteProcessTrigger`,
`OtherRead`, and in the dialog `WriteClicked`, `ConfirmClicked`, `OnCancel`, `OkClicked`),
the finished signal (`HandlePollingFinished`), and ticks of the dialog's 10 ms timer
(`Tick`). The dialog is executed inside the handler that opens it, possibly the handler
of the finished signal; what remains of that handler happens when the dialog is gone
(`nested`, `DialogGone`).

Abstractions. One NVM data pool per node and one parametrization widget; other widgets
appear as NVM reads of single lists, and other missed operations (reads and writes of
data pool elements) are left out. Message boxes are part of the handler that shows
them. A click is handled when the signals posted before it have been. Values are in range, every list has
elements, the sizes and the data pool's configuration are right: the checks of these pass.
`NvmWriteStart` and `NvmWriteFinalizeTransaction` do nothing in the openSYDE protocol.
Two contents with the same 16 bit CRC are not considered. What an application answers to
a notification only shows in a message. Connecting, disconnecting, and parameter set files are not modelled.

### 6.2 Properties

* `ImplementsSeals`: the parametrization implements `ListSeals`, whose only promise is
  that a list is sealed with contents the user has last approved. It has to hold
  whatever fails and interferes, because a CRC is what makes a device accept the values.
* `FinishedListsIntact`: when the dialog reports success, every list it was about is
  intact. The code violates it (finding 5); `UndisturbedListsIntact` is the same as long
  as no read has found the thread busy. `disturbed` knows reads of lists only: reads and writes
  of data pool elements that have found the thread busy are started the same way
  (`C_SyvDaDashboardsWidget.cpp:975-1010`) and are not in the model (6.1); they disturb the dialog, too.
* `CrcStatusTrue`: a list shown with a valid CRC has one, with the same condition: after
  a missed read the widget takes a result for that of the list it awaits
  (`C_SyvDaItPaWidgetNew.cpp:219`, `:233`: "Should be the last read list").
* `DialogProceeds`, `ReadEnds`, `MissedStarted`: the dialog comes to a point where it
  waits for the user, a read ends, and a missed read is started.

### 6.3 Runs

| Run | Instance | Checks and shows |
|---|---|---|
| `pa_lists` | fair; two nodes with a list each, two values, another widget that reads list 1, two clicks that start something | `TypeOK` and all properties of 6.2 but `FinishedListsIntact` |
| `pa_unsealed` | one node with two lists, otherwise the same | `FinishedListsIntact`: expected violation, finding 5 |

Lists have one element each: the thread walks through elements of a list and of the
next list in the same loop, and where in it a request fails is the same question in both.
Two nodes exercise the loop over nodes in all steps of the dialog; two lists on one node
(the instance of `pa_unsealed`) the loop over lists in the services. Two clicks are a
read and a write, a write that is given up and another one, or either with a read
of the other widget in between. The dialog needs no bound: every step goes on or closes it.
The user may stop clicking, so deadlock is not checked.

Fairness: the thread runs, and each of its services ends by an answer or a time-out
(`WF(ThreadStep)`); the event loop handles the finished signal
(`WF(HandlePollingFinished)`) and the timer (`WF(Tick)`). Nothing is assumed of the
user or of the servers.

## 7. Findings

Each is a run that is expected to find a counterexample to what the repository says.

1. `tp_omf_numbers` (`OmfNumbering`): services without flow control are numbered
   modulo 16 (`C_OscProtocolDriverOsyTpCan.cpp:881`), so that 0, the number of a first
   frame, follows 15. The header says "SN 15->1" and the receiver counts that way. A
   service of more than 16 frames is restarted at the receiver by its 17th frame;
   the code calls 37 * 3 messages a typical maximum.
2. `tp_two_servers` (`OneSender`): `SetNodeIdentifiers` clears the frames in the
   dispatcher's queue ("we are no longer interested in that old stuff"), but leaves the open
   reception, and also the complete services in `mc_RxQueue`. After a change from
   server A to B and back, a service made of bytes of both is delivered. (The queue itself can hold
   old frames again: those another client dispatches before the filter is changed, section 3.1.
   The run leaves such behaviours out, `NoStray`: the open reception is enough.)
3. `op_snatched` (`ResponseNotSnatched`): a service method sends its request before it takes
   `mc_LockReception`. In between, the cyclic thread can send it, receive the answer and
   dump it; the call times out. The comment at the lock says that this is what it is there to
   prevent.
4. `op_error_event` (`ErrorEventsReported`): `OsyStopDataPoolEvents` takes any
   error event of a registered element that arrives while it polls for the refusal
   of its own request; the event is never reported. `ErrorEventsReportedOrTaken` holds and
   shows what else can happen to an error event: it is taken by a registration of its own
   element, when that was registered before, or when another thread has read the answer.
5. `pa_unsealed` (`FinishedListsIntact`): a read of another widget finds the thread busy
   and is started, as missed, when the next service finishes, be it one the write dialog waits
   for. The dialog's timer then finds the read's result in its place. In the run the write
   of the second of two lists fails, the read succeeds, and the dialog goes on: the second
   list is not among the changed lists of the dealer, is neither read back nor sealed, and the
   dialog ends with "Parametrization Finished", where `GetChangedElements` promises
   "all changed elements with successful adapted CRCs" (`C_SyvDaItPaWriteWidget.cpp:165`).
   What is sealed is still what the user has confirmed: `ImplementsSeals` holds.

Seen while modelling, and no finding for want of a sentence that says otherwise:
`ClearEcuValues` does not clear the values queued for the widget, so that values from
before a failed read of several lists can be shown as current later (a hazard of
`PROJECT.json`).

## 8. Proofs

### 8.1 Transport on CAN

`OsyTpCanProofs` proves, for any set of nodes and services, any sizes, queue
limits and bounds, under the assumptions `ServiceAssumption`, `NodeAssumption` and
`BoundAssumption` of `OsyTpCan`:

* `TypeCorrect`: `Spec => []TypeOK`
* `TxPositionInvariant`: `Spec => []TxPosition`
* `RxPositionInvariant`: `Spec => []RxPosition`

The inductive invariant is `IInv == TypeOK /\ TxPosition /\ RxPosition`. `TypeOK`
alone is not inductive: that the sequence number and the index stay in their
types, and that a frame composed from the current service is a frame at all,
needs that an unfinished transmission has a sendable service and bytes left, which is `TxPosition`; that
the buffer of a reception stays a sequence of pieces within the announced size
needs `RxPosition` (`InductiveInvariant`). The proof has one lemma per action that changes a state machine, lemmas on the frames that are composed
and on the arithmetic of index and number
(`FramesLeft`, steps of seven bytes modulo 16), and a step per action of `Next`.

**What is delivered.** Two further properties are theorems where all services are sent with flow control
(`Ordinary`: `Omf = {}`, and either `MaxSwitch = 0` or all services are those of one node, which is what
`Peer`, the node whose services a node receives, is defined by):

* `DeliveredWhole`: `Spec => []WholeServices`
* `BehindOwn`: `Spec => []BehindOwnFirstFrame`

All bounds on faults are arbitrary; both properties have the premise `StaysApart` (section 3.2), and each
of its halves has an invariant of its own, as the argument is a different one.

`FlowInvariant`: `Spec => [](Timely => FlowInv)`. Where no time-out is early, a flow control is
the one for the service its receiver waits with:

* `MadeInv` (which holds always, `MadeInvariant`): which frames there are at all, `FormInv`; that filter, queue
  and server belong together but for the time of a change of the server and for stray frames, `FilterInv`;
  and that only a failed send leaves a transmission in the middle of a burst, `InterruptInv`;
* `RxInv`: a reception is of one service, by its first piece;
* `CfInv`: consecutive frames under way are of the service their receiver has begun with, and
  not of bytes before those it waits for; if the reception has a gap, they are behind it (`Ahead`),
  so that the sequence number of no later frame fits;
* `PairInv`: frames of one service keep their order, and nothing follows a first frame;
* `FirstInv`, `FcInv`: a sender that waits has its first frame under way, or its flow control,
  or nothing any more, never two of them;
* `MoreInv`: a sender that has been interrupted goes on where its receiver is;
* `WholeInv`: what has been delivered is whole, and from the node listened to.

`AnnouncedInvariant`: `Spec => [](Announced => SafeInv)`. With time-outs as early as they like, several first frames
and flow controls can be under way together, and none of the last five facts but `WholeInv` remains. What remains is an order:
the frames a node is still to read are a line (`Line`), and any consecutive frame in it, and the transmission that stands
behind its end, *fits* where it stands (`Fits`): the last first frame before it is that of its own service, or
there is none and the reception is of its service, and it is behind all consecutive frames since. A frame that is lost or dumped does not disturb this
as long as it is not a first frame (`LineRemoved`), a frame that is read hands its place to the reception (`LineTail`), and what is sent is put
behind (`LineMore`, `LineStart`). `AnswerInv` says that nobody sends consecutive frames but to the node that has answered it.

That a reception with a gap is never completed is arithmetic: sequence numbers agree
modulo 16, frames are seven bytes apart, and the last frame alone is shorter
(`AlignedSteps`).

**The channel.** `ChannelImplemented`: `Spec => ImplementsChannel` under the hypothesis
`Calm == Omf = {} /\ MaxLate = 0 /\ MaxSwitch = 0`, which makes every state timely. Losses, full queues, failing
sends, time-outs in a quiet system and the number of nodes that send are not bounded. The instance of
`tp_wrap` is calm; that of `tp_live` is not, as it has a service without flow control and a late time-out, so that there
`ImplementsChannel` stays model-checked.

For the refinement, `OrderInv` (`OrderInvariant`) adds the order of services:
none is accepted twice (`AcceptedInv`); the Tx queue, the frames under way and what is delivered keep the
order of the requests (`QueueInv`, `FrameOrderInv`, `GivenOrderInv`); what is under way or delivered
has been begun (`SentInv`, `GivenInv`); and the last bytes of a service are not out while its
transmission is open (`PartialInv`). `SendRequest` and `SendEvent` map to `Hand`, the single frame or last
consecutive frame of a service to `Give`, every other step, and a request or a service that finds its queue
full, to a stutter (`NextChannel`).

**What the expected violations need.** `ShortMultiFramesNumbered`: if no service without flow
control has more than 111 bytes, which is what 16 frames hold, `Spec => []OmfNumbering`;
finding 1 needs a 17th frame. `OneServerOneSender`: if `MaxSwitch = 0`, `Spec => []OneSender`, with any
losses, late time-outs and services without flow control; finding 2 needs
`SetNodeIdentifiers`. The invariant (`BuffersInv`) is that all bytes in a buffer are of the partner.

### 8.2 CAN dispatcher

`CanDispatcherProofs` proves, for any threads, users, identifiers and filters, any size
of the queues and any bounds, under `UserAssumption` and `BoundAssumption` of `CanDispatcher`:

* `TypeCorrect`: `Spec => []TypeOK`
* `HandlesCorrect`: `Spec => []HandlesStable`

`HandlesStable` is not inductive: it says nothing of the pointers no user holds,
from which the next handle is chosen. The inductive invariant adds `Synced`: each
client is found by its handle, and where a pointer is `NULL` there is no client with
that handle. From it follow that handles are distinct, that `FreeHandle` is the
handle of nobody (`FreeHandleIsFree`), and that a rebuilt array of pointers is again
synchronised (`ResyncSynced`, which needs that the greatest handle exists:
`MaxIsMaximum`, by well-foundedness of the natural numbers). `PlaceOK`, that a
thread that places a message has one, is needed for the types. The proof of the step
has one part per action; those that only change a queue or a filter share
`ReplaceClient`.

`CanDispatcherBusProofs`, which extends it, proves `ClientsSee`:
`Spec => []ClientsSeeTheBus`. While a message is being placed some clients have seen it
and others have not, and `ClientsSeeTheBus` says nothing of gaps then; the invariant
`BusInv` does: `AllSee` states for each client what it sees of the messages that have
been *shown* to it (`Shown`: those read, without the one that is being placed if the loop
has not come to the client). `BusNumbered` (messages are numbered through the queue of
the driver) and `PlacesLast` (the message being placed is the last one that was read,
which is what the lock is for) give that the next message is newer than all a client has;
`NothingLeft` says that a user without a client starts from nothing, and `SinceRead`
that a filter is not set in the future.

### 8.3 Protocol driver

`OsyPollingProofs` proves all invariants that `op_events` checks, for any threads, calls, elements and
bounds (`CallAssumption`, `ThreadAssumption`, `AnswerAssumption`, `BoundAssumption`):

* `TypeCorrect`: `Spec => []TypeOK`, from `Types`, which also says which responses a
  server sends (`Sent`: the form of a response tells what it is), without which the
  value of an answer would have no type.
* `AnswersFit`: `Spec => []AnswerForElement`. The one fact that matters is
  `SuccessIsPositive`: with three checks (service ID, length, identifier) nothing but a
  positive response for the element is taken.
* `DataEventsArrive`: `Spec => []DataEventsReported`, and `ErrorEventsArrive`:
  `Spec => []ErrorEventsReportedOrTaken`, from `Numbered` and `TakenOnce`: what is reported,
  in the queue and under way together (`Stream`) holds the events sent but those that were
  taken for an answer, in ascending order, and events are numbered up to `used.event`. A step moves
  the head of one part to the end of the part before, or takes out one response: no event
  (`EventIsAsync`: whoever reads an event hands it on) or an error event that ends a
  call (`OnlyErrorsTaken`), which by the order is in the stream only once. Error events
  are lost in no other way than finding 4 describes.
* `OwnAnswers` and `TimeoutsAreSilent`: `OwnAnswer` and `TimeoutOnlyIfSilent`, under the
  hypothesis `OnePoller` that one application thread polls the driver (next to the
  cyclic thread). The hypothesis is needed: two pollers dump each other's answers, as the
  documentation says. The invariant `Flow` says that of the
  call the thread is in one thing is under way: its request, or its answers with the final one
  last (`OneCall`); that an answer the server has given waits until it is read
  (`AnswerThere`); and that a poll whose time is over without a late answer had nothing to come
  (`OverWhenSilent`). `CallsOnce` says that a call leaves no trace before it is made.

### 8.4 Parametrization

`NvmParametrizationProofs` proves `TypeCorrect`: `Spec => []TypeOK`, and
`NvmSealsProofs`, which extends it, `SealsConfirmed`: `Spec => ImplementsSeals`, for any
nodes, lists, elements and values (under `DealerAssumption` and
`ParametrizationAssumption`) and any number of clicks.

The refinement maps `WriteElement` to `Write`, `ConfirmClicked` to `Approve`, `CrcList`
to `Seal` of its list or to a stutter, and everything else to a stutter. The case that
needs work is `CrcList`: that the copy `NvmSafeWriteCrcs` computes the CRC of is what was
confirmed some steps ago. The inductive invariant is `TypeOK` and the conjuncts of
`SealInv`:

* `JobInv`, `ListsInv`: what a running service has left to do belongs to its node, the
  changed lists of a dealer are lists of its node, and only elements of the open dialog
  are flagged as changed;
* `StepInv`: in which steps of the dialog which service can run. A service that a
  cancelled dialog has left behind may run on into the next dialog, but the thread
  takes no request before it has ended, so it is gone when the next one's own service of
  that kind runs;
* `WriteInv`: once the dialog has had a node written, the dealer of that node knows no
  changed lists but relevant ones;
* `ReadInv`: the node whose lists are to be sealed has been read back in this dialog;
* `ConfirmInv`: the values shown are those of the copies; `CrcInv`: and so are those
  confirmed, until the last list is sealed.

None of this supposes that results are those of the dialog's own services: the
theorem covers missed reads in between and results taken for others, which is why
finding 5 leaves a list unsealed but never seals a wrong one.

`NvmIntactProofs`, which extends both, proves the other half, for behaviours in which no read has
found the thread busy: `ListsIntact`: `Spec => []UndisturbedListsIntact`, and `StatusTrue`:
`Spec => []CrcStatusTrue`. Neither is inductive by far: that a list is intact when the
dialog reports success depends on everything between the click on write and the last
seal. The invariant `Undisturbed == ~disturbed => IntactInv` follows the lists
through the steps of the dialog:

* `SignalInv`: the thread runs, takes requests or has posted its signal, and no missed
  read waits: what makes a result that of the service that was asked for;
* `ServiceInv`: while the dialog waits for a service, that one runs, or its result is
  there; a service that a closed dialog has left behind runs on, but then nothing is
  known of the lists, and nothing is read;
* `ReadingInv`, `StatusInv`: what the widget has read so far, and that a list shown as
  valid is intact unless the open dialog is at work on it;
* `WrittenInv`: each relevant list of a node has a changed element until the node is
  written, and is known to the dealer as changed afterwards (`Flagged`, `Covered`), which is
  why the dealer's read back and its CRCs cover all lists of the dialog;
* `FreshInv`: after the read back the copies of those lists are what the server has, until
  the user has confirmed and the CRCs are computed from them;
* `SealedInv`: the lists of the nodes that are done are intact.

### 8.5 Only model-checked

`ImplementsChannel` with services without flow control and with a late time-out (`tp_live`).
The liveness properties (`TransmissionEnds`, `RequestsArrive`, `PollEnds`,
`DialogProceeds`, `ReadEnds`, `MissedStarted`) stay with TLC: fairness and ENABLED are out of the
prover's reach. Whether a property fails (the runs that expect a violation) is for TLC to show, too.

## 9. Not modelled

* Transport on CAN: broadcast services (node identifiers by serial number) and
  frames no instance of the class sends (undefined PCI types, wrong lengths);
  `C_OscProtocolDriverOsyTpBase::ClearServiceQueues`, which nothing in the core calls.
* Protocol driver: the data of the services; tunnelled CAN messages and the router
  dispatcher; security access.
* CAN dispatcher: `CAN_Read_Msg` without a handle (nothing calls it), counters, calls of `RegisterClient` and
  `RemoveClient` that overlap with other calls.
* Time: time-outs may come early or late, but the 32 bit arithmetic on tick counts is
  left to a module of the plan.
* Parametrization: see the abstractions in 6.1. Of the data dealer, parameter sets
  and their files, `NvmSafeCheckCrcs` and the services on single elements.
* IP transport, updates and routing are planned (section 2).
* Files, XML, packages, cryptography, hashes and the rest of the user interface are data
  conversion and I/O without the interleavings a model checker is for.

Each component and the reason is in `PROJECT.json`.
