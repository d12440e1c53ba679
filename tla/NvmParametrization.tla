------------------------- MODULE NvmParametrization -------------------------
(***************************************************************************)
(* The parametrization of a system from the dashboard of the graphical tool: *)
(* a parametrization widget, C_SyvDaItPaWidgetNew, reads lists and opens the  *)
(* dialog C_SyvDaItPaWriteWidget, which writes the changed values, reads them *)
(* back, lets the user confirm them, and only then seals the lists with a CRC. *)
(* All of it uses the one thread of NvmDealer, that the other widgets of the   *)
(* dashboard use too: a request that finds it busy is remembered as missed,    *)
(* and the next missed request is started where one has finished.             *)
(*                                                                         *)
(* An action is what the user interface does with one event: a click, a tick   *)
(* of the dialog's 10 ms timer, the finished signal of the thread.  The dialog *)
(* is modal.  A click is handled when the signals posted before it have been.  *)
(***************************************************************************)
EXTENDS NvmDealer

CONSTANTS
    OtherReads,     \* lists that other widgets may read
    MaxClicks       \* bound on reads and writes started

ASSUME ParametrizationAssumption ==
    /\ OtherReads \subseteq Lists
    /\ MaxClicks \in Nat

VARIABLES
    missed,         \* mc_MissedReadNvmOperations
    reading,        \* mq_ReadActive
    awaited,        \* mc_ListIds[mu32_ListCounter - 1]
    unread,         \* the lists after it in mc_ListIds
    toWrite,        \* mc_ElementsToWriteAfterRead; empty without mq_WriteActive
    readStatus,     \* mc_EcuValuesReadStatus
    ecu,            \* mc_EcuValues
    crcStatus,      \* mc_EcuCrcValidStatus
    step,           \* me_Step of the dialog
    timer,          \* its timer runs
    pending,        \* mq_RequestPending
    todoNodes,      \* nodes from mu32_CurrentNode on
    prepared,       \* lists with elements to be changed
    invalid,        \* lists to be sealed in any case
    readNodes,      \* nodes with mc_ReadNodeValues
    actual,         \* c_Actual of mc_AllAffectedValues
    notices,        \* lists from mc_NotificationIterator on
    nested,         \* opened while the finished signal is handled
    confirmed,      \* history: the values the user has last confirmed
    disturbed,      \* history: a read has found the thread busy
    clicks

widgetVars == <<reading, awaited, unread, toWrite, readStatus, ecu, crcStatus>>
dialogVars == <<step, timer, pending, todoNodes, prepared, invalid, readNodes, actual,
                notices, nested>>
guiVars == <<missed, widgetVars, dialogVars, confirmed, disturbed, clicks>>
vars == <<dealerAll, guiVars>>

\* mc_RelevantLists and mc_AllNodeIndexes.
Relevant == prepared \cup invalid
NodesFor(lists) == {NodeOf[l] : l \in lists}

NoActual == [e \in Elements |-> NoValue]

Init ==
    /\ DealerInit
    /\ missed = {}
    /\ awaited \in Lists /\ IsFirst(awaited, Lists)
    /\ reading = FALSE /\ unread = {} /\ toWrite = {}
    /\ readStatus = {} /\ ecu = value /\ crcStatus = {}
    /\ step = "closed" /\ timer = FALSE /\ pending = FALSE /\ todoNodes = {}
    /\ prepared = {} /\ invalid = {} /\ readNodes = {} /\ actual = NoActual
    /\ notices = {} /\ nested = FALSE
    /\ confirmed = NoActual /\ disturbed = FALSE
    /\ clicks = 0

-----------------------------------------------------------------------------
(* Parts of the handlers.                                                   *)

ReadListJob(l) == Job("readlist", NodeOf[l], {l})

\* m_NvmReadList
NvmReadList(l) ==
    IF Free
    THEN Start(ReadListJob(l)) /\ UNCHANGED <<missed, disturbed>>
    ELSE missed' = missed \cup {l} /\ disturbed' = TRUE /\ UNCHANGED <<job, accept>>

\* Variant: AcceptNextRequest is forgotten where no read is missed.
StartMissedOrNothing(free, accepting) ==
    IF missed # {} /\ free
    THEN \E l \in missed :
            IsFirst(l, missed) /\ Start(ReadListJob(l)) /\ missed' = missed \ {l}
    ELSE UNCHANGED <<job, accept, missed>>

\* The end of m_HandleManualOperationFinished: the first missed read, if the
\* thread takes it.
StartMissed(free, accepting) ==
    IF missed # {} /\ free
    THEN \E l \in missed :
            IsFirst(l, missed) /\ Start(ReadListJob(l)) /\ missed' = missed \ {l}
    ELSE accept' = accepting /\ UNCHANGED <<job, missed>>

\* UpdateEcuValues, given the values queued for the widget.
ReadStatusAfter(q) == readStatus \cup {e \in Elements : q[e] # NoValue}
EcuAfter(q) == [e \in Elements |-> IF q[e] # NoValue THEN q[e] ELSE ecu[e]]
UpdateEcuValues(q) ==
    /\ readStatus' = ReadStatusAfter(q)
    /\ ecu' = EcuAfter(q)
    /\ queued' = NoActual

\* GetChangedListElementIds and GetInvalidListIds for the selected lists, where
\* set holds the set values of the widget.
ChangedElements(lists, set, read, device) ==
    {e \in ElementsOf(lists) : e \in read => device[e] # set[e]}
InvalidLists(lists, read, sealed) ==
    {l \in lists \ sealed : ElementsOf({l}) \cap read # {}}

\* m_WriteElements with changed elements ch and invalid lists inv until the
\* dialog is executed: PrepareChangedValues, m_StartWriteChangedElements.
OpenDialog(ch, inv, set, read, inHandler) ==
    LET new == ch \cap read
        lists == {ListOf[e] : e \in ch} IN
    /\ value' = [e \in Elements |-> IF e \in new THEN set[e] ELSE value[e]]
    /\ changed' = changed \cup new
    /\ step' = "eBEFOREWRITE"
    /\ timer' = TRUE
    /\ pending' = FALSE
    /\ todoNodes' = NodesFor(lists \cup inv)
    /\ prepared' = lists
    /\ invalid' = inv
    /\ readNodes' = {}
    /\ actual' = [e \in Elements |-> IF ListOf[e] \in lists \cup inv
                                      THEN value'[e] ELSE NoValue]
    /\ notices' = {}
    /\ nested' = inHandler
    /\ UNCHANGED <<valid, changedLists, copy, copyValid, readOut>>

\* The end of m_WriteElements, with RemoveValuesChangedFlag, and of the handler
\* the dialog was opened from.
DialogGone ==
    /\ changed' = changed \ ElementsOf(prepared)
    /\ IF nested THEN StartMissed(Free, accept) ELSE UNCHANGED <<job, accept, missed>>
    /\ step' = "closed" /\ timer' = FALSE /\ pending' = FALSE /\ todoNodes' = {}
    /\ prepared' = {} /\ invalid' = {} /\ readNodes' = {} /\ actual' = NoActual
    /\ notices' = {} /\ nested' = FALSE
    /\ UNCHANGED <<serverVars, value, valid, changedLists, copy, copyValid, readOut,
                   result, finished, reading, awaited, unread, toWrite, confirmed, disturbed,
                   clicks>>

\* Variant: the status of the lists is not cleared.
RejectKeepingStatus == UNCHANGED <<readStatus, crcStatus, ecu, queued>> /\ DialogGone

\* ClearEcuValues, unless nothing was sent.
Reject ==
    /\ IF step = "eBEFOREWRITE"
       THEN UNCHANGED <<readStatus, crcStatus>>
       ELSE readStatus' = {} /\ crcStatus' = {}
    /\ UNCHANGED <<ecu, queued>>
    /\ DialogGone

\* AddNewNvmValueIntoQueue for the affected values, UpdateEcuValues, SetCrcStatus.
Accept ==
    /\ UpdateEcuValues([e \in Elements |-> IF actual[e] # NoValue
                                           THEN actual[e] ELSE queued[e]])
    /\ crcStatus' = crcStatus \cup Relevant
    /\ DialogGone

-----------------------------------------------------------------------------
(* The finished signal: m_HandlePollingFinished, then                        *)
(* HandleManualOperationFinished of the widget with the result, whichever     *)
(* service it is of.                                                        *)

\* SetCrcStatus for the list the widget believes it is of.
CrcStatusAfter ==
    CASE result = "C_NO_ERR"   -> crcStatus \cup {awaited}
      [] result = "C_CHECKSUM" -> crcStatus \ {awaited}
      [] OTHER                 -> crcStatus

\* Variant: the missed reads are forgotten.
NotReadingNorMissed ==
    /\ ~reading
    /\ accept' = TRUE
    /\ UNCHANGED <<job, missed, dealerVars, queued, widgetVars, dialogVars>>

NotReading ==
    /\ ~reading
    /\ StartMissed(TRUE, TRUE)
    /\ UNCHANGED <<dealerVars, queued, widgetVars, dialogVars>>

ReadNext ==
    /\ reading /\ result # "error"
    /\ crcStatus' = CrcStatusAfter
    /\ \E l \in unread :
          /\ IsFirst(l, unread)
          /\ Start(ReadListJob(l))
          /\ awaited' = l
          /\ unread' = unread \ {l}
    /\ UNCHANGED <<dealerVars, queued, missed, reading, toWrite, readStatus, ecu,
                   dialogVars>>

\* Variant: mq_ReadActive is not reset.
ReadFailedUnnoticed ==
    /\ reading /\ result = "error"
    /\ StartMissed(TRUE, TRUE)
    /\ UNCHANGED <<dealerVars, queued, widgetVars, dialogVars>>

ReadFailed ==
    /\ reading /\ result = "error"
    /\ reading' = FALSE
    /\ toWrite' = {}
    /\ StartMissed(TRUE, TRUE)
    /\ UNCHANGED <<dealerVars, queued, awaited, unread, readStatus, ecu, crcStatus,
                   dialogVars>>

\* The last list is read; the dialog is opened from the handler if the read was
\* for a write.
ReadEnd ==
    /\ reading /\ result # "error" /\ unread = {}
    /\ reading' = FALSE
    /\ crcStatus' = CrcStatusAfter
    /\ UpdateEcuValues(queued)
    /\ toWrite' = {}
    /\ UNCHANGED <<awaited, unread>>
    /\ \E set \in [Elements -> Values] :
          LET ch == ChangedElements(toWrite, set, readStatus', ecu')
              inv == InvalidLists(toWrite, readStatus', crcStatus') IN
          IF ch \cup inv = {}
          THEN StartMissed(TRUE, TRUE) /\ UNCHANGED <<dealerVars, dialogVars>>
          ELSE /\ OpenDialog(ch, inv, set, readStatus', TRUE)
               /\ accept' = TRUE
               /\ UNCHANGED <<job, missed>>

HandlePollingFinished ==
    /\ finished
    /\ finished' = FALSE
    /\ NotReading \/ ReadNext \/ ReadFailed \/ ReadEnd
    /\ UNCHANGED <<serverVars, result, confirmed, disturbed, clicks>>

-----------------------------------------------------------------------------
(* Clicks in the dashboard, while no dialog is open.  The actions of the      *)
(* widget are disabled while it reads.                                       *)

Click ==
    /\ step = "closed"
    /\ ~finished
    /\ clicks < MaxClicks
    /\ clicks' = clicks + 1

\* m_ReadElements
ReadElements(lists) ==
    /\ reading' = TRUE
    /\ awaited' \in lists
    /\ IsFirst(awaited', lists)
    /\ unread' = lists \ {awaited'}
    /\ NvmReadList(awaited')
    /\ UNCHANGED <<serverVars, dealerVars, queued, result, finished, readStatus, ecu,
                   crcStatus, dialogVars, confirmed>>

\* m_HandleTreeReadAction
HandleTreeReadAction(lists) ==
    /\ Click
    /\ ~reading
    /\ toWrite' = {}
    /\ ReadElements(lists)

\* m_HandleWriteProcessTrigger: read the lists first if they have not been.
HandleWriteProcessTrigger(lists) ==
    /\ Click
    /\ ~reading
    /\ IF ElementsOf(lists) \subseteq readStatus
       THEN \E set \in [Elements -> Values] :
               LET ch == ChangedElements(lists, set, readStatus, ecu)
                   inv == InvalidLists(lists, readStatus, crcStatus) IN
               /\ ch \cup inv # {}
               /\ OpenDialog(ch, inv, set, readStatus, FALSE)
               /\ UNCHANGED <<serverVars, threadVars, queued, missed, widgetVars,
                              confirmed, disturbed>>
       ELSE toWrite' = lists /\ ReadElements(lists)

\* m_NvmReadList for another widget.
OtherRead ==
    /\ Click
    /\ \E l \in OtherReads : NvmReadList(l)
    /\ UNCHANGED <<serverVars, dealerVars, queued, result, finished, widgetVars,
                   dialogVars, confirmed>>

-----------------------------------------------------------------------------
(* The dialog: clicks.                                                      *)

Staying == UNCHANGED <<serverVars, dealerVars, queued, result, finished, widgetVars,
                       prepared, invalid, nested, disturbed, clicks>>

\* m_ConfirmClicked, labelled Write.
WriteClicked ==
    /\ step = "eBEFOREWRITE"
    /\ ~finished
    /\ step' = "eWRITE"
    /\ timer' = TRUE
    /\ UNCHANGED <<job, accept, missed, pending, todoNodes, readNodes, actual, notices,
                   confirmed>>
    /\ Staying

\* m_ConfirmClicked with the box "Confirmed, parameter values are valid".  The
\* values of a node without mc_ReadNodeValues are shown as errors.
ConfirmClicked ==
    /\ step = "eCONFIRM"
    /\ ~finished
    /\ step' = "eWRITECRC"
    /\ timer' = TRUE
    /\ confirmed' = [e \in Elements |-> IF NodeOf[ListOf[e]] \in readNodes
                                         THEN actual[e] ELSE NoValue]
    /\ UNCHANGED <<job, accept, missed, pending, todoNodes, readNodes, actual, notices>>
    /\ Staying

\* m_OnCancel, after the question where the code asks it.
OnCancel ==
    /\ step # "closed"
    /\ ~finished
    /\ Reject

\* m_OkClicked, shown when all lists are sealed: with notification of the
\* applications or without.
OkClicked ==
    /\ step = "eWRITECRC" /\ ~timer
    /\ ~finished
    /\ \/ Accept
       \/ \E l \in Relevant :
             /\ IsFirst(l, Relevant)
             /\ IF Free THEN Start(Job("notify", NodeOf[l], {l}))
                ELSE UNCHANGED <<job, accept>>
             /\ notices' = Relevant \ {l}
             /\ step' = "eSEND_NOTIFICATION"
             /\ timer' = TRUE
             /\ UNCHANGED <<missed, pending, todoNodes, readNodes, actual, confirmed>>
             /\ Staying

-----------------------------------------------------------------------------
(* The dialog: ticks of its timer.                                          *)

\* The request for the current node; C_BUSY is tried again with the next tick.
Request(at, svc, lists) ==
    /\ step = at /\ timer /\ ~pending
    /\ Free
    /\ \E n \in todoNodes :
          IsFirst(n, todoNodes) /\ Start(Job(svc, n, lists[n]))
    /\ pending' = TRUE
    /\ UNCHANGED <<missed, step, timer, todoNodes, readNodes, actual, notices, confirmed>>
    /\ Staying

RequestWrite == Request("eWRITE", "write", [n \in Nodes |-> invalid \cap ListsOf(n)])
RequestReadBack == Request("eREADBACK", "readback", [n \in Nodes |-> {}])
RequestCrcs == Request("eWRITECRC", "crc", [n \in Nodes |-> {}])

\* Variant: GetPollResults does not ask whether the thread runs.
AnsweredOrNot(at) == step = at /\ timer /\ pending

\* GetPollResults: the thread does not run.
Answered(at) ==
    /\ step = at /\ timer /\ pending
    /\ ~Running

\* The node is done: the next one, or the next step.
NodeDone(at, next, nextTimer) ==
    /\ Answered(at)
    /\ result = "C_NO_ERR"
    /\ pending' = FALSE
    /\ \E n \in todoNodes :
          /\ IsFirst(n, todoNodes)
          /\ IF todoNodes = {n}
             THEN /\ todoNodes' = NodesFor(Relevant)
                  /\ step' = next
                  /\ timer' = nextTimer
             ELSE /\ todoNodes' = todoNodes \ {n}
                  /\ UNCHANGED <<step, timer>>
    /\ UNCHANGED <<job, accept, missed, notices, confirmed>>
    /\ Staying

WriteDone ==
    NodeDone("eWRITE", "eREADBACK", TRUE) /\ UNCHANGED <<readNodes, actual>>

\* Variant: the user is not asked.
ReadBackDoneUnasked ==
    /\ NodeDone("eREADBACK", "eWRITECRC", TRUE)
    /\ readNodes' = readNodes \cup ({readOut} \cap todoNodes)
    /\ UNCHANGED actual

\* GetNvmSafeReadValuesOutput returns what mpc_ParamNodeValues points to; after
\* the last node m_ReadAndStoreUpdatedValues takes the values read.
ReadBackDone ==
    /\ NodeDone("eREADBACK", "eCONFIRM", FALSE)
    /\ readNodes' = readNodes \cup ({readOut} \cap todoNodes)
    /\ actual' = IF step' = "eCONFIRM"
                 THEN [e \in Elements |->
                          IF ListOf[e] \in Relevant /\ NodeOf[ListOf[e]] \in readNodes'
                          THEN copy[e] ELSE actual[e]]
                 ELSE actual

CrcsDone ==
    NodeDone("eWRITECRC", "eWRITECRC", FALSE) /\ UNCHANGED <<readNodes, actual>>

\* A service failed: m_ReportError closes the dialog.
ReportError ==
    /\ \E at \in {"eWRITE", "eREADBACK", "eWRITECRC"} : Answered(at)
    /\ result # "C_NO_ERR"
    /\ Reject

\* m_PrepareForWrite
PrepareForWrite ==
    /\ step = "eBEFOREWRITE" /\ timer
    /\ timer' = FALSE
    /\ UNCHANGED <<job, accept, missed, step, pending, todoNodes, readNodes, actual, notices,
                   confirmed>>
    /\ Staying

\* m_SendNextNotification: before the next request the finished signal, if it has
\* not been handled, is, and may start a missed read instead.
SendNextNotification ==
    /\ step = "eSEND_NOTIFICATION" /\ timer
    /\ ~Running
    /\ \/ result # "C_NO_ERR" /\ Reject
       \/ result = "C_NO_ERR" /\ notices = {} /\ Accept
       \/ /\ result = "C_NO_ERR"
          /\ finished' = FALSE
          /\ \E l \in notices :
                /\ IsFirst(l, notices)
                /\ notices' = notices \ {l}
                /\ IF finished /\ missed # {}
                   THEN StartMissed(TRUE, TRUE)
                   ELSE /\ IF finished \/ accept
                           THEN Start(Job("notify", NodeOf[l], {l}))
                           ELSE UNCHANGED <<job, accept>>
                        /\ UNCHANGED missed
          /\ UNCHANGED <<serverVars, dealerVars, queued, result, widgetVars, step, timer,
                         pending, todoNodes, prepared, invalid, readNodes, actual, nested,
                         confirmed, disturbed, clicks>>

Tick ==
    \/ RequestWrite \/ WriteDone
    \/ RequestReadBack \/ ReadBackDone
    \/ RequestCrcs \/ CrcsDone
    \/ ReportError
    \/ PrepareForWrite
    \/ SendNextNotification

-----------------------------------------------------------------------------
Selections == (SUBSET Lists) \ {{}}

ThreadStep == Thread /\ UNCHANGED guiVars

UserStep ==
    \/ \E lists \in Selections :
          HandleTreeReadAction(lists) \/ HandleWriteProcessTrigger(lists)
    \/ OtherRead
    \/ WriteClicked \/ ConfirmClicked \/ OkClicked \/ OnCancel

Next == ThreadStep \/ HandlePollingFinished \/ Tick \/ UserStep

Spec == Init /\ [][Next]_vars

\* The thread runs, and the event loop handles the signal and the timer.
FairSpec ==
    /\ Spec
    /\ WF_vars(ThreadStep)
    /\ WF_vars(HandlePollingFinished)
    /\ WF_vars(Tick)

-----------------------------------------------------------------------------
(* Properties.                                                              *)

Steps == {"closed", "eBEFOREWRITE", "eWRITE", "eREADBACK", "eCONFIRM", "eWRITECRC",
          "eSEND_NOTIFICATION"}

WidgetTypeOK ==
    /\ missed \subseteq Lists
    /\ reading \in BOOLEAN
    /\ awaited \in Lists
    /\ unread \subseteq Lists
    /\ toWrite \subseteq Lists
    /\ readStatus \subseteq Elements
    /\ ecu \in [Elements -> Values]
    /\ crcStatus \subseteq Lists

DialogTypeOK ==
    /\ step \in Steps
    /\ timer \in BOOLEAN
    /\ pending \in BOOLEAN
    /\ todoNodes \subseteq Nodes
    /\ prepared \subseteq Lists
    /\ invalid \subseteq Lists
    /\ readNodes \subseteq Nodes
    /\ actual \in [Elements -> Values \cup {NoValue}]
    /\ notices \subseteq Lists
    /\ nested \in BOOLEAN

HistoryTypeOK ==
    /\ confirmed \in [Elements -> Values \cup {NoValue}]
    /\ disturbed \in BOOLEAN
    /\ clicks \in 0 .. MaxClicks

\* Types of the state; while the widget reads no dialog is open.
TypeOK ==
    /\ DealerTypeOK /\ WidgetTypeOK /\ DialogTypeOK /\ HistoryTypeOK
    /\ reading => step = "closed"

\* A list is only sealed with what the user has confirmed, whatever fails and
\* whichever other service is executed meanwhile (NvmSafeWriteCrcs after
\* m_ConfirmClicked).
ListContents(val) == [l \in Lists |-> [e \in ElementsOf({l}) |-> val[e]]]

Seals == INSTANCE ListSeals WITH
    Keys <- Lists,
    Contents <- UNION {[ElementsOf({l}) -> Values \cup {NoValue}] : l \in Lists},
    contents <- ListContents(nvm),
    seal <- ListContents(crc),
    approved <- ListContents(confirmed)

ImplementsSeals == Seals!Spec

\* A parametrization that is reported as finished leaves every relevant list with a
\* CRC that matches its contents (m_WriteCrcOfNode, GetChangedElements).
FinishedListsIntact ==
    (step = "eWRITECRC" /\ ~timer) \/ step = "eSEND_NOTIFICATION"
        => \A l \in Relevant \cap CrcActive : Intact(l)

\* The same, as long as no read has found the thread busy, which is started in the
\* middle of the parametrization and whose result is taken for that of the service
\* before it.
UndisturbedListsIntact == ~disturbed => FinishedListsIntact

\* A list the widget shows with a valid CRC has one: a write that was given up or
\* failed has not left the old status behind (mc_EcuCrcValidStatus).
CrcStatusTrue ==
    step = "closed" /\ ~disturbed => \A l \in crcStatus \cap CrcActive : Intact(l)

\* The dialog never waits for itself: it comes to a point where it waits for the
\* user, or closes (m_Timer).
DialogProceeds ==
    timer ~> ~timer

\* A read comes to an end, and the widget's actions are enabled again (mq_ReadActive).
ReadEnds == reading ~> ~reading

\* A read that found the thread busy is started later, if no dialog keeps the user
\* busy (mc_MissedReadNvmOperations).
MissedStarted ==
    \A l \in Lists : (l \in missed /\ step = "closed") ~> (l \notin missed \/ step # "closed")
=============================================================================
