---------------------- MODULE NvmParametrizationProofs ----------------------
(***************************************************************************)
(* Type correctness of NvmParametrization, for any nodes, lists, elements     *)
(* and values and any number of clicks.                                      *)
(***************************************************************************)
EXTENDS NvmParametrization, TLAPS

-----------------------------------------------------------------------------
(* Types.                                                                   *)

LEMMA JobType ==
    ASSUME NEW svc \in Services, NEW n \in Nodes, NEW lists \in SUBSET Lists
    PROVE  Job(svc, n, lists) \in StartedJobs
  BY DEF Job, StartedJobs

LEMMA NoJobType == NoJob \in Jobs /\ NoJob.svc = "none"
  BY DEF NoJob, Jobs

LEMMA RunningType ==
    ASSUME job \in Jobs
    PROVE  Running <=> job \in StartedJobs
  BY DEF Running, Jobs, NoJob, StartedJobs, Services

LEMMA BegunType ==
    ASSUME NEW j \in StartedJobs, NEW todo \in SUBSET (Lists \cup Elements)
    PROVE  [j EXCEPT !.begun = TRUE, !.todo = todo] \in StartedJobs
  BY DEF StartedJobs

LEMMA InitTypeOK == Init => TypeOK
  <1> SUFFICES ASSUME Init PROVE TypeOK
    OBVIOUS
  <1>1. DataTypeOK
    BY DEF Init, DealerInit, DataTypeOK
  <1>2. ThreadTypeOK
    BY NoJobType DEF Init, DealerInit, ThreadTypeOK, Running, Results
  <1>3. value \in [Elements -> Values]
    BY <1>1 DEF DataTypeOK
  <1>4. NoActual \in [Elements -> Values \cup {NoValue}]
    BY DEF NoActual
  <1>5. WidgetTypeOK
    BY <1>3 DEF Init, WidgetTypeOK
  <1>6. DialogTypeOK
    BY <1>4 DEF Init, DialogTypeOK, Steps
  <1>7. HistoryTypeOK
    <2>1. clicks \in 0 .. MaxClicks
      BY ParametrizationAssumption DEF Init
    <2> QED
      BY <1>4, <2>1 DEF Init, HistoryTypeOK
  <1>8. reading => step = "closed"
    BY DEF Init
  <1> QED
    BY <1>1, <1>2, <1>5, <1>6, <1>7, <1>8 DEF TypeOK, DealerTypeOK

LEMMA EndType ==
    ASSUME ThreadTypeOK, Running, NEW r \in Results, End(r)
    PROVE  ThreadTypeOK'
  BY NoJobType DEF ThreadTypeOK, End, Running

LEMMA BeginType ==
    ASSUME ThreadTypeOK, Running, NEW todo \in SUBSET (Lists \cup Elements), Begin(todo)
    PROVE  ThreadTypeOK' /\ Running'
  <1>1. job' \in StartedJobs
    BY BegunType, RunningType DEF ThreadTypeOK, Begin
  <1>2. job' \in Jobs
    BY <1>1 DEF Jobs
  <1>3. job'.svc # "none"
    BY <1>1 DEF StartedJobs, Services
  <1> QED
    BY <1>2, <1>3 DEF ThreadTypeOK, Begin, Running

LEMMA StartType ==
    ASSUME ThreadTypeOK, ~Running, NEW j \in StartedJobs, Start(j),
           UNCHANGED result, finished' = FALSE
    PROVE  ThreadTypeOK' /\ Running'
  <1>1. j \in Jobs /\ j.svc # "none"
    BY DEF Jobs, StartedJobs, Services
  <1> QED
    BY <1>1 DEF ThreadTypeOK, Start, Running

LEMMA ThreadTypeKept ==
    ASSUME ThreadTypeOK, UNCHANGED threadVars
    PROVE  ThreadTypeOK'
  BY DEF ThreadTypeOK, threadVars, Running

-----------------------------------------------------------------------------
(* Types: the thread.                                                       *)

\* The job that is being executed.
LEMMA ExecutedType ==
    ASSUME ThreadTypeOK, NEW svc \in Services, job.svc = svc
    PROVE  /\ Running
           /\ job \in StartedJobs
           /\ job.node \in Nodes
           /\ job.lists \subseteq Lists
           /\ job.todo \subseteq Lists \cup Elements
  <1>1. Running
    BY DEF Running, Services
  <1>2. job \in StartedJobs
    BY <1>1, RunningType DEF ThreadTypeOK
  <1> QED
    BY <1>1, <1>2 DEF StartedJobs

LEMMA WriteTypes ==
    ASSUME DataTypeOK, ThreadTypeOK, WriteBegin \/ WriteElement \/ WriteEnd
    PROVE  DataTypeOK' /\ ThreadTypeOK'
  <1> "write" \in Services
    BY DEF Services
  <1>1. CASE WriteBegin
    <2>1. /\ Running /\ job.node \in Nodes /\ job.lists \subseteq Lists
      BY <1>1, ExecutedType DEF WriteBegin, Executes
    <2>2. DataTypeOK'
      BY <1>1, <2>1 DEF WriteBegin, DataTypeOK, serverVars
    <2>3. ThreadTypeOK'
      BY <1>1, <2>1, EndType, BeginType DEF WriteBegin, Results, ElementsOf
    <2> QED
      BY <2>2, <2>3
  <1>2. CASE WriteElement
    <2>1. PICK e \in job.todo :
            /\ e \in changed
            /\ \/ /\ nvm' = [nvm EXCEPT ![e] = value[e]]
                  /\ changed' = changed \ {e}
                  /\ changedLists' = [changedLists EXCEPT ![job.node] = @ \cup {ListOf[e]}]
                  /\ Begin({x \in job.todo : x > e})
               \/ /\ nvm' \in {nvm, [nvm EXCEPT ![e] = value[e]]}
                  /\ End("error")
                  /\ UNCHANGED <<changed, changedLists>>
            /\ UNCHANGED <<crc, value, valid, copy, copyValid, readOut, queued>>
      BY <1>2 DEF WriteElement, IsFirst
    <2>2. /\ Running /\ job.node \in Nodes /\ job.todo \subseteq Lists \cup Elements
      BY <1>2, ExecutedType DEF WriteElement, Executes
    <2>3. e \in Elements /\ ListOf[e] \in Lists
      BY <2>1, DealerAssumption DEF DataTypeOK
    <2>4. DataTypeOK'
      BY <2>1, <2>2, <2>3 DEF DataTypeOK
    <2>5. ThreadTypeOK'
      BY <2>1, <2>2, EndType, BeginType DEF Results
    <2> QED
      BY <2>4, <2>5
  <1>3. CASE WriteEnd
    <2>1. Running
      BY <1>3, ExecutedType DEF WriteEnd, Executes
    <2> QED
      BY <1>3, <2>1, EndType DEF WriteEnd, DataTypeOK, serverVars, dealerVars, Results
  <1> QED
    BY <1>1, <1>2, <1>3

LEMMA ReadBackTypes ==
    ASSUME DataTypeOK, ThreadTypeOK, ReadBackBegin \/ ReadBackList \/ ReadBackEnd
    PROVE  DataTypeOK' /\ ThreadTypeOK'
  <1> "readback" \in Services
    BY DEF Services
  <1>1. Running /\ job.node \in Nodes
    BY ExecutedType DEF ReadBackBegin, ReadBackList, ReadBackEnd, Executes
  <1>2. CASE ReadBackBegin
    <2>1. DataTypeOK'
      BY <1>1, <1>2 DEF ReadBackBegin, DataTypeOK, serverVars
    <2>2. ThreadTypeOK'
      BY <1>1, <1>2, EndType, BeginType DEF ReadBackBegin, Results, DataTypeOK
    <2> QED
      BY <2>1, <2>2
  <1>3. CASE ReadBackList
    <2>1. job.todo \subseteq Lists \cup Elements
      BY <1>3, ExecutedType DEF ReadBackList, Executes
    <2>2. DataTypeOK'
      BY <1>3 DEF ReadBackList, DataTypeOK, serverVars, ElementsOf
    <2>3. ThreadTypeOK'
      BY <1>1, <1>3, <2>1, EndType, BeginType DEF ReadBackList, Results
    <2> QED
      BY <2>2, <2>3
  <1>4. CASE ReadBackEnd
    BY <1>1, <1>4, EndType DEF ReadBackEnd, DataTypeOK, serverVars, Results
  <1> QED
    BY <1>2, <1>3, <1>4

LEMMA CrcTypes ==
    ASSUME DataTypeOK, ThreadTypeOK, CrcBegin \/ CrcList \/ CrcEnd
    PROVE  DataTypeOK' /\ ThreadTypeOK'
  <1> "crc" \in Services
    BY DEF Services
  <1>1. Running /\ job.node \in Nodes
    BY ExecutedType DEF CrcBegin, CrcList, CrcEnd, Executes
  <1>2. CASE CrcBegin
    <2>1. DataTypeOK'
      BY <1>2 DEF CrcBegin, DataTypeOK, serverVars, dealerVars
    <2>2. ThreadTypeOK'
      BY <1>1, <1>2, EndType, BeginType DEF CrcBegin, Results, DataTypeOK
    <2> QED
      BY <2>1, <2>2
  <1>3. CASE CrcList
    <2>1. job.todo \subseteq Lists \cup Elements
      BY <1>3, ExecutedType DEF CrcList, Executes
    <2>2. DataTypeOK'
      BY <1>3 DEF CrcList, DataTypeOK, dealerVars
    <2>3. ThreadTypeOK'
      BY <1>1, <1>3, <2>1, EndType, BeginType DEF CrcList, Results
    <2> QED
      BY <2>2, <2>3
  <1>4. CASE CrcEnd
    BY <1>1, <1>4, EndType DEF CrcEnd, DataTypeOK, serverVars, dealerVars, Results
  <1> QED
    BY <1>2, <1>3, <1>4

LEMMA OtherServiceTypes ==
    ASSUME DataTypeOK, ThreadTypeOK, ReadList \/ Notify
    PROVE  DataTypeOK' /\ ThreadTypeOK'
  <1>1. Running
    BY DEF ReadList, Notify, Running
  <1>2. CASE ReadList
    <2>1. DataTypeOK'
      BY <1>2 DEF ReadList, DataTypeOK, serverVars, ElementsOf
    <2>2. ThreadTypeOK'
      BY <1>1, <1>2, EndType DEF ReadList, Results
    <2> QED
      BY <2>1, <2>2
  <1>3. CASE Notify
    BY <1>1, <1>3, EndType DEF Notify, DataTypeOK, serverVars, dealerVars, Results
  <1> QED
    BY <1>2, <1>3

LEMMA ThreadTypes ==
    ASSUME TypeOK, ThreadStep
    PROVE  TypeOK'
  <1>1. DataTypeOK' /\ ThreadTypeOK'
    BY WriteTypes, ReadBackTypes, CrcTypes, OtherServiceTypes
       DEF TypeOK, DealerTypeOK, ThreadStep, Thread
  <1>2. UNCHANGED guiVars
    BY DEF ThreadStep
  <1>3. WidgetTypeOK' /\ DialogTypeOK' /\ HistoryTypeOK' /\ (reading => step = "closed")'
    BY <1>2 DEF TypeOK, WidgetTypeOK, DialogTypeOK, HistoryTypeOK, guiVars, widgetVars, dialogVars
  <1> QED
    BY <1>1, <1>3 DEF TypeOK, DealerTypeOK

-----------------------------------------------------------------------------
(* Types: the parts of the handlers.                                        *)

LEMMA ReadListJobType ==
    ASSUME NEW l \in Lists
    PROVE  ReadListJob(l) \in StartedJobs
  BY JobType, DealerAssumption DEF ReadListJob, Services

\* A missed read is started, or accept is set, where no service is executed.
LEMMA MissedTypes ==
    ASSUME ThreadTypeOK, missed \subseteq Lists,
           NEW free \in BOOLEAN, NEW accepting \in BOOLEAN, StartMissed(free, accepting),
           free => ~Running, UNCHANGED result,
           \/ ~Running /\ finished' = FALSE
           \/ UNCHANGED finished /\ (free => ~finished) /\ accepting = accept
    PROVE  ThreadTypeOK' /\ missed' \subseteq Lists
  <1>1. CASE missed # {} /\ free
    <2>1. PICK l \in missed : Start(ReadListJob(l)) /\ missed' = missed \ {l}
      BY <1>1 DEF StartMissed
    <2>2. finished' = FALSE
      BY <1>1 DEF ThreadTypeOK
    <2>3. ~Running
      BY <1>1
    <2> QED
      BY <2>1, <2>2, <2>3, ReadListJobType, StartType
  <1>2. CASE ~(missed # {} /\ free)
    <2>1. accept' = accepting /\ UNCHANGED <<job, missed>>
      BY <1>2 DEF StartMissed
    <2>2. finished' \in BOOLEAN /\ (finished' => ~Running /\ ~accepting)
      <3>1. CASE finished' = FALSE
        BY <3>1
      <3>2. CASE UNCHANGED finished /\ accepting = accept
        BY <3>2 DEF ThreadTypeOK
      <3> QED
        BY <3>1, <3>2
    <2>3. Running => ~accepting
      BY DEF ThreadTypeOK
    <2> QED
      BY <2>1, <2>2, <2>3 DEF ThreadTypeOK, Running
  <1> QED
    BY <1>1, <1>2

LEMMA UpdateTypes ==
    ASSUME WidgetTypeOK, NEW q \in [Elements -> Values \cup {NoValue}], UpdateEcuValues(q)
    PROVE  /\ readStatus' \subseteq Elements
           /\ ecu' \in [Elements -> Values]
           /\ queued' \in [Elements -> Values \cup {NoValue}]
  BY DEF UpdateEcuValues, ReadStatusAfter, EcuAfter, NoActual, WidgetTypeOK

LEMMA OpenDialogTypes ==
    ASSUME DataTypeOK, NEW ch \in SUBSET Elements, NEW inv \in SUBSET Lists,
           NEW set \in [Elements -> Values], NEW read, NEW inHandler \in BOOLEAN,
           OpenDialog(ch, inv, set, read, inHandler),
           UNCHANGED serverVars, queued' \in [Elements -> Values \cup {NoValue}]
    PROVE  DataTypeOK' /\ DialogTypeOK'
  <1>1. value' \in [Elements -> Values]
    BY DEF OpenDialog, DataTypeOK
  <1>2. actual' \in [Elements -> Values \cup {NoValue}]
    BY <1>1 DEF OpenDialog
  <1>3. DataTypeOK'
    BY <1>1 DEF OpenDialog, DataTypeOK, serverVars
  <1>4. prepared' \subseteq Lists /\ invalid' \subseteq Lists /\ todoNodes' \subseteq Nodes
    <2> DEFINE lists == {ListOf[e] : e \in ch}
    <2>1. lists \subseteq Lists
      BY DealerAssumption
    <2>2. prepared' = lists /\ invalid' = inv /\ todoNodes' = NodesFor(lists \cup inv)
      BY DEF OpenDialog
    <2> HIDE DEF lists
    <2>3. NodesFor(lists \cup inv) \subseteq Nodes
      BY <2>1, DealerAssumption DEF NodesFor
    <2> QED
      BY <2>1, <2>2, <2>3
  <1>5. step' \in Steps /\ timer' \in BOOLEAN /\ pending' \in BOOLEAN /\ nested' \in BOOLEAN
    BY DEF OpenDialog, Steps
  <1>6. readNodes' \subseteq Nodes /\ notices' \subseteq Lists
    BY DEF OpenDialog
  <1> QED
    BY <1>2, <1>3, <1>4, <1>5, <1>6 DEF DialogTypeOK

LEMMA DialogGoneTypes ==
    ASSUME TypeOK, DialogGone, step # "closed",
           readStatus' \subseteq Elements, ecu' \in [Elements -> Values],
           crcStatus' \subseteq Lists, queued' \in [Elements -> Values \cup {NoValue}]
    PROVE  TypeOK'
  <1>1. DataTypeOK'
    BY DEF DialogGone, TypeOK, DealerTypeOK, DataTypeOK, serverVars
  <1>2. ThreadTypeOK' /\ missed' \subseteq Lists
    <2>1. ThreadTypeOK /\ missed \subseteq Lists /\ accept \in BOOLEAN /\ UNCHANGED <<result, finished>>
      BY DEF TypeOK, DealerTypeOK, ThreadTypeOK, WidgetTypeOK, DialogGone
    <2>2. Free \in BOOLEAN /\ (Free => ~Running) /\ (Free => ~finished)
      BY <2>1 DEF Free, ThreadTypeOK, Running
    <2>3. CASE nested
      <3>1. StartMissed(Free, accept)
        BY <2>3 DEF DialogGone
      <3> QED
        BY <2>1, <2>2, <3>1, MissedTypes
    <2>4. CASE ~nested
      BY <2>1, <2>4, ThreadTypeKept DEF DialogGone, threadVars
    <2> QED
      BY <2>3, <2>4
  <1>3. WidgetTypeOK'
    BY <1>2 DEF DialogGone, TypeOK, WidgetTypeOK
  <1>4. DialogTypeOK'
    BY DEF DialogGone, DialogTypeOK, Steps, NoActual
  <1>5. HistoryTypeOK' /\ (reading => step = "closed")'
    BY DEF DialogGone, TypeOK, HistoryTypeOK
  <1> QED
    BY <1>1, <1>2, <1>3, <1>4, <1>5 DEF TypeOK, DealerTypeOK

LEMMA RejectTypes ==
    ASSUME TypeOK, Reject, step # "closed"
    PROVE  TypeOK'
  <1>1. readStatus' \subseteq Elements /\ crcStatus' \subseteq Lists
    BY DEF Reject, TypeOK, WidgetTypeOK
  <1>2. ecu' \in [Elements -> Values] /\ queued' \in [Elements -> Values \cup {NoValue}]
    BY DEF Reject, TypeOK, WidgetTypeOK, DealerTypeOK, DataTypeOK
  <1> QED
    BY <1>1, <1>2, DialogGoneTypes DEF Reject

LEMMA AcceptTypes ==
    ASSUME TypeOK, Accept, step # "closed"
    PROVE  TypeOK'
  <1>1. [e \in Elements |-> IF actual[e] # NoValue THEN actual[e] ELSE queued[e]]
            \in [Elements -> Values \cup {NoValue}]
    BY DEF TypeOK, DialogTypeOK, DealerTypeOK, DataTypeOK
  <1>2. /\ readStatus' \subseteq Elements
        /\ ecu' \in [Elements -> Values]
        /\ queued' \in [Elements -> Values \cup {NoValue}]
    BY <1>1, UpdateTypes DEF Accept, TypeOK
  <1>3. crcStatus' \subseteq Lists
    BY DEF Accept, Relevant, TypeOK, WidgetTypeOK, DialogTypeOK
  <1> QED
    BY <1>2, <1>3, DialogGoneTypes DEF Accept

-----------------------------------------------------------------------------
(* Types: the finished signal.                                              *)

LEMMA CrcStatusType ==
    ASSUME WidgetTypeOK
    PROVE  CrcStatusAfter \subseteq Lists
  <1>1. CASE result = "C_NO_ERR"
    BY <1>1 DEF CrcStatusAfter, WidgetTypeOK
  <1>2. CASE result = "C_CHECKSUM"
    BY <1>2 DEF CrcStatusAfter, WidgetTypeOK
  <1>3. CASE result # "C_NO_ERR" /\ result # "C_CHECKSUM"
    BY <1>3 DEF CrcStatusAfter, WidgetTypeOK
  <1> QED
    BY <1>1, <1>2, <1>3

LEMMA FinishedTypes ==
    ASSUME TypeOK, HandlePollingFinished
    PROVE  TypeOK'
  <1>1. /\ ThreadTypeOK /\ missed \subseteq Lists /\ ~Running
        /\ finished' = FALSE /\ UNCHANGED <<serverVars, result, confirmed, disturbed, clicks>>
    BY DEF HandlePollingFinished, TypeOK, DealerTypeOK, ThreadTypeOK, WidgetTypeOK
  <1>2. HistoryTypeOK'
    BY <1>1 DEF TypeOK, HistoryTypeOK
  <1>3. ASSUME StartMissed(TRUE, TRUE)
        PROVE  ThreadTypeOK' /\ missed' \subseteq Lists
    BY <1>1, <1>3, MissedTypes
  <1>4. ASSUME UNCHANGED <<dealerVars, queued>>
        PROVE  DataTypeOK'
    BY <1>1, <1>4 DEF TypeOK, DealerTypeOK, DataTypeOK, serverVars, dealerVars
  <1>5. ASSUME UNCHANGED dialogVars
        PROVE  DialogTypeOK' /\ UNCHANGED step
    BY <1>5 DEF TypeOK, DialogTypeOK, dialogVars
  <1>6. CASE NotReading
    <2>1. WidgetTypeOK' /\ UNCHANGED reading
      BY <1>3, <1>6 DEF NotReading, TypeOK, WidgetTypeOK, widgetVars
    <2> QED
      BY <1>2, <1>3, <1>4, <1>5, <1>6, <2>1 DEF NotReading, TypeOK, DealerTypeOK
  <1>7. CASE ReadNext
    <2>1. PICK l \in unread : /\ Start(ReadListJob(l)) /\ awaited' = l
                              /\ unread' = unread \ {l}
      BY <1>7 DEF ReadNext
    <2>2. l \in Lists
      BY DEF TypeOK, WidgetTypeOK
    <2>3. ThreadTypeOK'
      BY <1>1, <2>1, <2>2, ReadListJobType, StartType
    <2>4. WidgetTypeOK' /\ UNCHANGED reading
      BY <1>7, <2>1, <2>2, CrcStatusType DEF ReadNext, TypeOK, WidgetTypeOK
    <2> QED
      BY <1>2, <1>4, <1>5, <1>7, <2>3, <2>4 DEF ReadNext, TypeOK, DealerTypeOK
  <1>8. CASE ReadFailed
    <2>1. WidgetTypeOK' /\ ~reading'
      BY <1>3, <1>8 DEF ReadFailed, TypeOK, WidgetTypeOK
    <2> QED
      BY <1>2, <1>3, <1>4, <1>5, <1>8, <2>1 DEF ReadFailed, TypeOK, DealerTypeOK
  <1>9. CASE ReadEnd
    <2>1. queued \in [Elements -> Values \cup {NoValue}]
      BY DEF TypeOK, DealerTypeOK, DataTypeOK
    <2>2. /\ readStatus' \subseteq Elements
          /\ ecu' \in [Elements -> Values]
          /\ queued' \in [Elements -> Values \cup {NoValue}]
      BY <1>9, <2>1, UpdateTypes DEF ReadEnd, TypeOK
    <2>3. crcStatus' \subseteq Lists
      BY <1>9, CrcStatusType DEF ReadEnd, TypeOK
    <2>4. ASSUME missed' \subseteq Lists
          PROVE  WidgetTypeOK' /\ ~reading'
      BY <1>9, <2>2, <2>3, <2>4 DEF ReadEnd, TypeOK, WidgetTypeOK
    <2>5. PICK set \in [Elements -> Values] :
            LET ch == ChangedElements(toWrite, set, readStatus', ecu')
                inv == InvalidLists(toWrite, readStatus', crcStatus') IN
            IF ch \cup inv = {}
            THEN StartMissed(TRUE, TRUE) /\ UNCHANGED <<dealerVars, dialogVars>>
            ELSE /\ OpenDialog(ch, inv, set, readStatus', TRUE)
                 /\ accept' = TRUE
                 /\ UNCHANGED <<job, missed>>
      BY <1>9 DEF ReadEnd
    <2> DEFINE ch == ChangedElements(toWrite, set, readStatus', ecu')
               inv == InvalidLists(toWrite, readStatus', crcStatus')
    <2>6. ch \in SUBSET Elements /\ inv \in SUBSET Lists
      BY DEF ChangedElements, InvalidLists, ElementsOf, TypeOK, WidgetTypeOK
    <2> HIDE DEF ch, inv
    <2>7. CASE ch \cup inv = {}
      <3>1. StartMissed(TRUE, TRUE) /\ UNCHANGED <<dealerVars, dialogVars>>
        BY <2>5, <2>7 DEF ch, inv
      <3>2. DataTypeOK'
        BY <1>1, <2>2, <3>1 DEF TypeOK, DealerTypeOK, DataTypeOK, serverVars, dealerVars
      <3> QED
        BY <1>2, <1>3, <1>5, <2>4, <3>1, <3>2 DEF TypeOK, DealerTypeOK
    <2>8. CASE ch \cup inv # {}
      <3>1. OpenDialog(ch, inv, set, readStatus', TRUE) /\ accept' = TRUE /\ UNCHANGED <<job, missed>>
        BY <2>5, <2>8 DEF ch, inv
      <3>2. DataTypeOK' /\ DialogTypeOK'
        BY <1>1, <2>2, <2>6, <3>1, OpenDialogTypes DEF TypeOK, DealerTypeOK
      <3>3. ThreadTypeOK'
        BY <1>1, <3>1 DEF ThreadTypeOK, Running
      <3> QED
        BY <1>1, <1>2, <2>4, <3>1, <3>2, <3>3 DEF TypeOK, DealerTypeOK
    <2> QED
      BY <2>7, <2>8
  <1> QED
    BY <1>6, <1>7, <1>8, <1>9 DEF HandlePollingFinished

-----------------------------------------------------------------------------
(* Types: the dashboard.                                                    *)

LEMMA ClickTypes ==
    ASSUME TypeOK, Click
    PROVE  clicks' \in 0 .. MaxClicks
  BY ParametrizationAssumption DEF Click, TypeOK, HistoryTypeOK

LEMMA NvmReadListTypes ==
    ASSUME TypeOK, NEW l \in Lists, NvmReadList(l), UNCHANGED <<result, finished>>
    PROVE  ThreadTypeOK' /\ missed' \subseteq Lists /\ disturbed' \in BOOLEAN
  <1> USE DEF TypeOK, DealerTypeOK, WidgetTypeOK, HistoryTypeOK
  <1>1. CASE Free
    <2>1. ~Running /\ finished' = FALSE
      BY <1>1 DEF Free, ThreadTypeOK
    <2>2. Start(ReadListJob(l)) /\ UNCHANGED <<missed, disturbed>>
      BY <1>1 DEF NvmReadList
    <2>3. ThreadTypeOK'
      BY <2>1, <2>2, ReadListJobType, StartType
    <2> QED
      BY <2>2, <2>3
  <1>2. CASE ~Free
    <2>1. missed' = missed \cup {l} /\ disturbed' = TRUE /\ UNCHANGED threadVars
      BY <1>2 DEF NvmReadList, threadVars
    <2> QED
      BY <2>1, ThreadTypeKept
  <1> QED
    BY <1>1, <1>2

LEMMA ReadElementsTypes ==
    ASSUME TypeOK, Click, NEW lists \in Selections, ReadElements(lists), toWrite' \subseteq Lists
    PROVE  TypeOK'
  <1>1. awaited' \in Lists /\ unread' \subseteq Lists /\ lists \subseteq Lists
    BY DEF ReadElements, Selections
  <1>2. ThreadTypeOK' /\ missed' \subseteq Lists /\ disturbed' \in BOOLEAN
    BY <1>1, NvmReadListTypes DEF ReadElements
  <1>3. DataTypeOK'
    BY DEF ReadElements, TypeOK, DealerTypeOK, DataTypeOK, serverVars, dealerVars
  <1>4. WidgetTypeOK' /\ DialogTypeOK'
    BY <1>1, <1>2 DEF ReadElements, TypeOK, WidgetTypeOK, DialogTypeOK, dialogVars
  <1>5. HistoryTypeOK'
    BY <1>2, ClickTypes DEF ReadElements, TypeOK, HistoryTypeOK
  <1>6. step' = "closed"
    BY DEF ReadElements, dialogVars, Click
  <1> QED
    BY <1>2, <1>3, <1>4, <1>5, <1>6 DEF TypeOK, DealerTypeOK

LEMMA WriteTriggerTypes ==
    ASSUME TypeOK, NEW lists \in Selections, HandleWriteProcessTrigger(lists)
    PROVE  TypeOK'
  <1>1. Click /\ ~reading /\ lists \subseteq Lists
    BY DEF HandleWriteProcessTrigger, Selections
  <1>2. CASE ElementsOf(lists) \subseteq readStatus
    <2> DEFINE ch(set) == ChangedElements(lists, set, readStatus, ecu)
               inv == InvalidLists(lists, readStatus, crcStatus)
    <2>1. PICK set \in [Elements -> Values] :
            /\ OpenDialog(ch(set), inv, set, readStatus, FALSE)
            /\ UNCHANGED <<serverVars, threadVars, queued, missed, widgetVars,
                           confirmed, disturbed>>
      BY <1>2 DEF HandleWriteProcessTrigger
    <2>2. ch(set) \in SUBSET Elements /\ inv \in SUBSET Lists
      BY <1>1 DEF ChangedElements, InvalidLists, ElementsOf
    <2> HIDE DEF ch, inv
    <2>3. DataTypeOK' /\ DialogTypeOK'
      <3>1. queued' \in [Elements -> Values \cup {NoValue}]
        BY <2>1 DEF TypeOK, DealerTypeOK, DataTypeOK
      <3> QED
        BY <2>1, <2>2, <3>1, OpenDialogTypes DEF TypeOK, DealerTypeOK
    <2>4. ThreadTypeOK'
      BY <2>1, ThreadTypeKept DEF TypeOK, DealerTypeOK
    <2>5. WidgetTypeOK' /\ ~reading'
      BY <1>1, <2>1 DEF TypeOK, WidgetTypeOK, widgetVars
    <2>6. HistoryTypeOK'
      BY <1>1, <2>1, ClickTypes DEF TypeOK, HistoryTypeOK
    <2> QED
      BY <2>3, <2>4, <2>5, <2>6 DEF TypeOK, DealerTypeOK
  <1>3. CASE ~(ElementsOf(lists) \subseteq readStatus)
    BY <1>1, <1>3, ReadElementsTypes DEF HandleWriteProcessTrigger
  <1> QED
    BY <1>2, <1>3

LEMMA OtherReadTypes ==
    ASSUME TypeOK, OtherRead
    PROVE  TypeOK'
  <1>1. PICK l \in OtherReads : NvmReadList(l)
    BY DEF OtherRead
  <1>2. l \in Lists
    BY ParametrizationAssumption
  <1>3. ThreadTypeOK' /\ missed' \subseteq Lists /\ disturbed' \in BOOLEAN
    BY <1>1, <1>2, NvmReadListTypes DEF OtherRead
  <1>4. DataTypeOK'
    BY DEF OtherRead, TypeOK, DealerTypeOK, DataTypeOK, serverVars, dealerVars
  <1>5. WidgetTypeOK' /\ DialogTypeOK' /\ (reading => step = "closed")'
    BY <1>3 DEF OtherRead, TypeOK, WidgetTypeOK, DialogTypeOK, widgetVars, dialogVars
  <1>6. HistoryTypeOK'
    BY <1>3, ClickTypes DEF OtherRead, TypeOK, HistoryTypeOK
  <1> QED
    BY <1>3, <1>4, <1>5, <1>6 DEF TypeOK, DealerTypeOK

-----------------------------------------------------------------------------
(* Types: the dialog.                                                       *)

\* A step that stays in the dialog changes little.
LEMMA StayingTypes ==
    ASSUME TypeOK, Staying, step # "closed", step' \in Steps, UNCHANGED missed,
           timer' \in BOOLEAN, pending' \in BOOLEAN, todoNodes' \subseteq Nodes,
           readNodes' \subseteq Nodes, actual' \in [Elements -> Values \cup {NoValue}],
           notices' \subseteq Lists, confirmed' \in [Elements -> Values \cup {NoValue}],
           ThreadTypeOK'
    PROVE  TypeOK'
  <1>1. DataTypeOK'
    BY DEF Staying, TypeOK, DealerTypeOK, DataTypeOK, serverVars, dealerVars
  <1>2. WidgetTypeOK' /\ ~reading'
    BY DEF Staying, TypeOK, WidgetTypeOK, widgetVars
  <1>3. DialogTypeOK' /\ HistoryTypeOK'
    BY DEF Staying, TypeOK, DialogTypeOK, HistoryTypeOK
  <1> QED
    BY <1>1, <1>2, <1>3 DEF TypeOK, DealerTypeOK

\* The thread when nothing is started.
LEMMA NotStartedTypes ==
    ASSUME TypeOK, Staying, UNCHANGED <<job, accept>>
    PROVE  ThreadTypeOK'
  BY ThreadTypeKept DEF Staying, TypeOK, DealerTypeOK, threadVars

\* The thread when a service is started.
LEMMA FreeStartTypes ==
    ASSUME TypeOK, UNCHANGED <<result, finished>>, Free, NEW j \in StartedJobs, Start(j)
    PROVE  ThreadTypeOK'
  <1>1. ThreadTypeOK /\ ~Running /\ finished' = FALSE
    BY DEF TypeOK, DealerTypeOK, ThreadTypeOK, Free
  <1> QED
    BY <1>1, StartType

LEMMA DialogClickTypes ==
    ASSUME TypeOK, WriteClicked \/ ConfirmClicked \/ OkClicked \/ OnCancel
    PROVE  TypeOK'
  <1>1. CASE WriteClicked
    BY <1>1, StayingTypes, NotStartedTypes
       DEF WriteClicked, Steps, TypeOK, DialogTypeOK, HistoryTypeOK, WidgetTypeOK
  <1>2. CASE ConfirmClicked
    <2>1. confirmed' \in [Elements -> Values \cup {NoValue}]
      BY <1>2 DEF ConfirmClicked, TypeOK, DialogTypeOK
    <2> QED
      BY <1>2, <2>1, StayingTypes, NotStartedTypes
         DEF ConfirmClicked, Steps, TypeOK, DialogTypeOK
  <1>3. CASE OnCancel
    BY <1>3, RejectTypes DEF OnCancel
  <1>4. CASE OkClicked /\ Accept
    BY <1>4, AcceptTypes DEF OkClicked
  <1>5. CASE OkClicked /\ ~Accept
    <2>1. PICK l \in Relevant :
             /\ IF Free THEN Start(Job("notify", NodeOf[l], {l}))
                ELSE UNCHANGED <<job, accept>>
             /\ notices' = Relevant \ {l}
             /\ step' = "eSEND_NOTIFICATION"
             /\ timer' = TRUE
             /\ UNCHANGED <<missed, pending, todoNodes, readNodes, actual, confirmed>>
             /\ Staying
      BY <1>5 DEF OkClicked
    <2>2. Relevant \subseteq Lists /\ l \in Lists
      BY DEF Relevant, TypeOK, DialogTypeOK
    <2>3. Job("notify", NodeOf[l], {l}) \in StartedJobs
      BY <2>2, JobType, DealerAssumption DEF Services
    <2>4. ThreadTypeOK'
      BY <2>1, <2>3, FreeStartTypes, NotStartedTypes DEF Staying
    <2>5. step # "closed" /\ step' \in Steps
      BY <1>5, <2>1 DEF OkClicked, Steps
    <2> QED
      BY <2>1, <2>2, <2>4, <2>5, StayingTypes DEF TypeOK, DialogTypeOK, HistoryTypeOK
  <1> QED
    BY <1>1, <1>2, <1>3, <1>4, <1>5

LEMMA RequestTypes ==
    ASSUME TypeOK, NEW at, at # "closed", NEW svc \in Services,
           NEW lists \in [Nodes -> SUBSET Lists], Request(at, svc, lists)
    PROVE  TypeOK'
  <1>1. PICK n \in todoNodes : Start(Job(svc, n, lists[n]))
    BY DEF Request
  <1>2. n \in Nodes
    BY DEF TypeOK, DialogTypeOK
  <1>3. Job(svc, n, lists[n]) \in StartedJobs
    BY <1>2, JobType
  <1>4. ThreadTypeOK'
    BY <1>1, <1>3, FreeStartTypes DEF Request, Staying
  <1> QED
    BY <1>4, StayingTypes DEF Request, TypeOK, DialogTypeOK, HistoryTypeOK

LEMMA NodeDoneTypes ==
    ASSUME TypeOK, NEW at, at # "closed", NEW next \in Steps, NEW nextTimer \in BOOLEAN,
           NodeDone(at, next, nextTimer), readNodes' \subseteq Nodes,
           actual' \in [Elements -> Values \cup {NoValue}]
    PROVE  TypeOK'
  <1>1. PICK n \in todoNodes :
          IF todoNodes = {n}
          THEN /\ todoNodes' = NodesFor(Relevant)
               /\ step' = next
               /\ timer' = nextTimer
          ELSE /\ todoNodes' = todoNodes \ {n}
               /\ UNCHANGED <<step, timer>>
    BY DEF NodeDone
  <1>2. NodesFor(Relevant) \subseteq Nodes /\ todoNodes \subseteq Nodes
    BY DealerAssumption DEF NodesFor, Relevant, TypeOK, DialogTypeOK
  <1>3. todoNodes' \subseteq Nodes /\ step' \in Steps /\ timer' \in BOOLEAN
    <2>1. CASE todoNodes = {n}
      BY <1>1, <1>2, <2>1
    <2>2. CASE todoNodes # {n}
      BY <1>1, <1>2, <2>2 DEF TypeOK, DialogTypeOK
    <2> QED
      BY <2>1, <2>2
  <1>4. ThreadTypeOK'
    BY NotStartedTypes DEF NodeDone
  <1>5. step # "closed"
    BY DEF NodeDone, Answered
  <1> QED
    BY <1>3, <1>4, <1>5, StayingTypes DEF NodeDone, TypeOK, DialogTypeOK, HistoryTypeOK

LEMMA NotificationTypes ==
    ASSUME TypeOK, SendNextNotification
    PROVE  TypeOK'
  <1>1. step = "eSEND_NOTIFICATION" /\ ~Running
    BY DEF SendNextNotification
  <1>2. CASE Reject
    BY <1>1, <1>2, RejectTypes
  <1>3. CASE Accept
    BY <1>1, <1>3, AcceptTypes
  <1>4. CASE ~Reject /\ ~Accept
    <2>1. /\ finished' = FALSE
          /\ UNCHANGED <<serverVars, dealerVars, queued, result, widgetVars, step, timer,
                         pending, todoNodes, prepared, invalid, readNodes, actual, nested,
                         confirmed, disturbed, clicks>>
          /\ \E l \in notices :
                /\ notices' = notices \ {l}
                /\ IF finished /\ missed # {}
                   THEN StartMissed(TRUE, TRUE)
                   ELSE /\ IF finished \/ accept
                           THEN Start(Job("notify", NodeOf[l], {l}))
                           ELSE UNCHANGED <<job, accept>>
                        /\ UNCHANGED missed
      BY <1>4 DEF SendNextNotification
    <2>2. PICK l \in notices :
                /\ notices' = notices \ {l}
                /\ IF finished /\ missed # {}
                   THEN StartMissed(TRUE, TRUE)
                   ELSE /\ IF finished \/ accept
                           THEN Start(Job("notify", NodeOf[l], {l}))
                           ELSE UNCHANGED <<job, accept>>
                        /\ UNCHANGED missed
      BY <2>1
    <2>3. ThreadTypeOK /\ missed \subseteq Lists /\ l \in Lists /\ notices' \subseteq Lists
      BY <2>2 DEF TypeOK, DealerTypeOK, WidgetTypeOK, DialogTypeOK
    <2>4. ThreadTypeOK' /\ missed' \subseteq Lists
      <3>1. CASE finished /\ missed # {}
        <4>1. StartMissed(TRUE, TRUE)
          BY <2>2, <3>1
        <4>2. UNCHANGED result
          BY <2>1
        <4> QED
          BY <1>1, <2>1, <2>3, <4>1, <4>2, MissedTypes
      <3>2. CASE ~(finished /\ missed # {}) /\ (finished \/ accept)
        <4>1. Start(Job("notify", NodeOf[l], {l})) /\ UNCHANGED <<missed, result>>
          BY <2>1, <2>2, <3>2
        <4>2. Job("notify", NodeOf[l], {l}) \in StartedJobs
          BY <2>3, JobType, DealerAssumption DEF Services
        <4> QED
          BY <1>1, <2>1, <2>3, <4>1, <4>2, StartType
      <3>3. CASE ~finished /\ ~accept
        <4>1. UNCHANGED <<job, accept, missed, result>> /\ finished' = finished
          BY <2>1, <2>2, <2>3, <3>3 DEF ThreadTypeOK
        <4> QED
          BY <2>3, <4>1, ThreadTypeKept DEF threadVars
      <3> QED
        BY <3>1, <3>2, <3>3
    <2>5. DataTypeOK'
      BY <2>1 DEF TypeOK, DealerTypeOK, DataTypeOK, serverVars, dealerVars
    <2>6. WidgetTypeOK' /\ (reading => step = "closed")'
      BY <2>1, <2>4 DEF TypeOK, WidgetTypeOK, widgetVars
    <2>7. DialogTypeOK' /\ HistoryTypeOK'
      BY <2>1, <2>3 DEF TypeOK, DialogTypeOK, HistoryTypeOK
    <2> QED
      BY <2>4, <2>5, <2>6, <2>7 DEF TypeOK, DealerTypeOK
  <1> QED
    BY <1>2, <1>3, <1>4

LEMMA TickTypes ==
    ASSUME TypeOK, Tick
    PROVE  TypeOK'
  <1> USE DEF Services, Steps
  <1>1. CASE RequestWrite
    <2>1. [n \in Nodes |-> invalid \cap ListsOf(n)] \in [Nodes -> SUBSET Lists]
      BY DEF TypeOK, DialogTypeOK
    <2> QED
      BY <1>1, <2>1, RequestTypes DEF RequestWrite
  <1>2. CASE RequestReadBack \/ RequestCrcs
    <2>1. [n \in Nodes |-> {}] \in [Nodes -> SUBSET Lists]
      OBVIOUS
    <2> QED
      BY <1>2, <2>1, RequestTypes DEF RequestReadBack, RequestCrcs
  <1>3. CASE WriteDone
    BY <1>3, NodeDoneTypes DEF WriteDone, TypeOK, DialogTypeOK
  <1>4. CASE CrcsDone
    BY <1>4, NodeDoneTypes DEF CrcsDone, TypeOK, DialogTypeOK
  <1>5. CASE ReadBackDone
    <2>1. readNodes' \subseteq Nodes
      BY <1>5 DEF ReadBackDone, TypeOK, DialogTypeOK
    <2>2. actual' \in [Elements -> Values \cup {NoValue}]
      BY <1>5 DEF ReadBackDone, TypeOK, DialogTypeOK, DealerTypeOK, DataTypeOK
    <2> QED
      BY <1>5, <2>1, <2>2, NodeDoneTypes DEF ReadBackDone
  <1>6. CASE ReportError
    BY <1>6, RejectTypes DEF ReportError, Answered
  <1>7. CASE PrepareForWrite
    BY <1>7, StayingTypes, NotStartedTypes
       DEF PrepareForWrite, TypeOK, DialogTypeOK, HistoryTypeOK
  <1>8. CASE SendNextNotification
    BY <1>8, NotificationTypes
  <1> QED
    BY <1>1, <1>2, <1>3, <1>4, <1>5, <1>6, <1>7, <1>8 DEF Tick

LEMMA StutterTypes ==
    ASSUME TypeOK, UNCHANGED vars
    PROVE  TypeOK'
  <1>1. DataTypeOK' /\ ThreadTypeOK'
    BY ThreadTypeKept DEF vars, dealerAll, serverVars, dealerVars, TypeOK, DealerTypeOK, DataTypeOK
  <1>2. WidgetTypeOK' /\ DialogTypeOK' /\ HistoryTypeOK' /\ (reading => step = "closed")'
    BY DEF vars, guiVars, widgetVars, dialogVars, TypeOK, WidgetTypeOK, DialogTypeOK, HistoryTypeOK
  <1> QED
    BY <1>1, <1>2 DEF TypeOK, DealerTypeOK

LEMMA NextTypeOK ==
    ASSUME TypeOK, [Next]_vars
    PROVE  TypeOK'
  <1>1. CASE ThreadStep
    BY <1>1, ThreadTypes
  <1>2. CASE HandlePollingFinished
    BY <1>2, FinishedTypes
  <1>3. CASE Tick
    BY <1>3, TickTypes
  <1>4. CASE UserStep
    <2>1. ASSUME NEW lists \in Selections, HandleTreeReadAction(lists)
          PROVE  TypeOK'
      BY <2>1, ReadElementsTypes DEF HandleTreeReadAction
    <2> QED
      BY <1>4, <2>1, WriteTriggerTypes, OtherReadTypes, DialogClickTypes DEF UserStep
  <1>5. CASE UNCHANGED vars
    BY <1>5, StutterTypes
  <1> QED
    BY <1>1, <1>2, <1>3, <1>4, <1>5 DEF Next

\* Every reachable state has its type; while the widget reads no dialog is open, and
\* a finished signal that waits keeps the next service from being started.
THEOREM TypeCorrect == Spec => []TypeOK
  <1>1. Init => TypeOK
    BY InitTypeOK
  <1>2. TypeOK /\ [Next]_vars => TypeOK'
    BY NextTypeOK
  <1> QED
    BY <1>1, <1>2, PTL DEF Spec
=============================================================================
