--------------------------- MODULE NvmIntactProofs ---------------------------
(***************************************************************************)
(* What a parametrization leaves on the servers, as long as no read has       *)
(* found the thread busy: lists whose CRCs match their contents.  For any       *)
(* nodes, lists, elements and values and any number of clicks.               *)
(***************************************************************************)
EXTENDS NvmSealsProofs

-----------------------------------------------------------------------------
(* The inductive invariant: the dialog and the thread go together, step by    *)
(* step.                                                                    *)

\* The thread that has ended has posted its signal, or it has been handled; no read
\* waits.
SignalInv == (Running \/ accept \/ finished) /\ missed = {}

\* The service a step of the dialog asks for.
Asks(svc) ==
    \/ step = "eWRITE" /\ svc = "write"
    \/ step = "eREADBACK" /\ svc = "readback"
    \/ step = "eWRITECRC" /\ svc = "crc"

\* A service of a dialog is executed while the dialog waits for it, or after it was
\* closed; then nothing is known of the lists.
ServiceInv ==
    /\ job.svc \in Safe /\ step = "closed" => crcStatus = {} /\ readStatus = {} /\ ~reading
    /\ job.svc \in Safe /\ step # "closed" =>
          pending /\ Asks(job.svc) /\ IsFirst(job.node, todoNodes)
    /\ pending =>
          /\ timer /\ step \in {"eWRITE", "eREADBACK", "eWRITECRC"}
          /\ job.svc \in Safe \cup {"none"}

\* The widget reads the list it awaits; the lists before it have been read.
ReadingInv ==
    reading =>
        /\ Running \/ finished
        /\ Running => job.svc = "readlist" /\ job.lists = {awaited}
        /\ ElementsOf(toWrite \ (unread \cup {awaited})) \subseteq ReadStatusAfter(queued)
        /\ finished /\ result # "error" => ElementsOf({awaited}) \subseteq ReadStatusAfter(queued)
        /\ finished /\ result = "C_NO_ERR" /\ awaited \in CrcActive => Intact(awaited)

\* A list shown with a valid CRC has one, unless the dialog is at work on it.
StatusInv ==
    /\ step = "closed" => Relevant = {}
    /\ \A l \in crcStatus \cap CrcActive :
          l \notin Relevant \/ step \in {"closed", "eBEFOREWRITE"} => Intact(l)

\* The node whose service the dialog waits for.
Current(n) == pending /\ IsFirst(n, todoNodes)

\* Relevant lists with changes have an element that is flagged, until they are written
\* and the dealer knows them.
Flagged(n) == prepared \cap ListsOf(n) \subseteq {ListOf[e] : e \in changed}
Covered(n) == Relevant \cap ListsOf(n) \subseteq changedLists[n]

WrittenInv ==
    /\ step = "eBEFOREWRITE" => \A n \in Nodes : Flagged(n)
    /\ step = "eWRITE" =>
          \A n \in NodesFor(Relevant) :
              /\ n \notin todoNodes => Covered(n)
              /\ ~Written(n) => Flagged(n)
              /\ Current(n) /\ job.svc = "write" /\ ~job.begun =>
                    job.lists = invalid \cap ListsOf(n)
              /\ Current(n) /\ job.svc = "write" /\ job.begun =>
                    Relevant \cap ListsOf(n) \subseteq
                        changedLists[n] \cup {ListOf[e] : e \in job.todo \cap changed}
              /\ Current(n) /\ job.svc # "write" /\ result = "C_NO_ERR" => Covered(n)

\* The copy of a list is what the server has.
Fresh(lists) == \A e \in ElementsOf(lists) : copy[e] = nvm[e]

FreshInv ==
    /\ step \in {"eREADBACK", "eCONFIRM", "eWRITECRC"} =>
          \A n \in NodesFor(Relevant) : Covered(n)
    /\ step = "eREADBACK" =>
          \A n \in NodesFor(Relevant) :
              /\ n \notin todoNodes => Fresh(changedLists[n])
              /\ Current(n) /\ job.svc = "readback" /\ job.begun =>
                    Fresh(changedLists[n] \ job.todo)
              /\ Current(n) /\ job.svc # "readback" /\ result = "C_NO_ERR" =>
                    Fresh(changedLists[n])
    /\ step = "eCONFIRM" => todoNodes = NodesFor(Relevant)
    /\ step \in {"eCONFIRM", "eWRITECRC"} =>
          \A n \in NodesFor(Relevant) : Fresh(changedLists[n])

\* Lists with a CRC that matches what they contain.
AllIntact(lists) == \A l \in lists \cap CrcActive : Intact(l)

SealedInv ==
    /\ step = "eWRITECRC" /\ timer =>
          \A n \in NodesFor(Relevant) :
              /\ n \notin todoNodes => AllIntact(Relevant \cap ListsOf(n))
              /\ Current(n) /\ job.svc = "crc" /\ job.begun =>
                    AllIntact(changedLists[n] \ job.todo)
              /\ Current(n) /\ job.svc # "crc" /\ result = "C_NO_ERR" =>
                    AllIntact(Relevant \cap ListsOf(n))
    /\ FinishedListsIntact

IntactInv ==
    /\ SignalInv /\ ServiceInv /\ ReadingInv /\ StatusInv
    /\ WrittenInv /\ FreshInv /\ SealedInv

Undisturbed == ~disturbed => IntactInv

-----------------------------------------------------------------------------
(* What a step leaves as it was.                                            *)

LEMMA SameServer ==
    ASSUME UNCHANGED <<nvm, crc>>
    PROVE  \A l : Intact(l)' <=> Intact(l)
  BY DEF Intact, ElementsOf

LEMMA SameRelevant ==
    ASSUME UNCHANGED <<prepared, invalid>>
    PROVE  /\ Relevant' = Relevant
           /\ NodesFor(Relevant)' = NodesFor(Relevant)
  BY DEF Relevant, NodesFor

LEMMA SameOperators ==
    ASSUME UNCHANGED <<nvm, crc, changed, changedLists, copy, step, timer, pending, todoNodes,
                       prepared, invalid>>
    PROVE  /\ Relevant' = Relevant
           /\ NodesFor(Relevant)' = NodesFor(Relevant)
           /\ \A n : /\ Current(n)' <=> Current(n)
                     /\ Flagged(n)' <=> Flagged(n)
                     /\ Covered(n)' <=> Covered(n)
                     /\ Fresh(changedLists[n])' <=> Fresh(changedLists[n])
                     /\ AllIntact(Relevant \cap ListsOf(n))' <=> AllIntact(Relevant \cap ListsOf(n))
  BY DEF Relevant, NodesFor, Current, Flagged, Covered, Fresh, AllIntact, Intact, ElementsOf,
         ListsOf

LEMMA FinishedKept ==
    ASSUME FinishedListsIntact, UNCHANGED <<nvm, crc, step, timer, prepared, invalid>>
    PROVE  FinishedListsIntact'
  BY DEF FinishedListsIntact, Relevant, Intact, ElementsOf

\* The dialog stays as it is, and no service of it is started or ends.
LEMMA DialogKept ==
    ASSUME IntactInv,
           UNCHANGED <<nvm, crc, changed, changedLists, copy, step, timer, pending, todoNodes,
                       prepared, invalid>>,
           job' = job \/ (job.svc \notin Safe /\ job'.svc \notin Safe),
           result' = result \/ ~pending
    PROVE  WrittenInv' /\ FreshInv' /\ SealedInv'
  <1>1. /\ Relevant' = Relevant
        /\ NodesFor(Relevant)' = NodesFor(Relevant)
        /\ \A n : /\ Current(n)' <=> Current(n)
                  /\ Flagged(n)' <=> Flagged(n)
                  /\ Covered(n)' <=> Covered(n)
                  /\ Fresh(changedLists[n])' <=> Fresh(changedLists[n])
                  /\ AllIntact(Relevant \cap ListsOf(n))' <=> AllIntact(Relevant \cap ListsOf(n))
    BY SameOperators
  <1>2. \A n : Current(n) => result' = result
    BY DEF Current
  <1>3. WrittenInv'
    <2>1. \A n : Written(n)' <=> Written(n)
      BY DEF Written, Safe
    <2> QED
      BY <1>1, <1>2, <2>1 DEF IntactInv, WrittenInv, Safe
  <1>4. FreshInv'
    <2>1. job.svc = "readback" => job' = job
      BY DEF Safe
    <2>2. \A n : job' = job => (Fresh(changedLists[n] \ job.todo)' <=>
                                Fresh(changedLists[n] \ job.todo))
      BY DEF Fresh, ElementsOf
    <2>3. job'.svc = "readback" => job' = job
      BY DEF Safe
    <2> QED
      BY <1>1, <1>2, <2>1, <2>2, <2>3 DEF IntactInv, FreshInv
  <1>5. SealedInv'
    <2>1. job.svc = "crc" => job' = job
      BY DEF Safe
    <2>2. \A n : job' = job => (AllIntact(changedLists[n] \ job.todo)' <=>
                                AllIntact(changedLists[n] \ job.todo))
      BY DEF AllIntact, Intact, ElementsOf
    <2>3. job'.svc = "crc" => job' = job
      BY DEF Safe
    <2>4. FinishedListsIntact'
      BY FinishedKept DEF IntactInv, SealedInv
    <2> QED
      BY <1>1, <1>2, <2>1, <2>2, <2>3, <2>4 DEF IntactInv, SealedInv
  <1> QED
    BY <1>3, <1>4, <1>5

\* No read is missed.
LEMMA NoneMissed ==
    ASSUME IntactInv, NEW free, NEW accepting, StartMissed(free, accepting)
    PROVE  accept' = accepting /\ UNCHANGED <<job, missed>> /\ missed = {}
  BY DEF StartMissed, IntactInv, SignalInv

\* A dialog that is closed leaves nothing to be shown of lists it was at work on.
LEMMA ClosedIntact ==
    ASSUME TypeOK, IntactInv, DialogGone,
           job.svc \in Safe => readStatus' = {} /\ crcStatus' = {},
           step # "closed",
           \A l \in crcStatus' \cap CrcActive : Intact(l)
    PROVE  IntactInv'
  <1>1. /\ accept' = accept /\ UNCHANGED <<job, missed>>
        /\ step' = "closed" /\ ~timer' /\ ~pending' /\ prepared' = {} /\ invalid' = {}
        /\ UNCHANGED <<nvm, crc, finished, reading>>
    BY NoneMissed DEF DialogGone, serverVars
  <1>2. SignalInv'
    BY <1>1 DEF IntactInv, SignalInv, Running
  <1>3. ~reading
    BY DEF TypeOK
  <1>4. ServiceInv' /\ ReadingInv'
    BY <1>1, <1>3 DEF IntactInv, ServiceInv, ReadingInv
  <1>5. StatusInv'
    BY <1>1, SameServer DEF StatusInv, Relevant
  <1>6. WrittenInv' /\ FreshInv' /\ SealedInv'
    BY <1>1 DEF WrittenInv, FreshInv, SealedInv, FinishedListsIntact
  <1> QED
    BY <1>2, <1>4, <1>5, <1>6 DEF IntactInv

LEMMA RejectIntact ==
    ASSUME TypeOK, IntactInv, Reject, step # "closed"
    PROVE  IntactInv'
  <1>1. CASE step = "eBEFOREWRITE"
    <2>1. job.svc \notin Safe
      BY <1>1 DEF IntactInv, ServiceInv, Asks
    <2>2. \A l \in crcStatus' \cap CrcActive : Intact(l)
      BY <1>1 DEF Reject, IntactInv, StatusInv
    <2> QED
      BY <2>1, <2>2, ClosedIntact DEF Reject
  <1>2. CASE step # "eBEFOREWRITE"
    BY <1>2, ClosedIntact DEF Reject
  <1> QED
    BY <1>1, <1>2

LEMMA AcceptIntact ==
    ASSUME TypeOK, IntactInv, Accept,
           (step = "eWRITECRC" /\ ~timer) \/ step = "eSEND_NOTIFICATION"
    PROVE  IntactInv'
  <1>1. job.svc \notin Safe
    BY DEF IntactInv, ServiceInv
  <1>2. \A l \in Relevant \cap CrcActive : Intact(l)
    BY DEF IntactInv, SealedInv, FinishedListsIntact
  <1>3. \A l \in crcStatus' \cap CrcActive : Intact(l)
    BY <1>2 DEF Accept, IntactInv, StatusInv
  <1> QED
    BY <1>1, <1>3, ClosedIntact DEF Accept

\* A dialog is opened with lists whose elements have been read.
LEMMA OpenIntact ==
    ASSUME TypeOK, SealInv, IntactInv, step = "closed",
           NEW ch \in SUBSET Elements, NEW inv, NEW set, NEW read, NEW inHandler,
           ch \subseteq read,
           OpenDialog(ch, inv, set, read, inHandler),
           job.svc \notin Safe, UNCHANGED <<nvm, crc, job, missed>>,
           Running \/ accept' \/ finished', ~reading',
           \A l \in crcStatus' \cap CrcActive : Intact(l)
    PROVE  IntactInv'
  <1>1. /\ step' = "eBEFOREWRITE" /\ pending' = FALSE
        /\ changed' = changed \cup (ch \cap read)
        /\ prepared' = {ListOf[e] : e \in ch}
    BY DEF OpenDialog
  <1>2. SignalInv'
    BY DEF IntactInv, SignalInv, Running
  <1>3. ServiceInv' /\ ReadingInv'
    BY <1>1 DEF IntactInv, ServiceInv, ReadingInv
  <1>4. StatusInv'
    BY <1>1, SameServer DEF StatusInv
  <1>5. WrittenInv'
    <2>1. prepared' \subseteq {ListOf[e] : e \in changed'}
      BY <1>1
    <2> QED
      BY <1>1, <2>1 DEF WrittenInv, Flagged
  <1>6. FreshInv' /\ SealedInv'
    BY <1>1 DEF FreshInv, SealedInv, FinishedListsIntact
  <1> QED
    BY <1>2, <1>3, <1>4, <1>5, <1>6 DEF IntactInv

-----------------------------------------------------------------------------
(* The thread.                                                              *)

\* What is common to the steps of a service of the dialog.
LEMMA ServiceStep ==
    ASSUME TypeOK, IntactInv, job.svc \in Safe, UNCHANGED <<missed, step, timer, pending,
               todoNodes, reading, crcStatus, readStatus>>,
           \/ job' = NoJob /\ finished'
           \/ job'.svc = job.svc /\ job'.node = job.node
    PROVE  SignalInv' /\ ServiceInv' /\ ReadingInv'
  <1>1. NoJob.svc = "none" /\ "none" \notin Safe
    BY NoJobType DEF Safe
  <1>2. job'.svc \in Safe => job'.svc = job.svc /\ job'.node = job.node
    BY <1>1
  <1>3. job'.svc \in Safe \cup {"none"}
    BY <1>1
  <1>4. ~reading
    BY DEF IntactInv, ServiceInv, TypeOK
  <1>5. SignalInv'
    BY <1>1 DEF IntactInv, SignalInv, Running, Safe
  <1>6. ServiceInv'
    BY <1>2, <1>3 DEF IntactInv, ServiceInv, Asks
  <1>7. ReadingInv'
    BY <1>4 DEF ReadingInv
  <1> QED
    BY <1>5, <1>6, <1>7

\* A service whose dialog was closed can do no harm.
LEMMA LeftOver ==
    ASSUME TypeOK, IntactInv, job.svc \in Safe, step = "closed",
           UNCHANGED <<missed, step, timer, pending, todoNodes, reading, crcStatus, readStatus,
                       prepared, invalid>>,
           \/ job' = NoJob /\ finished'
           \/ job'.svc = job.svc /\ job'.node = job.node
    PROVE  IntactInv'
  <1>1. SignalInv' /\ ServiceInv' /\ ReadingInv'
    BY ServiceStep
  <1>2. StatusInv'
    BY SameRelevant DEF IntactInv, StatusInv, ServiceInv
  <1>3. WrittenInv' /\ FreshInv' /\ SealedInv'
    BY DEF WrittenInv, FreshInv, SealedInv, FinishedListsIntact
  <1> QED
    BY <1>1, <1>2, <1>3 DEF IntactInv

LEMMA OtherServicesIntact ==
    ASSUME TypeOK, IntactInv, UNCHANGED guiVars, ReadList \/ Notify
    PROVE  IntactInv'
  <1>1. /\ UNCHANGED <<nvm, crc, changed, changedLists, copy, step, timer, pending, todoNodes,
                       prepared, invalid>>
        /\ UNCHANGED <<missed, reading, awaited, unread, toWrite, readStatus, crcStatus>>
    BY DEF guiVars, dialogVars, widgetVars, serverVars, dealerVars, ReadList, Notify
  <1>2. /\ job.svc \notin Safe /\ job.svc # "none" /\ job' = NoJob /\ job'.svc = "none"
        /\ finished'
    BY NoJobType DEF ReadList, Notify, End, Safe
  <1>3. ~pending
    BY <1>2 DEF IntactInv, ServiceInv
  <1>4. WrittenInv' /\ FreshInv' /\ SealedInv'
    BY <1>1, <1>2, <1>3, DialogKept DEF Safe
  <1>5. SignalInv'
    BY <1>1, <1>2 DEF IntactInv, SignalInv
  <1>6. ServiceInv'
    BY <1>1, <1>2, <1>3 DEF ServiceInv, Safe
  <1>7. StatusInv'
    BY <1>1, SameRelevant, SameServer DEF IntactInv, StatusInv
  <1>8. ReadingInv'
    <2> SUFFICES ASSUME reading PROVE ReadingInv'
      BY <1>1 DEF ReadingInv
    <2>1. job.svc = "readlist" /\ job.lists = {awaited} /\ ReadList
      BY <1>2 DEF IntactInv, ReadingInv, Running, Notify
    <2>2. ElementsOf(toWrite \ (unread \cup {awaited})) \subseteq ReadStatusAfter(queued)
      BY DEF IntactInv, ReadingInv
    <2>3. ASSUME result' # "error"
          PROVE  /\ ElementsOf({awaited}) \subseteq ReadStatusAfter(queued)'
                 /\ ReadStatusAfter(queued) \subseteq ReadStatusAfter(queued)'
                 /\ result' = "C_NO_ERR" /\ awaited \in CrcActive => Intact(awaited)
      <3>1. /\ queued' = [e \in Elements |-> IF e \in ElementsOf({awaited})
                                             THEN nvm[e] ELSE queued[e]]
            /\ result' = IF \A l \in {awaited} \cap CrcActive : Intact(l)
                         THEN "C_NO_ERR" ELSE "C_CHECKSUM"
        BY <2>1, <2>3 DEF ReadList, End
      <3>2. \A e \in Elements : nvm[e] # NoValue
        BY DealerAssumption DEF TypeOK, DealerTypeOK, DataTypeOK
      <3>3. \A e \in Elements : /\ e \in ElementsOf({awaited}) => queued'[e] # NoValue
                                /\ queued[e] # NoValue => queued'[e] # NoValue
        BY <3>1, <3>2
      <3>4. readStatus' = readStatus
        BY <1>1
      <3> QED
        BY <3>1, <3>3, <3>4 DEF ReadStatusAfter, ElementsOf
    <2>4. ASSUME result' = "error" PROVE queued' = queued
      BY <2>1, <2>4 DEF ReadList, End
    <2>5. ReadStatusAfter(queued) \subseteq ReadStatusAfter(queued)'
      BY <1>1, <2>3, <2>4 DEF ReadStatusAfter
    <2>6. ElementsOf(toWrite \ (unread \cup {awaited}))' =
          ElementsOf(toWrite \ (unread \cup {awaited}))
      BY <1>1 DEF ElementsOf
    <2>7. ElementsOf({awaited})' = ElementsOf({awaited}) /\ (Intact(awaited)' <=> Intact(awaited))
      BY <1>1 DEF ElementsOf, Intact
    <2>8. ~Running'
      BY <1>2 DEF Running
    <2> QED
      BY <1>1, <1>2, <2>2, <2>3, <2>5, <2>6, <2>7, <2>8 DEF ReadingInv
  <1> QED
    BY <1>4, <1>5, <1>6, <1>7, <1>8 DEF IntactInv

\* A step of a write leaves the lists of the node in the dealer, or flagged among the
\* elements that are still to be written.
LEMMA WriteStepIntact ==
    ASSUME TypeOK, SealInv, IntactInv, job.svc = "write", step = "eWRITE",
           NEW lists \in SUBSET Lists,
           changedLists' = [changedLists EXCEPT ![job.node] = lists],
           changed' \subseteq changed,
           changed \ changed' \subseteq ElementsOf(ListsOf(job.node)),
           UNCHANGED <<step, pending, todoNodes, prepared, invalid>>,
           \/ /\ job' = NoJob
              /\ result' = "C_NO_ERR" => Relevant \cap ListsOf(job.node) \subseteq lists
           \/ /\ job'.svc = "write" /\ job'.begun
              /\ Relevant \cap ListsOf(job.node) \subseteq
                     lists \cup {ListOf[e] : e \in job'.todo \cap changed'}
    PROVE  WrittenInv'
  <1>1. Relevant' = Relevant /\ NodesFor(Relevant)' = NodesFor(Relevant)
    BY SameRelevant
  <1>2. pending /\ IsFirst(job.node, todoNodes)
    BY DEF IntactInv, ServiceInv, Safe
  <1>3. /\ job.node \in Nodes /\ changedLists \in [Nodes -> SUBSET Lists]
        /\ todoNodes \in SUBSET Nat /\ NodesFor(Relevant) \subseteq Nodes
    BY SafeJob DEF Safe
  <1>4. \A n \in Nodes : changedLists'[n] = IF n = job.node THEN lists ELSE changedLists[n]
    BY <1>3
  <1>5. NoJob.svc = "none"
    BY NoJobType
  <1>6. ASSUME NEW n \in NodesFor(Relevant), n # job.node
        PROVE  /\ n \notin todoNodes => Covered(n)'
               /\ ~Written(n)' => Flagged(n)'
               /\ ~ Current(n)'
    <2>1. n \in Nodes
      BY <1>3
    <2>2. ~ IsFirst(n, todoNodes)
      BY <1>2, <1>3, <1>6, FirstUnique
    <2>3. ~ Current(n)' /\ (Written(n)' <=> n \notin todoNodes)
      BY <2>2 DEF Current, Written
    <2>4. n \notin todoNodes => Covered(n)'
      BY <1>1, <1>4, <1>6, <2>1 DEF IntactInv, WrittenInv, Covered
    <2>5. ASSUME n \in todoNodes PROVE Flagged(n)'
      <3>1. Flagged(n)
        BY <2>2, <2>5 DEF IntactInv, WrittenInv, Written
      <3>2. ASSUME NEW l \in prepared \cap ListsOf(n) PROVE l \in {ListOf[e] : e \in changed'}
        <4>1. PICK e \in changed : ListOf[e] = l
          BY <3>1 DEF Flagged
        <4>2. e \notin ElementsOf(ListsOf(job.node))
          BY <1>6, <4>1 DEF ElementsOf, ListsOf
        <4> QED
          BY <4>1, <4>2
      <3> QED
        BY <3>2 DEF Flagged
    <2> QED
      BY <2>3, <2>4, <2>5
  <1>7. job.node \in todoNodes
    BY <1>2 DEF IsFirst
  <1>8. ASSUME NEW n \in NodesFor(Relevant), n = job.node
        PROVE  /\ n \in todoNodes /\ Written(n)'
               /\ job'.svc = "write" =>
                     /\ job'.begun
                     /\ Relevant \cap ListsOf(n) \subseteq
                            changedLists'[n] \cup {ListOf[e] : e \in job'.todo \cap changed'}
               /\ job'.svc # "write" /\ result' = "C_NO_ERR" => Covered(n)'
    <2>1. changedLists'[n] = lists
      BY <1>3, <1>4, <1>8
    <2>2. Written(n)'
      BY <1>2, <1>5, <1>8 DEF Written
    <2> QED
      BY <1>1, <1>5, <1>7, <1>8, <2>1, <2>2 DEF Covered
  <1>9. ASSUME NEW n \in NodesFor(Relevant)
        PROVE  /\ n \notin todoNodes' => Covered(n)'
               /\ ~Written(n)' => Flagged(n)'
               /\ Current(n)' /\ job'.svc = "write" /\ ~job'.begun =>
                     job'.lists = invalid' \cap ListsOf(n)
               /\ Current(n)' /\ job'.svc = "write" /\ job'.begun =>
                     Relevant' \cap ListsOf(n) \subseteq
                        changedLists'[n] \cup {ListOf[e] : e \in job'.todo \cap changed'}
               /\ Current(n)' /\ job'.svc # "write" /\ result' = "C_NO_ERR" => Covered(n)'
    BY <1>1, <1>6, <1>8
  <1> QED
    BY <1>1, <1>9 DEF WrittenInv, ListsOf

LEMMA WriteIntact ==
    ASSUME TypeOK, SealInv, IntactInv, UNCHANGED guiVars, WriteBegin \/ WriteElement \/ WriteEnd
    PROVE  IntactInv'
  <1>1. /\ job.svc = "write" /\ job.svc \in Safe /\ job \in StartedJobs /\ job.node \in Nodes
        /\ changedLists \in [Nodes -> SUBSET Lists]
    BY SafeJob DEF WriteBegin, WriteElement, WriteEnd, Executes, Safe
  <1>2. UNCHANGED <<missed, step, timer, pending, todoNodes, reading, crcStatus, readStatus,
                    prepared, invalid>>
    BY DEF guiVars, dialogVars, widgetVars
  <1>3. \/ job' = NoJob /\ finished'
        \/ job'.svc = job.svc /\ job'.node = job.node
    BY <1>1 DEF WriteBegin, WriteElement, WriteEnd, End, Begin, StartedJobs
  <1>4. CASE step = "closed"
    BY <1>1, <1>2, <1>3, <1>4, LeftOver
  <1>5. CASE step # "closed"
    <2>1. step = "eWRITE" /\ pending /\ IsFirst(job.node, todoNodes)
      BY <1>1, <1>5 DEF IntactInv, ServiceInv, Asks
    <2>2. SignalInv' /\ ServiceInv' /\ ReadingInv'
      BY <1>1, <1>2, <1>3, ServiceStep
    <2>3. StatusInv'
      <3>1. Relevant' = Relevant
        BY <1>2, SameRelevant
      <3>2. crc' = crc /\ \A e \in Elements : nvm'[e] = nvm[e] \/ ListOf[e] \in Relevant
        <4>1. CASE WriteElement
          <5>1. PICK e \in changed : nvm' \in {nvm, [nvm EXCEPT ![e] = value[e]]} /\ crc' = crc
            BY <4>1 DEF WriteElement, IsFirst
          <5>2. ListOf[e] \in Relevant
            BY <5>1 DEF SealInv, ListsInv, ElementsOf, Relevant
          <5> QED
            BY <5>1, <5>2 DEF TypeOK, DealerTypeOK, DataTypeOK
        <4>2. CASE ~WriteElement
          BY <4>2 DEF WriteBegin, WriteEnd, serverVars
        <4> QED
          BY <4>1, <4>2
      <3>3. ASSUME NEW l, l \notin Relevant, Intact(l) PROVE Intact(l)'
        BY <3>2, <3>3 DEF Intact, ElementsOf
      <3> QED
        BY <1>2, <2>1, <3>1, <3>3 DEF IntactInv, StatusInv
    <2>4. FreshInv' /\ SealedInv'
      BY <1>2, <2>1 DEF FreshInv, SealedInv, FinishedListsIntact
    <2>5. job.node \in NodesFor(Relevant) /\ job.node \in todoNodes /\ Current(job.node)
      BY <2>1, SafeJob, <1>1 DEF Current, IsFirst
    <2>6. WrittenInv'
      <3>1. CASE WriteBegin
        <4>1. /\ ~job.begun
              /\ changedLists' = [changedLists EXCEPT ![job.node] = job.lists]
              /\ changed' = changed
              /\ \/ job' = NoJob /\ result' = "error"
                 \/ job' = [job EXCEPT !.begun = TRUE, !.todo = ElementsOf(ListsOf(job.node))]
          BY <3>1 DEF WriteBegin, Executes, End, Begin
        <4>2. job.lists = invalid \cap ListsOf(job.node) /\ Flagged(job.node)
          BY <1>1, <2>1, <2>5, <4>1 DEF IntactInv, WrittenInv, Written
        <4>3. Relevant \cap ListsOf(job.node) \subseteq
                  job.lists \cup {ListOf[e] : e \in ElementsOf(ListsOf(job.node)) \cap changed}
          <5>1. ASSUME NEW l \in prepared \cap ListsOf(job.node)
                PROVE  l \in {ListOf[e] : e \in ElementsOf(ListsOf(job.node)) \cap changed}
            <6>1. PICK e \in changed : ListOf[e] = l
              BY <4>2 DEF Flagged
            <6>2. e \in ElementsOf(ListsOf(job.node))
              BY <6>1 DEF ElementsOf, TypeOK, DealerTypeOK, DataTypeOK
            <6> QED
              BY <6>1, <6>2
          <5> QED
            BY <4>2, <5>1 DEF Relevant
        <4>4. \/ job' = NoJob /\ result' # "C_NO_ERR"
              \/ /\ job'.svc = "write" /\ job'.begun
                 /\ job'.todo = ElementsOf(ListsOf(job.node))
          BY <1>1, <4>1 DEF StartedJobs
        <4>5. job.lists \in SUBSET Lists
          BY <1>1 DEF StartedJobs
        <4> QED
          BY <1>1, <1>2, <2>1, <4>1, <4>3, <4>4, <4>5, WriteStepIntact
      <3>2. CASE WriteElement
        <4>1. PICK e \in job.todo :
                /\ IsFirst(e, job.todo \cap changed)
                /\ \/ /\ changed' = changed \ {e}
                      /\ changedLists' = [changedLists EXCEPT ![job.node] = @ \cup {ListOf[e]}]
                      /\ Begin({x \in job.todo : x > e})
                   \/ /\ End("error")
                      /\ UNCHANGED <<changed, changedLists>>
          BY <3>2 DEF WriteElement
        <4>2. /\ job.begun /\ job.todo \subseteq ElementsOf(ListsOf(job.node))
              /\ e \in changed /\ \A x \in job.todo \cap changed : e <= x
          BY <1>1, <3>2, <4>1 DEF WriteElement, Executes, SealInv, JobInv, IsFirst
        <4>3. Relevant \cap ListsOf(job.node) \subseteq
                  changedLists[job.node] \cup {ListOf[x] : x \in job.todo \cap changed}
          BY <1>1, <2>1, <2>5, <4>2 DEF IntactInv, WrittenInv
        <4>4. CASE Begin({x \in job.todo : x > e}) /\ changed' = changed \ {e}
                   /\ changedLists' = [changedLists EXCEPT ![job.node] = @ \cup {ListOf[e]}]
          <5> DEFINE todo == {x \in job.todo : x > e}
                     lists == changedLists[job.node] \cup {ListOf[e]}
          <5>1. /\ job'.svc = "write" /\ job'.begun /\ job'.todo = todo
            BY <1>1, <4>4 DEF Begin, StartedJobs
          <5>2. ListOf[e] \in Lists /\ e \in ElementsOf(ListsOf(job.node))
            BY <4>2, DealerAssumption DEF ElementsOf
          <5>3. Relevant \cap ListsOf(job.node) \subseteq
                    lists \cup {ListOf[x] : x \in todo \cap changed'}
            <6>1. ASSUME NEW x \in job.todo \cap changed, x # e PROVE x \in todo \cap changed'
              <7>1. x \in Nat /\ e \in Nat
                BY <4>2, DealerAssumption DEF ElementsOf
              <7> QED
                BY <4>2, <4>4, <6>1, <7>1
            <6> QED
              BY <4>3, <6>1
          <5>4. changedLists' = [changedLists EXCEPT ![job.node] = lists] /\ lists \in SUBSET Lists
            BY <1>1, <4>4, <5>2
          <5>5. changed' \subseteq changed /\ changed \ changed' \subseteq ElementsOf(ListsOf(job.node))
            BY <4>4, <5>2
          <5> HIDE DEF todo, lists
          <5> QED
            BY <1>1, <1>2, <2>1, <5>1, <5>3, <5>4, <5>5, WriteStepIntact
        <4>5. CASE End("error") /\ UNCHANGED <<changed, changedLists>>
          <5>1. changedLists' = [changedLists EXCEPT ![job.node] = changedLists[job.node]]
            BY <1>1, <4>5
          <5>2. job' = NoJob /\ result' # "C_NO_ERR"
            BY <4>5 DEF End
          <5>3. changedLists[job.node] \in SUBSET Lists
            BY <1>1
          <5> QED
            BY <1>1, <1>2, <2>1, <4>5, <5>1, <5>2, <5>3, WriteStepIntact
        <4> QED
          BY <4>1, <4>4, <4>5
      <3>3. CASE WriteEnd
        <4>1. job.begun /\ job.todo \cap changed = {} /\ job' = NoJob /\ UNCHANGED dealerVars
          BY <3>3 DEF WriteEnd, Executes, End
        <4>2. changedLists' = [changedLists EXCEPT ![job.node] = changedLists[job.node]]
          BY <1>1, <4>1 DEF dealerVars
        <4>3. Relevant \cap ListsOf(job.node) \subseteq changedLists[job.node]
          BY <1>1, <2>1, <2>5, <4>1 DEF IntactInv, WrittenInv
        <4>4. changedLists[job.node] \in SUBSET Lists /\ changed' = changed
          BY <1>1, <4>1 DEF dealerVars
        <4> QED
          BY <1>1, <1>2, <2>1, <4>1, <4>2, <4>3, <4>4, WriteStepIntact
      <3> QED
        BY <3>1, <3>2, <3>3
    <2> QED
      BY <2>2, <2>3, <2>4, <2>6 DEF IntactInv
  <1> QED
    BY <1>4, <1>5

\* A step of a read back changes the copy of its own node only.
LEMMA ReadBackStepIntact ==
    ASSUME TypeOK, SealInv, IntactInv, job.svc = "readback", step = "eREADBACK",
           UNCHANGED <<nvm, changedLists, step, pending, todoNodes, prepared, invalid>>,
           \A e \in Elements \ ElementsOf(ListsOf(job.node)) : copy'[e] = copy[e],
           \/ /\ job' = NoJob
              /\ result' = "C_NO_ERR" =>
                     \A e \in ElementsOf(changedLists[job.node]) : copy'[e] = nvm[e]
           \/ /\ job'.svc = "readback"
              /\ job'.begun =>
                     \A e \in ElementsOf(changedLists[job.node] \ job'.todo) : copy'[e] = nvm[e]
    PROVE  FreshInv'
  <1>1. Relevant' = Relevant /\ NodesFor(Relevant)' = NodesFor(Relevant)
    BY SameRelevant
  <1>2. pending /\ IsFirst(job.node, todoNodes)
    BY DEF IntactInv, ServiceInv, Safe
  <1>3. /\ todoNodes \in SUBSET Nat /\ NodesFor(Relevant) \subseteq Nodes
        /\ \A n \in Nodes : changedLists[n] \subseteq ListsOf(n)
    BY SafeJob DEF Safe
  <1>4. NoJob.svc = "none"
    BY NoJobType
  <1>5. \A n \in NodesFor(Relevant) : Covered(n)'
    BY <1>1 DEF IntactInv, FreshInv, Covered, ListsOf
  <1>6. ASSUME NEW n \in NodesFor(Relevant), n # job.node
        PROVE  (n \notin todoNodes => Fresh(changedLists[n])') /\ ~ Current(n)'
    <2>1. ~ IsFirst(n, todoNodes)
      BY <1>2, <1>3, <1>6, FirstUnique
    <2>2. \A e \in ElementsOf(changedLists[n]) : e \in Elements \ ElementsOf(ListsOf(job.node))
      BY <1>3, <1>6 DEF ElementsOf, ListsOf
    <2>3. Fresh(changedLists[n]) => Fresh(changedLists[n])'
      BY <2>2 DEF Fresh, ElementsOf
    <2> QED
      BY <2>1, <2>3 DEF IntactInv, FreshInv, Current
  <1>7. job.node \in todoNodes
    BY <1>2 DEF IsFirst
  <1>8. ASSUME NEW n \in NodesFor(Relevant)
        PROVE  /\ n \notin todoNodes' => Fresh(changedLists[n])'
               /\ Current(n)' /\ job'.svc = "readback" /\ job'.begun =>
                     Fresh(changedLists[n] \ job.todo)'
               /\ Current(n)' /\ job'.svc # "readback" /\ result' = "C_NO_ERR" =>
                     Fresh(changedLists[n])'
    BY <1>4, <1>6, <1>7 DEF Fresh, ElementsOf
  <1> QED
    BY <1>1, <1>5, <1>8 DEF FreshInv

LEMMA ReadBackIntact ==
    ASSUME TypeOK, SealInv, IntactInv, UNCHANGED guiVars,
           ReadBackBegin \/ ReadBackList \/ ReadBackEnd
    PROVE  IntactInv'
  <1>1. /\ job.svc = "readback" /\ job.svc \in Safe /\ job \in StartedJobs /\ job.node \in Nodes
        /\ changedLists[job.node] \subseteq ListsOf(job.node)
    BY SafeJob DEF ReadBackBegin, ReadBackList, ReadBackEnd, Executes, Safe
  <1>2. /\ UNCHANGED <<missed, step, timer, pending, todoNodes, reading, crcStatus, readStatus,
                       prepared, invalid>>
        /\ UNCHANGED <<nvm, crc, changedLists>>
    BY DEF guiVars, dialogVars, widgetVars, serverVars, ReadBackBegin, ReadBackList, ReadBackEnd
  <1>3. \/ job' = NoJob /\ finished'
        \/ job'.svc = job.svc /\ job'.node = job.node
    BY <1>1 DEF ReadBackBegin, ReadBackList, ReadBackEnd, End, Begin, StartedJobs
  <1>4. CASE step = "closed"
    BY <1>1, <1>2, <1>3, <1>4, LeftOver
  <1>5. CASE step # "closed"
    <2>1. step = "eREADBACK" /\ pending /\ IsFirst(job.node, todoNodes)
      BY <1>1, <1>5 DEF IntactInv, ServiceInv, Asks
    <2>2. SignalInv' /\ ServiceInv' /\ ReadingInv'
      BY <1>1, <1>2, <1>3, ServiceStep
    <2>3. StatusInv'
      BY <1>2, SameRelevant, SameServer DEF IntactInv, StatusInv
    <2>4. WrittenInv' /\ SealedInv'
      BY <1>2, <2>1 DEF WrittenInv, SealedInv, FinishedListsIntact
    <2>5. job.node \in NodesFor(Relevant) /\ Current(job.node)
      BY <2>1, SafeJob, <1>1 DEF Current, IsFirst
    <2>6. FreshInv'
      <3>1. CASE ReadBackBegin
        <4>1. \A e \in Elements \ ElementsOf(ListsOf(job.node)) : copy'[e] = copy[e]
          BY <3>1 DEF ReadBackBegin
        <4>2. \/ job' = NoJob /\ result' # "C_NO_ERR"
              \/ job' = [job EXCEPT !.begun = TRUE, !.todo = changedLists[job.node]]
          BY <3>1 DEF ReadBackBegin, End, Begin
        <4>3. \/ job' = NoJob /\ result' # "C_NO_ERR"
              \/ job'.svc = "readback" /\ job'.todo = changedLists[job.node]
          BY <1>1, <4>2 DEF StartedJobs
        <4>4. ElementsOf({}) = {}
          BY DEF ElementsOf
        <4>5. job'.todo = changedLists[job.node] => changedLists[job.node] \ job'.todo = {}
          OBVIOUS
        <4> QED
          BY <1>1, <1>2, <2>1, <4>1, <4>3, <4>4, <4>5, ReadBackStepIntact
      <3>2. CASE ReadBackList
        <4>1. PICK l \in job.todo :
                \/ /\ copy' = [e \in Elements |-> IF e \in ElementsOf({l}) THEN nvm[e] ELSE copy[e]]
                   /\ Begin(job.todo \ {l})
                \/ /\ End("error")
                   /\ UNCHANGED copy
          BY <3>2 DEF ReadBackList
        <4>2. job.begun /\ job.todo \subseteq changedLists[job.node]
          BY <1>1, <3>2 DEF ReadBackList, Executes, SealInv, JobInv
        <4>3. ElementsOf({l}) \subseteq ElementsOf(ListsOf(job.node))
          BY <1>1, <4>2 DEF ElementsOf
        <4>4. \A e \in Elements \ ElementsOf(ListsOf(job.node)) : copy'[e] = copy[e]
          BY <4>1, <4>3
        <4>5. Fresh(changedLists[job.node] \ job.todo)
          BY <1>1, <2>1, <2>5, <4>2 DEF IntactInv, FreshInv
        <4>6. CASE End("error")
          <5>1. job' = NoJob /\ result' # "C_NO_ERR"
            BY <4>6 DEF End
          <5> QED
            BY <1>1, <1>2, <2>1, <4>4, <5>1, ReadBackStepIntact
        <4>7. CASE /\ copy' = [e \in Elements |-> IF e \in ElementsOf({l}) THEN nvm[e] ELSE copy[e]]
                   /\ Begin(job.todo \ {l})
          <5>1. job'.svc = "readback" /\ job'.todo = job.todo \ {l}
            BY <1>1, <4>7 DEF Begin, StartedJobs
          <5>2. ASSUME NEW e \in ElementsOf(changedLists[job.node] \ job'.todo)
                PROVE  copy'[e] = nvm[e]
            <6>1. e \in Elements /\ (ListOf[e] = l \/ e \in ElementsOf(changedLists[job.node] \ job.todo))
              BY <5>1 DEF ElementsOf
            <6> QED
              BY <4>5, <4>7, <6>1 DEF Fresh, ElementsOf
          <5> QED
            BY <1>1, <1>2, <2>1, <4>4, <5>1, <5>2, ReadBackStepIntact
        <4> QED
          BY <4>1, <4>6, <4>7
      <3>3. CASE ReadBackEnd
        <4>1. job.begun /\ job.todo = {} /\ job' = NoJob /\ UNCHANGED copy
          BY <3>3 DEF ReadBackEnd, Executes, End
        <4>2. Fresh(changedLists[job.node] \ job.todo)
          BY <1>1, <2>1, <2>5, <4>1 DEF IntactInv, FreshInv
        <4>3. \A e \in ElementsOf(changedLists[job.node]) : copy'[e] = nvm[e]
          BY <4>1, <4>2 DEF Fresh, ElementsOf
        <4> QED
          BY <1>1, <1>2, <2>1, <4>1, <4>3, ReadBackStepIntact
      <3> QED
        BY <3>1, <3>2, <3>3
    <2> QED
      BY <2>2, <2>3, <2>4, <2>6 DEF IntactInv
  <1> QED
    BY <1>4, <1>5

\* A list that is sealed with a copy of what the server has is intact afterwards, and the
\* others are what they were.
LEMMA CrcIntact ==
    ASSUME TypeOK, SealInv, IntactInv, UNCHANGED guiVars, CrcBegin \/ CrcList \/ CrcEnd
    PROVE  IntactInv'
  <1>1. /\ job.svc = "crc" /\ job.svc \in Safe /\ job \in StartedJobs /\ job.node \in Nodes
        /\ changedLists[job.node] \subseteq ListsOf(job.node)
    BY SafeJob DEF CrcBegin, CrcList, CrcEnd, Executes, Safe
  <1>2. /\ UNCHANGED <<missed, step, timer, pending, todoNodes, reading, crcStatus, readStatus,
                       prepared, invalid>>
        /\ UNCHANGED <<nvm, copy, changedLists>>
    BY DEF guiVars, dialogVars, widgetVars, dealerVars, serverVars, CrcBegin, CrcList, CrcEnd
  <1>3. \/ job' = NoJob /\ finished'
        \/ job'.svc = job.svc /\ job'.node = job.node
    BY <1>1 DEF CrcBegin, CrcList, CrcEnd, End, Begin, StartedJobs
  <1>4. CASE step = "closed"
    BY <1>1, <1>2, <1>3, <1>4, LeftOver
  <1>5. CASE step # "closed"
    <2> DEFINE n0 == job.node
    <2>1. step = "eWRITECRC" /\ pending /\ timer /\ IsFirst(job.node, todoNodes)
      BY <1>1, <1>5 DEF IntactInv, ServiceInv, Asks
    <2>2. SignalInv' /\ ServiceInv' /\ ReadingInv'
      BY <1>1, <1>2, <1>3, ServiceStep
    <2>3. /\ Relevant' = Relevant /\ NodesFor(Relevant)' = NodesFor(Relevant)
          /\ \A n : (Covered(n)' <=> Covered(n))
                    /\ (Fresh(changedLists[n])' <=> Fresh(changedLists[n]))
      BY <1>2, SameRelevant DEF Covered, Fresh, ElementsOf, ListsOf
    <2>4. WrittenInv' /\ FreshInv'
      BY <1>2, <2>1, <2>3 DEF IntactInv, WrittenInv, FreshInv
    <2>5. job.node \in NodesFor(Relevant) /\ Current(job.node) /\ job.node \in todoNodes
      BY <2>1, SafeJob, <1>1 DEF Current, IsFirst
    <2>6. Covered(job.node) /\ Fresh(changedLists[job.node])
      BY <2>1, <2>5 DEF IntactInv, FreshInv
    <2>7. /\ job.begun => job.todo \subseteq changedLists[job.node]
          /\ job.begun => AllIntact(changedLists[job.node] \ job.todo)
      BY <1>1, <2>1, <2>5 DEF SealInv, JobInv, IntactInv, SealedInv
    <2>8. /\ \A l : Intact(l) => Intact(l)'
          /\ \/ job' = NoJob
             \/ job'.svc = "crc"
          /\ job' = NoJob /\ result' = "C_NO_ERR" =>
                 \A l \in changedLists[job.node] \cap CrcActive : Intact(l)'
          /\ job'.svc = "crc" /\ job'.begun =>
                 \A l \in (changedLists[job.node] \ job'.todo) \cap CrcActive : Intact(l)'
      <3>1. CASE CrcBegin
        <4>1. crc' = crc /\ \A l : Intact(l)' <=> Intact(l)
          BY <1>2, <3>1, SameServer DEF CrcBegin, serverVars
        <4>2. \/ job' = NoJob /\ result' # "C_NO_ERR"
              \/ job' = [job EXCEPT !.begun = TRUE, !.todo = changedLists[job.node]]
          BY <3>1 DEF CrcBegin, End, Begin
        <4>3. \/ job' = NoJob /\ result' # "C_NO_ERR"
              \/ job'.svc = "crc" /\ job'.todo = changedLists[job.node]
          BY <1>1, <4>2 DEF StartedJobs
        <4> QED
          BY <4>1, <4>3, NoJobType
      <3>2. CASE CrcList
        <4>1. PICK l \in job.todo :
                LET sealed == [e \in Elements |-> IF ListOf[e] = l THEN copy[e] ELSE crc[e]] IN
                \/ /\ crc' = IF l \in CrcActive THEN sealed ELSE crc
                   /\ Begin(job.todo \ {l})
                \/ /\ crc' \in {crc, sealed}
                   /\ End("error")
          BY <3>2 DEF CrcList
        <4> DEFINE sealed == [e \in Elements |-> IF ListOf[e] = l THEN copy[e] ELSE crc[e]]
        <4>2. job.begun /\ l \in changedLists[job.node]
          BY <2>7, <3>2 DEF CrcList, Executes
        <4>3. \A e \in Elements : ListOf[e] = l => copy[e] = nvm[e]
          BY <2>6, <4>2 DEF Fresh, ElementsOf
        <4>4. \A e \in Elements : \/ crc'[e] = crc[e]
                                  \/ crc'[e] = nvm[e]
          BY <4>1, <4>3
        <4>5. \A k : Intact(k) => Intact(k)'
          BY <1>2, <4>4 DEF Intact, ElementsOf
        <4>6. CASE Begin(job.todo \ {l}) /\ crc' = IF l \in CrcActive THEN sealed ELSE crc
          <5>1. job'.svc = "crc" /\ job'.todo = job.todo \ {l}
            BY <1>1, <4>6 DEF Begin, StartedJobs
          <5>2. l \in CrcActive => Intact(l)'
            BY <1>2, <4>3, <4>6 DEF Intact, ElementsOf
          <5>3. \A k \in (changedLists[job.node] \ job'.todo) \cap CrcActive : Intact(k)'
            BY <2>7, <4>2, <4>5, <5>1, <5>2 DEF AllIntact
          <5> QED
            BY <4>5, <5>1, <5>3, NoJobType
        <4>7. CASE End("error")
          <5>1. job' = NoJob /\ result' # "C_NO_ERR"
            BY <4>7 DEF End
          <5> QED
            BY <4>5, <5>1, NoJobType
        <4> QED
          BY <4>1, <4>6, <4>7
      <3>3. CASE CrcEnd
        <4>1. job.begun /\ job.todo = {} /\ job' = NoJob /\ crc' = crc
          BY <3>3 DEF CrcEnd, Executes, End, serverVars
        <4>2. \A l : Intact(l)' <=> Intact(l)
          BY <1>2, <4>1, SameServer
        <4> QED
          BY <2>7, <4>1, <4>2, NoJobType DEF AllIntact
      <3> QED
        BY <3>1, <3>2, <3>3
    <2>9. StatusInv'
      BY <1>2, <2>1, <2>3, <2>8 DEF IntactInv, StatusInv
    <2>10. \A n \in NodesFor(Relevant) : n # job.node => ~ Current(n)'
      BY <1>1, <1>2, <2>1, SafeJob, FirstUnique DEF Current
    <2>11. \A n \in NodesFor(Relevant) : n \notin todoNodes => n # job.node
      BY <2>5
    <2>12. ASSUME NEW n \in NodesFor(Relevant)
           PROVE  /\ n \notin todoNodes' => AllIntact(Relevant \cap ListsOf(n))'
                  /\ Current(n)' /\ job'.svc = "crc" /\ job'.begun =>
                        AllIntact(changedLists[n] \ job.todo)'
                  /\ Current(n)' /\ job'.svc # "crc" /\ result' = "C_NO_ERR" =>
                        AllIntact(Relevant \cap ListsOf(n))'
      <3>1. ListsOf(n)' = ListsOf(n)
        BY DEF ListsOf
      <3>2. n \notin todoNodes' => AllIntact(Relevant \cap ListsOf(n))'
        BY <1>2, <2>1, <2>3, <2>8, <3>1 DEF IntactInv, SealedInv, AllIntact
      <3>3. Current(n)' /\ job'.svc = "crc" /\ job'.begun =>
                        AllIntact(changedLists[n] \ job.todo)'
        BY <1>2, <2>8, <2>10 DEF AllIntact
      <3>4. Current(n)' /\ job'.svc # "crc" /\ result' = "C_NO_ERR" =>
                        AllIntact(Relevant \cap ListsOf(n))'
        BY <2>3, <2>6, <2>8, <2>10, <3>1 DEF AllIntact, Covered
      <3> QED
        BY <3>2, <3>3, <3>4
    <2>13. SealedInv'
      BY <1>2, <2>1, <2>3, <2>12 DEF SealedInv, FinishedListsIntact
    <2> QED
      BY <2>2, <2>4, <2>9, <2>13 DEF IntactInv
  <1> QED
    BY <1>4, <1>5

LEMMA ThreadIntact ==
    ASSUME TypeOK, SealInv, IntactInv, ThreadStep
    PROVE  IntactInv'
  BY OtherServicesIntact, WriteIntact, ReadBackIntact, CrcIntact DEF ThreadStep, Thread

-----------------------------------------------------------------------------
(* The dashboard.                                                           *)

LEMMA AwaitedIntact ==
    ASSUME IntactInv, reading, finished, step = "closed"
    PROVE  \A l \in CrcStatusAfter \cap CrcActive : Intact(l)
  BY DEF IntactInv, ReadingInv, StatusInv, CrcStatusAfter

LEMMA FinishedIntact ==
    ASSUME TypeOK, SealInv, IntactInv, HandlePollingFinished
    PROVE  IntactInv'
  <1>1. /\ finished /\ ~finished' /\ ~Running /\ ~accept /\ job.svc = "none"
        /\ UNCHANGED <<nvm, crc, result>>
    BY DEF HandlePollingFinished, TypeOK, DealerTypeOK, ThreadTypeOK, Running, serverVars
  <1>2. job.svc \notin Safe
    BY <1>1 DEF Safe
  <1>3. reading => step = "closed" /\ ~pending
    BY DEF TypeOK, IntactInv, ServiceInv
  <1>4. ASSUME StartMissed(TRUE, TRUE), UNCHANGED <<dealerVars, dialogVars>>, ~reading',
               crcStatus' = crcStatus \/ (reading /\ crcStatus' = CrcStatusAfter)
        PROVE  IntactInv'
    <2>1. accept' = TRUE /\ UNCHANGED <<job, missed>>
      BY <1>4, NoneMissed
    <2>2. SignalInv'
      BY <2>1 DEF IntactInv, SignalInv
    <2>3. WrittenInv' /\ FreshInv' /\ SealedInv'
      BY <1>1, <1>4, <2>1, DialogKept DEF dealerVars, dialogVars
    <2>4. ServiceInv'
      BY <1>2, <1>4, <2>1 DEF IntactInv, ServiceInv, Asks, dialogVars
    <2>5. ReadingInv'
      BY <1>4 DEF ReadingInv
    <2>6. StatusInv'
      <3>1. Relevant' = Relevant /\ step' = step
        BY <1>4, SameRelevant DEF dialogVars
      <3>2. CASE crcStatus' = crcStatus
        BY <1>1, <3>1, <3>2, SameServer DEF IntactInv, StatusInv
      <3>3. CASE reading /\ crcStatus' = CrcStatusAfter
        BY <1>1, <1>3, <3>1, <3>3, AwaitedIntact, SameServer DEF IntactInv, StatusInv
      <3> QED
        BY <1>4, <3>2, <3>3
    <2> QED
      BY <2>2, <2>3, <2>4, <2>5, <2>6 DEF IntactInv
  <1>5. CASE NotReading
    BY <1>4, <1>5 DEF NotReading, widgetVars
  <1>6. CASE ReadFailed
    BY <1>4, <1>6 DEF ReadFailed
  <1>7. CASE ReadNext
    <2>1. PICK l \in unread : /\ job' = ReadListJob(l)
                              /\ awaited' = l
                              /\ unread' = unread \ {l}
      BY <1>7 DEF ReadNext, Start
    <2>2. /\ reading /\ reading' /\ result # "error" /\ crcStatus' = CrcStatusAfter
          /\ UNCHANGED <<dealerVars, dialogVars, queued, missed, toWrite, readStatus>>
      BY <1>7 DEF ReadNext
    <2>3. job'.svc = "readlist" /\ job'.lists = {l} /\ job'.svc \notin Safe /\ Running'
      BY <2>1 DEF ReadListJob, Job, Safe, Running
    <2>4. SignalInv'
      BY <2>2, <2>3 DEF IntactInv, SignalInv
    <2>5. WrittenInv' /\ FreshInv' /\ SealedInv'
      BY <1>1, <1>2, <2>2, <2>3, DialogKept DEF dealerVars, dialogVars
    <2>6. ServiceInv'
      BY <1>3, <2>2, <2>3 DEF ServiceInv, dialogVars
    <2>7. StatusInv'
      <3>1. Relevant' = Relevant /\ step' = step
        BY <2>2, SameRelevant DEF dialogVars
      <3> QED
        BY <1>1, <1>3, <2>2, <3>1, AwaitedIntact, SameServer DEF IntactInv, StatusInv
    <2>8. ReadingInv'
      <3>1. ElementsOf(toWrite \ (unread \cup {awaited})) \subseteq ReadStatusAfter(queued)
            /\ ElementsOf({awaited}) \subseteq ReadStatusAfter(queued)
        BY <1>1, <2>2 DEF IntactInv, ReadingInv
      <3>2. ElementsOf(toWrite' \ (unread' \cup {awaited'})) \subseteq ReadStatusAfter(queued)
        BY <2>1, <2>2, <3>1 DEF ElementsOf
      <3>3. ReadStatusAfter(queued)' = ReadStatusAfter(queued)
        BY <2>2 DEF ReadStatusAfter
      <3> QED
        BY <1>1, <2>1, <2>3, <3>2, <3>3 DEF ReadingInv, ElementsOf
    <2> QED
      BY <2>4, <2>5, <2>6, <2>7, <2>8 DEF IntactInv
  <1>8. CASE ReadEnd
    <2>1. /\ reading /\ ~reading' /\ result # "error" /\ unread = {}
          /\ crcStatus' = CrcStatusAfter /\ readStatus' = ReadStatusAfter(queued)
      BY <1>8 DEF ReadEnd, UpdateEcuValues
    <2>2. PICK set \in [Elements -> Values] :
            LET ch == ChangedElements(toWrite, set, readStatus', ecu')
                inv == InvalidLists(toWrite, readStatus', crcStatus') IN
            IF ch \cup inv = {}
            THEN StartMissed(TRUE, TRUE) /\ UNCHANGED <<dealerVars, dialogVars>>
            ELSE /\ OpenDialog(ch, inv, set, readStatus', TRUE)
                 /\ accept' = TRUE
                 /\ UNCHANGED <<job, missed>>
      BY <1>8 DEF ReadEnd
    <2> DEFINE ch == ChangedElements(toWrite, set, readStatus', ecu')
               inv == InvalidLists(toWrite, readStatus', crcStatus')
    <2>3. ch \in SUBSET Elements /\ ch \subseteq ElementsOf(toWrite)
      BY DEF ChangedElements, ElementsOf
    <2>4. ElementsOf(toWrite) \subseteq readStatus'
      <3>1. ElementsOf(toWrite \ (unread \cup {awaited})) \subseteq ReadStatusAfter(queued)
            /\ ElementsOf({awaited}) \subseteq ReadStatusAfter(queued)
        BY <1>1, <2>1 DEF IntactInv, ReadingInv
      <3> QED
        BY <2>1, <3>1 DEF ElementsOf
    <2> HIDE DEF ch, inv
    <2>5. CASE ch \cup inv = {}
      BY <1>4, <2>1, <2>2, <2>5 DEF ch, inv
    <2>6. CASE ch \cup inv # {}
      <3>1. OpenDialog(ch, inv, set, readStatus', TRUE) /\ accept' = TRUE /\ UNCHANGED <<job, missed>>
        BY <2>2, <2>6 DEF ch, inv
      <3>2. \A l \in crcStatus' \cap CrcActive : Intact(l)
        BY <1>1, <1>3, <2>1, AwaitedIntact
      <3> QED
        BY <1>1, <1>2, <1>3, <2>1, <2>3, <2>4, <3>1, <3>2, OpenIntact
    <2> QED
      BY <2>5, <2>6
  <1> QED
    BY <1>5, <1>6, <1>7, <1>8 DEF HandlePollingFinished

\* A read is started, if it does not find the thread busy.
LEMMA StartedIntact ==
    ASSUME TypeOK, IntactInv, Click, NEW l, NvmReadList(l), ~disturbed',
           UNCHANGED <<serverVars, dealerVars, dialogVars, queued, finished, result, readStatus,
                       crcStatus>>,
           reading' => awaited' = l /\ toWrite' \subseteq unread' \cup {l}
    PROVE  IntactInv'
  <1>1. Free /\ job' = ReadListJob(l) /\ UNCHANGED missed
    BY DEF NvmReadList, Start
  <1>2. job'.svc = "readlist" /\ job'.lists = {l} /\ job'.svc \notin Safe /\ Running'
    BY <1>1 DEF ReadListJob, Job, Safe, Running
  <1>3. job.svc \notin Safe /\ step = "closed" /\ ~finished /\ ~pending
    BY <1>1 DEF Free, Running, Safe, Click, IntactInv, ServiceInv
  <1>4. SignalInv'
    BY <1>1, <1>2 DEF IntactInv, SignalInv
  <1>5. WrittenInv' /\ FreshInv' /\ SealedInv'
    BY <1>2, <1>3, DialogKept DEF serverVars, dealerVars, dialogVars
  <1>6. ServiceInv'
    BY <1>2, <1>3 DEF ServiceInv, dialogVars
  <1>7. StatusInv'
    BY SameRelevant, SameServer DEF IntactInv, StatusInv, dialogVars, serverVars
  <1>8. ReadingInv'
    BY <1>2, <1>3 DEF ReadingInv, ElementsOf
  <1> QED
    BY <1>4, <1>5, <1>6, <1>7, <1>8 DEF IntactInv

LEMMA DashboardIntact ==
    ASSUME TypeOK, SealInv, IntactInv, ~disturbed',
           \/ \E lists \in Selections :
                 HandleTreeReadAction(lists) \/ HandleWriteProcessTrigger(lists)
           \/ OtherRead
    PROVE  IntactInv'
  <1>1. ASSUME NEW lists, ReadElements(lists), Click, toWrite' = {} \/ toWrite' = lists
        PROVE  IntactInv'
    <2>1. NvmReadList(awaited') /\ unread' = lists \ {awaited'} /\ awaited' \in lists
      BY <1>1 DEF ReadElements
    <2>2. PICK l \in lists : l = awaited'
      BY <2>1
    <2>3. NvmReadList(l)
      BY <2>1, <2>2 DEF NvmReadList, ReadListJob
    <2>4. UNCHANGED <<serverVars, dealerVars, dialogVars, queued, finished, result, readStatus,
                      crcStatus>>
      BY <1>1 DEF ReadElements
    <2>5. awaited' = l /\ toWrite' \subseteq unread' \cup {l}
      BY <1>1, <2>1, <2>2
    <2> QED
      BY <1>1, <2>3, <2>4, <2>5, StartedIntact
  <1>2. ASSUME NEW lists \in Selections, HandleTreeReadAction(lists)
        PROVE  IntactInv'
    BY <1>1, <1>2 DEF HandleTreeReadAction
  <1>3. ASSUME NEW lists \in Selections, HandleWriteProcessTrigger(lists)
        PROVE  IntactInv'
    <2>1. CASE ElementsOf(lists) \subseteq readStatus
      <3> DEFINE ch(set) == ChangedElements(lists, set, readStatus, ecu)
                 inv == InvalidLists(lists, readStatus, crcStatus)
      <3>1. PICK set \in [Elements -> Values] :
              /\ OpenDialog(ch(set), inv, set, readStatus, FALSE)
              /\ UNCHANGED <<serverVars, threadVars, missed, widgetVars>>
        BY <1>3, <2>1 DEF HandleWriteProcessTrigger
      <3>2. ch(set) \in SUBSET Elements /\ ch(set) \subseteq readStatus
        BY <2>1 DEF ChangedElements, ElementsOf
      <3>3. step = "closed" /\ ~reading
        BY <1>3 DEF HandleWriteProcessTrigger, Click
      <3>4. readStatus # {}
        <4>1. PICK l \in lists : l \in Lists
          BY DEF Selections
        <4>2. PICK e \in Elements : ListOf[e] = l
          BY <4>1, DealerAssumption
        <4> QED
          BY <2>1, <4>1, <4>2 DEF ElementsOf
      <3>5. job.svc \notin Safe
        BY <3>3, <3>4 DEF IntactInv, ServiceInv
      <3>6. UNCHANGED <<nvm, crc, job, missed, accept, finished, crcStatus, reading>>
        BY <3>1 DEF serverVars, threadVars, widgetVars
      <3>7. Running \/ accept' \/ finished'
        BY <3>6 DEF IntactInv, SignalInv
      <3>8. \A l \in crcStatus' \cap CrcActive : Intact(l)
        BY <3>3, <3>6 DEF IntactInv, StatusInv
      <3> HIDE DEF ch, inv
      <3> QED
        BY <3>1, <3>2, <3>3, <3>5, <3>6, <3>7, <3>8, OpenIntact
    <2>2. CASE ~(ElementsOf(lists) \subseteq readStatus)
      BY <1>1, <1>3, <2>2 DEF HandleWriteProcessTrigger
    <2> QED
      BY <2>1, <2>2
  <1>4. CASE OtherRead
    <2>1. PICK l \in OtherReads : NvmReadList(l)
      BY <1>4 DEF OtherRead
    <2>2. /\ Click /\ UNCHANGED <<reading, awaited>>
          /\ UNCHANGED <<serverVars, dealerVars, dialogVars, queued, finished, result, readStatus,
                         crcStatus>>
      BY <1>4 DEF OtherRead, widgetVars
    <2>3. Free
      BY <2>1 DEF NvmReadList
    <2>4. ~reading
      BY <2>2, <2>3 DEF IntactInv, ReadingInv, Free, Click
    <2> QED
      BY <2>1, <2>2, <2>4, StartedIntact
  <1> QED
    BY <1>2, <1>3, <1>4

-----------------------------------------------------------------------------
(* The dialog: clicks.                                                      *)

\* What a step that stays in the open dialog leaves as it is.
LEMMA StayingIntact ==
    ASSUME TypeOK, IntactInv, Staying, step # "closed"
    PROVE  /\ UNCHANGED <<nvm, crc, changed, changedLists, copy, prepared, invalid, result,
                          finished, reading, crcStatus>>
           /\ Relevant' = Relevant /\ NodesFor(Relevant)' = NodesFor(Relevant)
           /\ ReadingInv'
           /\ step' \notin {"closed", "eBEFOREWRITE"} => StatusInv'
           /\ \A n : /\ Flagged(n)' <=> Flagged(n)
                     /\ Covered(n)' <=> Covered(n)
                     /\ Fresh(changedLists[n])' <=> Fresh(changedLists[n])
                     /\ AllIntact(Relevant \cap ListsOf(n))' <=> AllIntact(Relevant \cap ListsOf(n))
  <1>1. UNCHANGED <<nvm, crc, changed, changedLists, copy, prepared, invalid, result, finished,
                    reading, crcStatus>>
    BY DEF Staying, serverVars, dealerVars, widgetVars
  <1>2. Relevant' = Relevant /\ NodesFor(Relevant)' = NodesFor(Relevant)
    BY <1>1, SameRelevant
  <1>3. ReadingInv'
    BY <1>1 DEF TypeOK, ReadingInv
  <1>4. step' \notin {"closed", "eBEFOREWRITE"} => StatusInv'
    BY <1>1, <1>2, SameServer DEF IntactInv, StatusInv
  <1>5. \A n : /\ Flagged(n)' <=> Flagged(n)
               /\ Covered(n)' <=> Covered(n)
               /\ Fresh(changedLists[n])' <=> Fresh(changedLists[n])
               /\ AllIntact(Relevant \cap ListsOf(n))' <=> AllIntact(Relevant \cap ListsOf(n))
    BY <1>1, <1>2 DEF Flagged, Covered, Fresh, AllIntact, Intact, ElementsOf, ListsOf
  <1> QED
    BY <1>1, <1>2, <1>3, <1>4, <1>5

LEMMA WriteClickedIntact ==
    ASSUME TypeOK, SealInv, IntactInv, WriteClicked
    PROVE  IntactInv'
  <1>1. /\ step = "eBEFOREWRITE" /\ step' = "eWRITE" /\ Staying
        /\ UNCHANGED <<job, accept, missed, pending, todoNodes>>
    BY DEF WriteClicked
  <1>2. /\ ~pending /\ todoNodes = NodesFor(Relevant) /\ job.svc \notin Safe
        /\ \A n \in Nodes : Flagged(n)
    BY <1>1 DEF SealInv, StepInv, IntactInv, ServiceInv, Asks, WrittenInv
  <1>3. /\ UNCHANGED <<result, finished>>
        /\ NodesFor(Relevant)' = NodesFor(Relevant)
        /\ ReadingInv' /\ StatusInv'
        /\ \A n : Flagged(n)' <=> Flagged(n)
    BY <1>1, StayingIntact
  <1>4. SignalInv' /\ ServiceInv'
    BY <1>1, <1>2, <1>3 DEF IntactInv, SignalInv, ServiceInv, Running
  <1>5. NodesFor(Relevant) \subseteq Nodes
    BY DealerAssumption DEF NodesFor, Relevant, TypeOK, DialogTypeOK
  <1>6. WrittenInv'
    BY <1>1, <1>2, <1>3, <1>5 DEF WrittenInv, Current
  <1>7. FreshInv' /\ SealedInv'
    BY <1>1 DEF FreshInv, SealedInv, FinishedListsIntact
  <1> QED
    BY <1>3, <1>4, <1>6, <1>7 DEF IntactInv

LEMMA ConfirmClickedIntact ==
    ASSUME TypeOK, SealInv, IntactInv, ConfirmClicked
    PROVE  IntactInv'
  <1>1. /\ step = "eCONFIRM" /\ step' = "eWRITECRC" /\ timer' /\ Staying
        /\ UNCHANGED <<job, accept, missed, pending, todoNodes>>
    BY DEF ConfirmClicked
  <1>2. ~pending /\ job.svc \notin Safe /\ todoNodes = NodesFor(Relevant)
    BY <1>1 DEF IntactInv, ServiceInv, Asks, FreshInv
  <1>3. /\ UNCHANGED <<result, finished>>
        /\ NodesFor(Relevant)' = NodesFor(Relevant)
        /\ ReadingInv' /\ StatusInv'
        /\ \A n : /\ Covered(n)' <=> Covered(n)
                  /\ Fresh(changedLists[n])' <=> Fresh(changedLists[n])
    BY <1>1, StayingIntact
  <1>4. SignalInv' /\ ServiceInv'
    BY <1>1, <1>2, <1>3 DEF IntactInv, SignalInv, ServiceInv, Running
  <1>5. WrittenInv' /\ FreshInv'
    BY <1>1, <1>3 DEF IntactInv, WrittenInv, FreshInv
  <1>6. SealedInv'
    BY <1>1, <1>2, <1>3 DEF SealedInv, FinishedListsIntact, Current
  <1> QED
    BY <1>3, <1>4, <1>5, <1>6 DEF IntactInv

LEMMA OkClickedIntact ==
    ASSUME TypeOK, SealInv, IntactInv, OkClicked
    PROVE  IntactInv'
  <1>1. step = "eWRITECRC" /\ ~timer
    BY DEF OkClicked
  <1>2. CASE Accept
    BY <1>1, <1>2, AcceptIntact
  <1>3. CASE ~Accept
    <2>1. PICK l \in Relevant :
             /\ IF Free THEN Start(Job("notify", NodeOf[l], {l}))
                ELSE UNCHANGED <<job, accept>>
             /\ step' = "eSEND_NOTIFICATION"
             /\ UNCHANGED <<missed, pending, todoNodes>>
             /\ Staying
      BY <1>3 DEF OkClicked
    <2>2. ~pending /\ job.svc \notin Safe
      BY <1>1 DEF IntactInv, ServiceInv
    <2>3. /\ UNCHANGED <<nvm, crc, finished>> /\ Relevant' = Relevant
          /\ ReadingInv' /\ StatusInv'
      BY <1>1, <2>1, StayingIntact
    <2>4. job'.svc \notin Safe /\ ((job' = job /\ accept' = accept) \/ Running')
      BY <2>1, <2>2 DEF Start, Job, Safe, Running
    <2>5. SignalInv' /\ ServiceInv'
      BY <2>1, <2>2, <2>3, <2>4 DEF IntactInv, SignalInv, ServiceInv, Running
    <2>6. WrittenInv' /\ FreshInv'
      BY <2>1 DEF WrittenInv, FreshInv
    <2>7. SealedInv'
      BY <1>1, <2>1, <2>3, SameServer DEF IntactInv, SealedInv, FinishedListsIntact
    <2> QED
      BY <2>3, <2>5, <2>6, <2>7 DEF IntactInv
  <1> QED
    BY <1>2, <1>3

-----------------------------------------------------------------------------
(* The dialog: ticks of its timer.                                          *)

LEMMA RequestIntact ==
    ASSUME TypeOK, SealInv, IntactInv, NEW at, NEW svc, NEW lists, Request(at, svc, lists),
           <<at, svc>> \in {<<"eWRITE", "write">>, <<"eREADBACK", "readback">>,
                            <<"eWRITECRC", "crc">>},
           svc = "write" => \A n \in Nodes : lists[n] = invalid \cap ListsOf(n)
    PROVE  IntactInv'
  <1>1. PICK n \in todoNodes :
              /\ IsFirst(n, todoNodes) /\ n \in Nodes /\ n \in NodesFor(Relevant)
              /\ job'.svc = svc /\ job'.node = n /\ job'.lists = lists[n] /\ ~job'.begun
              /\ step = at /\ ~pending /\ pending'
              /\ UNCHANGED <<step, todoNodes, readNodes, actual, confirmed>> /\ Staying
    BY RequestKeeps
  <1>2. timer /\ timer' /\ UNCHANGED missed
    BY DEF Request
  <1>3. svc \in Safe /\ Running' /\ Asks(svc)'
    BY <1>1 DEF Safe, Running, Asks
  <1>4. /\ UNCHANGED <<result, finished, invalid>>
        /\ NodesFor(Relevant)' = NodesFor(Relevant)
        /\ ReadingInv' /\ StatusInv'
        /\ \A m : /\ Flagged(m)' <=> Flagged(m)
                  /\ Covered(m)' <=> Covered(m)
                  /\ Fresh(changedLists[m])' <=> Fresh(changedLists[m])
                  /\ AllIntact(Relevant \cap ListsOf(m))' <=> AllIntact(Relevant \cap ListsOf(m))
    BY <1>1, StayingIntact
  <1>5. SignalInv' /\ ServiceInv'
    BY <1>1, <1>2, <1>3 DEF IntactInv, SignalInv, ServiceInv
  <1>6. \A m \in todoNodes : IsFirst(m, todoNodes) => m = n
    <2>1. todoNodes \in SUBSET Nat
      BY DealerAssumption DEF TypeOK, DialogTypeOK
    <2> QED
      BY <1>1, <2>1, FirstUnique
  <1>7. \A m : Current(m)' => m = n
    BY <1>1, <1>6 DEF Current, IsFirst
  <1>8. WrittenInv'
    <2>1. CASE at = "eWRITE"
      <3>1. svc = "write" /\ job'.lists = invalid \cap ListsOf(n)
        BY <1>1, <2>1
      <3>2. \A m : Written(m)' => Written(m)
        BY <1>1, <3>1 DEF Written
      <3>3. \A m : Written(m) => m \notin todoNodes
        BY <1>1 DEF Written
      <3>4. ASSUME NEW m \in NodesFor(Relevant)
            PROVE  /\ m \notin todoNodes' => Covered(m)'
                   /\ ~Written(m)' => Flagged(m)'
        <4>1. ~Written(m) => Flagged(m)
          BY <1>1, <2>1 DEF IntactInv, WrittenInv
        <4>2. Written(m) => Written(m)'
          BY <1>1, <3>3 DEF Written
        <4> QED
          BY <1>1, <1>4, <2>1, <4>1, <4>2 DEF IntactInv, WrittenInv
      <3> QED
        BY <1>1, <1>4, <1>7, <2>1, <3>1, <3>4 DEF WrittenInv, ListsOf
    <2>2. CASE at # "eWRITE"
      BY <1>1, <2>2 DEF WrittenInv
    <2> QED
      BY <2>1, <2>2
  <1>9. FreshInv'
    BY <1>1, <1>4 DEF IntactInv, FreshInv
  <1>10. SealedInv'
    BY <1>1, <1>2, <1>4 DEF IntactInv, SealedInv, FinishedListsIntact
  <1> QED
    BY <1>4, <1>5, <1>8, <1>9, <1>10 DEF IntactInv

\* What is common to the answers.
LEMMA NodeDoneIntact ==
    ASSUME TypeOK, SealInv, IntactInv, NEW at, NEW next, NEW nextTimer,
           next \notin {"closed", "eBEFOREWRITE"},
           NodeDone(at, next, nextTimer), at \in {"eWRITE", "eREADBACK", "eWRITECRC"}
    PROVE  /\ SignalInv' /\ ServiceInv' /\ ReadingInv' /\ StatusInv'
           /\ step = at /\ job.svc = "none" /\ job' = job /\ result = "C_NO_ERR" /\ timer
           /\ \A m : ~ Current(m)'
           /\ NodesFor(Relevant)' = NodesFor(Relevant) /\ Relevant' = Relevant
           /\ \A m : /\ Flagged(m)' <=> Flagged(m)
                     /\ Covered(m)' <=> Covered(m)
                     /\ Fresh(changedLists[m])' <=> Fresh(changedLists[m])
                     /\ AllIntact(Relevant \cap ListsOf(m))' <=> AllIntact(Relevant \cap ListsOf(m))
           /\ UNCHANGED <<nvm, crc>>
           /\ \E n \in todoNodes :
                 /\ Current(n) /\ (\A m : Current(m) => m = n)
                 /\ \/ /\ todoNodes = {n}
                       /\ todoNodes' = NodesFor(Relevant)
                       /\ step' = next /\ timer' = nextTimer
                    \/ /\ todoNodes # {n}
                       /\ todoNodes' = todoNodes \ {n}
                       /\ step' = step /\ timer' = timer
  <1>1. /\ step = at /\ pending /\ ~Running /\ pending' = FALSE /\ result = "C_NO_ERR" /\ timer
        /\ UNCHANGED <<job, accept, missed>> /\ Staying
    BY DEF NodeDone, Answered
  <1>2. job.svc = "none" /\ job.svc \notin Safe
    BY <1>1 DEF Running, Safe
  <1>3. PICK n \in todoNodes :
          /\ IsFirst(n, todoNodes)
          /\ \/ /\ todoNodes = {n}
                /\ todoNodes' = NodesFor(Relevant)
                /\ step' = next /\ timer' = nextTimer
             \/ /\ todoNodes # {n}
                /\ todoNodes' = todoNodes \ {n}
                /\ step' = step /\ timer' = timer
    BY DEF NodeDone
  <1>4. step' \notin {"closed", "eBEFOREWRITE"} /\ step # "closed"
    BY <1>1, <1>3
  <1>5. /\ UNCHANGED <<nvm, crc, finished>>
        /\ NodesFor(Relevant)' = NodesFor(Relevant) /\ Relevant' = Relevant
        /\ ReadingInv' /\ StatusInv'
        /\ \A m : /\ Flagged(m)' <=> Flagged(m)
                  /\ Covered(m)' <=> Covered(m)
                  /\ Fresh(changedLists[m])' <=> Fresh(changedLists[m])
                  /\ AllIntact(Relevant \cap ListsOf(m))' <=> AllIntact(Relevant \cap ListsOf(m))
    BY <1>1, <1>4, StayingIntact
  <1>6. SignalInv' /\ ServiceInv'
    BY <1>1, <1>2, <1>4, <1>5 DEF IntactInv, SignalInv, ServiceInv, Running
  <1>7. todoNodes \in SUBSET Nat
    BY DealerAssumption DEF TypeOK, DialogTypeOK
  <1>8. Current(n) /\ (\A m : Current(m) => m = n) /\ \A m : ~ Current(m)'
    BY <1>1, <1>3, <1>7, FirstUnique DEF Current
  <1> QED
    BY <1>1, <1>2, <1>3, <1>5, <1>6, <1>8

LEMMA WriteDoneIntact ==
    ASSUME TypeOK, SealInv, IntactInv, WriteDone
    PROVE  IntactInv'
  <1>1. NodeDone("eWRITE", "eREADBACK", TRUE)
    BY DEF WriteDone
  <1>2. /\ SignalInv' /\ ServiceInv' /\ ReadingInv' /\ StatusInv'
        /\ step = "eWRITE" /\ job.svc = "none" /\ job' = job /\ result = "C_NO_ERR"
        /\ \A m : ~ Current(m)'
        /\ NodesFor(Relevant)' = NodesFor(Relevant)
        /\ \A m : (Flagged(m)' <=> Flagged(m)) /\ (Covered(m)' <=> Covered(m))
    BY <1>1, NodeDoneIntact
  <1>3. PICK n \in todoNodes :
          /\ Current(n) /\ (\A m : Current(m) => m = n)
          /\ \/ /\ todoNodes = {n}
                /\ todoNodes' = NodesFor(Relevant)
                /\ step' = "eREADBACK" /\ timer' = TRUE
             \/ /\ todoNodes # {n}
                /\ todoNodes' = todoNodes \ {n}
                /\ step' = step /\ timer' = timer
    BY <1>1, NodeDoneIntact
  <1>4. \A m \in NodesFor(Relevant) : m = n \/ m \notin todoNodes => Covered(m)
    BY <1>2, <1>3 DEF IntactInv, WrittenInv
  <1>5. WrittenInv'
    <2>1. CASE step' = "eWRITE"
      <3>1. todoNodes' = todoNodes \ {n}
        BY <1>3, <2>1
      <3>2. ASSUME NEW m \in NodesFor(Relevant), ~Written(m)' PROVE Flagged(m)
        <4>1. m \in todoNodes /\ m # n
          BY <3>1, <3>2 DEF Written
        <4>2. ~Written(m)
          BY <1>3, <4>1 DEF Written, Current
        <4> QED
          BY <1>2, <4>2 DEF IntactInv, WrittenInv
      <3> QED
        BY <1>2, <1>4, <2>1, <3>1, <3>2 DEF WrittenInv
    <2>2. CASE step' = "eREADBACK"
      BY <2>2 DEF WrittenInv
    <2> QED
      BY <1>2, <1>3, <2>1, <2>2
  <1>6. FreshInv'
    BY <1>2, <1>3, <1>4 DEF FreshInv
  <1>7. SealedInv'
    BY <1>2, <1>3 DEF SealedInv, FinishedListsIntact
  <1> QED
    BY <1>2, <1>5, <1>6, <1>7 DEF IntactInv

LEMMA ReadBackDoneIntact ==
    ASSUME TypeOK, SealInv, IntactInv, ReadBackDone
    PROVE  IntactInv'
  <1>1. NodeDone("eREADBACK", "eCONFIRM", FALSE)
    BY DEF ReadBackDone
  <1>2. /\ SignalInv' /\ ServiceInv' /\ ReadingInv' /\ StatusInv'
        /\ step = "eREADBACK" /\ job.svc = "none" /\ job' = job /\ result = "C_NO_ERR"
        /\ \A m : ~ Current(m)'
        /\ NodesFor(Relevant)' = NodesFor(Relevant)
        /\ \A m : (Covered(m)' <=> Covered(m))
                  /\ (Fresh(changedLists[m])' <=> Fresh(changedLists[m]))
    BY <1>1, NodeDoneIntact
  <1>3. PICK n \in todoNodes :
          /\ Current(n) /\ (\A m : Current(m) => m = n)
          /\ \/ /\ todoNodes = {n}
                /\ todoNodes' = NodesFor(Relevant)
                /\ step' = "eCONFIRM" /\ timer' = FALSE
             \/ /\ todoNodes # {n}
                /\ todoNodes' = todoNodes \ {n}
                /\ step' = step /\ timer' = timer
    BY <1>1, NodeDoneIntact
  <1>4. \A m \in NodesFor(Relevant) :
            Covered(m) /\ (m = n \/ m \notin todoNodes => Fresh(changedLists[m]))
    BY <1>2, <1>3 DEF IntactInv, FreshInv
  <1>5. FreshInv'
    BY <1>2, <1>3, <1>4 DEF FreshInv
  <1>6. WrittenInv' /\ SealedInv'
    BY <1>2, <1>3 DEF WrittenInv, SealedInv, FinishedListsIntact
  <1> QED
    BY <1>2, <1>5, <1>6 DEF IntactInv

LEMMA CrcsDoneIntact ==
    ASSUME TypeOK, SealInv, IntactInv, CrcsDone
    PROVE  IntactInv'
  <1>1. NodeDone("eWRITECRC", "eWRITECRC", FALSE)
    BY DEF CrcsDone
  <1>2. /\ SignalInv' /\ ServiceInv' /\ ReadingInv' /\ StatusInv'
        /\ step = "eWRITECRC" /\ job.svc = "none" /\ job' = job /\ result = "C_NO_ERR" /\ timer
        /\ \A m : ~ Current(m)'
        /\ NodesFor(Relevant)' = NodesFor(Relevant) /\ Relevant' = Relevant
        /\ \A m : /\ Covered(m)' <=> Covered(m)
                  /\ Fresh(changedLists[m])' <=> Fresh(changedLists[m])
                  /\ AllIntact(Relevant \cap ListsOf(m))' <=> AllIntact(Relevant \cap ListsOf(m))
        /\ UNCHANGED <<nvm, crc>>
    BY <1>1, NodeDoneIntact
  <1>3. PICK n \in todoNodes :
          /\ Current(n) /\ (\A m : Current(m) => m = n)
          /\ \/ /\ todoNodes = {n}
                /\ todoNodes' = NodesFor(Relevant)
                /\ step' = "eWRITECRC" /\ timer' = FALSE
             \/ /\ todoNodes # {n}
                /\ todoNodes' = todoNodes \ {n}
                /\ step' = step /\ timer' = timer
    BY <1>1, NodeDoneIntact
  <1>4. \A m \in NodesFor(Relevant) :
            m = n \/ m \notin todoNodes => AllIntact(Relevant \cap ListsOf(m))
    BY <1>2, <1>3 DEF IntactInv, SealedInv
  <1>5. WrittenInv' /\ FreshInv'
    BY <1>2, <1>3 DEF IntactInv, WrittenInv, FreshInv
  <1>6. SealedInv'
    <2>1. CASE timer' = FALSE
      <3>1. ASSUME NEW l \in Relevant \cap CrcActive PROVE Intact(l)
        <4>1. l \in Lists /\ NodeOf[l] \in NodesFor(Relevant)
          BY DEF Relevant, NodesFor, TypeOK, DialogTypeOK
        <4>2. NodeOf[l] = n \/ NodeOf[l] \notin todoNodes
          BY <1>2, <1>3, <2>1
        <4> QED
          BY <1>4, <4>1, <4>2 DEF AllIntact, ListsOf
      <3> QED
        BY <1>2, <2>1, <3>1, SameServer DEF SealedInv, FinishedListsIntact
    <2>2. CASE timer' = timer /\ todoNodes' = todoNodes \ {n} /\ step' = step
      BY <1>2, <1>4, <2>2 DEF SealedInv, FinishedListsIntact
    <2> QED
      BY <1>3, <2>1, <2>2
  <1> QED
    BY <1>2, <1>5, <1>6 DEF IntactInv

LEMMA PrepareIntact ==
    ASSUME TypeOK, SealInv, IntactInv, PrepareForWrite
    PROVE  IntactInv'
  <1>1. /\ step = "eBEFOREWRITE" /\ UNCHANGED <<job, accept, missed, step, pending, todoNodes>>
        /\ Staying
    BY DEF PrepareForWrite
  <1>2. ~pending /\ job.svc \notin Safe
    BY <1>1 DEF IntactInv, ServiceInv, Asks
  <1>3. /\ UNCHANGED <<nvm, crc, finished, crcStatus>> /\ ReadingInv'
        /\ \A n : Flagged(n)' <=> Flagged(n)
    BY <1>1, StayingIntact
  <1>4. SignalInv' /\ ServiceInv'
    BY <1>1, <1>2, <1>3 DEF IntactInv, SignalInv, ServiceInv, Running
  <1>5. StatusInv'
    BY <1>1, <1>3, SameServer DEF IntactInv, StatusInv
  <1>6. WrittenInv' /\ FreshInv' /\ SealedInv'
    BY <1>1, <1>3 DEF IntactInv, WrittenInv, FreshInv, SealedInv, FinishedListsIntact
  <1> QED
    BY <1>3, <1>4, <1>5, <1>6 DEF IntactInv

LEMMA NotificationIntact ==
    ASSUME TypeOK, SealInv, IntactInv, SendNextNotification
    PROVE  IntactInv'
  <1>1. step = "eSEND_NOTIFICATION" /\ ~Running
    BY DEF SendNextNotification
  <1>2. CASE Reject \/ Accept
    BY <1>1, <1>2, RejectIntact, AcceptIntact
  <1>3. CASE ~Reject /\ ~Accept
    <2>1. PICK l \in notices :
                IF finished /\ missed # {}
                THEN StartMissed(TRUE, TRUE)
                ELSE /\ IF finished \/ accept
                        THEN Start(Job("notify", NodeOf[l], {l}))
                        ELSE UNCHANGED <<job, accept>>
                     /\ UNCHANGED missed
      BY <1>3 DEF SendNextNotification
    <2>2. missed = {} /\ (accept \/ finished)
      BY <1>1 DEF IntactInv, SignalInv
    <2>3. job' = Job("notify", NodeOf[l], {l}) /\ missed' = {}
      BY <2>1, <2>2 DEF Start
    <2>4. job'.svc = "notify" /\ job'.svc \notin Safe /\ Running' /\ job.svc \notin Safe
      BY <1>1, <2>3 DEF Job, Safe, Running
    <2>5. /\ UNCHANGED <<nvm, crc, changed, changedLists, copy, step, timer, pending, todoNodes,
                         prepared, invalid, result>>
          /\ UNCHANGED <<reading, crcStatus>>
      BY <1>3 DEF SendNextNotification, serverVars, dealerVars, widgetVars
    <2>6. WrittenInv' /\ FreshInv' /\ SealedInv'
      BY <2>4, <2>5, DialogKept
    <2>7. ~pending /\ ~reading
      BY <1>1 DEF IntactInv, ServiceInv, TypeOK
    <2>8. SignalInv' /\ ServiceInv' /\ ReadingInv'
      BY <2>3, <2>4, <2>5, <2>7 DEF SignalInv, ServiceInv, ReadingInv
    <2>9. StatusInv'
      BY <1>1, <2>5, SameRelevant, SameServer DEF IntactInv, StatusInv
    <2> QED
      BY <2>6, <2>8, <2>9 DEF IntactInv
  <1> QED
    BY <1>2, <1>3

LEMMA TickIntact ==
    ASSUME TypeOK, SealInv, IntactInv, Tick
    PROVE  IntactInv'
  <1>1. CASE RequestWrite
    BY <1>1, RequestIntact DEF RequestWrite
  <1>2. CASE RequestReadBack
    BY <1>2, RequestIntact DEF RequestReadBack
  <1>3. CASE RequestCrcs
    BY <1>3, RequestIntact DEF RequestCrcs
  <1>4. CASE ReportError
    BY <1>4, RejectIntact DEF ReportError, Answered
  <1> QED
    BY <1>1, <1>2, <1>3, <1>4, WriteDoneIntact, ReadBackDoneIntact, CrcsDoneIntact,
       PrepareIntact, NotificationIntact DEF Tick

-----------------------------------------------------------------------------
(* The invariant and the theorems.                                          *)

LEMMA InitIntact == Init => IntactInv
  <1> SUFFICES ASSUME Init PROVE IntactInv
    OBVIOUS
  <1>1. job.svc \notin Safe /\ accept
    BY NoJobType DEF Init, DealerInit, Safe
  <1>2. SignalInv /\ ServiceInv /\ ReadingInv
    BY <1>1 DEF Init, SignalInv, ServiceInv, ReadingInv
  <1>3. StatusInv
    BY DEF Init, StatusInv, Relevant
  <1>4. WrittenInv /\ FreshInv /\ SealedInv
    BY DEF Init, WrittenInv, FreshInv, SealedInv, FinishedListsIntact
  <1> QED
    BY <1>2, <1>3, <1>4 DEF IntactInv

\* Once disturbed, always disturbed.
LEMMA DisturbedStays ==
    ASSUME TypeOK, [Next]_vars, disturbed
    PROVE  disturbed'
  <1>1. DialogGone \/ Staying \/ UNCHANGED disturbed => disturbed'
    BY DEF DialogGone, Staying
  <1>2. CASE ThreadStep \/ HandlePollingFinished
    BY <1>1, <1>2 DEF ThreadStep, guiVars, HandlePollingFinished
  <1>3. CASE Tick
    <2>1. CASE ReportError \/ SendNextNotification
      BY <1>1, <2>1 DEF ReportError, SendNextNotification, Reject, Accept
    <2>2. CASE RequestWrite \/ RequestReadBack \/ RequestCrcs
      BY <1>1, <2>2 DEF RequestWrite, RequestReadBack, RequestCrcs, Request
    <2>3. CASE WriteDone \/ ReadBackDone \/ CrcsDone \/ PrepareForWrite
      BY <1>1, <2>3 DEF WriteDone, ReadBackDone, CrcsDone, NodeDone, PrepareForWrite
    <2> QED
      BY <1>3, <2>1, <2>2, <2>3 DEF Tick
  <1>4. CASE UserStep
    <2>1. CASE WriteClicked \/ ConfirmClicked \/ OkClicked \/ OnCancel
      BY <1>1, <2>1 DEF WriteClicked, ConfirmClicked, OkClicked, OnCancel, Reject, Accept
    <2>2. \A l : NvmReadList(l) => disturbed'
      BY DEF NvmReadList
    <2>3. ASSUME NEW lists \in Selections,
                 HandleTreeReadAction(lists) \/ HandleWriteProcessTrigger(lists)
          PROVE  disturbed'
      BY <1>1, <2>2, <2>3 DEF HandleTreeReadAction, HandleWriteProcessTrigger, ReadElements
    <2>4. CASE OtherRead
      BY <2>2, <2>4 DEF OtherRead
    <2> QED
      BY <1>4, <2>1, <2>3, <2>4 DEF UserStep
  <1>5. CASE UNCHANGED vars
    BY <1>1, <1>5 DEF vars, guiVars
  <1> QED
    BY <1>2, <1>3, <1>4, <1>5 DEF Next

LEMMA NextIntact ==
    ASSUME TypeOK, SealInv, IntactInv, [Next]_vars, ~disturbed'
    PROVE  IntactInv'
  <1>1. CASE Next
    <2>1. CASE WriteClicked \/ ConfirmClicked \/ OkClicked \/ OnCancel
      BY <2>1, WriteClickedIntact, ConfirmClickedIntact, OkClickedIntact, RejectIntact DEF OnCancel
    <2> QED
      BY <1>1, <2>1, ThreadIntact, FinishedIntact, TickIntact, DashboardIntact DEF Next, UserStep
  <1>2. CASE UNCHANGED vars
    <2>1. /\ UNCHANGED <<nvm, crc, changed, changedLists, copy, step, timer, pending, todoNodes,
                         prepared, invalid, result, job>>
          /\ UNCHANGED <<missed, accept, finished, reading, awaited, unread, toWrite, readStatus,
                         queued, crcStatus>>
      BY <1>2 DEF vars, dealerAll, guiVars, dealerVars, dialogVars, widgetVars, threadVars,
                  serverVars
    <2>2. WrittenInv' /\ FreshInv' /\ SealedInv'
      BY <2>1, DialogKept
    <2>3. SignalInv' /\ ServiceInv'
      BY <2>1 DEF IntactInv, SignalInv, ServiceInv, Running, Asks
    <2>4. ReadingInv'
      BY <2>1 DEF IntactInv, ReadingInv, Running, ReadStatusAfter, ElementsOf, Intact
    <2>5. StatusInv'
      BY <2>1, SameRelevant, SameServer DEF IntactInv, StatusInv
    <2> QED
      BY <2>2, <2>3, <2>4, <2>5 DEF IntactInv
  <1> QED
    BY <1>1, <1>2

LEMMA UndisturbedIntact == Spec => []Undisturbed
  <1>1. Init => Undisturbed
    BY InitIntact DEF Undisturbed
  <1>2. IInv /\ Undisturbed /\ [Next]_vars => Undisturbed'
    BY NextIntact, DisturbedStays DEF IInv, Undisturbed
  <1> QED
    BY <1>1, <1>2, Invariant, PTL DEF Spec

\* As long as no read has found the thread busy, a parametrization that is reported as
\* finished leaves each of its lists with a CRC that matches what the list contains,
\* whatever was written, read back or refused before.
THEOREM ListsIntact == Spec => []UndisturbedListsIntact
  <1>1. Undisturbed => UndisturbedListsIntact
    BY DEF Undisturbed, IntactInv, SealedInv, UndisturbedListsIntact
  <1> QED
    BY <1>1, UndisturbedIntact, PTL

\* As long as no read has found the thread busy, a list that the widget shows with a valid
\* CRC while no dialog is open has one on the server.
THEOREM StatusTrue == Spec => []CrcStatusTrue
  <1>1. Undisturbed => CrcStatusTrue
    BY DEF Undisturbed, IntactInv, StatusInv, CrcStatusTrue
  <1> QED
    BY <1>1, UndisturbedIntact, PTL
=============================================================================
