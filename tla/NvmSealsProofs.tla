--------------------------- MODULE NvmSealsProofs ---------------------------
(***************************************************************************)
(* NvmParametrization implements ListSeals, for any nodes, lists, elements    *)
(* and values and any number of clicks.                                      *)
(***************************************************************************)
EXTENDS NvmParametrizationProofs

-----------------------------------------------------------------------------
(* The inductive invariant: how the copy that is sealed comes to be the one  *)
(* that was confirmed, from the job that is being executed and the step of    *)
(* the dialog.                                                              *)

Safe == {"write", "readback", "crc"}

sealVars == <<changed, changedLists, copy, copyValid, readOut, step, pending, todoNodes,
              prepared, invalid, readNodes, actual, confirmed>>

\* What a job of the dialog works on.
JobInv ==
    /\ job.svc = "write" =>
          /\ job.lists \subseteq ListsOf(job.node)
          /\ job.begun => job.todo \subseteq ElementsOf(ListsOf(job.node))
    /\ job.svc \in {"readback", "crc"} /\ job.begun => job.todo \subseteq changedLists[job.node]

\* Only elements of the open dialog are flagged, and a dealer only knows lists of
\* its own node.
ListsInv ==
    /\ changed \subseteq ElementsOf(prepared)
    /\ \A n \in Nodes : changedLists[n] \subseteq ListsOf(n)
    /\ todoNodes \subseteq NodesFor(Relevant)
    /\ step = "closed" => changed = {}

\* The job of a dialog that was closed may go on until the next dialog needs the
\* thread, and no longer.
StepInv ==
    /\ step = "eBEFOREWRITE" => ~pending /\ todoNodes = NodesFor(Relevant)
    /\ step = "eWRITE" /\ ~pending /\ job.svc \in Safe => todoNodes = NodesFor(Relevant)
    /\ step = "eWRITE" /\ pending => job.svc \notin {"readback", "crc"}
    /\ step = "eREADBACK" => job.svc \notin {"write", "crc"}
    /\ step = "eREADBACK" /\ ~pending => job.svc # "readback"
    /\ step = "eCONFIRM" => job.svc \notin Safe
    /\ step = "eWRITECRC" => job.svc \notin {"write", "readback"}

\* The dealer of a node that has been written has only relevant lists.
Written(n) ==
    \/ n \notin todoNodes
    \/ pending /\ IsFirst(n, todoNodes) /\ (job.svc # "write" \/ job.begun)

WriteInv ==
    step = "eWRITE" =>
        /\ pending /\ job.svc = "write" =>
               IsFirst(job.node, todoNodes) /\ job.lists \subseteq Relevant
        /\ \A n \in NodesFor(Relevant) : Written(n) => changedLists[n] \subseteq Relevant

\* A node whose lists can be sealed has been read back.
ReadInv ==
    step = "eREADBACK" =>
        /\ \A n \in NodesFor(Relevant) : changedLists[n] \subseteq Relevant
        /\ \A n \in NodesFor(Relevant) \ todoNodes : CrcsReady(n) => n \in readNodes
        /\ pending /\ job.svc = "readback" => IsFirst(job.node, todoNodes)
        /\ pending /\ job.svc # "readback" =>
               \A n \in todoNodes : IsFirst(n, todoNodes) /\ CrcsReady(n) => readOut = n

\* The values of a node hold for the lists its dealer would seal.
CopyIs(val, n) == CrcsReady(n) => \A e \in ElementsOf(changedLists[n]) : copy[e] = val[e]

\* The user is shown the copies, and the CRCs are computed over what was confirmed.
ConfirmInv ==
    /\ step = "eCONFIRM" =>
          \A n \in NodesFor(Relevant) : CopyIs(actual, n) /\ (CrcsReady(n) => n \in readNodes)
    /\ step = "eWRITECRC" => \A n \in NodesFor(Relevant) : CopyIs(confirmed, n)

CrcInv ==
    job.svc = "crc" =>
        /\ CopyIs(confirmed, job.node)
        /\ job.begun => CrcsReady(job.node)

SealInv == JobInv /\ ListsInv /\ StepInv /\ WriteInv /\ ReadInv /\ ConfirmInv /\ CrcInv

IInv == TypeOK /\ SealInv

-----------------------------------------------------------------------------
(* Steps that change neither the lists nor the dialog.                      *)

LEMMA InitSealInv == Init => SealInv
  <1> SUFFICES ASSUME Init PROVE SealInv
    OBVIOUS
  <1>1. job.svc = "none"
    BY NoJobType DEF Init, DealerInit
  <1>2. JobInv /\ CrcInv
    BY <1>1 DEF JobInv, CrcInv
  <1>3. ListsInv
    BY DEF Init, DealerInit, ListsInv
  <1>4. StepInv /\ WriteInv /\ ReadInv /\ ConfirmInv
    BY DEF Init, StepInv, WriteInv, ReadInv, ConfirmInv
  <1> QED
    BY <1>2, <1>3, <1>4 DEF SealInv

\* The operators of the invariant keep their values.
LEMMA SameLists ==
    ASSUME UNCHANGED <<prepared, invalid>>
    PROVE  Relevant' = Relevant
  BY DEF Relevant

LEMMA SameCopies ==
    ASSUME UNCHANGED <<changedLists, copy, copyValid>>
    PROVE  /\ \A n : CrcsReady(n)' <=> CrcsReady(n)
           /\ \A n : CopyIs(confirmed, n) /\ UNCHANGED confirmed => CopyIs(confirmed, n)'
           /\ \A n : CopyIs(actual, n) /\ UNCHANGED actual => CopyIs(actual, n)'
  BY DEF CrcsReady, CopyIs

LEMMA OtherJob ==
    ASSUME SealInv, UNCHANGED sealVars,
           job' = job \/ (job.svc \notin Safe /\ job'.svc \notin Safe)
    PROVE  SealInv'
  <1>1. Relevant' = Relevant /\ NodesFor(Relevant)' = NodesFor(Relevant)
    BY SameLists DEF sealVars, NodesFor
  <1>2. /\ \A n : CrcsReady(n)' <=> CrcsReady(n)
        /\ \A n : CopyIs(confirmed, n) => CopyIs(confirmed, n)'
        /\ \A n : CopyIs(actual, n) => CopyIs(actual, n)'
    BY SameCopies DEF sealVars
  <1>3. JobInv'
    BY DEF SealInv, JobInv, sealVars, Safe
  <1>4. ListsInv'
    BY <1>1 DEF SealInv, ListsInv, sealVars
  <1>5. StepInv'
    BY <1>1 DEF SealInv, StepInv, sealVars, Safe
  <1>6. WriteInv'
    BY <1>1 DEF SealInv, WriteInv, Written, sealVars, Safe
  <1>7. ReadInv'
    BY <1>1, <1>2 DEF SealInv, ReadInv, sealVars, Safe
  <1>8. ConfirmInv'
    BY <1>1, <1>2 DEF SealInv, ConfirmInv, sealVars
  <1>9. CrcInv'
    BY <1>2 DEF SealInv, CrcInv, Safe
  <1> QED
    BY <1>3, <1>4, <1>5, <1>6, <1>7, <1>8, <1>9 DEF SealInv

\* The dialog is opened or closed: the job that is executed goes on.
LEMMA OutsideSteps ==
    ASSUME SealInv, step' \in {"closed", "eBEFOREWRITE", "eSEND_NOTIFICATION"},
           UNCHANGED <<changedLists, copy, copyValid, confirmed>>,
           job' = job \/ (job.svc \notin Safe /\ job'.svc \notin Safe),
           ListsInv', StepInv'
    PROVE  SealInv'
  <1>1. /\ \A n : CrcsReady(n)' <=> CrcsReady(n)
        /\ \A n : CopyIs(confirmed, n) => CopyIs(confirmed, n)'
    BY SameCopies
  <1>2. JobInv'
    BY DEF SealInv, JobInv, Safe
  <1>3. WriteInv' /\ ReadInv' /\ ConfirmInv'
    BY DEF WriteInv, ReadInv, ConfirmInv
  <1>4. CrcInv'
    BY <1>1 DEF SealInv, CrcInv, Safe
  <1> QED
    BY <1>2, <1>3, <1>4 DEF SealInv

LEMMA OpenDialogSeals ==
    ASSUME SealInv, TypeOK, step = "closed", UNCHANGED <<job, confirmed>>,
           NEW ch \in SUBSET Elements, NEW inv, NEW set, NEW read, NEW inHandler,
           OpenDialog(ch, inv, set, read, inHandler)
    PROVE  SealInv'
  <1>1. changed = {}
    BY DEF SealInv, ListsInv
  <1>2. changed' \subseteq ElementsOf(prepared')
    BY <1>1 DEF OpenDialog, ElementsOf
  <1>3. todoNodes' = NodesFor(Relevant)'
    BY DEF OpenDialog, Relevant, NodesFor
  <1>4. ListsInv' /\ StepInv'
    BY <1>2, <1>3 DEF OpenDialog, SealInv, ListsInv, StepInv, ElementsOf
  <1> QED
    BY <1>4, OutsideSteps DEF OpenDialog

LEMMA MissedJob ==
    ASSUME NEW free, NEW accepting, StartMissed(free, accepting), free => ~Running
    PROVE  job' = job \/ (job.svc \notin Safe /\ job'.svc \notin Safe)
  <1>1. ASSUME NEW l \in missed, Start(ReadListJob(l))
        PROVE  job'.svc \notin Safe
    BY <1>1 DEF Start, ReadListJob, Job, Safe
  <1> QED
    BY <1>1 DEF StartMissed, Running, Safe

LEMMA DialogGoneSeals ==
    ASSUME SealInv, DialogGone
    PROVE  SealInv'
  <1>1. job' = job \/ (job.svc \notin Safe /\ job'.svc \notin Safe)
    BY MissedJob DEF DialogGone, Free
  <1>2. changed' = {}
    BY DEF DialogGone, SealInv, ListsInv
  <1>3. ListsInv' /\ StepInv'
    BY <1>2 DEF DialogGone, SealInv, ListsInv, StepInv
  <1> QED
    BY <1>1, <1>3, OutsideSteps DEF DialogGone

-----------------------------------------------------------------------------
(* The thread.                                                              *)

LEMMA FirstUnique ==
    ASSUME NEW S \in SUBSET Nat, NEW x, NEW y, IsFirst(x, S), IsFirst(y, S)
    PROVE  x = y
  BY DEF IsFirst

\* What is known of a job of the dialog.
LEMMA SafeJob ==
    ASSUME TypeOK, SealInv, job.svc \in Safe
    PROVE  /\ job \in StartedJobs /\ job.node \in Nodes
           /\ todoNodes \in SUBSET Nat
           /\ changedLists \in [Nodes -> SUBSET Lists]
           /\ \A n \in Nodes : changedLists[n] \subseteq ListsOf(n)
           /\ NodesFor(Relevant) \subseteq Nodes
           /\ todoNodes \subseteq NodesFor(Relevant)
  <1>1. job \in StartedJobs /\ job.node \in Nodes
    BY ExecutedType DEF TypeOK, DealerTypeOK, Safe, Services
  <1>2. NodesFor(Relevant) \subseteq Nodes
    BY DealerAssumption DEF NodesFor, Relevant, TypeOK, DialogTypeOK
  <1>3. todoNodes \in SUBSET Nat
    BY DealerAssumption DEF TypeOK, DialogTypeOK
  <1> QED
    BY <1>1, <1>2, <1>3 DEF TypeOK, DealerTypeOK, DataTypeOK, SealInv, ListsInv

\* A step of a write leaves the dealer with lists of the node, and of the dialog that
\* waits for it.
LEMMA WriteStep ==
    ASSUME TypeOK, SealInv, job.svc = "write",
           NEW lists \in SUBSET ListsOf(job.node),
           changedLists' = [changedLists EXCEPT ![job.node] = lists],
           step = "eWRITE" /\ pending => lists \subseteq Relevant,
           changed' \subseteq changed,
           UNCHANGED <<copy, copyValid, readOut, step, pending, todoNodes, prepared, invalid,
                       readNodes, actual, confirmed>>,
           \/ job' = NoJob
           \/ /\ job'.svc = "write" /\ job'.node = job.node /\ job'.lists = job.lists
              /\ job'.begun /\ job'.todo \subseteq ElementsOf(ListsOf(job.node))
    PROVE  SealInv'
  <1>1. Relevant' = Relevant /\ NodesFor(Relevant)' = NodesFor(Relevant)
    BY SameLists DEF NodesFor
  <1>2. NoJob.svc = "none"
    BY NoJobType
  <1>3. job.node \in Nodes /\ changedLists \in [Nodes -> SUBSET Lists]
    BY SafeJob DEF Safe
  <1>4. \A n \in Nodes : changedLists'[n] = IF n = job.node THEN lists ELSE changedLists[n]
    BY <1>3
  <1>5. JobInv'
    BY <1>2 DEF SealInv, JobInv
  <1>6. ListsInv'
    <2>1. \A n \in Nodes : changedLists'[n] \subseteq ListsOf(n)
      BY <1>4 DEF SealInv, ListsInv
    <2> QED
      BY <1>1, <2>1 DEF SealInv, ListsInv
  <1>7. StepInv'
    BY <1>1, <1>2 DEF SealInv, StepInv, Safe
  <1>8. WriteInv'
    <2> SUFFICES ASSUME step = "eWRITE" PROVE WriteInv'
      BY DEF WriteInv
    <2>1. pending => IsFirst(job.node, todoNodes) /\ job.lists \subseteq Relevant
      BY DEF SealInv, WriteInv
    <2>2. ~pending => todoNodes = NodesFor(Relevant)
      BY DEF SealInv, StepInv, Safe
    <2>3. ASSUME NEW n \in NodesFor(Relevant), Written(n)'
          PROVE  changedLists'[n] \subseteq Relevant
      <3>1. n \in Nodes
        BY SafeJob DEF Safe
      <3>2. CASE ~pending
        BY <2>2, <2>3, <3>2 DEF Written
      <3>3. CASE pending /\ n = job.node
        BY <1>4, <3>1, <3>3
      <3>4. CASE pending /\ n # job.node
        <4>1. n \notin todoNodes
          BY <2>1, <2>3, <3>4, FirstUnique, SafeJob DEF Written, Safe
        <4> QED
          BY <1>4, <3>1, <3>4, <4>1 DEF SealInv, WriteInv, Written
      <3> QED
        BY <3>2, <3>3, <3>4
    <2> QED
      BY <1>1, <1>2, <2>1, <2>3 DEF WriteInv
  <1>9. ReadInv' /\ ConfirmInv' /\ CrcInv'
    BY <1>2 DEF SealInv, StepInv, ReadInv, ConfirmInv, CrcInv, Safe
  <1> QED
    BY <1>5, <1>6, <1>7, <1>8, <1>9 DEF SealInv

LEMMA WriteSeals ==
    ASSUME TypeOK, SealInv, UNCHANGED guiVars, WriteBegin \/ WriteElement \/ WriteEnd
    PROVE  SealInv'
  <1>1. /\ job.svc = "write" /\ job \in StartedJobs /\ job.node \in Nodes
        /\ changedLists \in [Nodes -> SUBSET Lists]
        /\ changedLists[job.node] \in SUBSET ListsOf(job.node)
        /\ todoNodes \subseteq NodesFor(Relevant)
    BY SafeJob DEF WriteBegin, WriteElement, WriteEnd, Executes, Safe
  <1>2. UNCHANGED <<step, pending, todoNodes, prepared, invalid, readNodes, actual, confirmed>>
    BY DEF guiVars, dialogVars
  <1>3. step = "eWRITE" /\ pending =>
            IsFirst(job.node, todoNodes) /\ job.lists \subseteq Relevant
    BY <1>1 DEF SealInv, WriteInv
  <1>4. step = "eWRITE" /\ pending /\ job.begun => changedLists[job.node] \subseteq Relevant
    BY <1>1, <1>3 DEF SealInv, WriteInv, Written, IsFirst
  <1>5. CASE WriteBegin
    <2>1. job.lists \in SUBSET ListsOf(job.node)
      BY <1>1 DEF SealInv, JobInv
    <2>2. job' = NoJob \/ job' = [job EXCEPT !.begun = TRUE, !.todo = ElementsOf(ListsOf(job.node))]
      BY <1>5 DEF WriteBegin, End, Begin
    <2>3. job' = NoJob \/ /\ job'.svc = "write" /\ job'.node = job.node
                          /\ job'.lists = job.lists /\ job'.begun
                          /\ job'.todo \subseteq ElementsOf(ListsOf(job.node))
      BY <1>1, <2>2 DEF StartedJobs
    <2> QED
      BY <1>1, <1>2, <1>3, <1>5, <2>1, <2>3, WriteStep DEF WriteBegin
  <1>6. CASE WriteElement
    <2>1. PICK e \in job.todo :
            /\ e \in changed
            /\ \/ /\ changed' = changed \ {e}
                  /\ changedLists' = [changedLists EXCEPT ![job.node] = @ \cup {ListOf[e]}]
                  /\ Begin({x \in job.todo : x > e})
               \/ /\ End("error")
                  /\ UNCHANGED <<changed, changedLists>>
            /\ UNCHANGED <<copy, copyValid, readOut>>
      BY <1>6 DEF WriteElement, IsFirst
    <2>2. job.begun /\ job.todo \subseteq ElementsOf(ListsOf(job.node))
      BY <1>1, <1>6 DEF WriteElement, Executes, SealInv, JobInv
    <2>3. ListOf[e] \in ListsOf(job.node) /\ ListOf[e] \in prepared
      BY <2>1, <2>2, DealerAssumption DEF ElementsOf, SealInv, ListsInv
    <2>4. CASE Begin({x \in job.todo : x > e})
      <3>1. job' = [job EXCEPT !.begun = TRUE, !.todo = {x \in job.todo : x > e}]
        BY <2>4 DEF Begin
      <3>2. /\ job'.svc = "write" /\ job'.node = job.node
            /\ job'.lists = job.lists /\ job'.begun
            /\ job'.todo \subseteq ElementsOf(ListsOf(job.node))
        BY <1>1, <2>2, <3>1 DEF StartedJobs
      <3>3. CASE changedLists' = changedLists
        <4>1. changedLists' = [changedLists EXCEPT ![job.node] = changedLists[job.node]]
          BY <1>1, <3>3
        <4>2. changed' \subseteq changed
          BY <2>1
        <4> QED
          BY <1>1, <1>2, <1>4, <2>1, <2>2, <3>2, <4>1, <4>2, WriteStep
      <3>4. CASE changedLists' = [changedLists EXCEPT ![job.node] = @ \cup {ListOf[e]}]
        <4> DEFINE lists == changedLists[job.node] \cup {ListOf[e]}
        <4>1. lists \in SUBSET ListsOf(job.node)
          BY <1>1, <2>3
        <4>2. step = "eWRITE" /\ pending => lists \subseteq Relevant
          BY <1>4, <2>2, <2>3 DEF Relevant
        <4>3. changedLists' = [changedLists EXCEPT ![job.node] = lists]
          BY <3>4
        <4>4. changed' \subseteq changed
          BY <2>1
        <4> HIDE DEF lists
        <4> QED
          BY <1>1, <1>2, <2>1, <3>2, <4>1, <4>2, <4>3, <4>4, WriteStep
      <3> QED
        BY <2>1, <3>3, <3>4
    <2>5. CASE End("error") /\ UNCHANGED <<changed, changedLists>>
      <3>1. changedLists' = [changedLists EXCEPT ![job.node] = changedLists[job.node]]
        BY <1>1, <2>5
      <3>2. job' = NoJob
        BY <2>5 DEF End
      <3> QED
        BY <1>1, <1>2, <1>4, <2>1, <2>2, <2>5, <3>1, <3>2, WriteStep
    <2> QED
      BY <2>1, <2>4, <2>5
  <1>7. CASE WriteEnd
    <2>1. job.begun /\ job' = NoJob /\ UNCHANGED dealerVars
      BY <1>7 DEF WriteEnd, Executes, End
    <2>2. changedLists' = [changedLists EXCEPT ![job.node] = changedLists[job.node]]
      BY <1>1, <2>1 DEF dealerVars
    <2> QED
      BY <1>1, <1>2, <1>4, <2>1, <2>2, WriteStep DEF dealerVars
  <1> QED
    BY <1>5, <1>6, <1>7

\* A step of a read back changes the copy of its own node only, and leaves the pointer
\* to it unless nothing can be sealed.
LEMMA ReadBackStep ==
    ASSUME TypeOK, SealInv, job.svc = "readback",
           \A e \in Elements \ ElementsOf(ListsOf(job.node)) :
               copy'[e] = copy[e] /\ (e \in copyValid' <=> e \in copyValid),
           UNCHANGED <<changed, changedLists, step, pending, todoNodes, prepared, invalid,
                       readNodes, actual, confirmed>>,
           \/ /\ job' = NoJob
              /\ \A n \in Nodes : n = job.node /\ CrcsReady(n)' => readOut' = n
           \/ /\ job'.svc = "readback" /\ job'.node = job.node
              /\ job'.todo \subseteq changedLists[job.node]
    PROVE  SealInv'
  <1>1. Relevant' = Relevant /\ NodesFor(Relevant)' = NodesFor(Relevant)
    BY SameLists DEF NodesFor
  <1>2. NoJob.svc = "none"
    BY NoJobType
  <1>3. ASSUME NEW n \in Nodes, n # job.node
        PROVE  CrcsReady(n)' => CrcsReady(n)
    <2>1. changedLists[n] \subseteq ListsOf(n)
      BY <1>3 DEF SealInv, ListsInv
    <2>2. \A e \in ElementsOf(changedLists[n]) : e \in Elements \ ElementsOf(ListsOf(job.node))
      BY <1>3, <2>1 DEF ElementsOf, ListsOf
    <2> QED
      BY <2>2 DEF CrcsReady, ElementsOf
  <1>4. JobInv'
    BY <1>2 DEF SealInv, JobInv
  <1>5. ListsInv' /\ StepInv'
    BY <1>1, <1>2 DEF SealInv, ListsInv, StepInv, Safe
  <1>6. WriteInv'
    BY <1>1, <1>2 DEF SealInv, StepInv, WriteInv, Written
  <1>7. ReadInv'
    <2> SUFFICES ASSUME step = "eREADBACK" PROVE ReadInv'
      BY DEF ReadInv
    <2>1. pending /\ IsFirst(job.node, todoNodes)
      BY DEF SealInv, StepInv, ReadInv
    <2>2. ASSUME NEW n \in NodesFor(Relevant) \ todoNodes, CrcsReady(n)'
          PROVE  n \in readNodes
      <3>1. n \in Nodes /\ n # job.node
        BY <2>1, SafeJob DEF Safe, IsFirst
      <3> QED
        BY <1>3, <2>2, <3>1 DEF SealInv, ReadInv
    <2>3. ASSUME job' = NoJob, NEW n \in todoNodes, IsFirst(n, todoNodes), CrcsReady(n)'
          PROVE  readOut' = n
      <3>1. n = job.node
        BY <2>1, <2>3, FirstUnique, SafeJob DEF Safe
      <3>2. n \in Nodes
        BY SafeJob DEF Safe
      <3> QED
        BY <1>2, <2>3, <3>1, <3>2
    <2>4. \A n \in NodesFor(Relevant) : changedLists[n] \subseteq Relevant
      BY DEF SealInv, ReadInv
    <2> QED
      BY <1>1, <1>2, <2>1, <2>2, <2>3, <2>4 DEF ReadInv
  <1>8. ConfirmInv' /\ CrcInv'
    BY <1>2 DEF SealInv, StepInv, ConfirmInv, CrcInv, Safe
  <1> QED
    BY <1>4, <1>5, <1>6, <1>7, <1>8 DEF SealInv

LEMMA ReadBackSeals ==
    ASSUME TypeOK, SealInv, UNCHANGED guiVars, ReadBackBegin \/ ReadBackList \/ ReadBackEnd
    PROVE  SealInv'
  <1>1. /\ job.svc = "readback" /\ job \in StartedJobs /\ job.node \in Nodes
        /\ changedLists[job.node] \subseteq ListsOf(job.node)
    BY SafeJob DEF ReadBackBegin, ReadBackList, ReadBackEnd, Executes, Safe
  <1>2. /\ UNCHANGED <<step, pending, todoNodes, prepared, invalid, readNodes, actual, confirmed>>
        /\ UNCHANGED <<changed, changedLists>>
    BY DEF guiVars, dialogVars, ReadBackBegin, ReadBackList, ReadBackEnd
  <1>3. CASE ReadBackBegin
    <2>1. \A e \in Elements \ ElementsOf(ListsOf(job.node)) :
              copy'[e] = copy[e] /\ (e \in copyValid' <=> e \in copyValid)
      BY <1>3 DEF ReadBackBegin
    <2>2. CASE changedLists[job.node] = {}
      <3>1. job' = NoJob
        BY <1>3, <2>2 DEF ReadBackBegin, End
      <3>2. \A n \in Nodes : n = job.node => ~(CrcsReady(n)')
        BY <1>2, <2>2 DEF CrcsReady
      <3> QED
        BY <1>1, <1>2, <2>1, <3>1, <3>2, ReadBackStep
    <2>3. CASE changedLists[job.node] # {}
      <3>1. job' = [job EXCEPT !.begun = TRUE, !.todo = changedLists[job.node]]
        BY <1>3, <2>3 DEF ReadBackBegin, Begin
      <3>2. /\ job'.svc = "readback" /\ job'.node = job.node
            /\ job'.todo \subseteq changedLists[job.node]
        BY <1>1, <3>1 DEF StartedJobs
      <3> QED
        BY <1>1, <1>2, <2>1, <3>2, ReadBackStep
    <2> QED
      BY <2>2, <2>3
  <1>4. CASE ReadBackList
    <2>1. PICK l \in job.todo :
            \/ /\ copy' = [e \in Elements |-> IF e \in ElementsOf({l}) THEN nvm[e] ELSE copy[e]]
               /\ copyValid' = copyValid \cup ElementsOf({l})
               /\ Begin(job.todo \ {l})
            \/ /\ copyValid' = copyValid \ ElementsOf({l})
               /\ End("error")
               /\ UNCHANGED copy
      BY <1>4 DEF ReadBackList
    <2>2. job.todo \subseteq changedLists[job.node]
      BY <1>1, <1>4 DEF ReadBackList, Executes, SealInv, JobInv
    <2>3. ElementsOf({l}) \subseteq ElementsOf(ListsOf(job.node))
      BY <1>1, <2>2 DEF ElementsOf
    <2>4. \A e \in Elements \ ElementsOf(ListsOf(job.node)) :
              copy'[e] = copy[e] /\ (e \in copyValid' <=> e \in copyValid)
      BY <2>1, <2>3
    <2>5. CASE Begin(job.todo \ {l})
      <3>1. job' = [job EXCEPT !.begun = TRUE, !.todo = job.todo \ {l}]
        BY <2>5 DEF Begin
      <3>2. /\ job'.svc = "readback" /\ job'.node = job.node
            /\ job'.todo \subseteq changedLists[job.node]
        BY <1>1, <2>2, <3>1 DEF StartedJobs
      <3> QED
        BY <1>1, <1>2, <2>4, <3>2, ReadBackStep
    <2>6. CASE copyValid' = copyValid \ ElementsOf({l}) /\ End("error")
      <3>1. l \in Lists
        BY <1>1, <2>2 DEF ListsOf
      <3>2. PICK e \in Elements : ListOf[e] = l
        BY <3>1, DealerAssumption
      <3>3. job' = NoJob
        BY <2>6 DEF End
      <3>4. \A n \in Nodes : n = job.node => ~(CrcsReady(n)')
        BY <1>2, <2>2, <2>6, <3>2 DEF CrcsReady, ElementsOf
      <3> QED
        BY <1>1, <1>2, <2>4, <3>3, <3>4, ReadBackStep
    <2> QED
      BY <2>1, <2>5, <2>6
  <1>5. CASE ReadBackEnd
    <2>1. /\ job' = NoJob /\ readOut' = job.node /\ UNCHANGED <<copy, copyValid>>
      BY <1>5 DEF ReadBackEnd, End
    <2> QED
      BY <1>1, <1>2, <2>1, ReadBackStep
  <1> QED
    BY <1>3, <1>4, <1>5

\* A step of the sealing goes on only if the lists can be sealed.
LEMMA CrcStep ==
    ASSUME SealInv, job.svc = "crc", UNCHANGED sealVars,
           \/ job' = NoJob
           \/ /\ job'.svc = "crc" /\ job'.node = job.node /\ CrcsReady(job.node)
              /\ job'.todo \subseteq changedLists[job.node]
    PROVE  SealInv'
  <1>1. Relevant' = Relevant /\ NodesFor(Relevant)' = NodesFor(Relevant)
    BY SameLists DEF sealVars, NodesFor
  <1>2. NoJob.svc = "none"
    BY NoJobType
  <1>3. /\ \A n : CrcsReady(n)' <=> CrcsReady(n)
        /\ \A n : CopyIs(confirmed, n) => CopyIs(confirmed, n)'
        /\ \A n : CopyIs(actual, n) => CopyIs(actual, n)'
    BY SameCopies DEF sealVars
  <1>4. JobInv'
    BY <1>2 DEF SealInv, JobInv, sealVars
  <1>5. ListsInv' /\ StepInv'
    BY <1>1, <1>2 DEF SealInv, ListsInv, StepInv, sealVars, Safe
  <1>6. WriteInv' /\ ReadInv'
    BY <1>1, <1>2 DEF SealInv, StepInv, WriteInv, Written, ReadInv, sealVars
  <1>7. ConfirmInv'
    BY <1>1, <1>3 DEF SealInv, ConfirmInv, sealVars
  <1>8. CrcInv'
    BY <1>2, <1>3 DEF SealInv, CrcInv
  <1> QED
    BY <1>4, <1>5, <1>6, <1>7, <1>8 DEF SealInv

LEMMA CrcSeals ==
    ASSUME TypeOK, SealInv, UNCHANGED guiVars, CrcBegin \/ CrcList \/ CrcEnd
    PROVE  SealInv'
  <1>1. job.svc = "crc" /\ job \in StartedJobs
    BY SafeJob DEF CrcBegin, CrcList, CrcEnd, Executes, Safe
  <1>2. UNCHANGED sealVars
    BY DEF guiVars, dialogVars, dealerVars, sealVars, CrcBegin, CrcList, CrcEnd
  <1>3. CASE CrcBegin
    <2>1. CASE ~CrcsReady(job.node)
      BY <1>1, <1>2, <1>3, <2>1, CrcStep DEF CrcBegin, End
    <2>2. CASE CrcsReady(job.node)
      <3>1. job' = [job EXCEPT !.begun = TRUE, !.todo = changedLists[job.node]]
        BY <1>3, <2>2 DEF CrcBegin, Begin
      <3>2. /\ job'.svc = "crc" /\ job'.node = job.node
            /\ job'.todo \subseteq changedLists[job.node]
        BY <1>1, <3>1 DEF StartedJobs
      <3> QED
        BY <1>1, <1>2, <2>2, <3>2, CrcStep
    <2> QED
      BY <2>1, <2>2
  <1>4. CASE CrcList
    <2>1. job.begun /\ CrcsReady(job.node) /\ job.todo \subseteq changedLists[job.node]
      BY <1>1, <1>4 DEF CrcList, Executes, SealInv, CrcInv, JobInv
    <2>2. PICK l \in job.todo : Begin(job.todo \ {l}) \/ End("error")
      BY <1>4 DEF CrcList
    <2>3. CASE Begin(job.todo \ {l})
      <3>1. job' = [job EXCEPT !.begun = TRUE, !.todo = job.todo \ {l}]
        BY <2>3 DEF Begin
      <3>2. /\ job'.svc = "crc" /\ job'.node = job.node
            /\ job'.todo \subseteq changedLists[job.node]
        BY <1>1, <2>1, <3>1 DEF StartedJobs
      <3> QED
        BY <1>1, <1>2, <2>1, <3>2, CrcStep
    <2>4. CASE End("error")
      BY <1>1, <1>2, <2>4, CrcStep DEF End
    <2> QED
      BY <2>2, <2>3, <2>4
  <1>5. CASE CrcEnd
    BY <1>1, <1>2, <1>5, CrcStep DEF CrcEnd, End
  <1> QED
    BY <1>3, <1>4, <1>5

LEMMA ThreadSeals ==
    ASSUME TypeOK, SealInv, ThreadStep
    PROVE  SealInv'
  <1>1. ASSUME ReadList \/ Notify
        PROVE  SealInv'
    <2>1. UNCHANGED sealVars
      BY <1>1 DEF ThreadStep, ReadList, Notify, guiVars, dialogVars, dealerVars, sealVars
    <2>2. job.svc \notin Safe /\ job'.svc \notin Safe
      BY <1>1, NoJobType DEF ReadList, Notify, End, Safe
    <2> QED
      BY <2>1, <2>2, OtherJob
  <1> QED
    BY <1>1, WriteSeals, ReadBackSeals, CrcSeals DEF ThreadStep, Thread

-----------------------------------------------------------------------------
(* The dashboard.                                                           *)

LEMMA FinishedSeals ==
    ASSUME TypeOK, SealInv, HandlePollingFinished
    PROVE  SealInv'
  <1>1. ~Running /\ job.svc \notin Safe /\ UNCHANGED confirmed
    BY DEF HandlePollingFinished, TypeOK, DealerTypeOK, ThreadTypeOK, Running, Safe
  <1>2. ASSUME StartMissed(TRUE, TRUE), UNCHANGED <<dealerVars, dialogVars>>
        PROVE  SealInv'
    <2>1. job' = job \/ (job.svc \notin Safe /\ job'.svc \notin Safe)
      BY <1>1, <1>2, MissedJob
    <2> QED
      BY <1>1, <1>2, <2>1, OtherJob DEF sealVars, dealerVars, dialogVars
  <1>3. CASE NotReading \/ ReadFailed
    BY <1>2, <1>3 DEF NotReading, ReadFailed
  <1>4. CASE ReadNext
    <2>1. PICK l \in unread : Start(ReadListJob(l))
      BY <1>4 DEF ReadNext
    <2>2. job'.svc \notin Safe
      BY <2>1 DEF Start, ReadListJob, Job, Safe
    <2> QED
      BY <1>1, <1>4, <2>2, OtherJob DEF ReadNext, sealVars, dealerVars, dialogVars
  <1>5. CASE ReadEnd
    <2>1. PICK set \in [Elements -> Values] :
            LET ch == ChangedElements(toWrite, set, readStatus', ecu')
                inv == InvalidLists(toWrite, readStatus', crcStatus') IN
            IF ch \cup inv = {}
            THEN StartMissed(TRUE, TRUE) /\ UNCHANGED <<dealerVars, dialogVars>>
            ELSE /\ OpenDialog(ch, inv, set, readStatus', TRUE)
                 /\ accept' = TRUE
                 /\ UNCHANGED <<job, missed>>
      BY <1>5 DEF ReadEnd
    <2> DEFINE ch == ChangedElements(toWrite, set, readStatus', ecu')
               inv == InvalidLists(toWrite, readStatus', crcStatus')
    <2>2. ch \in SUBSET Elements
      BY DEF ChangedElements, ElementsOf
    <2>3. step = "closed"
      BY <1>5 DEF ReadEnd, TypeOK
    <2> HIDE DEF ch, inv
    <2>4. CASE ch \cup inv = {}
      BY <1>2, <2>1, <2>4 DEF ch, inv
    <2>5. CASE ch \cup inv # {}
      <3>1. OpenDialog(ch, inv, set, readStatus', TRUE) /\ UNCHANGED job
        BY <2>1, <2>5 DEF ch, inv
      <3> QED
        BY <1>1, <2>2, <2>3, <3>1, OpenDialogSeals
    <2> QED
      BY <2>4, <2>5
  <1> QED
    BY <1>3, <1>4, <1>5 DEF HandlePollingFinished

LEMMA NvmReadListJob ==
    ASSUME NEW l, NvmReadList(l)
    PROVE  job' = job \/ (job.svc \notin Safe /\ job'.svc \notin Safe)
  BY DEF NvmReadList, Free, Running, Start, ReadListJob, Job, Safe

LEMMA DashboardSeals ==
    ASSUME TypeOK, SealInv,
           \/ \E lists \in Selections :
                 HandleTreeReadAction(lists) \/ HandleWriteProcessTrigger(lists)
           \/ OtherRead
    PROVE  SealInv'
  <1>1. ASSUME NEW lists, ReadElements(lists)
        PROVE  SealInv'
    <2>1. job' = job \/ (job.svc \notin Safe /\ job'.svc \notin Safe)
      BY <1>1, NvmReadListJob DEF ReadElements
    <2> QED
      BY <1>1, <2>1, OtherJob DEF ReadElements, sealVars, dealerVars, dialogVars
  <1>2. ASSUME NEW lists \in Selections, HandleTreeReadAction(lists)
        PROVE  SealInv'
    BY <1>1, <1>2 DEF HandleTreeReadAction
  <1>3. ASSUME NEW lists \in Selections, HandleWriteProcessTrigger(lists)
        PROVE  SealInv'
    <2>1. CASE ElementsOf(lists) \subseteq readStatus
      <3> DEFINE ch(set) == ChangedElements(lists, set, readStatus, ecu)
                 inv == InvalidLists(lists, readStatus, crcStatus)
      <3>1. PICK set \in [Elements -> Values] :
              /\ OpenDialog(ch(set), inv, set, readStatus, FALSE)
              /\ UNCHANGED <<threadVars, confirmed>>
        BY <1>3, <2>1 DEF HandleWriteProcessTrigger
      <3>2. ch(set) \in SUBSET Elements
        BY DEF ChangedElements, ElementsOf
      <3>3. step = "closed" /\ UNCHANGED <<job, confirmed>>
        BY <1>3, <3>1 DEF HandleWriteProcessTrigger, Click, threadVars
      <3> HIDE DEF ch, inv
      <3> QED
        BY <3>1, <3>2, <3>3, OpenDialogSeals
    <2>2. CASE ~(ElementsOf(lists) \subseteq readStatus)
      BY <1>1, <1>3, <2>2 DEF HandleWriteProcessTrigger
    <2> QED
      BY <2>1, <2>2
  <1>4. CASE OtherRead
    <2>1. job' = job \/ (job.svc \notin Safe /\ job'.svc \notin Safe)
      BY <1>4, NvmReadListJob DEF OtherRead
    <2> QED
      BY <1>4, <2>1, OtherJob DEF OtherRead, sealVars, dealerVars, dialogVars
  <1> QED
    BY <1>2, <1>3, <1>4

-----------------------------------------------------------------------------
(* The dialog.                                                              *)

\* What a step that stays in the dialog leaves as it is.
LEMMA StayingKeeps ==
    ASSUME Staying
    PROVE  /\ UNCHANGED <<changed, changedLists, copy, copyValid, readOut, prepared, invalid>>
           /\ UNCHANGED <<nvm, crc>>
           /\ Relevant' = Relevant /\ NodesFor(Relevant)' = NodesFor(Relevant)
           /\ \A n : CrcsReady(n)' <=> CrcsReady(n)
  BY DEF Staying, serverVars, dealerVars, Relevant, NodesFor, CrcsReady

LEMMA ClosingSeals ==
    ASSUME SealInv, Reject \/ Accept
    PROVE  SealInv'
  BY DialogGoneSeals DEF Reject, Accept

LEMMA WriteClickedSeals ==
    ASSUME TypeOK, SealInv, WriteClicked
    PROVE  SealInv'
  <1>1. /\ step = "eBEFOREWRITE" /\ step' = "eWRITE"
        /\ UNCHANGED <<job, pending, todoNodes, confirmed>> /\ Staying
    BY DEF WriteClicked
  <1>2. ~pending /\ todoNodes = NodesFor(Relevant)
    BY <1>1 DEF SealInv, StepInv
  <1>3. JobInv' /\ ListsInv'
    BY <1>1, StayingKeeps DEF SealInv, JobInv, ListsInv
  <1>4. StepInv' /\ ReadInv' /\ ConfirmInv'
    BY <1>1, <1>2, StayingKeeps DEF StepInv, ReadInv, ConfirmInv
  <1>5. WriteInv'
    BY <1>1, <1>2, StayingKeeps DEF WriteInv, Written
  <1>6. CrcInv'
    BY <1>1, StayingKeeps DEF SealInv, CrcInv, CopyIs
  <1> QED
    BY <1>3, <1>4, <1>5, <1>6 DEF SealInv

LEMMA ConfirmClickedSeals ==
    ASSUME TypeOK, SealInv, ConfirmClicked
    PROVE  SealInv'
  <1>1. /\ step = "eCONFIRM" /\ step' = "eWRITECRC"
        /\ UNCHANGED <<job, pending, todoNodes, readNodes, actual>> /\ Staying
        /\ confirmed' = [e \in Elements |-> IF NodeOf[ListOf[e]] \in readNodes
                                             THEN actual[e] ELSE NoValue]
    BY DEF ConfirmClicked
  <1>2. job.svc \notin Safe
    BY <1>1 DEF SealInv, StepInv
  <1>3. JobInv' /\ CrcInv'
    BY <1>1, <1>2 DEF JobInv, CrcInv, Safe
  <1>4. ListsInv'
    BY <1>1, StayingKeeps DEF SealInv, ListsInv
  <1>5. StepInv' /\ WriteInv' /\ ReadInv'
    BY <1>1, <1>2 DEF StepInv, WriteInv, ReadInv, Safe
  <1>6. ASSUME NEW n \in NodesFor(Relevant), CrcsReady(n),
               NEW e \in ElementsOf(changedLists[n])
        PROVE  copy[e] = confirmed'[e]
    <2>1. n \in Nodes
      BY DealerAssumption DEF NodesFor, Relevant, TypeOK, DialogTypeOK
    <2>2. n \in readNodes /\ copy[e] = actual[e]
      BY <1>1, <1>6 DEF SealInv, ConfirmInv, CopyIs
    <2>3. e \in Elements /\ NodeOf[ListOf[e]] = n
      BY <1>6, <2>1 DEF ElementsOf, ListsOf, SealInv, ListsInv
    <2> QED
      BY <1>1, <2>2, <2>3
  <1>7. ConfirmInv'
    BY <1>1, <1>6, StayingKeeps DEF ConfirmInv, CopyIs
  <1> QED
    BY <1>3, <1>4, <1>5, <1>7 DEF SealInv

LEMMA OkClickedSeals ==
    ASSUME TypeOK, SealInv, OkClicked
    PROVE  SealInv'
  <1>1. CASE Accept
    BY <1>1, ClosingSeals
  <1>2. CASE ~Accept
    <2>1. PICK l \in Relevant :
             /\ IF Free THEN Start(Job("notify", NodeOf[l], {l}))
                ELSE UNCHANGED <<job, accept>>
             /\ step' = "eSEND_NOTIFICATION"
             /\ UNCHANGED <<pending, todoNodes, readNodes, actual, confirmed>>
             /\ Staying
      BY <1>2 DEF OkClicked
    <2>2. job' = job \/ (job.svc \notin Safe /\ job'.svc \notin Safe)
      BY <2>1 DEF Free, Running, Start, Job, Safe
    <2>3. ListsInv' /\ StepInv'
      BY <2>1, StayingKeeps DEF SealInv, ListsInv, StepInv
    <2> QED
      BY <2>1, <2>2, <2>3, OutsideSteps, StayingKeeps
  <1> QED
    BY <1>1, <1>2

\* What a request starts.
LEMMA RequestKeeps ==
    ASSUME TypeOK, SealInv, NEW at, NEW svc, NEW lists, Request(at, svc, lists)
    PROVE  \E n \in todoNodes :
              /\ IsFirst(n, todoNodes) /\ n \in Nodes /\ n \in NodesFor(Relevant)
              /\ job' = Job(svc, n, lists[n])
              /\ job'.svc = svc /\ job'.node = n /\ job'.lists = lists[n] /\ ~job'.begun
              /\ step = at /\ ~pending /\ pending'
              /\ UNCHANGED <<step, todoNodes, readNodes, actual, confirmed>> /\ Staying
  <1>1. PICK n \in todoNodes : IsFirst(n, todoNodes) /\ Start(Job(svc, n, lists[n]))
    BY DEF Request
  <1>2. n \in Nodes /\ n \in NodesFor(Relevant)
    BY DEF TypeOK, DialogTypeOK, SealInv, ListsInv
  <1>3. pending'
    BY DEF Request
  <1> QED
    BY <1>1, <1>2, <1>3 DEF Request, Start, Job

LEMMA RequestWriteSeals ==
    ASSUME TypeOK, SealInv, RequestWrite
    PROVE  SealInv'
  <1>1. PICK n \in todoNodes :
              /\ IsFirst(n, todoNodes) /\ n \in Nodes /\ n \in NodesFor(Relevant)
              /\ job'.svc = "write" /\ job'.node = n /\ job'.lists = invalid \cap ListsOf(n)
              /\ ~job'.begun /\ step = "eWRITE" /\ ~pending /\ pending'
              /\ UNCHANGED <<step, todoNodes, readNodes, actual, confirmed>> /\ Staying
    BY RequestKeeps DEF RequestWrite
  <1>2. JobInv' /\ CrcInv'
    BY <1>1, StayingKeeps DEF JobInv, CrcInv, ListsOf
  <1>3. ListsInv' /\ StepInv' /\ ReadInv' /\ ConfirmInv'
    BY <1>1, StayingKeeps DEF SealInv, ListsInv, StepInv, ReadInv, ConfirmInv, Safe
  <1>4. WriteInv'
    <2>1. job'.lists \subseteq Relevant
      BY <1>1 DEF Relevant
    <2>2. ASSUME NEW m \in NodesFor(Relevant), Written(m)'
          PROVE  changedLists[m] \subseteq Relevant
      BY <1>1, <2>2 DEF SealInv, WriteInv, Written
    <2> QED
      BY <1>1, <2>1, <2>2, StayingKeeps DEF WriteInv
  <1> QED
    BY <1>2, <1>3, <1>4 DEF SealInv

LEMMA RequestReadBackSeals ==
    ASSUME TypeOK, SealInv, RequestReadBack
    PROVE  SealInv'
  <1>1. PICK n \in todoNodes :
              /\ IsFirst(n, todoNodes) /\ n \in Nodes /\ n \in NodesFor(Relevant)
              /\ job'.svc = "readback" /\ job'.node = n /\ ~job'.begun
              /\ step = "eREADBACK" /\ ~pending /\ pending'
              /\ UNCHANGED <<step, todoNodes, readNodes, actual, confirmed>> /\ Staying
    BY RequestKeeps DEF RequestReadBack
  <1>2. JobInv' /\ CrcInv'
    BY <1>1 DEF JobInv, CrcInv
  <1>3. ListsInv' /\ StepInv' /\ WriteInv' /\ ConfirmInv'
    BY <1>1, StayingKeeps DEF SealInv, ListsInv, StepInv, WriteInv, ConfirmInv, Safe
  <1>4. ReadInv'
    BY <1>1, StayingKeeps DEF SealInv, ReadInv
  <1> QED
    BY <1>2, <1>3, <1>4 DEF SealInv

LEMMA RequestCrcsSeals ==
    ASSUME TypeOK, SealInv, RequestCrcs
    PROVE  SealInv'
  <1>1. PICK n \in todoNodes :
              /\ IsFirst(n, todoNodes) /\ n \in Nodes /\ n \in NodesFor(Relevant)
              /\ job'.svc = "crc" /\ job'.node = n /\ ~job'.begun
              /\ step = "eWRITECRC" /\ ~pending /\ pending'
              /\ UNCHANGED <<step, todoNodes, readNodes, actual, confirmed>> /\ Staying
    BY RequestKeeps DEF RequestCrcs
  <1>2. JobInv'
    BY <1>1 DEF JobInv
  <1>3. ListsInv' /\ StepInv' /\ WriteInv' /\ ReadInv'
    BY <1>1, StayingKeeps DEF SealInv, ListsInv, StepInv, WriteInv, ReadInv, Safe
  <1>4. \A m \in NodesFor(Relevant) : CopyIs(confirmed, m)'
    BY <1>1, StayingKeeps DEF SealInv, ConfirmInv, CopyIs
  <1>5. ConfirmInv' /\ CrcInv'
    BY <1>1, <1>4, StayingKeeps DEF ConfirmInv, CrcInv, CopyIs
  <1> QED
    BY <1>2, <1>3, <1>5 DEF SealInv

\* What the answer for a node leads to.
LEMMA NodeDoneKeeps ==
    ASSUME TypeOK, SealInv, NEW at, NEW next, NEW nextTimer, NodeDone(at, next, nextTimer)
    PROVE  /\ step = at /\ pending /\ ~pending' /\ UNCHANGED <<job, confirmed>> /\ Staying
           /\ job.svc \notin Safe
           /\ \E n \in todoNodes :
                 /\ IsFirst(n, todoNodes)
                 /\ \/ /\ todoNodes = {n}
                       /\ todoNodes' = NodesFor(Relevant)
                       /\ step' = next
                    \/ /\ todoNodes # {n}
                       /\ todoNodes' = todoNodes \ {n}
                       /\ step' = step
  <1>1. /\ step = at /\ pending /\ ~Running /\ pending' = FALSE
        /\ UNCHANGED <<job, confirmed>> /\ Staying
    BY DEF NodeDone, Answered
  <1>2. job.svc \notin Safe
    BY <1>1 DEF Running, Safe
  <1>3. PICK n \in todoNodes :
          /\ IsFirst(n, todoNodes)
          /\ IF todoNodes = {n}
             THEN /\ todoNodes' = NodesFor(Relevant)
                  /\ step' = next
                  /\ timer' = nextTimer
             ELSE /\ todoNodes' = todoNodes \ {n}
                  /\ UNCHANGED <<step, timer>>
    BY DEF NodeDone
  <1>4. \/ /\ todoNodes = {n}
           /\ todoNodes' = NodesFor(Relevant)
           /\ step' = next
        \/ /\ todoNodes # {n}
           /\ todoNodes' = todoNodes \ {n}
           /\ step' = step
    BY <1>3
  <1>5. ~pending'
    BY <1>1
  <1> QED
    BY <1>1, <1>2, <1>3, <1>4, <1>5

LEMMA WriteDoneSeals ==
    ASSUME TypeOK, SealInv, WriteDone
    PROVE  SealInv'
  <1>1. /\ step = "eWRITE" /\ pending /\ ~pending' /\ UNCHANGED <<job, confirmed>> /\ Staying
        /\ job.svc \notin Safe
    BY NodeDoneKeeps DEF WriteDone
  <1>2. PICK n \in todoNodes :
                 /\ IsFirst(n, todoNodes)
                 /\ \/ /\ todoNodes = {n}
                       /\ todoNodes' = NodesFor(Relevant)
                       /\ step' = "eREADBACK"
                    \/ /\ todoNodes # {n}
                       /\ todoNodes' = todoNodes \ {n}
                       /\ step' = step
    BY NodeDoneKeeps DEF WriteDone
  <1>3. JobInv' /\ CrcInv'
    BY <1>1 DEF JobInv, CrcInv, Safe
  <1>4. ListsInv' /\ StepInv' /\ ConfirmInv'
    BY <1>1, <1>2, StayingKeeps DEF SealInv, ListsInv, StepInv, ConfirmInv, Safe
  <1>5. \A m \in NodesFor(Relevant) :
            m = n \/ m \notin todoNodes => changedLists[m] \subseteq Relevant
    BY <1>1, <1>2 DEF SealInv, WriteInv, Written, Safe
  <1>6. WriteInv' /\ ReadInv'
    BY <1>1, <1>2, <1>5, StayingKeeps DEF WriteInv, Written, ReadInv, Safe
  <1> QED
    BY <1>3, <1>4, <1>6 DEF SealInv

LEMMA ReadBackDoneSeals ==
    ASSUME TypeOK, SealInv, ReadBackDone
    PROVE  SealInv'
  <1>1. /\ step = "eREADBACK" /\ pending /\ ~pending' /\ UNCHANGED <<job, confirmed>> /\ Staying
        /\ job.svc \notin Safe
        /\ readNodes' = readNodes \cup ({readOut} \cap todoNodes)
    BY NodeDoneKeeps DEF ReadBackDone
  <1>2. PICK n \in todoNodes :
                 /\ IsFirst(n, todoNodes)
                 /\ \/ /\ todoNodes = {n}
                       /\ todoNodes' = NodesFor(Relevant)
                       /\ step' = "eCONFIRM"
                    \/ /\ todoNodes # {n}
                       /\ todoNodes' = todoNodes \ {n}
                       /\ step' = step
    BY NodeDoneKeeps DEF ReadBackDone
  <1>3. JobInv' /\ CrcInv'
    BY <1>1 DEF JobInv, CrcInv, Safe
  <1>4. ListsInv' /\ StepInv' /\ WriteInv'
    BY <1>1, <1>2, StayingKeeps DEF SealInv, ListsInv, StepInv, WriteInv, Safe
  <1>5. ASSUME NEW m \in NodesFor(Relevant), m = n \/ m \notin todoNodes, CrcsReady(m)
        PROVE  m \in readNodes'
    BY <1>1, <1>2, <1>5 DEF SealInv, ReadInv, Safe
  <1>6. \A m \in NodesFor(Relevant) : changedLists[m] \subseteq Relevant
    BY <1>1 DEF SealInv, ReadInv
  <1>7. ReadInv'
    BY <1>1, <1>2, <1>5, <1>6, StayingKeeps DEF ReadInv, Safe
  <1>8. ASSUME step' = "eCONFIRM", NEW m \in NodesFor(Relevant), CrcsReady(m)
        PROVE  /\ m \in readNodes'
               /\ \A e \in ElementsOf(changedLists[m]) : copy[e] = actual'[e]
    <2>1. todoNodes = {n}
      BY <1>1, <1>2, <1>8
    <2>2. m \in readNodes'
      BY <1>5, <1>8, <2>1
    <2>3. m \in Nodes
      BY DealerAssumption DEF NodesFor, Relevant, TypeOK, DialogTypeOK
    <2>4. actual' = [e \in Elements |->
                        IF ListOf[e] \in Relevant /\ NodeOf[ListOf[e]] \in readNodes'
                        THEN copy[e] ELSE actual[e]]
      BY <1>8 DEF ReadBackDone
    <2>5. \A e \in ElementsOf(changedLists[m]) :
              e \in Elements /\ ListOf[e] \in Relevant /\ NodeOf[ListOf[e]] = m
      BY <1>6, <2>3 DEF ElementsOf, ListsOf, SealInv, ListsInv
    <2> QED
      BY <2>2, <2>4, <2>5
  <1>9. ConfirmInv'
    BY <1>1, <1>2, <1>8, StayingKeeps DEF ConfirmInv, CopyIs
  <1> QED
    BY <1>3, <1>4, <1>7, <1>9 DEF SealInv

LEMMA CrcsDoneSeals ==
    ASSUME TypeOK, SealInv, CrcsDone
    PROVE  SealInv'
  <1>1. /\ step = "eWRITECRC" /\ step' = "eWRITECRC" /\ UNCHANGED <<job, confirmed>> /\ Staying
        /\ job.svc \notin Safe /\ todoNodes' \subseteq NodesFor(Relevant)
    <2>1. NodeDone("eWRITECRC", "eWRITECRC", FALSE)
      BY DEF CrcsDone
    <2>2. /\ step = "eWRITECRC" /\ UNCHANGED <<job, confirmed>> /\ Staying
          /\ job.svc \notin Safe
      BY <2>1, NodeDoneKeeps
    <2>3. PICK n \in todoNodes :
                    \/ /\ todoNodes' = NodesFor(Relevant)
                       /\ step' = "eWRITECRC"
                    \/ /\ todoNodes' = todoNodes \ {n}
                       /\ step' = step
      BY <2>1, NodeDoneKeeps
    <2>4. todoNodes \subseteq NodesFor(Relevant)
      BY DEF SealInv, ListsInv
    <2> QED
      BY <2>2, <2>3, <2>4
  <1>2. JobInv' /\ CrcInv'
    BY <1>1 DEF JobInv, CrcInv, Safe
  <1>3. ListsInv' /\ StepInv' /\ WriteInv' /\ ReadInv'
    BY <1>1, StayingKeeps DEF SealInv, ListsInv, StepInv, WriteInv, ReadInv, Safe
  <1>4. ConfirmInv'
    BY <1>1, StayingKeeps DEF SealInv, ConfirmInv, CopyIs
  <1> QED
    BY <1>2, <1>3, <1>4 DEF SealInv

LEMMA NotificationSeals ==
    ASSUME TypeOK, SealInv, SendNextNotification
    PROVE  SealInv'
  <1>1. CASE Reject \/ Accept
    BY <1>1, ClosingSeals
  <1>2. CASE ~Reject /\ ~Accept
    <2>1. PICK l \in notices :
                IF finished /\ missed # {}
                THEN StartMissed(TRUE, TRUE)
                ELSE IF finished \/ accept
                     THEN Start(Job("notify", NodeOf[l], {l}))
                     ELSE UNCHANGED <<job, accept>>
      BY <1>2 DEF SendNextNotification
    <2>2. ~Running
      BY DEF SendNextNotification
    <2>3. job' = job \/ (job.svc \notin Safe /\ job'.svc \notin Safe)
      <3>1. CASE StartMissed(TRUE, TRUE)
        BY <2>2, <3>1, MissedJob
      <3>2. CASE Start(Job("notify", NodeOf[l], {l}))
        BY <2>2, <3>2 DEF Running, Start, Job, Safe
      <3> QED
        BY <2>1, <3>1, <3>2
    <2>4. UNCHANGED sealVars
      BY <1>2 DEF SendNextNotification, sealVars, dealerVars
    <2> QED
      BY <2>3, <2>4, OtherJob
  <1> QED
    BY <1>1, <1>2

LEMMA TickSeals ==
    ASSUME TypeOK, SealInv, Tick
    PROVE  SealInv'
  <1>1. CASE PrepareForWrite
    BY <1>1, OtherJob, StayingKeeps DEF PrepareForWrite, sealVars
  <1>2. CASE ReportError
    BY <1>2, ClosingSeals DEF ReportError
  <1> QED
    BY <1>1, <1>2, RequestWriteSeals, RequestReadBackSeals, RequestCrcsSeals, WriteDoneSeals,
       ReadBackDoneSeals, CrcsDoneSeals, NotificationSeals DEF Tick

LEMMA NextSealInv ==
    ASSUME TypeOK, SealInv, [Next]_vars
    PROVE  SealInv'
  <1>1. CASE Next
    <2>1. CASE WriteClicked \/ ConfirmClicked \/ OkClicked \/ OnCancel
      BY <2>1, WriteClickedSeals, ConfirmClickedSeals, OkClickedSeals, ClosingSeals DEF OnCancel
    <2> QED
      BY <1>1, <2>1, ThreadSeals, FinishedSeals, TickSeals, DashboardSeals DEF Next, UserStep
  <1>2. CASE UNCHANGED vars
    BY <1>2, OtherJob DEF vars, dealerAll, guiVars, dealerVars, dialogVars, threadVars, sealVars
  <1> QED
    BY <1>1, <1>2

LEMMA Invariant == Spec => []IInv
  <1>1. Init => IInv
    BY InitTypeOK, InitSealInv DEF IInv
  <1>2. IInv /\ [Next]_vars => IInv'
    BY NextTypeOK, NextSealInv DEF IInv
  <1> QED
    BY <1>1, <1>2, PTL DEF Spec

-----------------------------------------------------------------------------
(* The refinement.                                                          *)

SealContents == UNION {[ElementsOf({l}) -> Values \cup {NoValue}] : l \in Lists}

LEMMA ContentsType ==
    ASSUME NEW val \in [Elements -> Values \cup {NoValue}]
    PROVE  ListContents(val) \in [Lists -> SealContents]
  <1>1. ASSUME NEW l \in Lists
        PROVE  [e \in ElementsOf({l}) |-> val[e]] \in SealContents
    <2>1. [e \in ElementsOf({l}) |-> val[e]] \in [ElementsOf({l}) -> Values \cup {NoValue}]
      BY DEF ElementsOf
    <2> QED
      BY <2>1 DEF SealContents
  <1> QED
    BY <1>1 DEF ListContents

LEMMA InitSeals == Init => Seals!Init
  <1> SUFFICES ASSUME Init PROVE Seals!Init
    OBVIOUS
  <1>1. DataTypeOK /\ HistoryTypeOK
    BY InitTypeOK DEF TypeOK, DealerTypeOK
  <1>2. nvm \in [Elements -> Values \cup {NoValue}] /\ crc \in [Elements -> Values \cup {NoValue}]
    BY <1>1 DEF DataTypeOK
  <1>3. confirmed \in [Elements -> Values \cup {NoValue}]
    BY <1>1 DEF HistoryTypeOK
  <1> QED
    BY <1>2, <1>3, ContentsType DEF Seals!Init, SealContents

\* A list is sealed with the copy of a dealer that equals what was confirmed.
LEMMA SealStep ==
    ASSUME IInv, CrcList, UNCHANGED guiVars
    PROVE  [Seals!Next]_Seals!vars
  <1>1. job.svc = "crc" /\ job.begun /\ job.node \in Nodes
    BY SafeJob DEF CrcList, Executes, Safe, IInv
  <1>2. /\ job.todo \subseteq changedLists[job.node]
        /\ \A e \in ElementsOf(changedLists[job.node]) : copy[e] = confirmed[e]
    BY <1>1 DEF IInv, SealInv, JobInv, CrcInv, CopyIs
  <1>3. UNCHANGED <<nvm, confirmed>>
    BY DEF CrcList, guiVars
  <1>4. UNCHANGED <<ListContents(nvm), ListContents(confirmed)>>
    BY <1>3 DEF ListContents
  <1> DEFINE sealed(l) == [e \in Elements |-> IF ListOf[e] = l THEN copy[e] ELSE crc[e]]
  <1>5. PICK l \in job.todo : crc' \in {crc, sealed(l)}
    BY DEF CrcList
  <1>6. CASE crc' = crc
    <2>1. UNCHANGED ListContents(crc)
      BY <1>6 DEF ListContents
    <2> QED
      BY <1>4, <2>1 DEF Seals!vars
  <1>7. CASE crc' = sealed(l)
    <2>1. l \in Lists
      BY <1>1, <1>2 DEF IInv, TypeOK, DealerTypeOK, DataTypeOK
    <2> DEFINE new == sealed(l)
    <2>2. ASSUME NEW k \in Lists
          PROVE  ListContents(crc)'[k] =
                     IF k = l THEN ListContents(confirmed)[k] ELSE ListContents(crc)[k]
      <3>1. ListContents(crc)'[k] = [e \in ElementsOf({k}) |-> new[e]]
        BY <1>7, <2>2 DEF ListContents
      <3> HIDE DEF new
      <3>2. CASE k = l
        <4>1. \A e \in ElementsOf({k}) : new[e] = confirmed[e]
          BY <1>2, <1>5, <3>2 DEF ElementsOf, new
        <4>2. [e \in ElementsOf({k}) |-> new[e]] = [e \in ElementsOf({k}) |-> confirmed[e]]
          BY <4>1
        <4>3. ListContents(confirmed)[k] = [e \in ElementsOf({k}) |-> confirmed[e]]
          BY <2>2 DEF ListContents
        <4> QED
          BY <3>1, <3>2, <4>2, <4>3
      <3>3. CASE k # l
        <4>1. \A e \in ElementsOf({k}) : new[e] = crc[e]
          BY <3>3 DEF ElementsOf, new
        <4>2. [e \in ElementsOf({k}) |-> new[e]] = [e \in ElementsOf({k}) |-> crc[e]]
          BY <4>1
        <4>3. ListContents(crc)[k] = [e \in ElementsOf({k}) |-> crc[e]]
          BY <2>2 DEF ListContents
        <4> QED
          BY <3>1, <3>3, <4>2, <4>3
      <3> QED
        BY <3>2, <3>3
    <2>3. ListContents(crc)' = [ListContents(crc) EXCEPT ![l] = ListContents(confirmed)[l]]
      BY <2>1, <2>2 DEF ListContents
    <2> QED
      BY <1>4, <2>1, <2>3 DEF Seals!Next, Seals!Seal
  <1> QED
    BY <1>5, <1>6, <1>7

LEMMA NextSeals ==
    ASSUME IInv, IInv', [Next]_vars
    PROVE  [Seals!Next]_Seals!vars
  <1>1. ASSUME UNCHANGED <<nvm, crc, confirmed>>
        PROVE  [Seals!Next]_Seals!vars
    BY <1>1 DEF Seals!vars, ListContents
  <1>2. CASE ThreadStep /\ WriteElement
    <2>1. UNCHANGED <<crc, confirmed>>
      BY <1>2 DEF ThreadStep, WriteElement, guiVars
    <2>2. UNCHANGED <<ListContents(crc), ListContents(confirmed)>>
      BY <2>1 DEF ListContents
    <2>3. ListContents(nvm') \in [Lists -> SealContents]
      <3>1. nvm' \in [Elements -> Values \cup {NoValue}]
        BY DEF IInv, TypeOK, DealerTypeOK, DataTypeOK
      <3> QED
        BY <3>1, ContentsType
    <2>4. ListContents(nvm)' = ListContents(nvm')
      BY DEF ListContents
    <2> QED
      BY <2>2, <2>3, <2>4 DEF Seals!Next, Seals!Write, SealContents
  <1>3. CASE ConfirmClicked
    <2>1. UNCHANGED <<nvm, crc>>
      BY <1>3, StayingKeeps DEF ConfirmClicked
    <2>2. UNCHANGED <<ListContents(nvm), ListContents(crc)>>
      BY <2>1 DEF ListContents
    <2>3. ListContents(confirmed') \in [Lists -> SealContents]
      <3>1. confirmed' \in [Elements -> Values \cup {NoValue}]
        BY DEF IInv, TypeOK, HistoryTypeOK
      <3> QED
        BY <3>1, ContentsType
    <2>4. ListContents(confirmed)' = ListContents(confirmed')
      BY DEF ListContents
    <2> QED
      BY <2>2, <2>3, <2>4 DEF Seals!Next, Seals!Approve, SealContents
  <1>4. CASE ThreadStep /\ CrcList
    BY <1>4, SealStep DEF ThreadStep
  <1>5. CASE ThreadStep /\ ~WriteElement /\ ~CrcList
    <2>1. UNCHANGED <<nvm, crc>>
      BY <1>5 DEF ThreadStep, Thread, serverVars, WriteBegin, WriteEnd, ReadBackBegin, ReadBackList,
         ReadBackEnd, CrcBegin, CrcEnd, ReadList, Notify
    <2> QED
      BY <1>1, <1>5, <2>1 DEF ThreadStep, guiVars
  <1>6. CASE HandlePollingFinished
    BY <1>1, <1>6 DEF HandlePollingFinished, serverVars
  <1>7. CASE DialogGone
    BY <1>1, <1>7 DEF DialogGone, serverVars
  <1>8. CASE WriteClicked \/ OkClicked \/ OnCancel
    BY <1>1, <1>7, <1>8, StayingKeeps DEF WriteClicked, OkClicked, OnCancel, Reject, Accept
  <1>9. CASE Tick
    <2>1. CASE RequestWrite \/ RequestReadBack \/ RequestCrcs
      BY <1>1, <2>1, StayingKeeps DEF RequestWrite, RequestReadBack, RequestCrcs, Request
    <2>2. CASE WriteDone \/ ReadBackDone \/ CrcsDone
      BY <1>1, <2>2, StayingKeeps DEF WriteDone, ReadBackDone, CrcsDone, NodeDone
    <2>3. CASE ReportError \/ PrepareForWrite
      BY <1>1, <1>7, <2>3, StayingKeeps DEF ReportError, PrepareForWrite, Reject
    <2>4. CASE SendNextNotification
      BY <1>1, <1>7, <2>4 DEF SendNextNotification, Reject, Accept, serverVars
    <2> QED
      BY <1>9, <2>1, <2>2, <2>3, <2>4 DEF Tick
  <1>10. ASSUME NEW lists, HandleTreeReadAction(lists) \/ HandleWriteProcessTrigger(lists)
         PROVE  [Seals!Next]_Seals!vars
    <2>1. CASE ReadElements(lists)
      BY <1>1, <2>1 DEF ReadElements, serverVars
    <2>2. CASE ~ReadElements(lists)
      BY <1>1, <1>10, <2>2 DEF HandleTreeReadAction, HandleWriteProcessTrigger, serverVars
    <2> QED
      BY <2>1, <2>2
  <1>11. CASE OtherRead
    BY <1>1, <1>11 DEF OtherRead, serverVars
  <1>12. CASE UNCHANGED vars
    BY <1>1, <1>12 DEF vars, dealerAll, serverVars, guiVars
  <1> QED
    BY <1>2, <1>3, <1>4, <1>5, <1>6, <1>8, <1>9, <1>10, <1>11, <1>12 DEF Next, UserStep

\* Whatever fails and whichever other service is executed meanwhile, a list is only
\* sealed with what the user has confirmed (NvmSafeWriteCrcs after m_ConfirmClicked).
THEOREM SealsConfirmed == Spec => ImplementsSeals
  <1>1. Init => Seals!Init
    BY InitSeals
  <1>2. IInv /\ IInv' /\ [Next]_vars => [Seals!Next]_Seals!vars
    BY NextSeals
  <1> QED
    BY <1>1, <1>2, Invariant, PTL DEF Spec, ImplementsSeals, Seals!Spec
=============================================================================
