------------------------------ MODULE NvmDealer ------------------------------
(***************************************************************************)
(* The NVM services of the graphical tool: the servers, whose non volatile  *)
(* memory holds the parameter lists, each sealed by a CRC; the data dealers, *)
(* C_OscDataDealerNvmSafe, one per node, that write, read back and seal the   *)
(* lists; and the one thread, C_SyvComPollingThreadDiag, that executes their   *)
(* services for the graphical user interface, one after the other.           *)
(*                                                                         *)
(* A step of the thread is one request to a server and the handling of its   *)
(* answer.  A request may be lost or refused, and an answer may be lost.     *)
(* The CRC of a list is represented by the contents it was computed from.    *)
(***************************************************************************)
EXTENDS Naturals

CONSTANTS
    Nodes, Lists, Elements,     \* by index, as the code orders them
    Values,         \* values of an element
    ListOf,         \* the list of an element
    NodeOf,         \* the node of a list
    CrcActive,      \* lists with q_NvmCrcActive
    NoValue, NoNode

ASSUME DealerAssumption ==
    /\ Nodes \subseteq Nat /\ Lists \subseteq Nat /\ Elements \subseteq Nat
    /\ ListOf \in [Elements -> Lists]
    /\ NodeOf \in [Lists -> Nodes]
    /\ \A l \in Lists : \E e \in Elements : ListOf[e] = l
    /\ CrcActive \subseteq Lists
    /\ NoValue \notin Values
    /\ NoNode \notin Nodes

VARIABLES
    nvm,            \* server: contents of the elements
    crc,            \* server: the contents the stored CRC of its list was computed from
    value,          \* c_NvmValue of the shared node
    changed,        \* elements with q_NvmValueChanged
    valid,          \* elements with q_NvmValueIsValid
    changedLists,   \* mc_ChangedLists of each dealer
    copy,           \* c_NvmValue in mc_NodeCopy
    copyValid,      \* q_NvmValueIsValid in mc_NodeCopy
    readOut,        \* mpc_ParamNodeValues: the node whose copy it points to
    queued,         \* widget's queue: value received and not yet fetched
    job,            \* the service the thread executes, with its parameters
    accept,         \* mq_AcceptNextRequest
    result,         \* ms32_Result
    finished        \* the finished signal is in the event queue

serverVars == <<nvm, crc>>
dealerVars == <<value, changed, valid, changedLists, copy, copyValid, readOut>>
threadVars == <<job, accept, result, finished>>
dealerAll == <<serverVars, dealerVars, threadVars, queued>>

ElementsOf(lists) == {e \in Elements : ListOf[e] \in lists}

ListsOf(n) == {l \in Lists : NodeOf[l] = n}

IsFirst(x, S) == x \in S /\ \A y \in S : x <= y

\* What NvmCalcCrc finds in the list is what it was sealed with.
Intact(l) == \A e \in ElementsOf({l}) : crc[e] = nvm[e]

Services == {"write", "readback", "crc", "readlist", "notify"}

Results == {"C_NO_ERR", "C_CHECKSUM", "error"}

NoJob == [svc |-> "none", node |-> NoNode, lists |-> {}, begun |-> FALSE, todo |-> {}]

StartedJobs == [svc : Services, node : Nodes, lists : SUBSET Lists, begun : BOOLEAN,
                todo : SUBSET (Lists \cup Elements)]

Jobs == {NoJob} \cup StartedJobs

Job(svc, n, lists) ==
    [svc |-> svc, node |-> n, lists |-> lists, begun |-> FALSE, todo |-> {}]

DealerInit ==
    /\ nvm \in [Elements -> Values]
    /\ crc \in [Elements -> Values]
    /\ \E v \in Values : value = [e \in Elements |-> v]
    /\ changed = {}
    /\ valid = {}
    /\ changedLists = [n \in Nodes |-> {}]
    /\ copy = value
    /\ copyValid = {}
    /\ readOut = NoNode
    /\ queued = [e \in Elements |-> NoValue]
    /\ job = NoJob
    /\ accept = TRUE
    /\ result = "C_NO_ERR"
    /\ finished = FALSE

-----------------------------------------------------------------------------
(* The interface of the thread to the user interface.                       *)

Running == job.svc # "none"

\* The Start functions return C_BUSY otherwise.
Free == ~Running /\ accept

Start(j) == job' = j /\ accept' = FALSE

\* Variant: the next request is accepted before the signal is handled.
EndAccepting(r) == job' = NoJob /\ result' = r /\ finished' = TRUE /\ accept' = TRUE

\* run() returns: the thread has ended and its signal is posted.
End(r) == job' = NoJob /\ result' = r /\ finished' = TRUE /\ UNCHANGED accept

Begin(todo) ==
    /\ job' = [job EXCEPT !.begun = TRUE, !.todo = todo]
    /\ UNCHANGED <<accept, result, finished>>

Executes(svc, begun) == job.svc = svc /\ job.begun = begun

-----------------------------------------------------------------------------
(* NvmSafeWriteChangedValues.                                               *)

WriteBegin ==
    LET n == job.node IN
    /\ Executes("write", FALSE)
    /\ changedLists' = [changedLists EXCEPT ![n] = job.lists]
    /\ IF job.lists = {} /\ changed \cap ElementsOf(ListsOf(n)) = {}
       THEN End("error")   \* C_BUSY
       ELSE Begin(ElementsOf(ListsOf(n)))
    /\ UNCHANGED <<serverVars, value, changed, valid, copy, copyValid, readOut, queued>>

\* NvmWrite of the next element whose flag is set.
WriteElement ==
    \E e \in job.todo :
        /\ Executes("write", TRUE)
        /\ IsFirst(e, job.todo \cap changed)
        /\ \/ /\ nvm' = [nvm EXCEPT ![e] = value[e]]
              /\ changed' = changed \ {e}
              /\ changedLists' = [changedLists EXCEPT ![job.node] = @ \cup {ListOf[e]}]
              /\ Begin({x \in job.todo : x > e})
           \/ /\ nvm' \in {nvm, [nvm EXCEPT ![e] = value[e]]}
              /\ End("error")
              /\ UNCHANGED <<changed, changedLists>>
        /\ UNCHANGED <<crc, value, valid, copy, copyValid, readOut, queued>>

WriteEnd ==
    /\ Executes("write", TRUE)
    /\ job.todo \cap changed = {}
    /\ End("C_NO_ERR")
    /\ UNCHANGED <<serverVars, dealerVars, queued>>

-----------------------------------------------------------------------------
(* NvmSafeReadValues.                                                       *)

ReadBackBegin ==
    LET n == job.node
        mine == ElementsOf(ListsOf(n)) IN
    /\ Executes("readback", FALSE)
    /\ copy' = [e \in Elements |-> IF e \in mine THEN value[e] ELSE copy[e]]
    /\ copyValid' = (copyValid \ mine) \cup (valid \cap mine)
    /\ IF changedLists[n] = {}
       THEN End("error") /\ readOut' = NoNode   \* C_RD_WR
       ELSE Begin(changedLists[n]) /\ UNCHANGED readOut
    /\ UNCHANGED <<serverVars, value, changed, valid, changedLists, queued>>

ReadBackList ==
    \E l \in job.todo :
        LET listed == ElementsOf({l}) IN
        /\ Executes("readback", TRUE)
        /\ IsFirst(l, job.todo)
        /\ \/ /\ copy' = [e \in Elements |-> IF e \in listed THEN nvm[e] ELSE copy[e]]
              /\ copyValid' = copyValid \cup listed
              /\ Begin(job.todo \ {l})
              /\ UNCHANGED readOut
           \/ /\ copyValid' = copyValid \ listed
              /\ End("error")
              /\ readOut' = NoNode
              /\ UNCHANGED copy
        /\ UNCHANGED <<serverVars, value, changed, valid, changedLists, queued>>

ReadBackEnd ==
    /\ Executes("readback", TRUE)
    /\ job.todo = {}
    /\ End("C_NO_ERR")
    /\ readOut' = job.node
    /\ UNCHANGED <<serverVars, value, changed, valid, changedLists, copy, copyValid, queued>>

-----------------------------------------------------------------------------
(* NvmSafeWriteCrcs.                                                        *)

\* The preconditions, checked for all lists before the first is sealed.
CrcsReady(n) == changedLists[n] # {} /\ ElementsOf(changedLists[n]) \subseteq copyValid

CrcBegin ==
    /\ Executes("crc", FALSE)
    /\ IF CrcsReady(job.node) THEN Begin(changedLists[job.node]) ELSE End("error")
    /\ UNCHANGED <<serverVars, dealerVars, queued>>

\* NvmWrite of the CRC over the copy; a list without CRC is passed over.
CrcList ==
    \E l \in job.todo :
        LET sealed == [e \in Elements |-> IF ListOf[e] = l THEN copy[e] ELSE crc[e]] IN
        /\ Executes("crc", TRUE)
        /\ IsFirst(l, job.todo)
        /\ \/ /\ crc' = IF l \in CrcActive THEN sealed ELSE crc
              /\ Begin(job.todo \ {l})
           \/ /\ l \in CrcActive
              /\ crc' \in {crc, sealed}
              /\ End("error")
        /\ UNCHANGED <<nvm, dealerVars, queued>>

CrcEnd ==
    /\ Executes("crc", TRUE)
    /\ job.todo = {}
    /\ End("C_NO_ERR")
    /\ UNCHANGED <<serverVars, dealerVars, queued>>

-----------------------------------------------------------------------------
(* NvmReadList, of which the widgets get the values even if the CRC is      *)
(* wrong, and NvmNotifyOfChanges.                                           *)

ReadList ==
    LET listed == ElementsOf(job.lists) IN
    /\ job.svc = "readlist"
    /\ \/ /\ value' = [e \in Elements |-> IF e \in listed THEN nvm[e] ELSE value[e]]
          /\ valid' = valid \cup listed
          /\ queued' = [e \in Elements |-> IF e \in listed THEN nvm[e] ELSE queued[e]]
          /\ End(IF \A l \in job.lists \cap CrcActive : Intact(l)
                 THEN "C_NO_ERR" ELSE "C_CHECKSUM")
       \/ End("error") /\ UNCHANGED <<value, valid, queued>>
    /\ UNCHANGED <<serverVars, changed, changedLists, copy, copyValid, readOut>>

Notify ==
    /\ job.svc = "notify"
    /\ \E r \in {"C_NO_ERR", "error"} : End(r)
    /\ UNCHANGED <<serverVars, dealerVars, queued>>

Thread ==
    \/ WriteBegin \/ WriteElement \/ WriteEnd
    \/ ReadBackBegin \/ ReadBackList \/ ReadBackEnd
    \/ CrcBegin \/ CrcList \/ CrcEnd
    \/ ReadList \/ Notify

-----------------------------------------------------------------------------
DataTypeOK ==
    /\ nvm \in [Elements -> Values]
    /\ crc \in [Elements -> Values]
    /\ value \in [Elements -> Values]
    /\ changed \subseteq Elements
    /\ valid \subseteq Elements
    /\ changedLists \in [Nodes -> SUBSET Lists]
    /\ copy \in [Elements -> Values]
    /\ copyValid \subseteq Elements
    /\ readOut \in Nodes \cup {NoNode}
    /\ queued \in [Elements -> Values \cup {NoValue}]

\* A signal in the queue is of a service that has ended, and keeps the next one from
\* being started until it is handled.
ThreadTypeOK ==
    /\ job \in Jobs
    /\ accept \in BOOLEAN
    /\ result \in Results
    /\ finished \in BOOLEAN
    /\ Running => ~accept
    /\ finished => ~Running /\ ~accept

DealerTypeOK == DataTypeOK /\ ThreadTypeOK
=============================================================================
