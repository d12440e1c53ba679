----------------------------- MODULE OsyPolling -----------------------------
(***************************************************************************)
(* Polling for answers in the openSYDE protocol driver,                     *)
(* C_OscProtocolDriverOsy.  Application threads call one method per service; *)
(* the method hands its request to the transport protocol and polls for the *)
(* answer under a lock.  A cyclic thread calls Cycle(), which takes the same *)
(* lock when it is free and hands on what arrives without a request: the     *)
(* data and error events of elements that were registered before.           *)
(*                                                                         *)
(* Three methods stand for all: "read" (OsyReadDataPoolData), "register"     *)
(* (OsyReadDataPoolDataCyclic) and "stop" (OsyStopDataPoolEvents); the two   *)
(* last have the service ID of the events.  The transport protocol is what   *)
(* module OsyTpCan shows it to be: an ordered channel in each direction,     *)
(* moved by its Cycle().  The server is external.                            *)
(***************************************************************************)
EXTENDS Integers, SequencesExt

CONSTANTS
    Pollers,             \* application threads
    Calls,               \* the calls that are ever made, each once
    Op,                  \* the method a call is of: "read", "register" or "stop"
    Element,             \* the data pool element a call is about
    Caller,              \* the thread that makes a call
    Async,               \* the thread that calls Cycle()
    CyclicThread,        \* there is one (not in the command line programs)
    Nobody, NoCall, NoElement, NoAnswer,
    Elements,            \* data pool elements
    MaxServiceQueueSize, \* mu16_MaxServiceQueueSize, of the Tx queue
    MaxEvents,           \* bound on events the server sends
    EventKinds,          \* subset of {"data", "error"}: the events it sends
    MaxPending,          \* bound on responsePending answers
    MaxSilent,           \* bound on requests the server never answers
    MaxFail,             \* bound on cycles of the transport that fail to send
    MaxLate              \* bound on time-outs that fire while an answer is to come

Ops == {"read", "register", "stop"}

ASSUME CallAssumption ==
    /\ Op \in [Calls -> Ops]
    /\ Element \in [Calls -> Elements]
    /\ Caller \in [Calls -> Pollers]
    /\ NoCall \notin Calls
    /\ NoElement \notin Elements

ASSUME ThreadAssumption ==
    /\ Async \notin Pollers
    /\ Nobody \notin Pollers \cup {Async}
    /\ CyclicThread \in BOOLEAN

ASSUME BoundAssumption ==
    /\ {MaxServiceQueueSize, MaxEvents, MaxPending, MaxSilent, MaxFail, MaxLate} \subseteq Nat
    /\ EventKinds \subseteq {"data", "error"}

VARIABLES
    pc,          \* where a thread is
    current,     \* the call a poller is in
    timeOver,    \* start time plus mu32_TimeoutPollingMs has passed
    lock,        \* mc_LockReception
    txQueue,     \* requests in the Tx queue of the transport protocol
    toServer,    \* requests on their way to the server, or in its hands
    fromServer,  \* responses on their way to the client
    rxQueue,     \* responses in the Rx queue of the transport protocol
    active,      \* elements the server sends events of
    todo,        \* calls not made yet
    result,      \* what a call has returned
    answer,      \* history: the response a call has returned for
    answered,    \* history: calls the server has given its final answer to
    snatched,    \* history: calls whose answer the cyclic thread has read
    emitted,     \* history: events the server has sent
    reported,    \* history: responses handed to the event callbacks
    used         \* how much of each bound is used up

vars == <<pc, current, timeOver, lock, txQueue, toServer, fromServer, rxQueue, active,
          todo, result, answer, answered, snatched, emitted, reported, used>>

\* What the server does not change.
client == <<pc, current, timeOver, lock, todo, result, answer, snatched, reported>>

\* What no poller changes.
elsewhere == <<active, answered, emitted, snatched>>

Threads == Pollers \cup {Async}

Results == {"none", "ok", "warn", "rdwr", "timeout", "noact", "com"}

-----------------------------------------------------------------------------
(* Responses. neg says that the first byte is 0x7F, sid is the service ID,   *)
(* size the length in bytes, elem the identifier where one is sent.          *)

SidOf(op) == IF op = "read" THEN "READ" ELSE "EVENT"

PositiveAnswer(c) ==
    [kind |-> "positive", neg |-> FALSE, sid |-> SidOf(Op[c]),
     size |-> CASE Op[c] = "read" -> 5 [] Op[c] = "register" -> 4 [] Op[c] = "stop" -> 1,
     elem |-> IF Op[c] = "stop" THEN NoElement ELSE Element[c], call |-> c, nr |-> 0]

\* A registration may be refused with the identifier behind the error code.
NegativeAnswer(c, extended) ==
    [kind |-> "negative", neg |-> TRUE, sid |-> SidOf(Op[c]), size |-> IF extended THEN 6 ELSE 3,
     elem |-> IF extended THEN Element[c] ELSE NoElement, call |-> c, nr |-> 0]

PendingAnswer(c) ==
    [kind |-> "pending", neg |-> TRUE, sid |-> SidOf(Op[c]), size |-> 3, elem |-> NoElement,
     call |-> c, nr |-> 0]

Event(kind, e, nr) ==
    [kind |-> kind, neg |-> kind = "error", sid |-> "EVENT",
     size |-> IF kind = "error" THEN 6 ELSE 5, elem |-> e, call |-> NoCall, nr |-> nr]

Responses ==
    [kind : {"positive", "negative", "pending", "data", "error"}, neg : BOOLEAN,
     sid : {"READ", "EVENT"}, size : 1 .. 6, elem : Elements \cup {NoElement},
     call : Calls \cup {NoCall}, nr : 0 .. MaxEvents]

ASSUME AnswerAssumption == NoAnswer \notin Responses

Init ==
    /\ pc = [t \in Threads |-> "idle"]
    /\ current = [t \in Pollers |-> NoCall]
    /\ timeOver = [t \in Pollers |-> FALSE]
    /\ lock = Nobody
    /\ txQueue = <<>>
    /\ toServer = <<>>
    /\ fromServer = <<>>
    /\ rxQueue = <<>>
    /\ active = {}
    /\ todo = Calls
    /\ result = [c \in Calls |-> "none"]
    /\ answer = [c \in Calls |-> NoAnswer]
    /\ answered = {}
    /\ snatched = {}
    /\ emitted = <<>>
    /\ reported = <<>>
    /\ used = [event |-> 0, pending |-> 0, silent |-> 0, fail |-> 0, late |-> 0]

-----------------------------------------------------------------------------
(* The transport protocol: one Cycle() sends at most one request and brings   *)
(* in what has arrived.                                                      *)

TransportCycle ==
    /\ IF txQueue # <<>>
       THEN /\ txQueue' = Tail(txQueue)
            /\ toServer' = Append(toServer, Head(txQueue))
       ELSE UNCHANGED <<txQueue, toServer>>
    /\ rxQueue' = rxQueue \o fromServer
    /\ fromServer' = <<>>

\* The frame of a request is refused by the CAN driver: the request is gone.
TransportFails ==
    /\ used.fail < MaxFail
    /\ used' = [used EXCEPT !.fail = @ + 1]
    /\ txQueue # <<>>
    /\ txQueue' = Tail(txQueue)
    /\ rxQueue' = rxQueue \o fromServer
    /\ fromServer' = <<>>
    /\ UNCHANGED toServer

\* m_HandleAsyncResponse: r is an event it hands to a callback.
IsAsync(r) == r.sid = "EVENT" /\ IF r.neg THEN r.size = 6 ELSE r.size > 4

HandleAsyncResponse(r) ==
    reported' = IF IsAsync(r) THEN Append(reported, r) ELSE reported

-----------------------------------------------------------------------------
(* A poller.                                                                *)

\* The call of t is over: result, lock and thread are released.
Return(t, res) ==
    /\ result' = [result EXCEPT ![current[t]] = res]
    /\ current' = [current EXCEPT ![t] = NoCall]
    /\ pc' = [pc EXCEPT ![t] = "idle"]
    /\ lock' = Nobody

\* A service method up to m_PollForSpecificServiceResponse, which takes the
\* start time before it takes the lock.
SendRequest(t, c) ==
    /\ pc[t] = "idle"
    /\ c \in todo
    /\ Caller[c] = t
    /\ todo' = todo \ {c}
    /\ IF Len(txQueue) < MaxServiceQueueSize
       THEN /\ txQueue' = Append(txQueue, c)
            /\ pc' = [pc EXCEPT ![t] = "sent"]
            /\ current' = [current EXCEPT ![t] = c]
            /\ timeOver' = [timeOver EXCEPT ![t] = FALSE]
            /\ UNCHANGED result
       ELSE /\ result' = [result EXCEPT ![c] = "noact"]
            /\ UNCHANGED <<txQueue, pc, current, timeOver>>
    /\ UNCHANGED <<lock, toServer, fromServer, rxQueue, elsewhere, answer, reported, used>>

\* Acquire and TryAcquire wait for, and test, the same lock.  Variant: they do not.
IgnoreLock == TRUE
LockFree == lock = Nobody

Acquire(t) ==
    /\ pc[t] = "sent"
    /\ LockFree
    /\ lock' = t
    /\ pc' = [pc EXCEPT ![t] = "polling"]
    /\ UNCHANGED <<current, timeOver, txQueue, toServer, fromServer, rxQueue, elsewhere, todo,
                   result, answer, reported, used>>

\* The loop is left when the time is over.  Variant: it never is.
NeverOver(t) == FALSE
TimeOver(t) == timeOver[t]

TimeOut(t) ==
    /\ pc[t] = "polling"
    /\ TimeOver(t)
    /\ Return(t, "timeout")
    /\ UNCHANGED <<timeOver, txQueue, toServer, fromServer, rxQueue, elsewhere, todo, answer,
                   reported, used>>

PollTransport(t) ==
    /\ pc[t] = "polling"
    /\ ~TimeOver(t)
    /\ \/ /\ TransportCycle
          /\ pc' = [pc EXCEPT ![t] = "reading"]
          /\ UNCHANGED <<current, lock, result, used>>
       \/ TransportFails /\ Return(t, "com")
    /\ UNCHANGED <<timeOver, elsewhere, todo, answer, reported>>

\* m_Cycle: a response to the service polled for is given to the caller.
Expected(c, r) == r.sid = SidOf(Op[c])

\* The negative response names another element than the one registered.  Variant: the
\* identifier is not compared.
NeverOther(c, r) == FALSE
ForOtherElement(c, r) == Op[c] = "register" /\ r.size > 3 /\ r.elem # Element[c]

\* The positive response has the size that is expected.  Variant: the identifier
\* is counted as four bytes.
FitsTooLong(c, r) == CASE Op[c] = "read" -> r.size >= 5 [] Op[c] = "register" -> r.size = 5
                       [] Op[c] = "stop" -> r.size = 1
Fits(c, r) == CASE Op[c] = "read" -> r.size >= 4 [] Op[c] = "register" -> r.size = 4
                [] Op[c] = "stop" -> r.size = 1

\* The service method compares the identifier.  Variant: it does not.
NoCheck(c, r) == TRUE
SameElement(c, r) == Op[c] = "stop" \/ r.elem = Element[c]

\* Variant: responsePending is taken for the answer.
PendingIsFinal(t, r) ==
    /\ Return(t, "warn")
    /\ answer' = [answer EXCEPT ![current[t]] = r]
    /\ UNCHANGED <<timeOver, reported>>

KeepPolling(t) ==
    /\ pc' = [pc EXCEPT ![t] = "polling"]
    /\ UNCHANGED <<current, lock, result, answer>>

\* responsePending rewinds the time.
Pending(t, r) ==
    /\ timeOver' = [timeOver EXCEPT ![t] = FALSE]
    /\ KeepPolling(t)
    /\ UNCHANGED reported

Finish(t, r, res) ==
    /\ Return(t, res)
    /\ answer' = [answer EXCEPT ![current[t]] = r]
    /\ UNCHANGED <<timeOver, reported>>

\* A positive response with the right service ID but another length.  Variant: it
\* is ignored even where it is an event.
IgnoreOtherLength(t, r) ==
    /\ UNCHANGED <<timeOver, reported>>
    /\ KeepPolling(t)

OtherLength(t, r) ==
    /\ HandleAsyncResponse(r)
    /\ KeepPolling(t)
    /\ UNCHANGED timeOver

\* m_PollForSpecificServiceResponse: what becomes of an expected response.
Evaluate(t, r) ==
    LET c == current[t]
    IN  \/ /\ r.neg /\ ForOtherElement(c, r)
           /\ HandleAsyncResponse(r)
           /\ KeepPolling(t)
           /\ UNCHANGED timeOver
        \/ r.neg /\ ~ForOtherElement(c, r) /\ r.kind = "pending" /\ Pending(t, r)
        \/ r.neg /\ ~ForOtherElement(c, r) /\ r.kind # "pending" /\ Finish(t, r, "warn")
        \/ /\ ~r.neg /\ Fits(c, r)
           /\ Finish(t, r, IF SameElement(c, r) THEN "ok" ELSE "rdwr")
        \/ ~r.neg /\ ~Fits(c, r) /\ OtherLength(t, r)

ReadResponse(t) ==
    /\ pc[t] = "reading"
    /\ rxQueue # <<>>
    /\ rxQueue' = Tail(rxQueue)
    /\ LET r == Head(rxQueue)
       IN  IF Expected(current[t], r)
           THEN Evaluate(t, r)
           ELSE /\ HandleAsyncResponse(r)
                /\ UNCHANGED <<pc, current, timeOver, lock, result, answer>>
    /\ UNCHANGED <<txQueue, toServer, fromServer, elsewhere, todo, used>>

NothingRead(t) ==
    /\ pc[t] = "reading"
    /\ rxQueue = <<>>
    /\ pc' = [pc EXCEPT ![t] = "polling"]
    /\ UNCHANGED <<current, timeOver, lock, txQueue, toServer, fromServer, rxQueue, elsewhere,
                   todo, result, answer, reported, used>>

-----------------------------------------------------------------------------
(* Cycle(), called by the cyclic thread: no action while the lock is taken.   *)

TryAcquire ==
    /\ CyclicThread
    /\ pc[Async] = "idle"
    /\ LockFree
    /\ lock' = Async
    /\ pc' = [pc EXCEPT ![Async] = "polling"]
    /\ UNCHANGED <<current, timeOver, txQueue, toServer, fromServer, rxQueue, elsewhere, todo,
                   result, answer, reported, used>>

Release ==
    /\ lock' = Nobody
    /\ pc' = [pc EXCEPT ![Async] = "idle"]

CycleTransport ==
    /\ pc[Async] = "polling"
    /\ \/ /\ TransportCycle
          /\ pc' = [pc EXCEPT ![Async] = "reading"]
          /\ UNCHANGED <<lock, used>>
       \/ TransportFails /\ Release
    /\ UNCHANGED <<current, timeOver, elsewhere, todo, result, answer, reported>>

CycleRead ==
    /\ pc[Async] = "reading"
    /\ rxQueue # <<>>
    /\ rxQueue' = Tail(rxQueue)
    /\ HandleAsyncResponse(Head(rxQueue))
    /\ snatched' = snatched \cup ({Head(rxQueue).call} \ {NoCall})
    /\ UNCHANGED <<pc, current, timeOver, lock, txQueue, toServer, fromServer, active,
                   answered, emitted, todo, result, answer, used>>

CycleEnd ==
    /\ pc[Async] = "reading"
    /\ rxQueue = <<>>
    /\ Release
    /\ UNCHANGED <<current, timeOver, txQueue, toServer, fromServer, rxQueue, elsewhere, todo,
                   result, answer, reported, used>>

-----------------------------------------------------------------------------
(* The server (external) and the clock.                                     *)

\* The server gives its final answer to the oldest request.
ServerAnswers ==
    /\ toServer # <<>>
    /\ LET c == Head(toServer)
       IN  /\ toServer' = Tail(toServer)
           /\ answered' = answered \cup {c}
           /\ \/ /\ fromServer' = Append(fromServer, PositiveAnswer(c))
                 /\ active' = CASE Op[c] = "read" -> active
                                [] Op[c] = "register" -> active \cup {Element[c]}
                                [] Op[c] = "stop" -> {}
              \/ /\ \E extended \in {FALSE, Op[c] = "register"} :
                        fromServer' = Append(fromServer, NegativeAnswer(c, extended))
                 /\ UNCHANGED active
    /\ UNCHANGED <<client, txQueue, rxQueue, emitted, used>>

ServerNeedsTime ==
    /\ toServer # <<>>
    /\ used.pending < MaxPending
    /\ used' = [used EXCEPT !.pending = @ + 1]
    /\ fromServer' = Append(fromServer, PendingAnswer(Head(toServer)))
    /\ UNCHANGED <<client, active, answered, emitted, txQueue, toServer, rxQueue>>

\* The request or its answer is lost on the way.
ServerIsSilent ==
    /\ toServer # <<>>
    /\ used.silent < MaxSilent
    /\ used' = [used EXCEPT !.silent = @ + 1]
    /\ toServer' = Tail(toServer)
    /\ UNCHANGED <<client, active, answered, emitted, txQueue, fromServer, rxQueue>>

ServerSendsEvent ==
    /\ used.event < MaxEvents
    /\ used' = [used EXCEPT !.event = @ + 1]
    /\ \E e \in active, kind \in EventKinds :
          /\ emitted' = Append(emitted, Event(kind, e, used'.event))
          /\ fromServer' = Append(fromServer, Event(kind, e, used'.event))
    /\ UNCHANGED <<client, active, answered, txQueue, toServer, rxQueue>>

\* The answer of c, or its request, is still to be handled.
ToCome(c) ==
    \/ c \in ToSet(txQueue \o toServer)
    \/ \E i \in DOMAIN (rxQueue \o fromServer) : (rxQueue \o fromServer)[i].call = c

Expire(t) ==
    /\ pc[t] # "idle"
    /\ ~timeOver[t]
    /\ timeOver' = [timeOver EXCEPT ![t] = TRUE]
    /\ IF ToCome(current[t])
       THEN /\ used.late < MaxLate
            /\ used' = [used EXCEPT !.late = @ + 1]
       ELSE UNCHANGED used
    /\ UNCHANGED <<pc, current, lock, txQueue, toServer, fromServer, rxQueue, elsewhere, todo,
                   result, answer, reported>>

Poll(t) == TimeOut(t) \/ PollTransport(t) \/ ReadResponse(t) \/ NothingRead(t)

Cycle == CycleTransport \/ CycleRead \/ CycleEnd

Next ==
    \/ \E t \in Pollers :
          \/ \E c \in Calls : SendRequest(t, c)
          \/ Acquire(t)
          \/ Poll(t)
          \/ Expire(t)
    \/ TryAcquire
    \/ Cycle
    \/ ServerAnswers
    \/ ServerNeedsTime
    \/ ServerIsSilent
    \/ ServerSendsEvent

Spec == Init /\ [][Next]_vars

(***************************************************************************)
(* Fairness.  A thread that has the lock goes on, time passes.  The cyclic   *)
(* thread sleeps after every cycle, so that the lock is free again and again  *)
(* for a thread that waits for it: strong fairness of Acquire.  Nothing is   *)
(* assumed of the server.                                                   *)
(***************************************************************************)
FairSpec ==
    /\ Spec
    /\ \A t \in Pollers : WF_vars(Poll(t)) /\ WF_vars(Expire(t)) /\ SF_vars(Acquire(t))
    /\ WF_vars(Cycle)

-----------------------------------------------------------------------------
(* Properties.                                                              *)

\* Every variable stays in its range, and the lock is with the one thread that is
\* between taking and releasing it.
TypeOK ==
    /\ pc \in [Threads -> {"idle", "sent", "polling", "reading"}]
    /\ current \in [Pollers -> Calls \cup {NoCall}]
    /\ timeOver \in [Pollers -> BOOLEAN]
    /\ lock \in Threads \cup {Nobody}
    /\ \A t \in Threads : lock = t <=> pc[t] \in {"polling", "reading"}
    /\ \A t \in Pollers : current[t] = NoCall <=> pc[t] = "idle"
    /\ txQueue \in Seq(Calls)
    /\ Len(txQueue) <= MaxServiceQueueSize
    /\ toServer \in Seq(Calls)
    /\ fromServer \in Seq(Responses)
    /\ rxQueue \in Seq(Responses)
    /\ active \subseteq Elements
    /\ todo \subseteq Calls
    /\ result \in [Calls -> Results]
    /\ answer \in [Calls -> Responses \cup {NoAnswer}]
    /\ answered \subseteq Calls
    /\ snatched \subseteq Calls
    /\ emitted \in Seq(Responses)
    /\ reported \in Seq(Responses)

\* What has arrived or is to arrive, from the oldest on.
Stream == reported \o rxQueue \o fromServer

OfKind(kind, s) == {r \in ToSet(s) : r.kind = kind}

\* The responses of a kind that are with the application or still under way are
\* there once, in the order they were sent.
InOrder(kind) ==
    \A i, j \in DOMAIN Stream :
        i < j /\ Stream[i].kind = kind /\ Stream[j].kind = kind => Stream[i].nr < Stream[j].nr

\* The events of a kind that were sent are those with the application or still
\* under way.
EventsReported(kind) == OfKind(kind, Stream) = OfKind(kind, emitted) /\ InOrder(kind)

\* Data events reach the application once and in order, whichever thread reads
\* them and whatever it polls for.
DataEventsReported == EventsReported("data")

\* The same of error events: "Event-driven responses will be reported
\* asynchronously".
ErrorEventsReported == EventsReported("error")

\* The calls that have taken an error event for their negative response.
Taking == {c \in Calls : answer[c] # NoAnswer /\ answer[c].kind = "error"}

\* An error event goes astray in one way only: it is taken, once, for the negative
\* response to a call that stops all events or registers the same element (again, or
\* with its own answer read by another thread). Every other one is reported.
ErrorEventsReportedOrTaken ==
    /\ OfKind("error", Stream) = OfKind("error", emitted) \ {answer[c] : c \in Taking}
    /\ InOrder("error")
    /\ \A c \in Taking :
          /\ answer[c] \in ToSet(emitted)
          /\ Op[c] # "stop" => Op[c] = "register" /\ answer[c].elem = Element[c]
    /\ \A c, d \in Taking : answer[c] = answer[d] => c = d

\* No answer came after its time-out, and no error event was taken for an answer
\* (what ErrorEventsReported is about).
Undisturbed ==
    used.late = 0 /\ Taking = {}

\* A call that returns with an answer returns with the one to its own request,
\* although answers are told apart by service ID and length only: nothing an
\* earlier call left behind is taken for it.
OwnAnswer ==
    Undisturbed => \A c \in Calls : answer[c] # NoAnswer => answer[c].call = c

\* Even when answers are late and meet the next call: a call that succeeds was
\* answered for its own element, by the server's positive response.
AnswerForElement ==
    \A c \in Calls : result[c] = "ok" =>
        /\ answer[c].kind = "positive"
        /\ Op[c] # "stop" => answer[c].elem = Element[c]

\* A call only times out if the server did not answer in time, or the cyclic
\* thread has read the answer: none is lost between other responses.
TimeoutOnlyIfSilent ==
    Undisturbed => \A c \in Calls : result[c] = "timeout" => c \notin answered \ snatched

\* What the lock is for: the cyclic thread does not take away the answer a poller
\* wants to get.
ResponseNotSnatched ==
    [][\A t \in Pollers :
          (pc[Async] = "reading" /\ rxQueue # <<>> /\ rxQueue' = Tail(rxQueue))
          => (pc[t] # "idle" => Head(rxQueue).call # current[t])]_vars

\* Every call returns: no thread waits for the lock or polls for ever.
PollEnds == \A t \in Pollers : pc[t] # "idle" ~> pc[t] = "idle"
=============================================================================
